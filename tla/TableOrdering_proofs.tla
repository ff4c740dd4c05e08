------------------------ MODULE TableOrdering_proofs ------------------------
(* What TableOrdering keeps true, for any number of requests, sessions, orders and
   payments: the money PayPal took is on the order of the payment it was captured for,
   once, and an order that is paid was paid for its items.                         *)
EXTENDS TableOrdering, FiniteSetTheorems, SequenceTheorems, TLAPS

-----------------------------------------------------------------------------
(* Induction over the naturals, said of sets, and the sums it gives.          *)

(* A set of numbers that has 0 and the successor of each of its members has them all:
   were n missing, the members below n would fit into those but 0.               *)
LEMMA Induction ==
  ASSUME NEW T, 0 \in T, \A n \in Nat : n \in T => n + 1 \in T
  PROVE  Nat \subseteq T
<1>1. SUFFICES ASSUME NEW n \in Nat, n \notin T PROVE FALSE
  OBVIOUS
<1> DEFINE A == {i \in 0 .. n : i \in T}
           B == A \ {0}
           f == [i \in A |-> i + 1]
<1>2. IsFiniteSet(A) /\ IsFiniteSet(B) /\ Cardinality(A) \in Nat /\ Cardinality(B) = Cardinality(A) - 1
  <2>1. IsFiniteSet(0 .. n)
    BY FS_Interval
  <2>2. IsFiniteSet(A)
    BY <2>1, FS_Subset
  <2>3. 0 \in A
    OBVIOUS
  <2> HIDE DEF A
  <2> QED BY <2>2, <2>3, FS_CardinalityType, FS_RemoveElement
<1>3. f \in Injection(A, B)
  <2>1. ASSUME NEW i \in A PROVE i + 1 \in B
    <3>1. i \in 0 .. n /\ i \in T /\ i # n
      BY <1>1
    <3> QED BY <3>1
  <2>2. \A i, j \in A : i + 1 = j + 1 => i = j
    OBVIOUS
  <2> QED BY <2>1, <2>2 DEF Injection, IsInjective
<1> HIDE DEF f, A
<1>4. Cardinality(A) <= Cardinality(B)
  BY <1>2, <1>3, FS_Injection
<1> QED BY <1>2, <1>4

(* One member of a set, the one a fold takes first.  *)
First(s) == CHOOSE x \in s : TRUE

(* g is the sum of f over the subsets of S, taken apart as a fold does.  *)
SumsUp(g, f, S) ==
  /\ g \in [SUBSET S -> Int] /\ g[{}] = 0
  /\ \A s \in SUBSET S : s # {} => g[s] = f[First(s)] + g[s \ {First(s)}]

(* Taking a member out of a finite set makes it smaller by one.  *)
LEMMA OneLess ==
  ASSUME NEW S, IsFiniteSet(S), NEW s \in SUBSET S
  PROVE  /\ IsFiniteSet(s) /\ Cardinality(s) \in Nat /\ (Cardinality(s) = 0 <=> s = {})
         /\ \A x \in s : s \ {x} \in SUBSET S /\ Cardinality(s \ {x}) = Cardinality(s) - 1
<1>1. IsFiniteSet(s)
  BY FS_Subset
<1> QED BY <1>1, FS_CardinalityType, FS_EmptySet, FS_RemoveElement

(* Such a sum exists: it is built for the subsets of one size after the other.  *)
LEMMA SumExists ==
  ASSUME NEW S, IsFiniteSet(S), NEW f, \A x \in S : f[x] \in Int
  PROVE  \E g : SumsUp(g, f, S)
<1> DEFINE Good(g, k) == /\ g \in [SUBSET S -> Int] /\ g[{}] = 0
                         /\ \A s \in SUBSET S : s # {} /\ Cardinality(s) <= k
                              => g[s] = f[First(s)] + g[s \ {First(s)}]
           T == {k \in Nat : \E g : Good(g, k)}
<1>1. 0 \in T
  <2>1. Good([s \in SUBSET S |-> 0], 0)
    BY OneLess
  <2> QED BY <2>1
<1>2. ASSUME NEW k \in Nat, k \in T PROVE k + 1 \in T
  <2>1. PICK g : Good(g, k)
    BY <1>2
  <2> DEFINE more(s) == IF Cardinality(s) = k + 1 THEN f[First(s)] + g[s \ {First(s)}] ELSE g[s]
             h == [s \in SUBSET S |-> more(s)]
  <2>2. ASSUME NEW s \in SUBSET S, s # {}
        PROVE  First(s) \in s /\ f[First(s)] \in Int /\ s \ {First(s)} \in SUBSET S
               /\ Cardinality(s \ {First(s)}) = Cardinality(s) - 1 /\ Cardinality(s) \in Nat
    BY <2>2, OneLess DEF First
  <2>3. Cardinality({}) = 0
    BY FS_EmptySet
  <2>4. h \in [SUBSET S -> Int]
    <3>1. ASSUME NEW s \in SUBSET S PROVE more(s) \in Int
      <4>1. CASE s = {}
        BY <2>1, <2>3, <4>1
      <4>2. CASE s # {}
        BY <2>1, <2>2, <4>2
      <4> QED BY <4>1, <4>2
    <3> QED BY <3>1
  <2>5. h[{}] = 0
    BY <2>1, <2>3
  <2>6. ASSUME NEW s \in SUBSET S, s # {}, Cardinality(s) <= k + 1
        PROVE  h[s] = f[First(s)] + h[s \ {First(s)}]
    <3> DEFINE r == s \ {First(s)}
    <3>1. r \in SUBSET S /\ Cardinality(r) = Cardinality(s) - 1 /\ Cardinality(s) \in Nat
      BY <2>2, <2>6
    <3> HIDE DEF r
    <3>2. h[s] = more(s) /\ h[r] = g[r]
      BY <2>6, <3>1
    <3>3. CASE Cardinality(s) = k + 1
      BY <3>2, <3>3 DEF r
    <3>4. CASE Cardinality(s) # k + 1
      <4>1. Cardinality(s) <= k
        BY <2>6, <3>1, <3>4
      <4> QED BY <2>1, <2>6, <3>2, <3>4, <4>1 DEF r
    <3> QED BY <3>3, <3>4 DEF r
  <2> HIDE DEF h
  <2>7. Good(h, k + 1)
    BY <2>4, <2>5, <2>6
  <2> HIDE DEF Good
  <2>8. \E g1 : Good(g1, k + 1)
    BY <2>7
  <2> QED BY <2>8
<1> HIDE DEF T
<1>3. Cardinality(S) \in T
  <2>1. Cardinality(S) \in Nat
    BY FS_CardinalityType
  <2> QED BY <1>1, <1>2, <2>1, Induction
<1>4. PICK g : Good(g, Cardinality(S))
  BY <1>3 DEF T
<1>5. \A s \in SUBSET S : Cardinality(s) <= Cardinality(S)
  BY FS_Subset
<1> QED BY <1>4, <1>5 DEF SumsUp

TakesAny(g, f, S) == \A s \in SUBSET S : \A y \in s : g[s] = f[y] + g[s \ {y}]

(* Whichever member is taken out first, the rest adds up to what is left.  *)
LEMMA SumsTakeAny ==
  ASSUME NEW S, IsFiniteSet(S), NEW f, \A x \in S : f[x] \in Int, NEW g, SumsUp(g, f, S)
  PROVE  TakesAny(g, f, S)
<1> DEFINE T == {k \in Nat : \A s \in SUBSET S : Cardinality(s) = k => \A y \in s : g[s] = f[y] + g[s \ {y}]}
<1>1. 0 \in T
  BY OneLess
<1>2. ASSUME NEW k \in Nat, k \in T PROVE k + 1 \in T
  <2>1. SUFFICES ASSUME NEW s \in SUBSET S, Cardinality(s) = k + 1, NEW y \in s
                 PROVE  g[s] = f[y] + g[s \ {y}]
    OBVIOUS
  <2> DEFINE x == First(s)
  <2>2. x \in s /\ s # {}
    BY DEF First
  <2>3. g[s] = f[x] + g[s \ {x}]
    BY <2>2 DEF SumsUp
  <2> HIDE DEF x
  <2>4. CASE x = y
    BY <2>3, <2>4
  <2>5. CASE x # y
    <3>1. s \ {x} \in SUBSET S /\ s \ {y} \in SUBSET S
          /\ Cardinality(s \ {x}) = k /\ Cardinality(s \ {y}) = k
      BY <2>1, <2>2, OneLess
    <3>2. y \in s \ {x} /\ x \in s \ {y} /\ (s \ {x}) \ {y} = (s \ {y}) \ {x}
      BY <2>2, <2>5
    <3> DEFINE rest == (s \ {x}) \ {y}
    <3>3. g[s \ {x}] = f[y] + g[rest] /\ g[s \ {y}] = f[x] + g[rest]
      BY <1>2, <3>1, <3>2
    <3>4. g[rest] \in Int /\ f[x] \in Int /\ f[y] \in Int
      BY <2>2 DEF SumsUp
    <3> HIDE DEF rest
    <3> QED BY <2>3, <3>3, <3>4
  <2> QED BY <2>4, <2>5
<1> HIDE DEF T
<1>3. Nat \subseteq T
  BY <1>1, <1>2, Induction
<1>4. SUFFICES ASSUME NEW s \in SUBSET S PROVE \A y \in s : g[s] = f[y] + g[s \ {y}]
  BY DEF TakesAny
<1>5. Cardinality(s) \in T
  BY <1>3, OneLess
<1> QED BY <1>5 DEF T

(* Two sums of functions that agree are the same, whatever sets they were built for.  *)
LEMMA SumsAgree ==
  ASSUME NEW S, IsFiniteSet(S), NEW R, NEW f, NEW e, NEW g, NEW h, SumsUp(g, f, S), SumsUp(h, e, R),
         NEW U, U \subseteq S, U \subseteq R, \A x \in U : f[x] = e[x]
  PROVE  g[U] = h[U]
<1> DEFINE T == {k \in Nat : \A s \in SUBSET U : Cardinality(s) = k => g[s] = h[s]}
<1>1. 0 \in T
  BY OneLess DEF SumsUp
<1>2. ASSUME NEW k \in Nat, k \in T PROVE k + 1 \in T
  <2>1. SUFFICES ASSUME NEW s \in SUBSET U, Cardinality(s) = k + 1 PROVE g[s] = h[s]
    OBVIOUS
  <2> DEFINE x == First(s)
  <2>2. s # {} /\ s \in SUBSET S /\ s \in SUBSET R
    BY <2>1, FS_EmptySet
  <2>3. x \in s /\ f[x] = e[x]
    BY <2>2 DEF First
  <2>4. g[s] = f[x] + g[s \ {x}] /\ h[s] = e[x] + h[s \ {x}]
    BY <2>2 DEF SumsUp
  <2> HIDE DEF x
  <2>5. s \ {x} \in SUBSET U /\ Cardinality(s \ {x}) = k
    BY <2>1, <2>2, <2>3, OneLess
  <2> QED BY <1>2, <2>3, <2>4, <2>5
<1> HIDE DEF T
<1>3. IsFiniteSet(U) /\ Cardinality(U) \in Nat
  BY FS_Subset, FS_CardinalityType
<1>4. Cardinality(U) \in T
  BY <1>1, <1>2, <1>3, Induction
<1> QED BY <1>4 DEF T

(* SumFunctionOnSet is such a sum.  *)
LEMMA SumIsOne ==
  ASSUME NEW S, IsFiniteSet(S), NEW f, \A x \in S : f[x] \in Int
  PROVE  \E g : SumsUp(g, f, S) /\ SumFunctionOnSet(f, S) = g[S]
<1> DEFINE Folded(g) == g = [s \in SUBSET S |-> IF s = {} THEN 0 ELSE f[First(s)] + g[s \ {First(s)}]]
           g == CHOOSE h : Folded(h)
<1>1. SumFunctionOnSet(f, S) = g[S]
  BY DEF SumFunctionOnSet, FoldFunctionOnSet, MapThenFoldSet, First
<1>2. ASSUME NEW h, SumsUp(h, f, S) PROVE Folded(h)
  BY <1>2 DEF SumsUp
<1>3. \E h : Folded(h)
  BY <1>2, SumExists
<1>4. Folded(g)
  BY <1>3
<1>5. PICK h : SumsUp(h, f, S)
  BY SumExists
<1> HIDE DEF g
<1>6. \A s \in SUBSET S : s # {} => g[s] = f[First(s)] + g[s \ {First(s)}]
  BY <1>4
<1>7. g[{}] = 0 /\ DOMAIN g = SUBSET S
  BY <1>4
<1>8. g \in [SUBSET S -> Int]
  <2> DEFINE T == {k \in Nat : \A s \in SUBSET S : Cardinality(s) = k => g[s] \in Int}
  <2>1. 0 \in T
    <3>1. \A s \in SUBSET S : Cardinality(s) = 0 => s = {}
      BY OneLess
    <3> QED BY <1>7, <3>1
  <2>2. ASSUME NEW k \in Nat, k \in T PROVE k + 1 \in T
    <3>1. SUFFICES ASSUME NEW s \in SUBSET S, Cardinality(s) = k + 1 PROVE g[s] \in Int
      OBVIOUS
    <3> DEFINE x == First(s)
    <3>2. s # {}
      BY <3>1, FS_EmptySet
    <3>3. x \in s /\ f[x] \in Int
      BY <3>2 DEF First
    <3>4. g[s] = f[x] + g[s \ {x}]
      BY <1>6, <3>2
    <3> HIDE DEF x
    <3>5. s \ {x} \in SUBSET S /\ Cardinality(s \ {x}) = k
      BY <3>1, <3>3, OneLess
    <3> QED BY <2>2, <3>3, <3>4, <3>5
  <2> HIDE DEF T
  <2>3. Nat \subseteq T
    BY <2>1, <2>2, Induction
  <2>4. ASSUME NEW s \in SUBSET S PROVE g[s] \in Int
    <3>1. Cardinality(s) \in T
      BY <2>3, OneLess
    <3> QED BY <3>1 DEF T
  <2>5. g = [s \in SUBSET S |-> g[s]]
    BY <1>4
  <2> QED BY <2>4, <2>5
<1> QED BY <1>1, <1>6, <1>7, <1>8 DEF SumsUp

(* What the proofs need of a sum: it is a number, the empty one is 0, a member is worth
   its value, and only the values of the members count.                             *)
LEMMA SumOfNone == \A f : SumFunctionOnSet(f, {}) = 0
<1> TAKE f
<1>1. PICK g : SumsUp(g, f, {}) /\ SumFunctionOnSet(f, {}) = g[{}]
  BY SumIsOne, FS_EmptySet
<1> QED BY <1>1 DEF SumsUp

(* A sum is a number, and none of its parts is lost or counted twice.  *)
LEMMA SumOfMore ==
  ASSUME NEW S, IsFiniteSet(S), NEW f, \A x \in S : f[x] \in Int
  PROVE  /\ SumFunctionOnSet(f, S) \in Int
         /\ \A y \in S : SumFunctionOnSet(f, S) = f[y] + SumFunctionOnSet(f, S \ {y})
<1>1. PICK g : SumsUp(g, f, S) /\ SumFunctionOnSet(f, S) = g[S]
  BY SumIsOne
<1>2. ASSUME NEW y \in S PROVE SumFunctionOnSet(f, S) = f[y] + SumFunctionOnSet(f, S \ {y})
  <2> DEFINE R == S \ {y}
  <2>1. IsFiniteSet(R) /\ R \subseteq S /\ \A x \in R : f[x] \in Int
    BY FS_Subset
  <2> HIDE DEF R
  <2>2. PICK h : SumsUp(h, f, R) /\ SumFunctionOnSet(f, R) = h[R]
    BY <2>1, SumIsOne
  <2>3. g[R] = h[R]
    BY <1>1, <2>1, <2>2, SumsAgree
  <2>4. TakesAny(g, f, S)
    BY <1>1, SumsTakeAny
  <2>5. S \in SUBSET S
    OBVIOUS
  <2>6. g[S] = f[y] + g[R]
    BY <2>4, <2>5 DEF R, TakesAny
  <2> QED BY <1>1, <2>2, <2>3, <2>6 DEF R
<1> QED BY <1>1, <1>2 DEF SumsUp

(* Two functions that agree on a set have the same sum over it.  *)
LEMMA SumOfSame ==
  ASSUME NEW S, IsFiniteSet(S), NEW f, NEW e, \A x \in S : f[x] \in Int, \A x \in S : f[x] = e[x]
  PROVE  SumFunctionOnSet(f, S) = SumFunctionOnSet(e, S)
<1>1. PICK g : SumsUp(g, f, S) /\ SumFunctionOnSet(f, S) = g[S]
  BY SumIsOne
<1>2. PICK h : SumsUp(h, e, S) /\ SumFunctionOnSet(e, S) = h[S]
  BY SumIsOne
<1>3. g[S] = h[S]
  BY <1>1, <1>2, SumsAgree
<1> QED BY <1>1, <1>2, <1>3

-----------------------------------------------------------------------------
(* Statements and plans.                                                      *)

Quiets ==
  [do : {"saveCode"}, code : 1..MaxCodes, active : BOOLEAN] \cup [do : {"removeCode"}, code : 1..MaxCodes]
  \cup [do : {"saveSession"}, session : SessionIds, row : Session]
NewOrders == [do : {"newOrder"}, order : OrderIds, session : SessionIds]
Fills == [do : {"fill"}, order : OrderIds, session : SessionIds, lines : Seq(Lines), subtotal : Nat]
Checkouts == [do : {"checkout"}, payment : PaymentIds, row : Payment]
Captures == [do : {"capture"}, payment : PaymentIds, paypal : PaymentIds, order : OrderIds, read : Order]
Stores == [do : {"captured"}, payment : PaymentIds, paypal : PaymentIds]
Books == [do : {"book"}, payment : PaymentIds, paypal : PaymentIds, order : OrderIds, read : Order]

(* The plans of a worker: those that touch no order and no payment, and what a
   submission and a payment have still to do.                                 *)
QuietPlan(t) == t \in Seq(Quiets)
Submitting(t) ==
  \E n \in NewOrders, f \in Fills, q \in Quiets : t = <<n, f, q>> /\ f.order = n.order /\ f.subtotal = 0
Filling(t) == \E f \in Fills, q \in Quiets : t = <<f, q>>
Opening(t) == \E c \in Checkouts : t = <<c>>
Capturing(t) == \E c \in Captures : t = <<c>>
Storing(t) ==
  \E s \in Stores, b \in Books : t = <<s, b>> /\ b.payment = s.payment /\ b.paypal = s.paypal
Booking(t) == \E b \in Books : t = <<b>>

PlanOK(t) ==
  QuietPlan(t) \/ Submitting(t) \/ Filling(t) \/ Opening(t) \/ Capturing(t) \/ Storing(t) \/ Booking(t)

(* Plans that make an order, that confirm a payment, and that have its money; what a
   confirmation knows of the order it read.                                        *)
Submits(t) == Submitting(t) \/ Filling(t)
Confirms(t) == Capturing(t) \/ Storing(t) \/ Booking(t)
Taken(t) == Storing(t) \/ Booking(t)
Reading(t) == t[Len(t)]

TypesInv ==
  /\ TypeOK
  /\ next \in [code : Nat \ {0}, session : Nat \ {0}, order : Nat \ {0}, payment : Nat \ {0}]
  /\ items \in Seq([order : OrderIds, product : Products, amount : Nat])
  /\ DOMAIN task = Workers
  /\ \A w \in Workers : PlanOK(task[w])

(* What is in the tables: ids in use, totals that are complete or still 0,
   payments of complete orders only, and PayPal orders captured for payments. *)
TablesInv ==
  /\ \A o \in DOMAIN orders :
       /\ o < next.order
       /\ orders[o].total > 0 => orders[o].total = ItemTotal(o)
       /\ orders[o].status = "paid" => (orders[o].total > 0 /\ orders[o].paid >= orders[o].total)
  /\ \A i \in DOMAIN items : items[i].order < next.order
  /\ \A p \in DOMAIN payments :
       p < next.payment /\ payments[p].order \in DOMAIN orders /\ orders[payments[p].order].total > 0
  /\ \A q \in DOMAIN taken : q \in DOMAIN payments /\ provider[q] = "captured" /\ taken[q] \in DOMAIN payments
  /\ cut \subseteq DOMAIN taken

(* What a plan has ahead of it agrees with the tables.  *)
FillFits(t) ==
  /\ Submitting(t) => (t[1].order < next.order /\ t[1].order \notin DOMAIN orders /\ ItemsOf(t[1].order) = {})
  /\ Filling(t) => (/\ t[1].order < next.order /\ t[1].order \in DOMAIN orders
                    /\ orders[t[1].order].total = 0 /\ t[1].subtotal = ItemTotal(t[1].order))
OpenFits(t) ==
  Opening(t) => (/\ t[1].payment < next.payment /\ t[1].payment \notin DOMAIN payments
                 /\ t[1].row.status = "pending" /\ t[1].row.order \in DOMAIN orders
                 /\ t[1].row.amount > 0 => orders[t[1].row.order].total > 0)
ConfirmFits(t) ==
  /\ Confirms(t) => (/\ Reading(t).payment \in DOMAIN payments /\ Reading(t).paypal \in DOMAIN payments
                     /\ payments[Reading(t).payment].order = Reading(t).order
                     /\ Reading(t).read.total = orders[Reading(t).order].total
                     /\ \/ Reading(t).order \in crossed
                        \/ /\ Reading(t).read.paid = orders[Reading(t).order].paid
                           /\ Reading(t).payment \notin Booked(Reading(t).order))
  /\ Taken(t) => (/\ Reading(t).paypal \in DOMAIN taken /\ Reading(t).paypal \notin cut
                  /\ taken[Reading(t).paypal] = Reading(t).payment)
  /\ Booking(t) => payments[Reading(t).payment].status = "captured"
PlanFits(t) == FillFits(t) /\ OpenFits(t) /\ ConfirmFits(t)

(* Two workers at a time make different orders and payments, and have different money;
   that two confirm payments of one order is noted.                                  *)
PlansApart(t, u) ==
  /\ Submits(t) /\ Submits(u) => t[1].order # u[1].order
  /\ Opening(t) /\ Opening(u) => t[1].payment # u[1].payment
  /\ Taken(t) /\ Taken(u) => Reading(t).paypal # Reading(u).paypal
  /\ Confirms(t) /\ Confirms(u) /\ Reading(t).order = Reading(u).order => Reading(t).order \in crossed

PlansInv ==
  /\ \A w \in Workers : PlanFits(task[w])
  /\ \A w, v \in Workers : w # v => PlansApart(task[w], task[v])

(* A plan of one kind is of no other.  *)
LEMMA KindsApart ==
  ASSUME NEW t
  PROVE  /\ Submitting(t) => /\ ~Filling(t) /\ ~Opening(t) /\ ~Confirms(t) /\ ~QuietPlan(t)
                             /\ t # <<>> /\ Head(t) = t[1] /\ t[1] \in NewOrders
         /\ Filling(t) => /\ ~Opening(t) /\ ~Confirms(t) /\ ~QuietPlan(t)
                          /\ t # <<>> /\ Head(t) = t[1] /\ t[1] \in Fills
         /\ Opening(t) => ~Confirms(t) /\ ~QuietPlan(t) /\ t # <<>> /\ Head(t) = t[1] /\ t[1] \in Checkouts
         /\ Capturing(t) => /\ ~Storing(t) /\ ~Booking(t) /\ ~QuietPlan(t)
                            /\ t # <<>> /\ Head(t) = t[1] /\ t[1] \in Captures /\ Reading(t) = t[1]
         /\ Storing(t) => /\ ~Booking(t) /\ ~QuietPlan(t) /\ t # <<>> /\ Head(t) = t[1] /\ t[1] \in Stores
                          /\ Reading(t) = t[2] /\ Reading(t) \in Books /\ t[1].payment = Reading(t).payment
                          /\ t[1].paypal = Reading(t).paypal
         /\ Booking(t) => /\ ~QuietPlan(t) /\ t # <<>> /\ Head(t) = t[1] /\ t[1] \in Books /\ Reading(t) = t[1]
<1>1. \A x \in Quiets : x.do \in {"saveCode", "removeCode", "saveSession"}
  BY DEF Quiets
<1>2. ASSUME QuietPlan(t) PROVE t = <<>> \/ t[1].do \in {"saveCode", "removeCode", "saveSession"}
  <2>1. CASE t # <<>>
    <3>1. 1 \in DOMAIN t /\ t[1] \in Quiets
      BY <1>2, <2>1 DEF QuietPlan
    <3> QED BY <1>1, <3>1
  <2> QED BY <2>1
<1>3. /\ Submitting(t) => t # <<>> /\ Head(t) = t[1] /\ t[1] \in NewOrders
      /\ Filling(t) => t # <<>> /\ Head(t) = t[1] /\ t[1] \in Fills
      /\ Opening(t) => t # <<>> /\ Head(t) = t[1] /\ t[1] \in Checkouts
      /\ Capturing(t) => t # <<>> /\ Head(t) = t[1] /\ t[1] \in Captures /\ Reading(t) = t[1]
      /\ Storing(t) => /\ t # <<>> /\ Head(t) = t[1] /\ t[1] \in Stores
                       /\ Reading(t) = t[2] /\ Reading(t) \in Books /\ t[1].payment = Reading(t).payment
                          /\ t[1].paypal = Reading(t).paypal
      /\ Booking(t) => t # <<>> /\ Head(t) = t[1] /\ t[1] \in Books /\ Reading(t) = t[1]
  BY DEF Submitting, Filling, Opening, Capturing, Storing, Booking, Reading
<1>4. /\ Submitting(t) => t[1].do = "newOrder"
      /\ Filling(t) => t[1].do = "fill"
      /\ Opening(t) => t[1].do = "checkout"
      /\ Capturing(t) => t[1].do = "capture"
      /\ Storing(t) => t[1].do = "captured"
      /\ Booking(t) => t[1].do = "book"
  BY <1>3 DEF NewOrders, Fills, Checkouts, Captures, Stores, Books
<1> QED BY <1>2, <1>3, <1>4 DEF Confirms

(* What the head of a plan says of the plan, and what is left of it.  *)
LEMMA KindByHead ==
  ASSUME NEW t, PlanOK(t), t # <<>>
  PROVE  /\ Head(t).do \in {"saveCode", "removeCode", "saveSession"} =>
              QuietPlan(t) /\ Head(t) \in Quiets /\ QuietPlan(Tail(t))
         /\ Head(t).do = "newOrder" => /\ Submitting(t) /\ Filling(Tail(t)) /\ Tail(t)[1] = t[2] /\ t[2] \in Fills
                                       /\ t[2].order = t[1].order /\ t[2].subtotal = 0
         /\ Head(t).do = "fill" => Filling(t) /\ QuietPlan(Tail(t))
         /\ Head(t).do = "checkout" => Opening(t) /\ Tail(t) = <<>>
         /\ Head(t).do = "capture" => Capturing(t) /\ Tail(t) = <<>>
         /\ Head(t).do = "captured" => Storing(t) /\ Booking(Tail(t)) /\ Reading(Tail(t)) = Reading(t)
         /\ Head(t).do = "book" => Booking(t) /\ Tail(t) = <<>>
<1>1. CASE QuietPlan(t)
  <2>1. Head(t) \in Quiets /\ QuietPlan(Tail(t))
    BY <1>1 DEF QuietPlan
  <2>2. Head(t).do \in {"saveCode", "removeCode", "saveSession"}
    BY <2>1 DEF Quiets
  <2> QED BY <1>1, <2>1, <2>2
<1>2. CASE Submitting(t)
  <2>1. PICK n \in NewOrders, f \in Fills, q \in Quiets : t = <<n, f, q>> /\ f.order = n.order /\ f.subtotal = 0
    BY <1>2 DEF Submitting
  <2>2. Head(t) = n /\ Tail(t) = <<f, q>> /\ t[2] = f /\ t[1] = n /\ Tail(t)[1] = f /\ n.do = "newOrder"
    BY <2>1 DEF NewOrders
  <2> QED BY <1>2, <2>1, <2>2 DEF Filling
<1>3. CASE Filling(t)
  <2>1. PICK f \in Fills, q \in Quiets : t = <<f, q>>
    BY <1>3 DEF Filling
  <2>2. Head(t) = f /\ Tail(t) = <<q>> /\ f.do = "fill"
    BY <2>1 DEF Fills
  <2>3. <<q>> \in Seq(Quiets)
    BY <2>1
  <2>4. QuietPlan(Tail(t))
    BY <2>2, <2>3 DEF QuietPlan
  <2> QED BY <1>3, <2>2, <2>4
<1>4. CASE Opening(t)
  BY <1>4 DEF Opening, Checkouts
<1>5. CASE Capturing(t)
  BY <1>5 DEF Capturing, Captures
<1>6. CASE Storing(t)
  <2>1. PICK s \in Stores, b \in Books : t = <<s, b>>
    BY <1>6 DEF Storing
  <2>2. Head(t) = s /\ Tail(t) = <<b>> /\ Reading(t) = b /\ Reading(Tail(t)) = b /\ s.do = "captured"
    BY <2>1 DEF Stores, Reading
  <2> QED BY <1>6, <2>1, <2>2 DEF Booking
<1>7. CASE Booking(t)
  BY <1>7 DEF Booking, Books
<1> QED BY <1>1, <1>2, <1>3, <1>4, <1>5, <1>6, <1>7 DEF PlanOK

-----------------------------------------------------------------------------
(* Types.                                                                     *)

(* A set of numbers with a bound has a largest member.  *)
LEMMA Largest ==
  ASSUME NEW n \in Nat, NEW S, S \subseteq 1 .. n, S # {}
  PROVE  \E i \in S : \A j \in S : j <= i
<1> DEFINE T == {k \in Nat : \A s \in SUBSET (1 .. k) : s # {} => \E i \in s : \A j \in s : j <= i}
<1>1. 0 \in T
  <2>1. \A s \in SUBSET (1 .. 0) : s = {}
    OBVIOUS
  <2> QED BY <2>1
<1>2. ASSUME NEW k \in Nat, k \in T PROVE k + 1 \in T
  <2>1. SUFFICES ASSUME NEW s \in SUBSET (1 .. k + 1), s # {} PROVE \E i \in s : \A j \in s : j <= i
    OBVIOUS
  <2>2. CASE k + 1 \in s
    BY <2>1, <2>2
  <2>3. CASE k + 1 \notin s
    <3>1. s \in SUBSET (1 .. k)
      BY <2>1, <2>3
    <3> QED BY <1>2, <2>1, <3>1
  <2> QED BY <2>2, <2>3
<1> HIDE DEF T
<1>3. n \in T
  BY <1>1, <1>2, Induction
<1> QED BY <1>3 DEF T

(* The types of the tables, apart from those of the requests.  *)
RowsOK ==
  /\ Rows(codes, 1..MaxCodes, BOOLEAN) /\ Rows(sessions, SessionIds, Session)
  /\ expired \subseteq SessionIds /\ menu \subseteq Products
  /\ Rows(orders, OrderIds, Order) /\ items \in Seq([order : OrderIds, product : Products, amount : Nat])
  /\ Rows(payments, PaymentIds, Payment) /\ provider \in [DOMAIN payments -> {"open", "approved", "captured"}]
  /\ Rows(taken, PaymentIds, PaymentIds) /\ cut \subseteq PaymentIds /\ crossed \subseteq OrderIds
NextOK == next \in [code : Nat \ {0}, session : Nat \ {0}, order : Nat \ {0}, payment : Nat \ {0}]
WorkOK == RequestsOK /\ \A w \in Workers : PlanOK(task[w])

(* The parts are the whole.  *)
LEMMA TypesInParts == TypesInv <=> RowsOK /\ NextOK /\ WorkOK
<1>1. items \in Seq([order : OrderIds, product : Products, amount : Nat])
        => \A i \in DOMAIN items : items[i] \in [order : OrderIds, product : Products, amount : Nat]
  <2> DEFINE Item == [order : OrderIds, product : Products, amount : Nat]
  <2> HIDE DEF Item
  <2>1. items \in Seq(Item) => \A i \in DOMAIN items : items[i] \in Item
    OBVIOUS
  <2> QED BY <2>1 DEF Item
<1> QED BY <1>1 DEF TypesInv, TypeOK, RowsOK, NextOK, WorkOK, RequestsOK

(* A row that is put into a table.  *)
LEMMA RowsWith ==
  ASSUME NEW table, NEW ids, NEW type, Rows(table, ids, type), NEW key \in ids, NEW row \in type
  PROVE  Rows(With(table, key, row), ids, type)
BY DEF Rows, With

(* Worker w goes on with plan t, and what the others do is as it was.  *)
Goes(w, t) == task' = [task EXCEPT ![w] = t]

(* A plan replaces that of its worker.  *)
LEMMA WorkMoves ==
  ASSUME WorkOK, NEW w \in Workers, NEW t, PlanOK(t), Goes(w, t), UNCHANGED load \/ Start(w, t)
  PROVE  WorkOK' /\ task'[w] = t /\ \A v \in Workers : v # w => task'[v] = task[v]
<1>1. DOMAIN task' = Workers /\ task'[w] = t /\ \A v \in Workers : v # w => task'[v] = task[v]
  BY DEF WorkOK, RequestsOK, Goes
<1>2. load' \in [requests : 0..MaxRequests, crashes : 0..MaxCrashes]
  <2>1. CASE UNCHANGED load
    BY <2>1 DEF WorkOK, RequestsOK
  <2>2. CASE Start(w, t)
    BY <2>2, RequestsAssumption DEF WorkOK, RequestsOK, Start, Ready
  <2> QED BY <2>1, <2>2
<1> QED BY <1>1, <1>2 DEF WorkOK, RequestsOK

(* Where a request ends, its plan is empty.  *)
LEMMA NothingLeft == QuietPlan(<<>>) /\ PlanOK(<<>>) /\ PlanOK(Idle)
BY DEF QuietPlan, PlanOK, Idle

(* The types at the start.  *)
LEMMA TypesInit == Init => TypesInv
<1> SUFFICES ASSUME Init PROVE RowsOK /\ NextOK /\ WorkOK
  BY TypesInParts
<1>1. 1 \in 1..MaxCodes /\ 1 \in SessionIds
  BY TableOrderingAssumption DEF SessionIds
<1>2. Rows(Empty, 1..MaxCodes, BOOLEAN) /\ Rows(Empty, SessionIds, Session) /\ Rows(Empty, OrderIds, Order)
      /\ Rows(Empty, PaymentIds, Payment) /\ Rows(Empty, PaymentIds, PaymentIds) /\ DOMAIN Empty = {}
  BY DEF Rows, Empty
<1>3. IsFiniteSet({1}) /\ Cardinality({1}) = 1 /\ Cardinality({}) = 0
  BY FS_EmptySet, FS_Singleton
<1>4. Rows(codes, 1..MaxCodes, BOOLEAN) /\ Rows(sessions, SessionIds, Session)
      /\ Cardinality(DOMAIN codes) \in Nat /\ Cardinality(DOMAIN sessions) \in Nat
  <2>1. CASE codes = Empty /\ sessions = Empty
    BY <1>2, <1>3, <2>1
  <2>2. CASE ~(codes = Empty /\ sessions = Empty)
    <3>1. PICK cart \in {<<>>} \cup {<<l>> : l \in Lines} \cup {<<k, l>> : k, l \in Lines} :
            sessions = [s \in {1} |-> [code |-> 1, cart |-> cart,
                                        status |-> IF cart = <<>> THEN "active" ELSE "ordering"]]
      BY <2>2 DEF Init
    <3>2. codes = [c \in {1} |-> TRUE]
      BY <2>2 DEF Init
    <3>3. cart \in Seq(Lines)
      <4>1. ASSUME NEW l \in Lines PROVE <<l>> \in Seq(Lines)
        OBVIOUS
      <4>2. ASSUME NEW k \in Lines, NEW l \in Lines PROVE <<k, l>> \in Seq(Lines)
        OBVIOUS
      <4>3. <<>> \in Seq(Lines)
        OBVIOUS
      <4>4. cart = <<>> \/ (\E l \in Lines : cart = <<l>>) \/ \E k, l \in Lines : cart = <<k, l>>
        OBVIOUS
      <4>5. CASE \E k, l \in Lines : cart = <<k, l>>
        BY <4>2, <4>5
      <4>6. CASE \E l \in Lines : cart = <<l>>
        BY <4>1, <4>6
      <4>7. CASE cart = <<>>
        BY <4>3, <4>7
      <4> QED BY ONLY <4>4, <4>5, <4>6, <4>7
    <3>4. [code |-> 1, cart |-> cart, status |-> IF cart = <<>> THEN "active" ELSE "ordering"] \in Session
      BY <1>1, <3>3 DEF Session
    <3> QED BY <1>1, <1>3, <3>1, <3>2, <3>4 DEF Rows
  <2> QED BY <2>1, <2>2
<1>5. RowsOK
  BY <1>2, <1>4 DEF Init, RowsOK, Empty
<1>6. NextOK
  BY <1>4 DEF Init, NextOK
<1>7. WorkOK
  BY NothingLeft, RequestsAssumption DEF Init, WorkOK, RequestsInit, RequestsOK
<1> QED BY <1>5, <1>6, <1>7

(* Requests that make a plan without orders and payments.  *)
QuietRequest(w) ==
  \/ CodeRequest(w)
  \/ \E c \in DOMAIN codes : StartSession(w, c)
  \/ \E s \in DOMAIN sessions :
       \/ GetExpired(w, s) \/ ClearCart(w, s)
       \/ \E line \in Lines : AddToCart(w, s, line)
       \/ \E i \in DOMAIN sessions[s].cart, quantity \in 0..MaxQuantity : UpdateCartItem(w, s, i, quantity)

(* The new value of next, and that no order and no payment took an id.  *)
NextGoes(order, payment) == NextOK' /\ next'.order = next.order + order /\ next'.payment = next.payment + payment

(* A statement on its own is a plan, and so are two.  *)
LEMMA QuietPlans ==
  /\ \A x \in Quiets : QuietPlan(<<x>>)
  /\ \A x, y \in Quiets : QuietPlan(<<x, y>>)
BY DEF QuietPlan

(* A session that is saved with another cart is a session.  *)
LEMMA CartSaved ==
  ASSUME RowsOK, NEW s \in DOMAIN sessions, NEW cart \in Seq(Lines), NEW status \in {"active", "ordering", "expired"}
  PROVE  /\ [sessions[s] EXCEPT !.cart = cart, !.status = status] \in Session
         /\ SaveSession(s, [sessions[s] EXCEPT !.cart = cart, !.status = status]) \in Quiets
<1>1. sessions[s] \in Session /\ s \in SessionIds
  BY DEF RowsOK, Rows
<1>2. [sessions[s] EXCEPT !.cart = cart, !.status = status] \in Session
  BY <1>1 DEF Session
<1> QED BY <1>1, <1>2 DEF SaveSession, Quiets

(* Quiet requests.  *)
LEMMA QuietRequestsFit ==
  ASSUME RowsOK, NextOK, NEW w \in Workers, QuietRequest(w)
  PROVE  (\E t : QuietPlan(t) /\ Start(w, t)) /\ NextGoes(0, 0)
<1>1. ASSUME UNCHANGED next PROVE NextGoes(0, 0)
  BY <1>1 DEF NextOK, NextGoes
<1>2. ASSUME NEW c \in DOMAIN codes PROVE c \in 1..MaxCodes /\ codes[c] \in BOOLEAN
  BY DEF RowsOK, Rows
<1>3. CASE CreateCode(w)
  <2>1. SaveCode(next.code, TRUE) \in Quiets
    BY <1>3, TableOrderingAssumption DEF CreateCode, SaveCode, Quiets, NextOK
  <2>2. NextGoes(0, 0)
    BY <1>3 DEF CreateCode, NextOK, NextGoes
  <2> QED BY <1>3, <2>1, <2>2, QuietPlans DEF CreateCode
<1>4. ASSUME NEW c \in DOMAIN codes, UpdateCode(w, c) PROVE (\E t : QuietPlan(t) /\ Start(w, t)) /\ NextGoes(0, 0)
  <2>1. SaveCode(c, ~codes[c]) \in Quiets
    BY <1>2 DEF SaveCode, Quiets
  <2> QED BY <1>1, <1>4, <2>1, QuietPlans DEF UpdateCode
<1>5. ASSUME NEW c \in DOMAIN codes, RemoveCode(w, c) PROVE (\E t : QuietPlan(t) /\ Start(w, t)) /\ NextGoes(0, 0)
  <2>1. [do |-> "removeCode", code |-> c] \in Quiets
    BY <1>2 DEF Quiets
  <2> QED BY <1>1, <1>5, <2>1, QuietPlans DEF RemoveCode
<1>6. ASSUME NEW c \in DOMAIN codes, StartSession(w, c) PROVE (\E t : QuietPlan(t) /\ Start(w, t)) /\ NextGoes(0, 0)
  <2>1. next.session \in SessionIds
    BY <1>6, TableOrderingAssumption DEF StartSession, NextOK, SessionIds
  <2>2. [code |-> c, status |-> "active", cart |-> <<>>] \in Session
    BY <1>2 DEF Session
  <2>3. SaveCode(c, TRUE) \in Quiets /\ SaveSession(next.session, [code |-> c, status |-> "active", cart |-> <<>>]) \in Quiets
    BY <1>2, <2>1, <2>2 DEF SaveCode, SaveSession, Quiets
  <2>4. NextGoes(0, 0)
    BY <1>6 DEF StartSession, NextOK, NextGoes
  <2> QED BY <1>6, <2>3, <2>4, QuietPlans DEF StartSession
<1>7. ASSUME NEW s \in DOMAIN sessions PROVE sessions[s] \in Session /\ s \in SessionIds /\ sessions[s].cart \in Seq(Lines)
  BY DEF RowsOK, Rows, Session
<1>8. ASSUME NEW s \in DOMAIN sessions, GetExpired(w, s) PROVE (\E t : QuietPlan(t) /\ Start(w, t)) /\ NextGoes(0, 0)
  <2>1. SaveSession(s, [sessions[s] EXCEPT !.status = "expired"]) \in Quiets
    BY <1>7 DEF SaveSession, Quiets, Session
  <2> QED BY <1>1, <1>8, <2>1, QuietPlans DEF GetExpired
<1>9. ASSUME NEW s \in DOMAIN sessions, NEW cart \in Seq(Lines), NEW status \in {"active", "ordering", "expired"},
             ChangeCart(w, s, cart, status)
      PROVE  (\E t : QuietPlan(t) /\ Start(w, t)) /\ NextGoes(0, 0)
  <2>1. SaveSession(s, [sessions[s] EXCEPT !.cart = cart, !.status = status]) \in Quiets
    BY CartSaved
  <2> QED BY <1>1, <1>9, <2>1, QuietPlans DEF ChangeCart
<1>10. ASSUME NEW s \in DOMAIN sessions, ClearCart(w, s) PROVE (\E t : QuietPlan(t) /\ Start(w, t)) /\ NextGoes(0, 0)
  <2>1. <<>> \in Seq(Lines) /\ ChangeCart(w, s, <<>>, "active")
    BY <1>10 DEF ClearCart
  <2> QED BY <1>9, <2>1
<1>11. ASSUME NEW s \in DOMAIN sessions, NEW line \in Lines, AddToCart(w, s, line)
       PROVE  (\E t : QuietPlan(t) /\ Start(w, t)) /\ NextGoes(0, 0)
  <2> DEFINE cart == sessions[s].cart
  <2>1. CASE ChangeCart(w, s, Append(cart, line), "ordering")
    <3>1. Append(cart, line) \in Seq(Lines)
      BY <1>7
    <3> QED BY <1>9, <2>1, <3>1
  <2>2. ASSUME NEW i \in DOMAIN cart, cart[i].quantity + line.quantity <= MaxQuantity,
               ChangeCart(w, s, [cart EXCEPT ![i].quantity = @ + line.quantity], "ordering")
        PROVE  (\E t : QuietPlan(t) /\ Start(w, t)) /\ NextGoes(0, 0)
    <3>1. cart[i] \in Lines
      BY <1>7, <2>2
    <3>2. [cart[i] EXCEPT !.quantity = @ + line.quantity] \in Lines
      BY <2>2, <3>1, TableOrderingAssumption DEF Lines
    <3>3. [cart EXCEPT ![i].quantity = @ + line.quantity] \in Seq(Lines)
      BY <1>7, <2>2, <3>2
    <3> QED BY <1>9, <2>2, <3>3
  <2> QED BY <1>11, <2>1, <2>2 DEF AddToCart
<1>12. ASSUME NEW s \in DOMAIN sessions, NEW i \in DOMAIN sessions[s].cart, NEW quantity \in 0..MaxQuantity,
              UpdateCartItem(w, s, i, quantity)
       PROVE  (\E t : QuietPlan(t) /\ Start(w, t)) /\ NextGoes(0, 0)
  <2> DEFINE cart == sessions[s].cart
  <2>1. cart \in Seq(Lines) /\ cart[i] \in Lines /\ sessions[s].status \in {"active", "ordering", "expired"}
    BY <1>7 DEF Session
  <2>2. CASE quantity = 0
    <3>1. RemoveAt(cart, i) \in Seq(Lines)
      BY <2>1 DEF RemoveAt
    <3> QED BY <1>9, <1>12, <2>1, <2>2, <3>1 DEF UpdateCartItem
  <2>3. CASE quantity # 0
    <3>1. [cart[i] EXCEPT !.quantity = quantity] \in Lines
      <4>1. quantity \in 1..MaxQuantity
        BY <2>3, TableOrderingAssumption
      <4> QED BY <2>1, <4>1 DEF Lines
    <3>2. [cart EXCEPT ![i].quantity = quantity] \in Seq(Lines)
      BY <2>1, <3>1
    <3> QED BY <1>9, <1>12, <2>1, <2>3, <3>2 DEF UpdateCartItem
  <2> QED BY <2>2, <2>3
<1> QED BY <1>3, <1>4, <1>5, <1>6, <1>8, <1>10, <1>11, <1>12 DEF QuietRequest, CodeRequest

(* A submission takes the next order, and what the cart has.  *)
LEMMA SubmitFits ==
  ASSUME RowsOK, NextOK, NEW w \in Workers, NEW s \in DOMAIN sessions, SubmitOrder(w, s)
  PROVE  /\ \E t : Submitting(t) /\ t[1].order = next.order /\ Start(w, t)
         /\ NextGoes(1, 0)
<1> DEFINE n == [do |-> "newOrder", order |-> next.order, session |-> s]
           f == [do |-> "fill", order |-> next.order, session |-> s, lines |-> sessions[s].cart, subtotal |-> 0]
           q == SaveSession(s, [sessions[s] EXCEPT !.status = "ordering"])
<1>1. sessions[s] \in Session /\ s \in SessionIds
  BY DEF RowsOK, Rows
<1>2. next.order \in OrderIds /\ NextGoes(1, 0)
  BY TableOrderingAssumption DEF SubmitOrder, OrderIds, NextOK, NextGoes
<1>3. n \in NewOrders /\ f \in Fills /\ q \in Quiets
  BY <1>1, <1>2 DEF NewOrders, Fills, Quiets, SaveSession, Session
<1>4. Start(w, <<n, f, q>>) /\ f.order = n.order /\ f.subtotal = 0 /\ n.order = next.order
  BY DEF SubmitOrder
<1> HIDE DEF n, f, q
<1>5. Submitting(<<n, f, q>>) /\ <<n, f, q>>[1] = n
  BY <1>3, <1>4 DEF Submitting
<1> QED BY <1>2, <1>4, <1>5

(* A payment is opened for an unpaid order of the session, over its total.  *)
LEMMA InitiateFits ==
  ASSUME RowsOK, NextOK, NEW w \in Workers, NEW s \in DOMAIN sessions, NEW by \in Providers, InitiatePayment(w, s, by)
  PROVE  /\ \E t : /\ Opening(t) /\ t[1].payment = next.payment /\ t[1].row.status = "pending"
                   /\ t[1].row.order \in DOMAIN orders /\ t[1].row.amount = orders[t[1].row.order].total
                   /\ Start(w, t)
         /\ NextGoes(0, 1)
<1> DEFINE o == CHOOSE i \in Unpaid(s) : \A j \in Unpaid(s) : j <= i
           c == [do |-> "checkout", payment |-> next.payment, row |->
                   [order |-> o, amount |-> orders[o].total, provider |-> by, status |-> "pending"]]
<1>1. Unpaid(s) \subseteq 1..MaxOrders /\ Unpaid(s) # {} /\ MaxOrders \in Nat
  BY TableOrderingAssumption DEF InitiatePayment, Unpaid, RowsOK, Rows, OrderIds
<1>2. \E i \in Unpaid(s) : \A j \in Unpaid(s) : j <= i
  BY <1>1, Largest
<1>3. o \in Unpaid(s)
  BY <1>2
<1>4. Start(w, <<c>>) /\ NextGoes(0, 1) /\ next.payment \in PaymentIds
  BY TableOrderingAssumption DEF InitiatePayment, NextOK, NextGoes, PaymentIds
<1> HIDE DEF o
<1>5. o \in DOMAIN orders /\ o \in OrderIds /\ orders[o] \in Order
  BY <1>3 DEF Unpaid, RowsOK, Rows
<1>6. [order |-> o, amount |-> orders[o].total, provider |-> by, status |-> "pending"] \in Payment
  BY <1>5 DEF Payment, Order
<1>7. c \in Checkouts /\ c.payment = next.payment /\ c.row.status = "pending" /\ c.row.order = o
      /\ c.row.amount = orders[o].total
  BY <1>4, <1>6 DEF Checkouts
<1> HIDE DEF c
<1>8. Opening(<<c>>) /\ <<c>>[1] = c
  BY <1>7 DEF Opening
<1> QED BY <1>4, <1>5, <1>7, <1>8

(* What the statement that is next says of the plan of its worker.  *)
LEMMA KindAt ==
  ASSUME WorkOK, NEW w \in Workers
  PROVE  /\ At(w, "saveCode") \/ At(w, "removeCode") \/ At(w, "saveSession") =>
              QuietPlan(task[w]) /\ Now(w) \in Quiets /\ QuietPlan(Tail(task[w]))
         /\ At(w, "newOrder") =>
              /\ Submitting(task[w]) /\ Filling(Tail(task[w])) /\ Tail(task[w])[1] = task[w][2]
              /\ Now(w) = task[w][1] /\ task[w][1] \in NewOrders /\ task[w][2] \in Fills
              /\ task[w][2].order = task[w][1].order /\ task[w][2].subtotal = 0
         /\ At(w, "fill") => /\ Filling(task[w]) /\ QuietPlan(Tail(task[w]))
                             /\ Now(w) = task[w][1] /\ task[w][1] \in Fills
         /\ At(w, "checkout") => /\ Opening(task[w]) /\ Tail(task[w]) = <<>>
                                 /\ Now(w) = task[w][1] /\ task[w][1] \in Checkouts
         /\ At(w, "capture") => /\ Capturing(task[w]) /\ Tail(task[w]) = <<>>
                                /\ Now(w) = Reading(task[w]) /\ Now(w) \in Captures
         /\ At(w, "captured") => /\ Storing(task[w]) /\ Booking(Tail(task[w])) /\ Reading(Tail(task[w])) = Reading(task[w])
                                 /\ Reading(task[w]) \in Books /\ Now(w).payment = Reading(task[w]).payment
                                 /\ Now(w).paypal = Reading(task[w]).paypal
         /\ At(w, "book") => /\ Booking(task[w]) /\ Tail(task[w]) = <<>>
                             /\ Now(w) = Reading(task[w]) /\ Now(w) \in Books
<1>1. PlanOK(task[w])
  BY DEF WorkOK
<1> QED BY <1>1, KindByHead, KindsApart DEF At, Now, Idle

(* A statement put before another.  *)
LEMMA OneBeforeOne ==
  ASSUME NEW S, NEW x \in S, NEW y \in S
  PROVE  <<x>> \o <<y>> = <<x, y>>
<1> DEFINE s == <<x>>
           t == <<y>>
           c == s \o t
<1>1. s \in Seq(S) /\ t \in Seq(S) /\ Len(s) = 1 /\ Len(t) = 1 /\ s[1] = x /\ t[1] = y
  OBVIOUS
<1> HIDE DEF s, t
<1>2. c \in Seq(S) /\ Len(c) = Len(s) + Len(t)
      /\ \A i \in 1 .. Len(s) + Len(t) : c[i] = IF i <= Len(s) THEN s[i] ELSE t[i - Len(s)]
  BY <1>1, ConcatProperties
<1> HIDE DEF c
<1>3. Len(c) = 2 /\ c[1] = x /\ c[2] = y
  BY <1>1, <1>2
<1>4. <<x, y>> \in Seq(S) /\ Len(<<x, y>>) = 2 /\ <<x, y>>[1] = x /\ <<x, y>>[2] = y
  OBVIOUS
<1> DEFINE d == <<x, y>>
<1> HIDE DEF d
<1>5. c = d
  <2>1. \A i \in 1 .. Len(c) : c[i] = d[i]
    BY <1>3, <1>4 DEF d
  <2> QED BY <1>2, <1>3, <1>4, <2>1, SeqEqual DEF d
<1> QED BY <1>5 DEF c, d, s, t

(* The statement that fills an order, one line later.  *)
LEMMA FillGoesOn ==
  ASSUME NEW n \in Fills, NEW lines \in Seq(Lines), NEW worth \in Nat
  PROVE  LET f == [n EXCEPT !.lines = lines, !.subtotal = @ + worth]
         IN  f \in Fills /\ f.order = n.order /\ f.subtotal = n.subtotal + worth
<1> DEFINE sum == n.subtotal + worth
           f == [n EXCEPT !.lines = lines, !.subtotal = sum]
<1>1. sum \in Nat
  BY DEF Fills
<1> HIDE DEF sum
<1>2. f \in Fills /\ f.order = n.order /\ f.subtotal = sum
  BY <1>1 DEF Fills
<1> QED BY <1>2 DEF sum

(* An item that is written, with the subtotal it goes into.  *)
LEMMA ItemWritten ==
  ASSUME RowsOK, WorkOK, NEW w \in Workers, InsertItem(w)
  PROVE  LET line == Head(Now(w).lines)
             f == [Now(w) EXCEPT !.lines = Tail(@), !.subtotal = @ + (IF line.product \in menu THEN line.quantity ELSE 0)]
             item == [order |-> Now(w).order, product |-> line.product, amount |-> line.quantity]
         IN  /\ f \in Fills /\ f.order = Now(w).order /\ item \in [order : OrderIds, product : Products, amount : Nat]
             /\ f.subtotal = Now(w).subtotal + (IF line.product \in menu THEN line.quantity ELSE 0)
             /\ \E t : Filling(t) /\ t[1] = f /\ Goes(w, t)
             /\ items' = IF line.product \in menu THEN Append(items, item) ELSE items
             /\ UNCHANGED load
<1> DEFINE line == Head(Now(w).lines)
           worth == IF line.product \in menu THEN line.quantity ELSE 0
           f == [Now(w) EXCEPT !.lines = Tail(@), !.subtotal = @ + worth]
           item == [order |-> Now(w).order, product |-> line.product, amount |-> line.quantity]
<1>1. At(w, "fill") /\ Now(w).lines # <<>>
  BY DEF InsertItem
<1>2. Filling(task[w]) /\ Now(w) = task[w][1] /\ Now(w) \in Fills
  BY <1>1, KindAt
<1>3. line \in Lines /\ Tail(Now(w).lines) \in Seq(Lines) /\ line.quantity \in Nat /\ line.product \in Products
  <2>1. Now(w).lines \in Seq(Lines)
    BY <1>2 DEF Fills
  <2>2. line \in Lines /\ Tail(Now(w).lines) \in Seq(Lines)
    BY <1>1, <2>1
  <2> QED BY <2>2, TableOrderingAssumption DEF Lines
<1>4. f \in Fills /\ f.order = Now(w).order /\ item \in [order : OrderIds, product : Products, amount : Nat]
      /\ f.subtotal = Now(w).subtotal + worth
  <2>1. worth \in Nat
    BY <1>3
  <2> HIDE DEF worth, line
  <2>2. f \in Fills /\ f.order = Now(w).order /\ f.subtotal = Now(w).subtotal + worth
    BY <1>2, <1>3, <2>1, FillGoesOn
  <2>3. item \in [order : OrderIds, product : Products, amount : Nat]
    BY <1>2, <1>3 DEF Fills
  <2> QED BY <2>2, <2>3
<1>5. PICK a \in Fills, q \in Quiets : task[w] = <<a, q>>
  BY <1>2 DEF Filling
<1>6. Then(w, <<f>>) /\ items' = IF line.product \in menu THEN Append(items, item) ELSE items
  BY DEF InsertItem
<1> HIDE DEF f, item, line, worth
<1>7. <<f>> \o Tail(task[w]) = <<f, q>>
  <2>1. Tail(task[w]) = <<q>>
    BY <1>5
  <2>2. f \in Fills \cup Quiets /\ q \in Fills \cup Quiets
    BY <1>4
  <2>3. <<f>> \o <<q>> = <<f, q>>
    BY <2>2, OneBeforeOne
  <2> QED BY <2>1, <2>3
<1>8. Goes(w, <<f, q>>) /\ UNCHANGED load
  BY <1>6, <1>7 DEF Then, Goes
<1>9. Filling(<<f, q>>) /\ <<f, q>>[1] = f
  BY <1>4, <1>5 DEF Filling
<1> QED BY <1>4, <1>6, <1>8, <1>9 DEF f, item, line, worth

(* Money that was taken has still to be stored and booked.  *)
LEMMA CaptureGoes ==
  ASSUME RowsOK, WorkOK, NEW w \in Workers, Capture(w)
  PROVE  /\ UNCHANGED load
         /\ \/ Goes(w, <<>>) /\ UNCHANGED <<provider, taken, cut>>
            \/ /\ provider[Now(w).paypal] = "approved"
               /\ provider' = [provider EXCEPT ![Now(w).paypal] = "captured"]
               /\ taken' = With(taken, Now(w).paypal, Now(w).payment)
               /\ \/ Goes(w, <<>>) /\ cut' = cut \cup {Now(w).paypal}
                  \/ /\ UNCHANGED cut
                     /\ \E t : /\ Storing(t) /\ Reading(t).payment = Now(w).payment /\ Reading(t).paypal = Now(w).paypal
                               /\ Reading(t).order = Now(w).order /\ Reading(t).read = Now(w).read /\ Goes(w, t)
<1> DEFINE p == Now(w).payment
           q == Now(w).paypal
           s == [do |-> "captured", payment |-> p, paypal |-> q]
           b == [do |-> "book", payment |-> p, paypal |-> q, order |-> Now(w).order, read |-> Now(w).read]
<1>1. Capturing(task[w]) /\ Tail(task[w]) = <<>> /\ Now(w) \in Captures
  BY KindAt DEF Capture
<1>2. s \in Stores /\ b \in Books /\ b.payment = s.payment /\ b.paypal = s.paypal
      /\ b.payment = p /\ b.paypal = q /\ b.order = Now(w).order /\ b.read = Now(w).read
  BY <1>1 DEF Captures, Stores, Books
<1>3. \/ Fail(w) /\ UNCHANGED <<provider, taken, cut>>
      \/ /\ provider[q] = "approved"
         /\ provider' = [provider EXCEPT ![q] = "captured"]
         /\ taken' = With(taken, q, p)
         /\ \/ Then(w, <<s, b>>) /\ UNCHANGED cut
            \/ Fail(w) /\ cut' = cut \cup {q}
  BY DEF Capture, Bookings
<1> HIDE DEF s, b
<1>4. Fail(w) => Goes(w, <<>>) /\ UNCHANGED load
  BY DEF Fail, Goes, Idle
<1>5. <<s, b>> \o <<>> = <<s, b>>
  OBVIOUS
<1>6. Then(w, <<s, b>>) => Goes(w, <<s, b>>) /\ UNCHANGED load
  BY <1>1, <1>5 DEF Then, Goes
<1>7. Storing(<<s, b>>) /\ Reading(<<s, b>>) = b
  BY <1>2 DEF Storing, Reading
<1>8. CASE Then(w, <<s, b>>)
  <2>1. PICK t : t = <<s, b>>
    OBVIOUS
  <2>2. /\ Storing(t) /\ Reading(t).payment = p /\ Reading(t).paypal = q
        /\ Reading(t).order = Now(w).order /\ Reading(t).read = Now(w).read /\ Goes(w, t)
    BY <1>2, <1>6, <1>7, <1>8, <2>1
  <2> QED BY <1>3, <1>4, <1>6, <1>8, <2>2
<1> QED BY <1>3, <1>4, <1>8

(* A statement leaves a plan, its worker has been going on, and nobody else has.  *)
LEMMA StatementGoes ==
  ASSUME RowsOK, WorkOK, NEW w \in Workers, Statement(w)
  PROVE  UNCHANGED <<load, next>> /\ \E t : PlanOK(t) /\ Goes(w, t)
<1>1. Done(w) => Goes(w, Tail(task[w])) /\ UNCHANGED load
  BY DEF Done, Goes
<1>2. Fail(w) => Goes(w, <<>>) /\ UNCHANGED load
  BY DEF Fail, Goes, Idle
<1>3. CASE StoreCode(w) \/ DropCode(w) \/ StoreSession(w)
  <2>1. QuietPlan(Tail(task[w])) /\ (Done(w) \/ Fail(w)) /\ UNCHANGED next
    BY <1>3, KindAt DEF StoreCode, DropCode, StoreSession
  <2> QED BY <1>1, <1>2, <2>1, NothingLeft DEF PlanOK
<1>4. CASE InsertOrder(w) \/ SaveTotals(w)
  <2>1. (Filling(Tail(task[w])) \/ QuietPlan(Tail(task[w]))) /\ (Done(w) \/ Fail(w)) /\ UNCHANGED next
    BY <1>4, KindAt DEF InsertOrder, SaveTotals, StoreOrder
  <2> QED BY <1>1, <1>2, <2>1, NothingLeft DEF PlanOK
<1>5. CASE InsertItem(w)
  <2>1. UNCHANGED <<load, next>> /\ \E t : Filling(t) /\ Goes(w, t)
    BY <1>5, ItemWritten DEF InsertItem
  <2> QED BY <2>1 DEF PlanOK
<1>6. CASE OpenPayment(w) \/ BookOrder(w)
  <2>1. Tail(task[w]) = <<>> /\ (Done(w) \/ Fail(w)) /\ UNCHANGED next
    BY <1>6, KindAt DEF OpenPayment, BookOrder
  <2> QED BY <1>1, <1>2, <2>1, NothingLeft
<1>7. CASE Capture(w)
  BY <1>7, CaptureGoes, NothingLeft DEF Capture, PlanOK
<1>8. CASE StorePayment(w)
  BY <1>1, <1>8, KindAt DEF StorePayment, PlanOK
<1> QED BY <1>3, <1>4, <1>5, <1>6, <1>7, <1>8 DEF Statement

(* A payment makes an order of what it was before.  *)
LEMMA PaidIsOrder ==
  ASSUME NEW order \in Order, NEW amount \in Nat
  PROVE  /\ Paid(order, amount) \in Order
         /\ Paid(order, amount).total = order.total /\ Paid(order, amount).paid = order.paid + amount
         /\ Paid(order, amount).status = "paid" => order.paid + amount >= order.total
<1>1. order.paid + amount \in Nat
  BY DEF Order
<1> QED BY <1>1 DEF Paid, Order

(* The tables keep their types.  *)
LEMMA StatementRows ==
  ASSUME RowsOK, WorkOK, NEW w \in Workers, Statement(w),
         BookOrder(w) => Now(w).payment \in DOMAIN payments
  PROVE  RowsOK'
<1>1. CASE StoreCode(w)
  <2>1. Now(w).code \in 1..MaxCodes /\ Now(w).active \in BOOLEAN
    BY <1>1, KindAt DEF StoreCode, At, Quiets
  <2> QED BY <1>1, <2>1, RowsWith DEF StoreCode, RowsOK
<1>2. CASE DropCode(w)
  <2> DEFINE mine == {s \in DOMAIN sessions : sessions[s].code = Now(w).code}
  <2>1. Rows(codes', 1..MaxCodes, BOOLEAN) /\ Rows(sessions', SessionIds, Session)
    BY <1>2 DEF DropCode, RowsOK, Rows
  <2>2. ASSUME NEW o \in DOMAIN orders PROVE o \in OrderIds /\ orders[o] \in Order /\ [orders[o] EXCEPT !.session = None] \in Order
    BY DEF RowsOK, Rows, Order
  <2>3. orders' = [o \in DOMAIN orders |-> IF orders[o].session \in mine THEN [orders[o] EXCEPT !.session = None] ELSE orders[o]]
    BY <1>2 DEF DropCode
  <2>4. Rows(orders', OrderIds, Order)
    BY <2>2, <2>3 DEF Rows
  <2> QED BY <1>2, <2>1, <2>4 DEF DropCode, RowsOK
<1>3. CASE StoreSession(w)
  <2>1. Now(w).session \in SessionIds /\ Now(w).row \in Session
    BY <1>3, KindAt DEF StoreSession, At, Quiets
  <2> QED BY <1>3, <2>1, RowsWith DEF StoreSession, RowsOK
<1>4. ASSUME NEW total \in Nat, StoreOrder(w, total), Now(w).order \in OrderIds, Now(w).session \in SessionIds
      PROVE  Rows(orders', OrderIds, Order)
  <2>1. [session |-> Now(w).session, total |-> total, paid |-> 0, status |-> "unpaid"] \in Order
    BY <1>4 DEF Order
  <2> QED BY <1>4, <2>1, RowsWith DEF StoreOrder, RowsOK
<1>5. CASE InsertOrder(w)
  <2>1. Now(w).order \in OrderIds /\ Now(w).session \in SessionIds
    BY <1>5, KindAt DEF InsertOrder, NewOrders
  <2> QED BY <1>4, <1>5, <2>1 DEF InsertOrder, RowsOK
<1>6. CASE SaveTotals(w)
  <2>1. Now(w).order \in OrderIds /\ Now(w).session \in SessionIds /\ Now(w).subtotal \in Nat
    BY <1>6, KindAt DEF SaveTotals, Fills
  <2> QED BY <1>4, <1>6, <2>1 DEF SaveTotals, RowsOK
<1>7. CASE InsertItem(w)
  <2> DEFINE item == [order |-> Now(w).order, product |-> Head(Now(w).lines).product, amount |-> Head(Now(w).lines).quantity]
             Item == [order : OrderIds, product : Products, amount : Nat]
  <2>1. item \in Item /\ (items' = items \/ items' = Append(items, item))
    BY <1>7, ItemWritten
  <2>2. items \in Seq(Item)
    BY DEF RowsOK
  <2> HIDE DEF item, Item
  <2>3. items' \in Seq(Item)
    BY <2>1, <2>2
  <2> QED BY <1>7, <2>3 DEF InsertItem, RowsOK, Item
<1>8. CASE OpenPayment(w)
  <2>1. Now(w).payment \in PaymentIds /\ Now(w).row \in Payment
    BY <1>8, KindAt DEF OpenPayment, Checkouts
  <2>2. Rows(payments', PaymentIds, Payment) /\ provider' \in [DOMAIN payments' -> {"open", "approved", "captured"}]
    <3>1. CASE UNCHANGED <<payments, provider>>
      BY <3>1 DEF RowsOK
    <3>2. CASE payments' = With(payments, Now(w).payment, Now(w).row) /\ provider' = With(provider, Now(w).payment, "open")
      <4>1. Rows(payments', PaymentIds, Payment)
        BY <2>1, <3>2, RowsWith DEF RowsOK
      <4>2. DOMAIN payments' = DOMAIN payments \cup {Now(w).payment}
        BY <3>2 DEF With
      <4>3. provider' \in [DOMAIN payments' -> {"open", "approved", "captured"}]
        BY <3>2, <4>2 DEF With, RowsOK
      <4> QED BY <4>1, <4>3
    <3> QED BY <1>8, <3>1, <3>2 DEF OpenPayment
  <2> QED BY <1>8, <2>2 DEF OpenPayment, RowsOK
<1>9. CASE Capture(w)
  <2>1. Now(w).payment \in PaymentIds /\ Now(w).paypal \in PaymentIds
    BY <1>9, KindAt DEF Capture, Captures
  <2>2. cut' \subseteq PaymentIds /\ provider' \in [DOMAIN payments -> {"open", "approved", "captured"}]
    BY <1>9, <2>1 DEF Capture, RowsOK
  <2>3. Rows(taken', PaymentIds, PaymentIds)
    <3>1. taken' = taken \/ taken' = With(taken, Now(w).paypal, Now(w).payment)
      BY <1>9 DEF Capture
    <3> QED BY <2>1, <3>1, RowsWith DEF RowsOK
  <2> QED BY <1>9, <2>2, <2>3 DEF Capture, RowsOK
<1>10. CASE StorePayment(w)
  <2>1. payments' = [payments EXCEPT ![Now(w).payment].status = "captured"]
    BY <1>10 DEF StorePayment
  <2>2. ASSUME NEW p \in DOMAIN payments PROVE p \in PaymentIds /\ payments'[p] \in Payment
    BY <2>1 DEF RowsOK, Rows, Payment
  <2>3. DOMAIN payments' = DOMAIN payments
    BY <2>1
  <2>4. Rows(payments', PaymentIds, Payment)
    BY <2>2, <2>3 DEF Rows
  <2> QED BY <1>10, <2>3, <2>4 DEF StorePayment, RowsOK
<1>11. CASE BookOrder(w)
  <2>1. Now(w).paypal \in PaymentIds /\ Now(w).read \in Order /\ Now(w).order \in OrderIds
        /\ payments[Now(w).payment].amount \in Nat
    BY <1>11, KindAt DEF BookOrder, Books, RowsOK, Rows, Payment
  <2>2. Paid(Now(w).read, payments[Now(w).payment].amount) \in Order
    BY <2>1, PaidIsOrder
  <2>3. Rows(orders', OrderIds, Order) /\ cut' \subseteq PaymentIds
    BY <1>11, <2>1, <2>2 DEF BookOrder, RowsOK, Rows
  <2> QED BY <1>11, <2>3 DEF BookOrder, RowsOK
<1> QED BY <1>1, <1>2, <1>3, <1>5, <1>6, <1>7, <1>8, <1>9, <1>10, <1>11 DEF Statement

-----------------------------------------------------------------------------
(* What the items of an order and its payments come to.                       *)

(* Items and payments are finitely many and have amounts.  *)
LEMMA AmountsAreNumbers ==
  ASSUME RowsOK
  PROVE  /\ \A i \in DOMAIN items : items[i].amount \in Nat
         /\ \A p \in DOMAIN payments : payments[p].amount \in Nat
         /\ IsFiniteSet(DOMAIN items) /\ IsFiniteSet(DOMAIN payments)
<1> DEFINE Item == [order : OrderIds, product : Products, amount : Nat]
<1>1. items \in Seq(Item)
  BY DEF RowsOK
<1>2. \A i \in DOMAIN items : items[i] \in Item
  <2> HIDE DEF Item
  <2> QED BY <1>1
<1>3. IsFiniteSet(DOMAIN items)
  <2>1. Len(items) \in Nat /\ DOMAIN items = 1 .. Len(items)
    BY <1>1, LenProperties
  <2> QED BY <2>1, FS_Interval
<1>4. IsFiniteSet(DOMAIN payments)
  <2>1. DOMAIN payments \subseteq 1 .. MaxPayments
    BY DEF RowsOK, Rows, PaymentIds
  <2>2. IsFiniteSet(1 .. MaxPayments)
    BY TableOrderingAssumption, FS_Interval
  <2> QED BY <2>1, <2>2, FS_Subset
<1>5. \A p \in DOMAIN payments : payments[p].amount \in Nat
  BY DEF RowsOK, Rows, Payment
<1> QED BY <1>2, <1>3, <1>4, <1>5

(* An item more for order o, and none for the others.  *)
LEMMA ItemMore ==
  ASSUME RowsOK, NEW item \in [order : OrderIds, product : Products, amount : Nat], items' = Append(items, item)
  PROVE  /\ ItemTotal(item.order)' = ItemTotal(item.order) + item.amount
         /\ \A o : o # item.order => ItemsOf(o)' = ItemsOf(o) /\ ItemTotal(o)' = ItemTotal(o)
<1> DEFINE n == Len(items)
           f == [i \in DOMAIN items |-> items[i].amount]
           g == [i \in DOMAIN items' |-> items'[i].amount]
           Item == [order : OrderIds, product : Products, amount : Nat]
<1>1. items \in Seq(Item) /\ item \in Item
  BY DEF RowsOK
<1> HIDE DEF Item
<1>2. n \in Nat /\ DOMAIN items = 1 .. n /\ DOMAIN items' = 1 .. n + 1
      /\ (\A i \in 1 .. n : items'[i] = items[i]) /\ items'[n + 1] = item
  BY <1>1
<1> HIDE DEF n
<1>3. (\A i \in 1 .. n : f[i] \in Int /\ g[i] = f[i]) /\ g[n + 1] = item.amount /\ item.amount \in Int
  BY <1>2, AmountsAreNumbers
<1> HIDE DEF f, g
<1>4. \A o : ItemTotal(o) = SumFunctionOnSet(f, ItemsOf(o)) /\ ItemTotal(o)' = SumFunctionOnSet(g, ItemsOf(o)')
  BY DEF ItemTotal, f, g
<1>5. ASSUME NEW o PROVE IsFiniteSet(ItemsOf(o)) /\ ItemsOf(o) \subseteq 1 .. n
  <2>1. ItemsOf(o) \subseteq DOMAIN items
    BY DEF ItemsOf
  <2> QED BY <1>2, <2>1, AmountsAreNumbers, FS_Subset
<1>6. ASSUME NEW o PROVE SumFunctionOnSet(g, ItemsOf(o)) = SumFunctionOnSet(f, ItemsOf(o))
  BY <1>3, <1>5, SumOfSame
<1>7. ASSUME NEW o, o # item.order PROVE ItemsOf(o)' = ItemsOf(o)
  BY <1>2, <1>7 DEF ItemsOf
<1>8. ItemTotal(item.order)' = ItemTotal(item.order) + item.amount
  <2> DEFINE old == ItemsOf(item.order)
             new == ItemsOf(item.order)'
  <2>1. new = old \cup {n + 1} /\ n + 1 \notin old
    BY <1>2 DEF ItemsOf
  <2>2. IsFiniteSet(old) /\ old \subseteq 1 .. n
    BY <1>5
  <2> HIDE DEF old, new
  <2>3. IsFiniteSet(new) /\ new \ {n + 1} = old
    BY <2>1, <2>2, FS_AddElement
  <2>4. \A i \in new : g[i] \in Int
    BY <1>3, <2>1, <2>2
  <2>5. SumFunctionOnSet(g, new) = g[n + 1] + SumFunctionOnSet(g, new \ {n + 1})
    BY <2>1, <2>3, <2>4, SumOfMore
  <2>6. SumFunctionOnSet(g, old) = SumFunctionOnSet(f, old) /\ SumFunctionOnSet(f, old) \in Int
    BY <1>3, <1>6, <2>2, SumOfMore DEF old
  <2> DEFINE a == SumFunctionOnSet(f, old)
  <2>7. SumFunctionOnSet(g, new) = item.amount + a
    BY <1>3, <2>3, <2>5, <2>6
  <2>8. a \in Int
    BY <2>6
  <2> HIDE DEF a
  <2>9. item.amount + a = a + item.amount
    BY <1>3, <2>8
  <2>10. ItemTotal(item.order) = a /\ ItemTotal(item.order)' = SumFunctionOnSet(g, new)
    BY <1>4 DEF a, old, new
  <2> QED BY <2>7, <2>9, <2>10
<1> QED BY <1>4, <1>6, <1>7, <1>8

(* Payments that keep their amounts and are booked as they were.  *)
LEMMA ReceivedStays ==
  ASSUME RowsOK, NEW o, Booked(o)' = Booked(o), DOMAIN payments \subseteq DOMAIN payments',
         \A p \in DOMAIN payments : payments'[p].amount = payments[p].amount
  PROVE  Received(o)' = Received(o)
<1> DEFINE f == [p \in DOMAIN payments |-> payments[p].amount]
           g == [p \in DOMAIN payments' |-> payments'[p].amount]
<1>1. IsFiniteSet(Booked(o)) /\ Booked(o) \subseteq DOMAIN payments
  <2>1. Booked(o) \subseteq DOMAIN payments
    BY DEF Booked
  <2> QED BY <2>1, AmountsAreNumbers, FS_Subset
<1>2. \A p \in Booked(o) : f[p] \in Int /\ f[p] = g[p]
  BY <1>1, AmountsAreNumbers
<1>3. Received(o) = SumFunctionOnSet(f, Booked(o)) /\ Received(o)' = SumFunctionOnSet(g, Booked(o)')
  BY DEF Received
<1> HIDE DEF f, g
<1>4. SumFunctionOnSet(f, Booked(o)) = SumFunctionOnSet(g, Booked(o))
  BY <1>1, <1>2, SumOfSame
<1> QED BY <1>3, <1>4

(* A payment that is booked is received.  *)
LEMMA ReceivedMore ==
  ASSUME RowsOK, NEW o, NEW p \in DOMAIN payments, p \notin Booked(o), Booked(o)' = Booked(o) \cup {p},
         UNCHANGED payments
  PROVE  Received(o)' = Received(o) + payments[p].amount
<1> DEFINE f == [q \in DOMAIN payments |-> payments[q].amount]
           old == Booked(o)
           new == Booked(o)'
<1>1. IsFiniteSet(old) /\ old \subseteq DOMAIN payments
  <2>1. Booked(o) \subseteq DOMAIN payments
    BY DEF Booked
  <2> QED BY <2>1, AmountsAreNumbers, FS_Subset
<1>2. \A q \in DOMAIN payments : f[q] \in Int
  BY AmountsAreNumbers
<1>3. Received(o) = SumFunctionOnSet(f, old) /\ Received(o)' = SumFunctionOnSet(f, new) /\ f[p] = payments[p].amount
  BY DEF Received
<1>4. new = old \cup {p} /\ p \notin old
  OBVIOUS
<1> HIDE DEF f, old, new
<1>5. IsFiniteSet(new) /\ new \ {p} = old /\ p \in new /\ \A q \in new : f[q] \in Int
  BY <1>1, <1>2, <1>4, FS_AddElement
<1>6. SumFunctionOnSet(f, new) = f[p] + SumFunctionOnSet(f, new \ {p})
  BY <1>5, SumOfMore
<1>7. SumFunctionOnSet(f, old) \in Int /\ f[p] \in Int
  BY <1>1, <1>2, SumOfMore
<1> DEFINE a == SumFunctionOnSet(f, old)
<1>8. SumFunctionOnSet(f, new) = f[p] + a
  BY <1>5, <1>6
<1>9. a \in Int
  BY <1>7
<1> HIDE DEF a
<1>10. f[p] + a = a + f[p]
  BY <1>7, <1>9
<1> QED BY <1>3, <1>8, <1>10 DEF a

(* An order no payment of which is booked has received nothing.  *)
LEMMA NothingReceived == \A o : Booked(o) = {} => Received(o) = 0
BY SumOfNone DEF Received
(* An order without items comes to nothing.  *)
LEMMA NothingOrdered == \A o : ItemsOf(o) = {} => ItemTotal(o) = 0
BY SumOfNone DEF ItemTotal

-----------------------------------------------------------------------------
(* What one step leaves to the plans of the others.                           *)

OrderingInv == TypesInv /\ TablesInv /\ PlansInv /\ MoneyIsBooked

(* Money is under way when a worker has it.  *)
Flies(p) == \E w \in Workers : Taken(task[w]) /\ Reading(task[w]).paypal = p

FlightIsWork == \A p : InFlight(p) <=> Flies(p)

(* The two ways to say it agree.  *)
LEMMA Flight == WorkOK => FlightIsWork
<1> SUFFICES ASSUME WorkOK, NEW p PROVE InFlight(p) <=> Flies(p)
  BY DEF FlightIsWork
<1>1. ASSUME NEW w \in Workers, At(w, "captured") \/ At(w, "book"), Now(w).paypal = p
      PROVE  Taken(task[w]) /\ Reading(task[w]).paypal = p
  BY <1>1, KindAt DEF Taken
<1>2. ASSUME NEW w \in Workers, Taken(task[w]), Reading(task[w]).paypal = p
      PROVE  (At(w, "captured") \/ At(w, "book")) /\ Now(w).paypal = p
  BY <1>2, KindsApart DEF Taken, At, Now, Idle, Stores, Books
<1> QED BY <1>1, <1>2 DEF InFlight, Flies

(* No order loses its row or a total it has, and no payment what it was opened and
   captured for.                                                                    *)
Steady ==
  /\ \A o \in DOMAIN orders :
       o \in DOMAIN orders' /\ (orders[o].total > 0 => orders'[o].total = orders[o].total)
  /\ \A p \in DOMAIN payments :
       /\ p \in DOMAIN payments' /\ payments'[p].order = payments[p].order
       /\ payments'[p].amount = payments[p].amount
       /\ payments[p].status = "captured" => payments'[p].status = "captured"
  /\ \A q \in DOMAIN taken : q \in DOMAIN taken' /\ taken'[q] = taken[q]
  /\ next'.order >= next.order /\ next'.payment >= next.payment
  /\ crossed \subseteq crossed'

(* Order o is filled as before.  *)
SameFill(o) ==
  /\ o \in DOMAIN orders' <=> o \in DOMAIN orders
  /\ ItemsOf(o)' = ItemsOf(o) /\ ItemTotal(o)' = ItemTotal(o)
  /\ o \in DOMAIN orders => orders'[o].total = orders[o].total

(* The step leaves what plan t relies on.  *)
Spares(t) ==
  /\ Submits(t) => SameFill(t[1].order)
  /\ Opening(t) => t[1].payment \notin DOMAIN payments'
  /\ Confirms(t) => (\/ Reading(t).order \in crossed'
                     \/ /\ orders'[Reading(t).order].paid = orders[Reading(t).order].paid
                        /\ Booked(Reading(t).order)' = Booked(Reading(t).order))
  /\ Taken(t) => (Reading(t).paypal \notin cut' \/ Reading(t).paypal \in cut)

(* Every order has the payments booked that it had.  *)
SameBooks == \A o : Booked(o)' = Booked(o)

(* A plan that is left what it relies on fits as it did.  *)
LEMMA FitsStill ==
  ASSUME RowsOK, NextOK, NextOK', TablesInv, NEW t, PlanFits(t), Steady, Spares(t)
  PROVE  PlanFits(t)'
<1>1. next'.order \in Nat /\ next.order \in Nat /\ next'.payment \in Nat /\ next.payment \in Nat
  BY DEF NextOK
<1>2. FillFits(t)'
  <2>1. CASE Submitting(t)
    <3>1. t[1].order \in Nat /\ ~Filling(t)
      BY <2>1, KindsApart DEF NewOrders, OrderIds
    <3> QED BY <1>1, <2>1, <3>1 DEF FillFits, PlanFits, Spares, Submits, SameFill, Steady
  <2>2. CASE Filling(t)
    <3>1. t[1].order \in Nat /\ ~Submitting(t)
      BY <2>2, KindsApart DEF Fills, OrderIds
    <3> QED BY <1>1, <2>2, <3>1 DEF FillFits, PlanFits, Spares, Submits, SameFill, Steady
  <2> QED BY <2>1, <2>2 DEF FillFits
<1>3. OpenFits(t)'
  <2> SUFFICES ASSUME Opening(t) PROVE OpenFits(t)'
    BY DEF OpenFits
  <2>1. t[1].payment \in Nat
    BY KindsApart DEF Checkouts, PaymentIds
  <2>2. t[1].row.amount > 0 => orders'[t[1].row.order].total > 0
    BY DEF OpenFits, PlanFits, Steady
  <2> QED BY <1>1, <2>1, <2>2 DEF OpenFits, PlanFits, Spares, Steady
<1>4. ConfirmFits(t)'
  <2> SUFFICES ASSUME Confirms(t) PROVE ConfirmFits(t)'
    BY DEF ConfirmFits, Confirms, Taken
  <2> DEFINE p == Reading(t).payment
             q == Reading(t).paypal
             o == Reading(t).order
  <2>1. /\ p \in DOMAIN payments /\ payments[p].order = o /\ q \in DOMAIN payments
        /\ o \in DOMAIN orders /\ orders[o].total > 0
    BY DEF PlanFits, ConfirmFits, TablesInv
  <2>2. Reading(t).read.total = orders'[o].total
        /\ (o \in crossed' \/ (Reading(t).read.paid = orders'[o].paid /\ p \notin Booked(o)'))
    BY <2>1 DEF PlanFits, ConfirmFits, Steady, Spares
  <2>3. p \in DOMAIN payments' /\ q \in DOMAIN payments' /\ payments'[p].order = o
    BY <2>1 DEF Steady
  <2>4. Taken(t) => q \in DOMAIN taken' /\ q \notin cut' /\ taken'[q] = p
    BY DEF PlanFits, ConfirmFits, Spares, Steady
  <2>5. Booking(t) => payments'[p].status = "captured"
    BY <2>1 DEF PlanFits, ConfirmFits, Steady
  <2> QED BY <2>2, <2>3, <2>4, <2>5 DEF ConfirmFits
<1> QED BY <1>2, <1>3, <1>4 DEF PlanFits

(* A plan without orders and payments fits and is apart from all the others.  *)
LEMMA QuietFits ==
  ASSUME NEW t, QuietPlan(t)
  PROVE  PlanFits(t)' /\ \A u : PlansApart(t, u)' /\ PlansApart(u, t)'
<1>1. ~Submits(t) /\ ~Opening(t) /\ ~Confirms(t) /\ ~Taken(t) /\ ~Submitting(t) /\ ~Filling(t) /\ ~Storing(t) /\ ~Booking(t)
  BY KindsApart DEF Submits, Confirms, Taken
<1> QED BY <1>1 DEF PlanFits, FillFits, OpenFits, ConfirmFits, PlansApart

(* Worker w goes on with t, apart from the others, and spares their plans.  *)
LEMMA PlansMove ==
  ASSUME TypesInv, NextOK', TablesInv, PlansInv, Steady, NEW w \in Workers, NEW t, Goes(w, t), PlanFits(t)',
         \A v \in Workers : \A u : v # w /\ u = task[v] => Spares(u) /\ PlansApart(t, u)'
  PROVE  PlansInv'
<1>1. RowsOK /\ NextOK /\ DOMAIN task = Workers
  BY TypesInParts DEF TypesInv
<1>2. task'[w] = t /\ \A v \in Workers : v # w => task'[v] = task[v]
  BY <1>1 DEF Goes
<1>3. ASSUME NEW v \in Workers PROVE PlanFits(task[v])'
  <2>1. PICK u : u = task'[v]
    OBVIOUS
  <2>2. CASE v # w
    <3>1. u = task[v] /\ PlanFits(u) /\ Spares(u)
      BY <1>2, <2>1, <2>2 DEF PlansInv
    <3>2. PlanFits(u)'
      BY <1>1, <3>1, FitsStill
    <3> QED BY <2>1, <3>2
  <2>3. CASE v = w
    BY <1>2, <2>3
  <2> QED BY <2>2, <2>3
<1>4. ASSUME NEW v \in Workers, NEW u \in Workers, v # u PROVE PlansApart(task[v], task[u])'
  <2>1. PICK a, b : a = task'[v] /\ b = task'[u]
    OBVIOUS
  <2>2. PlansApart(a, b)'
    <3>1. CASE v = w
      BY <1>2, <1>4, <2>1, <3>1
    <3>2. CASE u = w
      <4>1. PlansApart(b, a)'
        BY <1>2, <1>4, <2>1, <3>2
      <4> QED BY <4>1 DEF PlansApart
    <3>3. CASE v # w /\ u # w
      <4>1. PlansApart(a, b)
        BY <1>2, <1>4, <2>1, <3>3 DEF PlansInv
      <4> QED BY <4>1 DEF PlansApart, Steady
    <3> QED BY <3>1, <3>2, <3>3
  <2> QED BY <2>1, <2>2
<1> QED BY <1>3, <1>4 DEF PlansInv

(* Money under way with other workers than w.  *)
Apart(w, p) == \E v \in Workers : v # w /\ Taken(task[v]) /\ Reading(task[v]).paypal = p

(* Where the money is when worker w goes on with t.  *)
LEMMA FlightMoves ==
  ASSUME WorkOK, WorkOK', NEW w \in Workers, NEW t, Goes(w, t), NEW p
  PROVE  /\ InFlight(p) <=> Apart(w, p) \/ (Taken(task[w]) /\ Reading(task[w]).paypal = p)
         /\ InFlight(p)' <=> Apart(w, p) \/ (Taken(t) /\ Reading(t).paypal = p)
<1>1. InFlight(p) <=> Flies(p)
  BY Flight DEF FlightIsWork
<1>2. InFlight(p)' <=> Flies(p)'
  <2>1. FlightIsWork'
    BY Flight, PTL
  <2> QED BY <2>1 DEF FlightIsWork
<1>3. task'[w] = t /\ \A v \in Workers : v # w => task'[v] = task[v]
  BY DEF Goes, WorkOK, RequestsOK
<1> QED BY <1>1, <1>2, <1>3 DEF Flies, Apart

(* The tables that orders and payments are in, and what is noted of them.  *)
Ledger == <<orders, items, payments, provider, taken, cut>>

(* Payments are booked as they were where none is made, no PayPal order is captured
   and what is under way stays so.                                                *)
LEMMA BooksStay ==
  ASSUME UNCHANGED <<taken, cut>>, DOMAIN payments' = DOMAIN payments,
         \A p \in DOMAIN payments : payments'[p].order = payments[p].order,
         \A q : InFlight(q)' <=> InFlight(q)
  PROVE  SameBooks
BY DEF SameBooks, Booked

(* A step that leaves them alone leaves every plan what it relies on.  *)
LEMMA LedgerStill ==
  ASSUME RowsOK, NextOK, NextOK', TablesInv, UNCHANGED Ledger, SameBooks, crossed \subseteq crossed',
         next'.order >= next.order, next'.payment >= next.payment
  PROVE  TablesInv' /\ Steady /\ \A t : PlanFits(t) => Spares(t)
<1>1. next'.order \in Nat /\ next.order \in Nat /\ next'.payment \in Nat /\ next.payment \in Nat
  BY DEF NextOK
<1>2. \A o : ItemTotal(o)' = ItemTotal(o) /\ ItemsOf(o)' = ItemsOf(o)
  BY DEF ItemTotal, ItemsOf, Ledger
<1>3. Steady
  BY <1>1 DEF Steady, Ledger
<1>4. ASSUME NEW t, PlanFits(t) PROVE Spares(t)
  BY <1>2, <1>4 DEF Spares, SameFill, SameBooks, PlanFits, OpenFits, Ledger
<1>5. TablesInv'
  <2>1. (\A o \in DOMAIN orders : o \in Nat) /\ (\A p \in DOMAIN payments : p \in Nat)
        /\ \A i \in DOMAIN items : items[i].order \in Nat
    <3> DEFINE Item == [order : OrderIds, product : Products, amount : Nat]
    <3>1. items \in Seq(Item)
      BY DEF RowsOK
    <3>2. \A i \in DOMAIN items : items[i] \in Item
      <4> HIDE DEF Item
      <4> QED BY <3>1
    <3> QED BY <3>2 DEF RowsOK, Rows, OrderIds, PaymentIds
  <2>2. ASSUME NEW o \in DOMAIN orders' PROVE
          /\ o < next'.order
          /\ orders'[o].total > 0 => orders'[o].total = ItemTotal(o)'
          /\ orders'[o].status = "paid" => (orders'[o].total > 0 /\ orders'[o].paid >= orders'[o].total)
    BY <1>1, <1>2, <2>1 DEF TablesInv, Ledger
  <2>3. \A i \in DOMAIN items' : items'[i].order < next'.order
    BY <1>1, <2>1 DEF TablesInv, Ledger
  <2>4. ASSUME NEW p \in DOMAIN payments'
        PROVE  p < next'.payment /\ payments'[p].order \in DOMAIN orders' /\ orders'[payments'[p].order].total > 0
    BY <1>1, <2>1 DEF TablesInv, Ledger
  <2>5. /\ \A q \in DOMAIN taken' : /\ q \in DOMAIN payments' /\ provider'[q] = "captured"
                                     /\ taken'[q] \in DOMAIN payments'
        /\ cut' \subseteq DOMAIN taken'
    BY DEF TablesInv, Ledger
  <2> QED BY <2>2, <2>3, <2>4, <2>5 DEF TablesInv
<1> QED BY <1>3, <1>4, <1>5

(* Money stays booked where neither the tables nor what is under way changes.  *)
LEMMA MoneyStill ==
  ASSUME RowsOK, MoneyIsBooked, UNCHANGED <<payments, taken, cut>>, crossed \subseteq crossed',
         DOMAIN orders' = DOMAIN orders, \A o \in DOMAIN orders : orders'[o].paid = orders[o].paid,
         \A p : InFlight(p)' <=> InFlight(p)
  PROVE  MoneyIsBooked'
<1>1. ASSUME NEW o PROVE Received(o)' = Received(o)
  <2>1. Booked(o)' = Booked(o)
    BY BooksStay DEF SameBooks
  <2> QED BY <2>1, ReceivedStays
<1> QED BY <1>1 DEF MoneyIsBooked

(* A worker that had no money goes on with a plan without any.  *)
LEMMA LedgerStillMoves ==
  ASSUME OrderingInv, NextOK', NEW w \in Workers, NEW t, PlanOK(t), Goes(w, t), UNCHANGED load \/ Start(w, t),
         RowsOK', UNCHANGED Ledger, crossed \subseteq crossed', next'.order >= next.order, next'.payment >= next.payment,
         ~Taken(task[w]), ~Taken(t), PlanFits(t)',
         \A v \in Workers : \A u : v # w /\ u = task[v] => PlansApart(t, u)'
  PROVE  OrderingInv'
<1>1. RowsOK /\ NextOK /\ WorkOK /\ TablesInv /\ PlansInv /\ MoneyIsBooked /\ TypesInv
  BY TypesInParts DEF OrderingInv
<1>2. WorkOK'
  BY <1>1, WorkMoves
<1>3. TypesInv'
  BY <1>2, TypesInParts, PTL
<1>4. (\A p : InFlight(p)' <=> InFlight(p)) /\ SameBooks
  <2>1. \A p : InFlight(p)' <=> InFlight(p)
    BY <1>1, <1>2, FlightMoves
  <2> QED BY <2>1, BooksStay DEF Ledger
<1>5. TablesInv' /\ Steady /\ \A u : PlanFits(u) => Spares(u)
  BY <1>1, <1>4, LedgerStill
<1>6. PlansInv'
  <2>1. ASSUME NEW v \in Workers, NEW u, v # w, u = task[v] PROVE Spares(u) /\ PlansApart(t, u)'
    BY <1>1, <1>5, <2>1 DEF PlansInv
  <2> QED BY <1>1, <1>5, <2>1, PlansMove
<1>7. MoneyIsBooked'
  BY <1>1, <1>4, MoneyStill DEF Ledger
<1> QED BY <1>3, <1>5, <1>6, <1>7 DEF OrderingInv

(* In particular with a plan that touches neither orders nor payments.  *)
LEMMA QuietMoves ==
  ASSUME OrderingInv, NextOK', NEW w \in Workers, NEW t, QuietPlan(t), Goes(w, t), UNCHANGED load \/ Start(w, t),
         RowsOK', UNCHANGED Ledger, crossed \subseteq crossed', next'.order >= next.order, next'.payment >= next.payment,
         ~Taken(task[w])
  PROVE  OrderingInv'
<1>1. PlanOK(t) /\ ~Taken(t) /\ PlanFits(t)' /\ \A u : PlansApart(t, u)'
  BY KindsApart, QuietFits DEF PlanOK, Taken
<1> QED BY <1>1, LedgerStillMoves

-----------------------------------------------------------------------------
(* Requests.                                                                  *)

(* A worker that starts had nothing to do.  *)
LEMMA StartsIdle ==
  ASSUME NEW w \in Workers, NEW t, Start(w, t)
  PROVE  Goes(w, t) /\ task[w] = <<>> /\ ~Taken(task[w]) /\ ~Submits(task[w]) /\ ~Opening(task[w]) /\ ~Confirms(task[w])
<1>1. task[w] = <<>> /\ Goes(w, t)
  BY DEF Start, Ready, Idle, Goes
<1> QED BY <1>1, KindsApart DEF Taken, Submits, Confirms

(* The ids that are next are above all those in use.  *)
LEMMA NextIsNew ==
  ASSUME OrderingInv
  PROVE  /\ next.order \notin DOMAIN orders /\ ItemsOf(next.order) = {} /\ next.payment \notin DOMAIN payments
         /\ \A w \in Workers : /\ Submits(task[w]) => task[w][1].order < next.order
                               /\ Opening(task[w]) => task[w][1].payment < next.payment
<1>1. NextOK /\ TablesInv /\ PlansInv
  BY TypesInParts DEF OrderingInv
<1>2. next.order \in Nat /\ next.payment \in Nat
  BY <1>1 DEF NextOK
<1>3. next.order \notin DOMAIN orders /\ ItemsOf(next.order) = {} /\ next.payment \notin DOMAIN payments
  BY <1>1, <1>2 DEF TablesInv, ItemsOf
<1>4. \A w \in Workers : PlanFits(task[w])
  BY <1>1 DEF PlansInv
<1> QED BY <1>3, <1>4 DEF PlanFits, FillFits, OpenFits, Submits

(* Requests that need no order and no payment.  *)
LEMMA QuietRequestKeeps ==
  ASSUME OrderingInv, NEW w \in Workers, QuietRequest(w),
         UNCHANGED <<codes, sessions, expired, menu, orders, items, payments, provider, taken, cut, crossed>>
  PROVE  OrderingInv'
<1>1. RowsOK /\ NextOK
  BY TypesInParts DEF OrderingInv
<1>2. PICK t : QuietPlan(t) /\ Start(w, t)
  BY <1>1, QuietRequestsFit
<1>3. NextOK' /\ next'.order >= next.order /\ next'.payment >= next.payment
  BY <1>1, QuietRequestsFit DEF NextGoes, NextOK
<1>4. RowsOK'
  BY <1>1 DEF RowsOK
<1>5. Goes(w, t) /\ ~Taken(task[w])
  BY <1>2, StartsIdle
<1> QED BY <1>2, <1>3, <1>4, <1>5, QuietMoves DEF Ledger

(* A submission has an order of its own.  *)
LEMMA SubmitKeeps ==
  ASSUME OrderingInv, NEW w \in Workers, NEW s \in DOMAIN sessions, SubmitOrder(w, s),
         UNCHANGED <<codes, sessions, expired, menu, orders, items, payments, provider, taken, cut, crossed>>
  PROVE  OrderingInv'
<1>1. RowsOK /\ NextOK
  BY TypesInParts DEF OrderingInv
<1>2. PICK t : Submitting(t) /\ t[1].order = next.order /\ Start(w, t)
  BY <1>1, SubmitFits
<1>3. NextOK' /\ next.order \in Nat /\ next'.order = next.order + 1 /\ next'.payment >= next.payment
  BY <1>1, SubmitFits DEF NextGoes, NextOK
<1>4. RowsOK'
  BY <1>1 DEF RowsOK
<1>5. Goes(w, t) /\ ~Taken(task[w])
  BY <1>2, StartsIdle
<1>6. PlanOK(t) /\ ~Filling(t) /\ ~Opening(t) /\ ~Confirms(t) /\ ~Taken(t) /\ ~Storing(t) /\ ~Booking(t)
  BY <1>2, KindsApart DEF PlanOK, Confirms, Taken
<1>7. PlanFits(t)'
  <2>1. t[1].order \notin DOMAIN orders /\ ItemsOf(t[1].order) = {}
    BY <1>2, NextIsNew
  <2>2. t[1].order \notin DOMAIN orders' /\ ItemsOf(t[1].order)' = {}
    BY <2>1 DEF ItemsOf
  <2> QED BY <1>2, <1>3, <1>6, <2>2 DEF PlanFits, FillFits, OpenFits, ConfirmFits
<1>8. ASSUME NEW v \in Workers, NEW u, v # w, u = task[v] PROVE PlansApart(t, u)'
  <2>1. Submits(u) => u[1].order < next.order
    BY <1>8, NextIsNew
  <2> QED BY <1>2, <1>3, <1>6, <2>1 DEF PlansApart
<1> QED BY <1>2, <1>3, <1>4, <1>5, <1>6, <1>7, <1>8, LedgerStillMoves DEF Ledger

(* A payment is opened under an id of its own, for an order with the total it has now.  *)
LEMMA InitiateKeeps ==
  ASSUME OrderingInv, NEW w \in Workers, NEW s \in DOMAIN sessions, NEW by \in Providers, InitiatePayment(w, s, by),
         UNCHANGED <<codes, sessions, expired, menu, orders, items, payments, provider, taken, cut, crossed>>
  PROVE  OrderingInv'
<1>1. RowsOK /\ NextOK
  BY TypesInParts DEF OrderingInv
<1>2. PICK t : /\ Opening(t) /\ t[1].payment = next.payment /\ t[1].row.status = "pending"
               /\ t[1].row.order \in DOMAIN orders /\ t[1].row.amount = orders[t[1].row.order].total
               /\ Start(w, t)
  BY <1>1, InitiateFits
<1>3. NextOK' /\ next.payment \in Nat /\ next'.payment = next.payment + 1 /\ next'.order >= next.order
  BY <1>1, InitiateFits DEF NextGoes, NextOK
<1>4. RowsOK'
  BY <1>1 DEF RowsOK
<1>5. Goes(w, t) /\ ~Taken(task[w])
  BY <1>2, StartsIdle
<1>6. PlanOK(t) /\ ~Filling(t) /\ ~Submitting(t) /\ ~Submits(t) /\ ~Confirms(t) /\ ~Taken(t) /\ ~Storing(t) /\ ~Booking(t)
  BY <1>2, KindsApart DEF PlanOK, Confirms, Taken, Submits
<1>7. PlanFits(t)'
  <2>1. next.payment \notin DOMAIN payments'
    BY NextIsNew
  <2> QED BY <1>2, <1>3, <1>6, <2>1 DEF PlanFits, FillFits, OpenFits, ConfirmFits
<1>8. ASSUME NEW v \in Workers, NEW u, v # w, u = task[v] PROVE PlansApart(t, u)'
  <2>1. Opening(u) => u[1].payment < next.payment
    BY <1>8, NextIsNew
  <2> QED BY <1>2, <1>3, <1>6, <2>1 DEF PlansApart
<1> QED BY <1>2, <1>3, <1>4, <1>5, <1>6, <1>7, <1>8, LedgerStillMoves DEF Ledger

(* Who reads an order that another confirmation has read is noted.  *)
LEMMA ConfirmKeeps ==
  ASSUME OrderingInv, NEW w \in Workers, NEW p \in DOMAIN payments, NEW q \in DOMAIN payments, ConfirmPayment(w, p, q)
  PROVE  OrderingInv'
<1>1. RowsOK /\ NextOK /\ WorkOK /\ TablesInv /\ PlansInv /\ MoneyIsBooked
  BY TypesInParts DEF OrderingInv
<1> DEFINE o == payments[p].order
           c == [do |-> "capture", payment |-> p, paypal |-> q, order |-> o, read |-> orders[o]]
<1>2. payments[p].status = "pending" /\ Start(w, <<c>>) /\ UNCHANGED <<rows, cut>>
      /\ crossed' = IF \E v \in Workers : Confirming(v, o) THEN crossed \cup {o} ELSE crossed
  BY DEF ConfirmPayment
<1>3. p \in PaymentIds /\ q \in PaymentIds /\ o \in OrderIds /\ o \in DOMAIN orders /\ orders[o] \in Order
  BY <1>1 DEF RowsOK, Rows, TablesInv, Payment
<1>4. c \in Captures /\ c.payment = p /\ c.paypal = q /\ c.order = o /\ c.read = orders[o]
  BY <1>3 DEF Captures
<1> HIDE DEF c, o
<1>5. PICK t : t = <<c>>
  OBVIOUS
<1>6. Capturing(t) /\ Reading(t) = c /\ PlanOK(t) /\ ~Submits(t) /\ ~Opening(t) /\ ~Storing(t) /\ ~Booking(t) /\ ~Taken(t)
      /\ ~Submitting(t) /\ ~Filling(t) /\ Confirms(t)
  <2>1. Capturing(t) /\ Reading(t) = c
    BY <1>4, <1>5 DEF Capturing, Reading
  <2> QED BY <2>1, KindsApart DEF PlanOK, Submits, Taken, Confirms
<1>7. Goes(w, t) /\ Start(w, t) /\ ~Taken(task[w])
  BY <1>2, <1>5, StartsIdle
<1>8. crossed \subseteq crossed' /\ crossed' \subseteq OrderIds /\ UNCHANGED Ledger /\ UNCHANGED next
  BY <1>1, <1>2, <1>3 DEF RowsOK, Ledger, rows
<1>9. RowsOK' /\ NextOK' /\ next'.order >= next.order /\ next'.payment >= next.payment
  BY <1>1, <1>2, <1>8 DEF RowsOK, rows, NextOK
<1>10. PlanFits(t)'
  <2>1. p \in DOMAIN payments' /\ q \in DOMAIN payments' /\ payments'[p].order = o
        /\ c.read.total = orders'[o].total /\ c.read.paid = orders'[o].paid
    BY <1>2, <1>4, <1>8 DEF Ledger, o
  <2>2. PICK k : k = o
    OBVIOUS
  <2>3. p \notin Booked(k)'
    <3>1. p \notin Booked(k)
      BY <1>1, <1>2 DEF Booked, MoneyIsBooked
    <3>2. WorkOK'
      BY <1>1, <1>6, <1>7, WorkMoves
    <3>3. \A i : InFlight(i)' <=> InFlight(i)
      BY <1>1, <1>6, <1>7, <3>2, FlightMoves
    <3>4. Booked(k)' = Booked(k)
      BY <1>8, <3>3, BooksStay DEF SameBooks, Ledger
    <3> QED BY <3>1, <3>4
  <2>4. Reading(t).order = k /\ Reading(t).payment = p /\ Reading(t).paypal = q /\ Reading(t).read.total = orders'[k].total
        /\ Reading(t).read.paid = orders'[k].paid /\ payments'[p].order = k
    BY <1>4, <1>6, <2>1, <2>2
  <2>5. ConfirmFits(t)'
    BY <1>6, <2>1, <2>3, <2>4 DEF ConfirmFits
  <2> QED BY <1>6, <2>5 DEF PlanFits, FillFits, OpenFits
<1>11. ASSUME NEW v \in Workers, NEW u, v # w, u = task[v] PROVE PlansApart(t, u)'
  <2>1. ASSUME Confirms(u), Reading(u).order = o PROVE o \in crossed'
    <3>1. CASE Taken(u)
      <4>1. Reading(u).do = "book" /\ Len(u) \in DOMAIN u /\ Reading(u) = u[Len(u)]
        <5>1. CASE Storing(u)
          <6>1. Len(u) = 2 /\ 2 \in DOMAIN u
            BY <5>1 DEF Storing
          <6> QED BY <5>1, <6>1, KindsApart DEF Reading, Books
        <5>2. CASE Booking(u)
          <6>1. Len(u) = 1 /\ 1 \in DOMAIN u
            BY <5>2 DEF Booking
          <6> QED BY <5>2, <6>1, KindsApart DEF Reading, Books
        <5> QED BY <3>1, <5>1, <5>2 DEF Taken
      <4>2. Confirming(v, o)
        BY <1>11, <2>1, <4>1 DEF Confirming
      <4> QED BY <1>2, <4>2
    <3>2. CASE Capturing(u)
      <4>1. Reading(u).do = "capture" /\ Len(u) \in DOMAIN u /\ Reading(u) = u[Len(u)]
        BY <3>2 DEF Capturing, Captures, Reading
      <4>2. Confirming(v, o)
        BY <1>11, <2>1, <4>1 DEF Confirming
      <4> QED BY <1>2, <4>2
    <3> QED BY <2>1, <3>1, <3>2 DEF Confirms, Taken
  <2> QED BY <1>4, <1>6, <2>1 DEF PlansApart
<1> QED BY <1>6, <1>7, <1>8, <1>9, <1>10, <1>11, LedgerStillMoves

-----------------------------------------------------------------------------
(* Statements.                                                                *)

(* What has to be seen of a statement: the tables, its own plan, and the others'.  *)
LEMMA StatementMoves ==
  ASSUME OrderingInv, RowsOK', UNCHANGED next, UNCHANGED load, NEW w \in Workers, NEW t, PlanOK(t), Goes(w, t),
         TablesInv', Steady, PlanFits(t)', MoneyIsBooked',
         \A v \in Workers : \A u : v # w /\ u = task[v] => Spares(u) /\ PlansApart(t, u)'
  PROVE  OrderingInv'
<1>1. RowsOK /\ NextOK /\ WorkOK /\ TypesInv /\ TablesInv /\ PlansInv
  BY TypesInParts DEF OrderingInv
<1>2. WorkOK'
  BY <1>1, WorkMoves
<1>3. NextOK'
  BY <1>1 DEF NextOK
<1>4. TypesInv'
  BY <1>2, <1>3, TypesInParts, PTL
<1>5. PlansInv'
  BY <1>1, <1>3, PlansMove
<1> QED BY <1>4, <1>5 DEF OrderingInv

(* A plan that goes on with what it was about is apart from the others as it was.  *)
LEMMA GoesOnApart ==
  ASSUME OrderingInv, NEW w \in Workers, NEW s, s = task[w], NEW t, crossed \subseteq crossed',
         Submits(t) => Submits(s) /\ t[1].order = s[1].order,
         ~Opening(t),
         Taken(t) => Taken(s) /\ Reading(t).paypal = Reading(s).paypal,
         Confirms(t) => Confirms(s) /\ Reading(t).order = Reading(s).order
  PROVE  \A v \in Workers : \A u : v # w /\ u = task[v] => PlansApart(t, u)'
<1>1. ASSUME NEW v \in Workers, NEW u, v # w, u = task[v] PROVE PlansApart(s, u)
  BY <1>1 DEF OrderingInv, PlansInv
<1> QED BY <1>1 DEF PlansApart

(* A request that goes wrong, or is over, and had no money.  *)
LEMMA EndKeeps ==
  ASSUME OrderingInv, NEW w \in Workers, NEW t, QuietPlan(t), Goes(w, t), UNCHANGED load,
         RowsOK', UNCHANGED <<next, crossed>>, UNCHANGED Ledger, ~Taken(task[w])
  PROVE  OrderingInv'
<1>1. NextOK /\ NextOK' /\ next'.order >= next.order /\ next'.payment >= next.payment
  BY TypesInParts DEF OrderingInv, NextOK
<1> QED BY <1>1, QuietMoves

(* Codes and sessions.  *)
LEMMA CodesKeep ==
  ASSUME OrderingInv, NEW w \in Workers, StoreCode(w) \/ StoreSession(w)
  PROVE  OrderingInv'
<1>1. RowsOK /\ WorkOK
  BY TypesInParts DEF OrderingInv
<1>2. RowsOK'
  <2>1. ~BookOrder(w)
    BY DEF StoreCode, StoreSession, BookOrder, At
  <2> QED BY <1>1, <2>1, StatementRows DEF Statement
<1>3. QuietPlan(task[w]) /\ QuietPlan(Tail(task[w])) /\ QuietPlan(<<>>)
  BY <1>1, KindAt, NothingLeft DEF StoreCode, StoreSession
<1>4. ~Taken(task[w])
  BY <1>3, KindsApart DEF Taken
<1>5. UNCHANGED <<next, crossed>> /\ UNCHANGED Ledger /\ UNCHANGED load /\ (Goes(w, Tail(task[w])) \/ Goes(w, <<>>))
  BY DEF StoreCode, StoreSession, Ledger, Done, Fail, Goes, Idle
<1>6. PICK t : QuietPlan(t) /\ Goes(w, t)
  BY <1>3, <1>5
<1> QED BY <1>2, <1>4, <1>5, <1>6, EndKeeps

(* An order whose session goes is otherwise as it was.  *)
LEMMA DropCodeKeeps ==
  ASSUME OrderingInv, NEW w \in Workers, DropCode(w)
  PROVE  OrderingInv'
<1>1. RowsOK /\ NextOK /\ WorkOK /\ TablesInv /\ PlansInv /\ MoneyIsBooked
  BY TypesInParts DEF OrderingInv
<1>2. RowsOK'
  <2>1. ~BookOrder(w)
    BY DEF DropCode, BookOrder, At
  <2> QED BY <1>1, <2>1, StatementRows DEF Statement
<1>3. QuietPlan(task[w]) /\ QuietPlan(Tail(task[w]))
  BY <1>1, KindAt DEF DropCode
<1>4. UNCHANGED <<next, crossed, items, payments, provider, taken, cut, load>>
  BY DEF DropCode, Done
<1>5. PICK t : t = Tail(task[w])
  OBVIOUS
<1>6. QuietPlan(t) /\ Goes(w, t) /\ PlanOK(t) /\ ~Taken(task[w]) /\ ~Taken(t)
  BY <1>3, <1>5, KindsApart DEF DropCode, Done, Goes, PlanOK, Taken
<1>7. DOMAIN orders' = DOMAIN orders
      /\ \A o \in DOMAIN orders : /\ orders'[o].total = orders[o].total /\ orders'[o].paid = orders[o].paid
                                  /\ orders'[o].status = orders[o].status
  BY DEF DropCode
<1>8. \A o : ItemTotal(o)' = ItemTotal(o) /\ ItemsOf(o)' = ItemsOf(o)
  BY <1>4 DEF ItemTotal, ItemsOf
<1>9. TablesInv'
  <2>1. \A o \in DOMAIN orders' :
           /\ o < next'.order
           /\ orders'[o].total > 0 => orders'[o].total = ItemTotal(o)'
           /\ orders'[o].status = "paid" => (orders'[o].total > 0 /\ orders'[o].paid >= orders'[o].total)
    BY <1>1, <1>4, <1>7, <1>8 DEF TablesInv
  <2> QED BY <1>1, <1>4, <1>7, <2>1 DEF TablesInv
<1>10. Steady
  <2>1. next'.order >= next.order /\ next'.payment >= next.payment
    BY <1>1, <1>4 DEF NextOK
  <2> QED BY <1>4, <1>7, <2>1 DEF Steady
<1>11. PlanFits(t)' /\ \A u : PlansApart(t, u)'
  BY <1>6, QuietFits
<1>12. (\A p : InFlight(p)' <=> InFlight(p)) /\ SameBooks
  <2>1. WorkOK'
    BY <1>1, <1>4, <1>6, WorkMoves
  <2>2. \A p : InFlight(p)' <=> InFlight(p)
    BY <1>1, <1>6, <2>1, FlightMoves
  <2> QED BY <1>4, <2>2, BooksStay
<1>13. \A u : PlanFits(u) => Spares(u)
  <2>1. ASSUME NEW u, PlanFits(u), Confirms(u) PROVE Reading(u).order \in DOMAIN orders
    BY <1>1, <2>1 DEF PlanFits, ConfirmFits, TablesInv
  <2> QED BY <1>4, <1>7, <1>8, <1>12, <2>1 DEF Spares, SameFill, SameBooks, PlanFits, OpenFits
<1>14. MoneyIsBooked'
  BY <1>1, <1>4, <1>7, <1>12, MoneyStill
<1>15. ASSUME NEW v \in Workers, NEW u, v # w, u = task[v] PROVE Spares(u) /\ PlansApart(t, u)'
  BY <1>1, <1>11, <1>13, <1>15 DEF PlansInv
<1> QED BY <1>2, <1>4, <1>6, <1>9, <1>10, <1>11, <1>14, <1>15, StatementMoves

(* The row of a new order, and of one that has its total.  *)
LEMMA StoreOrderKeeps ==
  ASSUME OrderingInv, RowsOK', NEW w \in Workers, NEW o, NEW total \in Nat, NEW row, NEW t,
         Submits(task[w]), task[w][1].order = o, orders' = With(orders, o, row),
         o \in OrderIds, o \in DOMAIN orders => orders[o].total = 0, o < next.order,
         row.total = total, row.paid = 0, row.status = "unpaid", total > 0 => total = ItemTotal(o),
         UNCHANGED <<items, payments, provider, taken, next, cut, crossed, load>>,
         PlanOK(t), Goes(w, t), PlanFits(t)', ~Opening(t), ~Confirms(t), Submits(t) => t[1].order = o
  PROVE  OrderingInv'
<1>1. RowsOK /\ NextOK /\ WorkOK /\ TablesInv /\ PlansInv /\ MoneyIsBooked
  BY TypesInParts DEF OrderingInv
<1>2. orders'[o] = row /\ DOMAIN orders' = DOMAIN orders \cup {o}
      /\ \A i \in DOMAIN orders : i # o => orders'[i] = orders[i]
  BY DEF With
<1>3. \A i : ItemTotal(i)' = ItemTotal(i) /\ ItemsOf(i)' = ItemsOf(i)
  BY DEF ItemTotal, ItemsOf
<1>4. \A p \in DOMAIN payments : payments[p].order # o /\ payments[p].order \in DOMAIN orders
  BY <1>1 DEF TablesInv
<1>5. Steady
  <2>1. next'.order >= next.order /\ next'.payment >= next.payment
    BY <1>1 DEF NextOK
  <2> QED BY <1>2, <2>1 DEF Steady
<1>6. TablesInv'
  <2>1. ASSUME NEW i \in DOMAIN orders'
        PROVE  /\ i < next'.order
               /\ orders'[i].total > 0 => orders'[i].total = ItemTotal(i)'
               /\ orders'[i].status = "paid" => (orders'[i].total > 0 /\ orders'[i].paid >= orders'[i].total)
    <3>1. CASE i = o
      BY <1>2, <1>3, <3>1
    <3>2. CASE i # o
      BY <1>1, <1>2, <1>3, <2>1, <3>2 DEF TablesInv
    <3> QED BY <3>1, <3>2
  <2> QED BY <1>1, <1>2, <1>4, <2>1 DEF TablesInv
<1>7. ~Taken(task[w]) /\ ~Taken(t) /\ (Submits(t) => Submits(task[w]) /\ t[1].order = task[w][1].order)
  BY KindsApart DEF Taken, Submits, Confirms
<1>8. \A v \in Workers : \A u : v # w /\ u = task[v] => PlansApart(t, u)'
  <2>1. PICK s : s = task[w]
    OBVIOUS
  <2> QED BY <1>7, <2>1, GoesOnApart DEF Taken, Confirms
<1>9. WorkOK'
  BY <1>1, WorkMoves
<1>10. (\A p : InFlight(p)' <=> InFlight(p)) /\ SameBooks
  <2>1. \A p : InFlight(p)' <=> InFlight(p)
    BY <1>1, <1>7, <1>9, FlightMoves DEF Taken, Confirms
  <2> QED BY <2>1, BooksStay
<1>11. ASSUME NEW v \in Workers, NEW u, v # w, u = task[v] PROVE Spares(u)
  <2>1. PlanFits(u) /\ PlansApart(task[w], u)
    BY <1>1, <1>11 DEF PlansInv
  <2>2. Submits(u) => SameFill(u[1].order)
    BY <1>2, <1>3, <2>1 DEF PlansApart, SameFill
  <2>3. Confirms(u) => Reading(u).order \in DOMAIN orders /\ Reading(u).order # o
    BY <1>4, <2>1 DEF PlanFits, ConfirmFits
  <2> QED BY <1>2, <1>10, <2>1, <2>2, <2>3 DEF Spares, SameBooks, PlanFits, OpenFits
<1>12. MoneyIsBooked'
  <2>2. ASSUME NEW i PROVE Received(i)' = Received(i)
    BY <1>1, <1>10, ReceivedStays DEF SameBooks
  <2>3. Booked(o) = {}
    BY <1>4 DEF Booked
  <2>4. Received(o) = 0
    BY <2>3, NothingReceived
  <2>5. ASSUME NEW i \in DOMAIN orders' \ crossed' PROVE orders'[i].paid = Received(i)'
    <3>1. CASE i = o
      BY <1>2, <2>2, <2>4, <3>1
    <3>2. CASE i # o
      BY <1>1, <1>2, <2>2, <2>5, <3>2 DEF MoneyIsBooked
    <3> QED BY <3>1, <3>2
  <2> QED BY <1>1, <1>10, <2>5 DEF MoneyIsBooked
<1>13. \A v \in Workers : \A u : v # w /\ u = task[v] => Spares(u) /\ PlansApart(t, u)'
  BY <1>8, <1>11
<1> QED BY <1>5, <1>6, <1>12, <1>13, StatementMoves

(* The order is there, without a total.  *)
LEMMA InsertOrderKeeps ==
  ASSUME OrderingInv, NEW w \in Workers, InsertOrder(w)
  PROVE  OrderingInv'
<1>1. RowsOK /\ NextOK /\ WorkOK /\ TablesInv /\ PlansInv
  BY TypesInParts DEF OrderingInv
<1>2. RowsOK'
  <2>1. ~BookOrder(w)
    BY DEF InsertOrder, BookOrder, At
  <2> QED BY <1>1, <2>1, StatementRows DEF Statement
<1>3. Submitting(task[w]) /\ Filling(Tail(task[w])) /\ Tail(task[w])[1] = task[w][2]
      /\ Now(w) = task[w][1] /\ task[w][1] \in NewOrders
      /\ task[w][2].order = task[w][1].order /\ task[w][2].subtotal = 0
  BY <1>1, KindAt DEF InsertOrder
<1>4. PICK o, t, s : o = task[w][1].order /\ t = Tail(task[w]) /\ s = task[w]
  OBVIOUS
<1>5. o < next.order /\ o \notin DOMAIN orders /\ ItemsOf(o) = {} /\ o \in OrderIds
  BY <1>1, <1>3, <1>4 DEF PlansInv, PlanFits, FillFits, NewOrders
<1>6. Filling(t) /\ t[1].order = o /\ t[1].subtotal = 0 /\ PlanOK(t) /\ ~Opening(t) /\ ~Confirms(t) /\ ~Submitting(t)
      /\ ~Taken(t) /\ ~Storing(t) /\ ~Booking(t)
  <2>1. Filling(t) /\ t[1].order = o /\ t[1].subtotal = 0
    BY <1>3, <1>4
  <2> QED BY <2>1, KindsApart DEF PlanOK, Confirms, Taken
<1>7. UNCHANGED <<codes, sessions, expired, menu, items, payments, provider, taken, next, cut, crossed>>
  BY DEF InsertOrder
<1>8. CASE Fail(w) /\ UNCHANGED orders
  <2>1. ~Taken(task[w])
    BY <1>3, KindsApart DEF Taken, Confirms
  <2>2. Goes(w, <<>>) /\ UNCHANGED load
    BY <1>8 DEF Fail, Goes, Idle
  <2> QED BY <1>2, <1>7, <1>8, <2>1, <2>2, NothingLeft, EndKeeps DEF Ledger
<1>9. ASSUME NEW row, row = [session |-> Now(w).session, total |-> 0, paid |-> 0, status |-> "unpaid"],
             Done(w), orders' = With(orders, o, row)
      PROVE  OrderingInv'
  <2>1. row.total = 0 /\ row.paid = 0 /\ row.status = "unpaid"
    BY <1>9
  <2>2. Goes(w, t) /\ UNCHANGED load
    BY <1>4, <1>9 DEF Done, Goes
  <2>3. PlanFits(t)'
    <3>1. o \in DOMAIN orders' /\ orders'[o].total = 0
      BY <1>9, <2>1 DEF With
    <3>2. ItemsOf(o)' = {}
      BY <1>5, <1>7 DEF ItemsOf
    <3>3. ItemTotal(o)' = 0
      <4>1. ItemTotal(o) = 0
        BY <1>5, NothingOrdered
      <4>2. ItemTotal(o)' = ItemTotal(o)
        BY <1>7 DEF ItemTotal, ItemsOf
      <4> QED BY <4>1, <4>2
    <3>4. FillFits(t)'
      BY <1>5, <1>6, <1>7, <3>1, <3>3 DEF FillFits
    <3> QED BY <1>6, <3>4 DEF PlanFits, OpenFits, ConfirmFits
  <2>4. Submits(task[w]) /\ task[w][1].order = o /\ (0 > 0 => 0 = ItemTotal(o)) /\ 0 \in Nat
    BY <1>3, <1>4 DEF Submits
  <2> QED BY <1>2, <1>5, <1>6, <1>7, <1>9, <2>1, <2>2, <2>3, <2>4, StoreOrderKeeps
<1> QED BY <1>3, <1>4, <1>8, <1>9 DEF InsertOrder, StoreOrder

(* The total is that of the items that were written.  *)
LEMMA SaveTotalsKeeps ==
  ASSUME OrderingInv, NEW w \in Workers, SaveTotals(w)
  PROVE  OrderingInv'
<1>1. RowsOK /\ NextOK /\ WorkOK /\ TablesInv /\ PlansInv
  BY TypesInParts DEF OrderingInv
<1>2. RowsOK'
  <2>1. ~BookOrder(w)
    BY DEF SaveTotals, BookOrder, At
  <2> QED BY <1>1, <2>1, StatementRows DEF Statement
<1>3. Filling(task[w]) /\ QuietPlan(Tail(task[w])) /\ Now(w) = task[w][1] /\ task[w][1] \in Fills
  BY <1>1, KindAt DEF SaveTotals
<1>4. PICK o, t, total : o = task[w][1].order /\ t = Tail(task[w]) /\ total = task[w][1].subtotal
  OBVIOUS
<1>5. o < next.order /\ o \in DOMAIN orders /\ orders[o].total = 0 /\ total = ItemTotal(o) /\ o \in OrderIds /\ total \in Nat
  BY <1>1, <1>3, <1>4 DEF PlansInv, PlanFits, FillFits, Fills
<1>6. PlanOK(t) /\ PlanFits(t)' /\ ~Submits(t) /\ ~Opening(t) /\ ~Confirms(t)
  BY <1>3, <1>4, QuietFits, KindsApart DEF PlanOK, Submits, Confirms
<1>7. UNCHANGED <<codes, sessions, expired, menu, items, payments, provider, taken, next, cut, crossed>>
  BY DEF SaveTotals
<1>8. CASE Fail(w) /\ UNCHANGED orders
  <2>1. ~Taken(task[w])
    BY <1>3, KindsApart DEF Taken, Confirms
  <2>2. Goes(w, <<>>) /\ UNCHANGED load
    BY <1>8 DEF Fail, Goes, Idle
  <2> QED BY <1>2, <1>7, <1>8, <2>1, <2>2, NothingLeft, EndKeeps DEF Ledger
<1>9. ASSUME NEW row, row = [session |-> Now(w).session, total |-> total, paid |-> 0, status |-> "unpaid"],
             Done(w), orders' = With(orders, o, row)
      PROVE  OrderingInv'
  <2>1. row.total = total /\ row.paid = 0 /\ row.status = "unpaid"
    BY <1>9
  <2>2. Goes(w, t) /\ UNCHANGED load
    BY <1>4, <1>9 DEF Done, Goes
  <2>3. Submits(task[w]) /\ task[w][1].order = o
    BY <1>3, <1>4 DEF Submits
  <2> QED BY <1>2, <1>5, <1>6, <1>7, <1>9, <2>1, <2>2, <2>3, StoreOrderKeeps
<1> QED BY <1>3, <1>4, <1>8, <1>9 DEF SaveTotals, StoreOrder

(* An item more, and the subtotal with it.  *)
LEMMA InsertItemKeeps ==
  ASSUME OrderingInv, NEW w \in Workers, InsertItem(w)
  PROVE  OrderingInv'
<1>1. RowsOK /\ NextOK /\ WorkOK /\ TablesInv /\ PlansInv /\ MoneyIsBooked
  BY TypesInParts DEF OrderingInv
<1>2. RowsOK'
  <2>1. ~BookOrder(w)
    BY DEF InsertItem, BookOrder, At
  <2> QED BY <1>1, <2>1, StatementRows DEF Statement
<1>3. Filling(task[w]) /\ Now(w) = task[w][1] /\ task[w][1] \in Fills
  BY <1>1, KindAt DEF InsertItem
<1>4. PICK o, worth, item, t :
        /\ o = Now(w).order /\ item \in [order : OrderIds, product : Products, amount : Nat] /\ item.order = o
        /\ Filling(t) /\ t[1].order = o /\ t[1].subtotal = Now(w).subtotal + worth /\ Goes(w, t) /\ UNCHANGED load
        /\ (items' = items /\ worth = 0) \/ (items' = Append(items, item) /\ worth = item.amount)
  <2> DEFINE line == Head(Now(w).lines)
             item == [order |-> Now(w).order, product |-> line.product, amount |-> line.quantity]
             worth == IF line.product \in menu THEN line.quantity ELSE 0
  <2>1. item.order = Now(w).order /\ item.amount = line.quantity
    OBVIOUS
  <2>2. item \in [order : OrderIds, product : Products, amount : Nat]
        /\ \E t : Filling(t) /\ t[1].order = Now(w).order /\ t[1].subtotal = Now(w).subtotal + worth /\ Goes(w, t)
    BY <1>1, ItemWritten
  <2>3. UNCHANGED load /\ items' = IF line.product \in menu THEN Append(items, item) ELSE items
    BY <1>1, ItemWritten
  <2> HIDE DEF item
  <2> QED BY <2>1, <2>2, <2>3
<1>5. o < next.order /\ o \in DOMAIN orders /\ orders[o].total = 0 /\ Now(w).subtotal = ItemTotal(o)
      /\ o \in OrderIds /\ Now(w).subtotal \in Nat
  BY <1>1, <1>3, <1>4 DEF PlansInv, PlanFits, FillFits, Fills
<1>6. ItemTotal(o)' = ItemTotal(o) + worth /\ \A i : i # o => ItemsOf(i)' = ItemsOf(i) /\ ItemTotal(i)' = ItemTotal(i)
  <2>1. CASE items' = items /\ worth = 0
    <3>1. \A i : ItemsOf(i)' = ItemsOf(i) /\ ItemTotal(i)' = ItemTotal(i)
      BY <2>1 DEF ItemsOf, ItemTotal
    <3> QED BY <1>5, <2>1, <3>1
  <2>2. CASE items' = Append(items, item) /\ worth = item.amount
    BY <1>1, <1>4, <2>2, ItemMore
  <2> QED BY <1>4, <2>1, <2>2
<1>7. UNCHANGED <<codes, sessions, expired, menu, orders, payments, provider, taken, next, cut, crossed>>
  BY DEF InsertItem
<1>8. PlanOK(t) /\ Submits(t) /\ ~Submitting(t) /\ ~Opening(t) /\ ~Confirms(t) /\ ~Taken(t) /\ ~Storing(t) /\ ~Booking(t)
      /\ ~Taken(task[w])
  BY <1>3, <1>4, KindsApart DEF PlanOK, Submits, Confirms, Taken
<1>9. PlanFits(t)'
  <2>1. FillFits(t)'
    BY <1>4, <1>5, <1>6, <1>7, <1>8 DEF FillFits
  <2> QED BY <1>8, <2>1 DEF PlanFits, OpenFits, ConfirmFits
<1>10. Steady
  <2>1. next'.order >= next.order /\ next'.payment >= next.payment
    BY <1>1, <1>7 DEF NextOK
  <2> QED BY <1>7, <2>1 DEF Steady
<1>11. TablesInv'
  <2>1. ASSUME NEW i \in DOMAIN orders', orders'[i].total > 0 PROVE orders'[i].total = ItemTotal(i)'
    <3>1. i # o
      BY <1>5, <1>7, <2>1
    <3> QED BY <1>1, <1>6, <1>7, <2>1, <3>1 DEF TablesInv
  <2>2. \A i \in DOMAIN items' : items'[i].order < next'.order
    <3>1. CASE items' = items
      BY <1>1, <1>7, <3>1 DEF TablesInv
    <3>2. CASE items' = Append(items, item)
      <4> DEFINE Item == [order : OrderIds, product : Products, amount : Nat]
      <4>1. items \in Seq(Item)
        BY <1>1 DEF RowsOK
      <4> HIDE DEF Item
      <4>2. \A i \in DOMAIN items' : items'[i] = item \/ (i \in DOMAIN items /\ items'[i] = items[i])
        BY <3>2, <4>1
      <4> QED BY <1>1, <1>4, <1>5, <1>7, <4>2 DEF TablesInv
    <3> QED BY <1>4, <3>1, <3>2
  <2> QED BY <1>1, <1>7, <2>1, <2>2 DEF TablesInv
<1>12. \A v \in Workers : \A u : v # w /\ u = task[v] => PlansApart(t, u)'
  <2>1. PICK s : s = task[w]
    OBVIOUS
  <2>2. Submits(s) /\ t[1].order = s[1].order
    BY <1>3, <1>4, <2>1 DEF Submits
  <2> QED BY <1>7, <1>8, <2>1, <2>2, GoesOnApart
<1>13. (\A p : InFlight(p)' <=> InFlight(p)) /\ SameBooks
  <2>1. WorkOK'
    BY <1>1, <1>4, <1>8, WorkMoves
  <2>2. \A p : InFlight(p)' <=> InFlight(p)
    BY <1>1, <1>4, <1>8, <2>1, FlightMoves
  <2> QED BY <1>7, <2>2, BooksStay
<1>14. ASSUME NEW v \in Workers, NEW u, v # w, u = task[v] PROVE Spares(u)
  <2>1. PlanFits(u) /\ PlansApart(task[w], u)
    BY <1>1, <1>14 DEF PlansInv
  <2>2. Submits(u) => u[1].order # o
    BY <1>3, <1>4, <2>1 DEF PlansApart, Submits
  <2> QED BY <1>6, <1>7, <1>13, <2>1, <2>2 DEF Spares, SameFill, SameBooks, PlanFits, OpenFits
<1>15. MoneyIsBooked'
  BY <1>1, <1>7, <1>13, MoneyStill
<1>16. \A v \in Workers : \A u : v # w /\ u = task[v] => Spares(u) /\ PlansApart(t, u)'
  BY <1>12, <1>14
<1> QED BY <1>2, <1>4, <1>7, <1>8, <1>9, <1>10, <1>11, <1>15, <1>16, StatementMoves

(* A payment that is opened is new, waits for its capture, and is for an order that has
   its total.                                                                       *)
LEMMA OpenPaymentKeeps ==
  ASSUME OrderingInv, NEW w \in Workers, OpenPayment(w)
  PROVE  OrderingInv'
<1>1. RowsOK /\ NextOK /\ WorkOK /\ TablesInv /\ PlansInv /\ MoneyIsBooked
  BY TypesInParts DEF OrderingInv
<1>2. RowsOK'
  <2>1. ~BookOrder(w)
    BY DEF OpenPayment, BookOrder, At
  <2> QED BY <1>1, <2>1, StatementRows DEF Statement
<1>3. Opening(task[w]) /\ Tail(task[w]) = <<>> /\ Now(w) = task[w][1] /\ task[w][1] \in Checkouts
  BY <1>1, KindAt DEF OpenPayment
<1>4. PICK p, row, t : p = task[w][1].payment /\ row = task[w][1].row /\ t = <<>>
  OBVIOUS
<1>5. /\ p < next.payment /\ p \notin DOMAIN payments /\ row.status = "pending" /\ row.order \in DOMAIN orders
      /\ row.amount > 0 => orders[row.order].total > 0
  BY <1>1, <1>3, <1>4 DEF PlansInv, PlanFits, OpenFits
<1>6. QuietPlan(t) /\ PlanOK(t) /\ ~Taken(task[w]) /\ ~Taken(t)
  BY <1>3, <1>4, NothingLeft, KindsApart DEF Taken, Confirms
<1>7. UNCHANGED <<codes, sessions, expired, menu, orders, items, taken, next, cut, crossed>>
  BY DEF OpenPayment
<1>8. Goes(w, t) /\ UNCHANGED load
  BY <1>3, <1>4 DEF OpenPayment, Done, Fail, Goes, Idle
<1>9. CASE UNCHANGED <<payments, provider>>
  BY <1>2, <1>6, <1>7, <1>8, <1>9, EndKeeps DEF Ledger
<1>10. CASE row.amount > 0 /\ payments' = With(payments, p, row) /\ provider' = With(provider, p, "open")
  <2>1. /\ payments'[p] = row /\ provider'[p] = "open" /\ DOMAIN payments' = DOMAIN payments \cup {p}
        /\ \A q \in DOMAIN payments : payments'[q] = payments[q] /\ provider'[q] = provider[q] /\ q # p
    <3>1. DOMAIN provider = DOMAIN payments
      BY <1>1 DEF RowsOK
    <3> QED BY <1>5, <1>10, <3>1 DEF With
  <2>2. \A i : ItemTotal(i)' = ItemTotal(i) /\ ItemsOf(i)' = ItemsOf(i)
    BY <1>7 DEF ItemTotal, ItemsOf
  <2>3. Steady
    <3>1. next'.order >= next.order /\ next'.payment >= next.payment
      BY <1>1, <1>7 DEF NextOK
    <3> QED BY <1>7, <2>1, <3>1 DEF Steady
  <2>4. TablesInv'
    <3>1. ASSUME NEW q \in DOMAIN payments'
          PROVE  q < next'.payment /\ payments'[q].order \in DOMAIN orders' /\ orders'[payments'[q].order].total > 0
      <4>1. CASE q = p
        BY <1>5, <1>7, <1>10, <2>1, <4>1
      <4>2. CASE q # p
        BY <1>1, <1>7, <2>1, <4>2 DEF TablesInv
      <4> QED BY <4>1, <4>2
    <3>2. /\ \A q \in DOMAIN taken' : /\ q \in DOMAIN payments' /\ provider'[q] = "captured"
                                       /\ taken'[q] \in DOMAIN payments'
          /\ cut' \subseteq DOMAIN taken'
      BY <1>1, <1>7, <2>1 DEF TablesInv
    <3> QED BY <1>1, <1>7, <2>2, <3>1, <3>2 DEF TablesInv
  <2>5. PlanFits(t)' /\ \A u : PlansApart(t, u)'
    BY <1>6, QuietFits
  <2>6. (\A q : InFlight(q)' <=> InFlight(q)) /\ SameBooks
    <3>1. WorkOK'
      BY <1>1, <1>6, <1>8, WorkMoves
    <3>2. \A q : InFlight(q)' <=> InFlight(q)
      BY <1>1, <1>6, <1>8, <3>1, FlightMoves
    <3>3. \A q \in DOMAIN taken : taken[q] \in DOMAIN payments /\ taken[q] # p
      BY <1>1, <1>5 DEF TablesInv
    <3> QED BY <1>7, <2>1, <3>2, <3>3 DEF SameBooks, Booked
  <2>7. ASSUME NEW v \in Workers, NEW u, v # w, u = task[v] PROVE Spares(u) /\ PlansApart(t, u)'
    <3>1. PlanFits(u) /\ PlansApart(task[w], u)
      BY <1>1, <2>7 DEF PlansInv
    <3>2. Opening(u) => u[1].payment \notin DOMAIN payments'
      BY <1>3, <1>4, <2>1, <3>1 DEF PlansApart, PlanFits, OpenFits
    <3> QED BY <1>7, <2>2, <2>5, <2>6, <3>2 DEF Spares, SameFill, SameBooks
  <2>8. MoneyIsBooked'
    <3>1. ASSUME NEW i PROVE Received(i)' = Received(i)
      BY <1>1, <2>1, <2>6, ReceivedStays DEF SameBooks
    <3>2. \A q \in DOMAIN taken' : payments'[taken'[q]].status = "captured" \/ InFlight(q)' \/ q \in cut'
      BY <1>1, <1>7, <2>1, <2>6 DEF MoneyIsBooked, TablesInv
    <3>3. ASSUME NEW k \in DOMAIN payments', payments'[k].status = "captured"
          PROVE  \E q \in DOMAIN taken' : taken'[q] = k
      <4>1. k \in DOMAIN payments /\ payments[k].status = "captured"
        BY <1>5, <2>1, <3>3
      <4> QED BY <1>1, <1>7, <4>1 DEF MoneyIsBooked
    <3> QED BY <1>1, <1>7, <3>1, <3>2, <3>3 DEF MoneyIsBooked
  <2> QED BY <1>2, <1>6, <1>7, <1>8, <2>3, <2>4, <2>5, <2>7, <2>8, StatementMoves
<1> QED BY <1>3, <1>4, <1>9, <1>10 DEF OpenPayment

(* What PayPal captures is under way from there on, or cut off.  *)
LEMMA CaptureKeeps ==
  ASSUME OrderingInv, NEW w \in Workers, Capture(w)
  PROVE  OrderingInv'
<1>1. RowsOK /\ NextOK /\ WorkOK /\ TablesInv /\ PlansInv /\ MoneyIsBooked
  BY TypesInParts DEF OrderingInv
<1>2. RowsOK'
  <2>1. ~BookOrder(w)
    BY DEF Capture, BookOrder, At
  <2> QED BY <1>1, <2>1, StatementRows DEF Statement
<1>3. Capturing(task[w]) /\ Now(w) = Reading(task[w]) /\ Now(w) \in Captures
  BY <1>1, KindAt DEF Capture
<1>4. PICK s, p, q : s = task[w] /\ p = Now(w).payment /\ q = Now(w).paypal
  OBVIOUS
<1>5. Confirms(s) /\ ~Taken(s) /\ ~Taken(task[w]) /\ Reading(s).payment = p /\ Reading(s).paypal = q /\ Reading(s) = Now(w)
  BY <1>3, <1>4, KindsApart DEF Confirms, Taken
<1>6. /\ p \in DOMAIN payments /\ q \in DOMAIN payments /\ payments[p].order = Reading(s).order
      /\ Reading(s).read.total = orders[Reading(s).order].total
      /\ \/ Reading(s).order \in crossed
         \/ Reading(s).read.paid = orders[Reading(s).order].paid /\ p \notin Booked(Reading(s).order)
  BY <1>1, <1>4, <1>5 DEF PlansInv, PlanFits, ConfirmFits
<1>7. UNCHANGED <<codes, sessions, expired, menu, orders, items, payments, next, crossed>> /\ UNCHANGED load
  BY <1>1, CaptureGoes DEF Capture
<1>8. CASE Goes(w, <<>>) /\ UNCHANGED <<provider, taken, cut>>
  BY <1>2, <1>5, <1>7, <1>8, NothingLeft, EndKeeps DEF Ledger
<1>9. ASSUME NEW t, Goes(w, t), provider[q] = "approved", provider' = [provider EXCEPT ![q] = "captured"],
             taken' = With(taken, q, p),
             \/ t = <<>> /\ cut' = cut \cup {q}
             \/ /\ UNCHANGED cut /\ Storing(t) /\ Reading(t).payment = p /\ Reading(t).paypal = q
                /\ Reading(t).order = Reading(s).order /\ Reading(t).read = Reading(s).read
      PROVE  OrderingInv'
  <2>1. /\ DOMAIN provider = DOMAIN payments /\ provider'[q] = "captured"
        /\ \A c \in DOMAIN payments : c # q => provider'[c] = provider[c]
    BY <1>1, <1>6, <1>9 DEF RowsOK
  <2>2. q \notin DOMAIN taken /\ q \notin cut
    BY <1>1, <1>9 DEF TablesInv
  <2>3. DOMAIN taken' = DOMAIN taken \cup {q} /\ taken'[q] = p /\ \A c \in DOMAIN taken : taken'[c] = taken[c]
    BY <1>9, <2>2 DEF With
  <2>4. PlanOK(t) /\ ~Submits(t) /\ ~Submitting(t) /\ ~Filling(t) /\ ~Opening(t) /\ ~Booking(t)
        /\ (Taken(t) <=> Storing(t)) /\ (Confirms(t) <=> Storing(t)) /\ (t = <<>> => ~Storing(t))
    <3>1. CASE t = <<>>
      BY <3>1, NothingLeft, KindsApart DEF Submits, Taken, Confirms
    <3>2. CASE Storing(t)
      BY <3>2, KindsApart DEF PlanOK, Submits, Taken, Confirms
    <3> QED BY <1>9, <3>1, <3>2
  <2>5. \A i : ItemTotal(i)' = ItemTotal(i) /\ ItemsOf(i)' = ItemsOf(i)
    BY <1>7 DEF ItemTotal, ItemsOf
  <2>6. Steady
    <3>1. next'.order >= next.order /\ next'.payment >= next.payment
      BY <1>1, <1>7 DEF NextOK
    <3> QED BY <1>7, <2>3, <3>1 DEF Steady
  <2>7. TablesInv'
    <3>1. /\ \A c \in DOMAIN taken' : /\ c \in DOMAIN payments' /\ provider'[c] = "captured"
                                       /\ taken'[c] \in DOMAIN payments'
          /\ cut' \subseteq DOMAIN taken'
      BY <1>1, <1>6, <1>7, <1>9, <2>1, <2>3 DEF TablesInv
    <3> QED BY <1>1, <1>7, <2>5, <3>1 DEF TablesInv
  <2>8. WorkOK'
    BY <1>1, <1>7, <1>9, <2>4, WorkMoves
  <2>9. \A c : InFlight(c)' <=> InFlight(c) \/ (Storing(t) /\ c = q)
    BY <1>1, <1>5, <1>9, <2>4, <2>8, FlightMoves
  <2>10. SameBooks
    <3>1. q \in cut' \/ InFlight(q)'
      BY <1>9, <2>9
    <3>2. \A c \in DOMAIN taken : (c \in cut' <=> c \in cut) /\ (InFlight(c)' <=> InFlight(c))
      BY <1>9, <2>2, <2>9
    <3>3. ASSUME NEW i, NEW k \in DOMAIN payments, payments[k].order = i
          PROVE  (\E c \in DOMAIN taken' \ cut' : taken'[c] = k /\ ~InFlight(c)')
                   <=> (\E c \in DOMAIN taken \ cut : taken[c] = k /\ ~InFlight(c))
      BY <2>3, <3>1, <3>2
    <3> QED BY <1>7, <3>3 DEF SameBooks, Booked
  <2>11. PlanFits(t)'
    <3>1. ConfirmFits(t)'
      BY <1>6, <1>7, <1>9, <2>2, <2>3, <2>4, <2>10 DEF ConfirmFits, SameBooks
    <3> QED BY <2>4, <3>1 DEF PlanFits, FillFits, OpenFits
  <2>12. ASSUME NEW v \in Workers, NEW u, v # w, u = task[v] PROVE Spares(u) /\ PlansApart(t, u)'
    <3>1. PlanFits(u) /\ PlansApart(s, u)
      BY <1>1, <1>4, <2>12 DEF PlansInv
    <3>2. Taken(u) => Reading(u).paypal # q
      BY <2>2, <3>1 DEF PlanFits, ConfirmFits
    <3>3. Spares(u)
      BY <1>7, <1>9, <2>5, <2>10, <3>1, <3>2 DEF Spares, SameFill, SameBooks, PlanFits, OpenFits
    <3>4. PlansApart(t, u)'
      BY <1>5, <1>7, <1>9, <2>4, <3>1, <3>2 DEF PlansApart
    <3> QED BY <3>3, <3>4
  <2>13. MoneyIsBooked'
    <3>1. ASSUME NEW i PROVE Received(i)' = Received(i)
      BY <1>1, <1>7, <2>10, ReceivedStays DEF SameBooks
    <3>2. ASSUME NEW c \in DOMAIN taken'
          PROVE  payments'[taken'[c]].status = "captured" \/ InFlight(c)' \/ c \in cut'
      <4>1. CASE c = q
        BY <1>9, <2>9, <4>1
      <4>2. CASE c # q
        BY <1>1, <1>7, <1>9, <2>3, <2>9, <4>2 DEF MoneyIsBooked
      <4> QED BY <4>1, <4>2
    <3>3. \A k \in DOMAIN payments' : payments'[k].status = "captured" => \E c \in DOMAIN taken' : taken'[c] = k
      BY <1>1, <1>7, <2>3 DEF MoneyIsBooked
    <3> QED BY <1>1, <1>7, <3>1, <3>2, <3>3 DEF MoneyIsBooked
  <2>14. \A v \in Workers : \A u : v # w /\ u = task[v] => Spares(u) /\ PlansApart(t, u)'
    BY <2>12
  <2> QED BY <1>2, <1>7, <1>9, <2>4, <2>6, <2>7, <2>11, <2>13, <2>14, StatementMoves
<1>10. \/ Goes(w, <<>>) /\ UNCHANGED <<provider, taken, cut>>
       \/ /\ provider[q] = "approved" /\ provider' = [provider EXCEPT ![q] = "captured"]
          /\ taken' = With(taken, q, p)
          /\ \E t : /\ Goes(w, t)
                    /\ \/ t = <<>> /\ cut' = cut \cup {q}
                       \/ /\ UNCHANGED cut /\ Storing(t) /\ Reading(t).payment = p /\ Reading(t).paypal = q
                          /\ Reading(t).order = Reading(s).order /\ Reading(t).read = Reading(s).read
  BY <1>1, <1>4, <1>5, CaptureGoes
<1> QED BY <1>8, <1>9, <1>10

(* The payment has its money; the order has not yet.  *)
LEMMA StorePaymentKeeps ==
  ASSUME OrderingInv, NEW w \in Workers, StorePayment(w)
  PROVE  OrderingInv'
<1>1. RowsOK /\ NextOK /\ WorkOK /\ TablesInv /\ PlansInv /\ MoneyIsBooked
  BY TypesInParts DEF OrderingInv
<1>2. RowsOK'
  <2>1. ~BookOrder(w)
    BY DEF StorePayment, BookOrder, At
  <2> QED BY <1>1, <2>1, StatementRows DEF Statement
<1>3. Storing(task[w]) /\ Booking(Tail(task[w])) /\ Reading(Tail(task[w])) = Reading(task[w])
      /\ Now(w).payment = Reading(task[w]).payment
  BY <1>1, KindAt DEF StorePayment
<1>4. PICK s, t, p, q : s = task[w] /\ t = Tail(task[w]) /\ p = Now(w).payment /\ q = Reading(task[w]).paypal
  OBVIOUS
<1>5. Storing(s) /\ Taken(s) /\ Confirms(s) /\ Booking(t) /\ Taken(t) /\ Confirms(t) /\ PlanOK(t) /\ Reading(t) = Reading(s)
      /\ Reading(s).payment = p /\ Reading(s).paypal = q
  BY <1>3, <1>4 DEF Taken, Confirms, PlanOK
<1>6. ~Submits(t) /\ ~Submitting(t) /\ ~Filling(t) /\ ~Opening(t) /\ ~Storing(t)
  BY <1>5, KindsApart DEF Submits
<1>7. UNCHANGED <<codes, sessions, expired, menu, orders, items, provider, taken, next, cut, crossed>>
      /\ payments' = [payments EXCEPT ![p].status = "captured"]
      /\ Goes(w, t) /\ UNCHANGED load
  BY <1>4 DEF StorePayment, Done, Goes
<1>8. PlanFits(s)
  BY <1>1, <1>4 DEF PlansInv
<1>9. p \in DOMAIN payments /\ q \in DOMAIN taken /\ taken[q] = p
  BY <1>5, <1>8 DEF PlanFits, ConfirmFits
<1>10. /\ DOMAIN payments' = DOMAIN payments /\ payments'[p].status = "captured"
       /\ \A k \in DOMAIN payments : /\ payments'[k].order = payments[k].order /\ payments'[k].amount = payments[k].amount
                                     /\ k # p => payments'[k].status = payments[k].status
  BY <1>1, <1>7, <1>9 DEF RowsOK, Rows, Payment
<1>11. \A i : ItemTotal(i)' = ItemTotal(i) /\ ItemsOf(i)' = ItemsOf(i)
  BY <1>7 DEF ItemTotal, ItemsOf
<1>12. Steady
  <2>1. next'.order >= next.order /\ next'.payment >= next.payment
    BY <1>1, <1>7 DEF NextOK
  <2> QED BY <1>7, <1>10, <2>1 DEF Steady
<1>13. TablesInv'
  BY <1>1, <1>7, <1>10, <1>11 DEF TablesInv
<1>14. (\A k : InFlight(k)' <=> InFlight(k)) /\ SameBooks
  <2>1. WorkOK'
    BY <1>1, <1>5, <1>7, WorkMoves
  <2>2. \A k : InFlight(k)' <=> InFlight(k)
    BY <1>1, <1>4, <1>5, <1>7, <2>1, FlightMoves
  <2> QED BY <1>7, <1>10, <2>2, BooksStay
<1>15. PlanFits(t)'
  <2>1. ConfirmFits(t)'
    BY <1>5, <1>6, <1>7, <1>8, <1>9, <1>10, <1>14 DEF PlanFits, ConfirmFits, SameBooks
  <2> QED BY <1>6, <2>1 DEF PlanFits, FillFits, OpenFits
<1>16. ASSUME NEW v \in Workers, NEW u, v # w, u = task[v] PROVE Spares(u)
  <2>1. PlanFits(u)
    BY <1>1, <1>16 DEF PlansInv
  <2> QED BY <1>7, <1>10, <1>11, <1>14, <2>1 DEF Spares, SameFill, SameBooks, PlanFits, OpenFits
<1>17. \A v \in Workers : \A u : v # w /\ u = task[v] => PlansApart(t, u)'
  BY <1>4, <1>5, <1>6, <1>7, GoesOnApart
<1>18. MoneyIsBooked'
  <2>1. ASSUME NEW i PROVE Received(i)' = Received(i)
    BY <1>1, <1>10, <1>14, ReceivedStays DEF SameBooks
  <2>2. \A c \in DOMAIN taken' : payments'[taken'[c]].status = "captured" \/ InFlight(c)' \/ c \in cut'
    BY <1>1, <1>7, <1>10, <1>14 DEF MoneyIsBooked, TablesInv
  <2>3. \A k \in DOMAIN payments' : payments'[k].status = "captured" => \E c \in DOMAIN taken' : taken'[c] = k
    BY <1>1, <1>7, <1>9, <1>10 DEF MoneyIsBooked
  <2> QED BY <1>1, <1>7, <2>1, <2>2, <2>3 DEF MoneyIsBooked
<1>19. \A v \in Workers : \A u : v # w /\ u = task[v] => Spares(u) /\ PlansApart(t, u)'
  BY <1>16, <1>17
<1> QED BY <1>2, <1>5, <1>7, <1>12, <1>13, <1>15, <1>18, <1>19, StatementMoves

(* The order gets the money once: the order was read with what it had been paid, unless
   another payment of it was confirmed meanwhile.                                      *)
LEMMA BookOrderKeeps ==
  ASSUME OrderingInv, NEW w \in Workers, BookOrder(w)
  PROVE  OrderingInv'
<1>1. RowsOK /\ NextOK /\ WorkOK /\ TablesInv /\ PlansInv /\ MoneyIsBooked
  BY TypesInParts DEF OrderingInv
<1>2. Booking(task[w]) /\ Tail(task[w]) = <<>> /\ Now(w) = Reading(task[w]) /\ Now(w) \in Books
  BY <1>1, KindAt DEF BookOrder
<1>3. PICK s, t, p, q, o, read : /\ s = task[w] /\ t = <<>> /\ p = Now(w).payment /\ q = Now(w).paypal
                                 /\ o = Now(w).order /\ read = Now(w).read
  OBVIOUS
<1>4. /\ Booking(s) /\ Taken(s) /\ Confirms(s) /\ Reading(s).payment = p /\ Reading(s).paypal = q
      /\ Reading(s).order = o /\ Reading(s).read = read
  BY <1>2, <1>3 DEF Taken, Confirms
<1>5. /\ p \in DOMAIN payments /\ payments[p].order = o /\ payments[p].status = "captured"
      /\ q \in DOMAIN taken /\ taken[q] = p /\ q \notin cut
      /\ read.total = orders[o].total /\ (o \in crossed \/ (read.paid = orders[o].paid /\ p \notin Booked(o)))
  BY <1>1, <1>3, <1>4 DEF PlansInv, PlanFits, ConfirmFits
<1>6. o \in DOMAIN orders /\ orders[o].total > 0 /\ read \in Order /\ payments[p].amount \in Nat
  BY <1>1, <1>2, <1>3, <1>5 DEF TablesInv, Books, RowsOK, Rows, Payment
<1>7. RowsOK'
  BY <1>1, <1>3, <1>5, StatementRows DEF Statement
<1>8. QuietPlan(t) /\ PlanOK(t) /\ ~Taken(t) /\ PlanFits(t)' /\ \A u : PlansApart(t, u)'
  BY <1>3, NothingLeft, KindsApart, QuietFits DEF Taken
<1>9. Goes(w, t) /\ UNCHANGED load
      /\ UNCHANGED <<codes, sessions, expired, menu, items, payments, provider, taken, next, crossed>>
  BY <1>2, <1>3 DEF BookOrder, Done, Fail, Goes, Idle
<1>10. \A i : ItemTotal(i)' = ItemTotal(i) /\ ItemsOf(i)' = ItemsOf(i)
  BY <1>9 DEF ItemTotal, ItemsOf
<1>11. ASSUME NEW v \in Workers, NEW u, v # w, u = task[v]
       PROVE  /\ PlanFits(u) /\ PlansApart(s, u)
              /\ Taken(u) => Reading(u).paypal # q
              /\ Confirms(u) /\ Reading(u).order = o => o \in crossed
  <2>1. PlanFits(u) /\ PlansApart(s, u)
    BY <1>1, <1>3, <1>11 DEF PlansInv
  <2> QED BY <1>4, <2>1 DEF PlansApart
<1>12. WorkOK'
  BY <1>1, <1>8, <1>9, WorkMoves
<1>13. InFlight(q) /\ ~InFlight(q)' /\ \A c : c # q => (InFlight(c)' <=> InFlight(c))
  <2>1. ~Apart(w, q)
    BY <1>11 DEF Apart
  <2> QED BY <1>1, <1>3, <1>4, <1>8, <1>9, <1>12, <2>1, FlightMoves
<1>14. next'.order >= next.order /\ next'.payment >= next.payment
  BY <1>1, <1>9 DEF NextOK
<1>15. CASE UNCHANGED orders /\ cut' = cut \cup {q}
  <2>1. Steady
    BY <1>9, <1>14, <1>15 DEF Steady
  <2>2. TablesInv'
    BY <1>1, <1>5, <1>9, <1>10, <1>15 DEF TablesInv
  <2>3. SameBooks
    BY <1>9, <1>13, <1>15 DEF SameBooks, Booked
  <2>4. ASSUME NEW v \in Workers, NEW u, v # w, u = task[v] PROVE Spares(u)
    <3>1. PlanFits(u) /\ (Taken(u) => Reading(u).paypal # q)
      BY <1>11, <2>4
    <3> QED BY <1>9, <1>10, <1>15, <2>3, <3>1 DEF Spares, SameFill, SameBooks, PlanFits, OpenFits
  <2>5. MoneyIsBooked'
    <3>1. ASSUME NEW i PROVE Received(i)' = Received(i)
      BY <1>1, <1>9, <2>3, ReceivedStays DEF SameBooks
    <3>2. \A c \in DOMAIN taken' : payments'[taken'[c]].status = "captured" \/ InFlight(c)' \/ c \in cut'
      BY <1>1, <1>9, <1>13, <1>15 DEF MoneyIsBooked
    <3> QED BY <1>1, <1>9, <1>15, <3>1, <3>2 DEF MoneyIsBooked
  <2>6. \A v \in Workers : \A u : v # w /\ u = task[v] => Spares(u) /\ PlansApart(t, u)'
    BY <1>8, <2>4
  <2> QED BY <1>7, <1>8, <1>9, <2>1, <2>2, <2>5, <2>6, StatementMoves
<1>16. ASSUME NEW row, row = Paid(read, payments[p].amount), orders' = [orders EXCEPT ![o] = row], UNCHANGED cut
       PROVE  OrderingInv'
  <2>1. /\ row.total = orders[o].total /\ row.paid = read.paid + payments[p].amount
        /\ row.status = "paid" => row.paid >= row.total
    BY <1>5, <1>6, <1>16, PaidIsOrder
  <2>2. orders'[o] = row /\ DOMAIN orders' = DOMAIN orders /\ \A i \in DOMAIN orders : i # o => orders'[i] = orders[i]
    BY <1>6, <1>16
  <2> HIDE DEF Paid
  <2>3. Steady
    BY <1>9, <1>14, <2>1, <2>2 DEF Steady
  <2>4. TablesInv'
    <3>1. ASSUME NEW i \in DOMAIN orders'
          PROVE  /\ i < next'.order
                 /\ orders'[i].total > 0 => orders'[i].total = ItemTotal(i)'
                 /\ orders'[i].status = "paid" => (orders'[i].total > 0 /\ orders'[i].paid >= orders'[i].total)
      <4>1. CASE i = o
        BY <1>1, <1>6, <1>9, <1>10, <2>1, <2>2, <4>1 DEF TablesInv
      <4>2. CASE i # o
        BY <1>1, <1>9, <1>10, <2>2, <4>2 DEF TablesInv
      <4> QED BY <4>1, <4>2
    <3>2. \A k \in DOMAIN payments' : /\ k < next'.payment /\ payments'[k].order \in DOMAIN orders'
                                      /\ orders'[payments'[k].order].total > 0
      BY <1>1, <1>9, <2>1, <2>2 DEF TablesInv
    <3>3. /\ \A i \in DOMAIN items' : items'[i].order < next'.order
          /\ \A c \in DOMAIN taken' : /\ c \in DOMAIN payments' /\ provider'[c] = "captured"
                                       /\ taken'[c] \in DOMAIN payments'
          /\ cut' \subseteq DOMAIN taken'
      BY <1>1, <1>9, <1>16 DEF TablesInv
    <3> QED BY <3>1, <3>2, <3>3 DEF TablesInv
  <2>5. Booked(o)' = Booked(o) \cup {p} /\ \A i : i # o => Booked(i)' = Booked(i)
    <3>1. \A c \in DOMAIN taken \ cut : taken[c] # p => c # q
      BY <1>5
    <3>2. ASSUME NEW k \in DOMAIN payments, k # p
          PROVE  (\E c \in DOMAIN taken' \ cut' : taken'[c] = k /\ ~InFlight(c)')
                   <=> (\E c \in DOMAIN taken \ cut : taken[c] = k /\ ~InFlight(c))
      BY <1>5, <1>9, <1>13, <1>16, <3>2
    <3>3. \E c \in DOMAIN taken' \ cut' : taken'[c] = p /\ ~InFlight(c)'
      BY <1>5, <1>9, <1>13, <1>16
    <3>4. \A i : \A k \in DOMAIN payments : k # p => (k \in Booked(i)' <=> k \in Booked(i))
      BY <1>9, <3>2 DEF Booked
    <3>5. p \in Booked(o)' /\ \A i : i # o => p \notin Booked(i)' /\ p \notin Booked(i)
      BY <1>5, <1>9, <3>3 DEF Booked
    <3>6. \A i : Booked(i) \subseteq DOMAIN payments /\ Booked(i)' \subseteq DOMAIN payments
      BY <1>9 DEF Booked
    <3>7. ASSUME NEW i, i # o PROVE Booked(i)' = Booked(i)
      <4>1. \A k : k \in Booked(i)' <=> k \in Booked(i)
        BY <3>4, <3>5, <3>6, <3>7
      <4>2. \A A, B : (\A k : k \in A <=> k \in B) => A = B
        OBVIOUS
      <4> QED BY <4>1, <4>2
    <3>8. Booked(o)' = Booked(o) \cup {p}
      <4>1. \A k : k \in Booked(o)' <=> k \in Booked(o) \cup {p}
        BY <1>5, <3>4, <3>5, <3>6
      <4>2. \A A, B : (\A k : k \in A <=> k \in B) => A = B
        OBVIOUS
      <4> QED BY <4>1, <4>2
    <3> QED BY <3>7, <3>8
  <2>6. ASSUME NEW v \in Workers, NEW u, v # w, u = task[v] PROVE Spares(u)
    <3>1. Confirms(u) => Reading(u).order \in DOMAIN orders
      BY <1>1, <1>11, <2>6 DEF PlanFits, ConfirmFits, TablesInv
    <3>2. PlanFits(u) /\ (Confirms(u) /\ Reading(u).order = o => o \in crossed)
      BY <1>11, <2>6
    <3>3. Confirms(u) => \/ Reading(u).order \in crossed'
                         \/ /\ orders'[Reading(u).order].paid = orders[Reading(u).order].paid
                            /\ Booked(Reading(u).order)' = Booked(Reading(u).order)
      BY <1>9, <2>2, <2>5, <3>1, <3>2
    <3>4. Submits(u) => SameFill(u[1].order)
      BY <1>10, <2>1, <2>2 DEF SameFill
    <3> QED BY <1>9, <1>16, <3>2, <3>3, <3>4 DEF Spares, PlanFits, OpenFits
  <2>7. MoneyIsBooked'
    <3>1. ASSUME NEW i, i # o PROVE Received(i)' = Received(i)
      BY <1>1, <1>9, <2>5, <3>1, ReceivedStays
    <3>2. ASSUME NEW i \in DOMAIN orders' \ crossed' PROVE orders'[i].paid = Received(i)'
      <4>1. CASE i = o
        <5>1. orders[o].paid = Received(o) /\ read.paid = orders[o].paid /\ p \notin Booked(o)
          BY <1>1, <1>5, <1>6, <1>9, <3>2, <4>1 DEF MoneyIsBooked
        <5>2. Received(o)' = Received(o) + payments[p].amount
          BY <1>1, <1>5, <1>9, <2>5, <5>1, ReceivedMore
        <5> QED BY <2>1, <2>2, <4>1, <5>1, <5>2
      <4>2. CASE i # o
        BY <1>1, <1>9, <2>2, <3>1, <3>2, <4>2 DEF MoneyIsBooked
      <4> QED BY <4>1, <4>2
    <3>3. ASSUME NEW c \in DOMAIN taken'
          PROVE  payments'[taken'[c]].status = "captured" \/ InFlight(c)' \/ c \in cut'
      <4>1. CASE c = q
        BY <1>5, <1>9, <4>1
      <4>2. CASE c # q
        BY <1>1, <1>9, <1>13, <1>16, <4>2 DEF MoneyIsBooked
      <4> QED BY <4>1, <4>2
    <3>4. \A k \in DOMAIN payments' : payments'[k].status = "captured" => \E c \in DOMAIN taken' : taken'[c] = k
      BY <1>1, <1>9 DEF MoneyIsBooked
    <3> QED BY <3>2, <3>3, <3>4 DEF MoneyIsBooked
  <2>8. \A v \in Workers : \A u : v # w /\ u = task[v] => Spares(u) /\ PlansApart(t, u)'
    BY <1>8, <2>6
  <2> QED BY <1>7, <1>8, <1>9, <2>3, <2>4, <2>7, <2>8, StatementMoves
<1> QED BY <1>3, <1>15, <1>16 DEF BookOrder

(* Every statement.  *)
LEMMA StatementKeeps == ASSUME OrderingInv, NEW w \in Workers, Statement(w) PROVE OrderingInv'
BY CodesKeep, DropCodeKeeps, InsertOrderKeeps, InsertItemKeeps, SaveTotalsKeeps, OpenPaymentKeeps, CaptureKeeps,
   StorePaymentKeeps, BookOrderKeeps DEF Statement

-----------------------------------------------------------------------------
(* What guests, time and the operator of the process do.                      *)

(* A step of none of the workers, and one that changes nothing.  *)
LEMMA WorldKeeps ==
  ASSUME OrderingInv, RowsOK', UNCHANGED requests, UNCHANGED <<orders, items, payments, taken, next, cut, crossed>>,
         \A p \in DOMAIN payments : provider'[p] = provider[p] \/ {provider[p], provider'[p]} \subseteq {"open", "approved"}
  PROVE  OrderingInv'
<1>1. RowsOK /\ NextOK /\ WorkOK /\ TablesInv /\ PlansInv /\ MoneyIsBooked
  BY TypesInParts DEF OrderingInv
<1>2. WorkOK' /\ NextOK'
  BY <1>1 DEF WorkOK, NextOK, RequestsOK, requests
<1>3. TypesInv'
  BY <1>2, TypesInParts, PTL
<1>4. \A i : ItemTotal(i)' = ItemTotal(i) /\ ItemsOf(i)' = ItemsOf(i)
  BY DEF ItemTotal, ItemsOf
<1>5. TablesInv'
  <2>1. \A q \in DOMAIN taken : provider'[q] = "captured"
    BY <1>1 DEF TablesInv
  <2> QED BY <1>1, <1>4, <2>1 DEF TablesInv
<1>6. Steady
  <2>1. next'.order >= next.order /\ next'.payment >= next.payment
    BY <1>1 DEF NextOK
  <2> QED BY <2>1 DEF Steady
<1>7. (\A p : InFlight(p)' <=> InFlight(p)) /\ SameBooks
  <2>1. \A p : InFlight(p)' <=> InFlight(p)
    BY DEF InFlight, At, Now, requests
  <2> QED BY <2>1, BooksStay
<1>8. ASSUME NEW t, PlanFits(t) PROVE PlanFits(t)'
  <2>1. Spares(t)
    BY <1>4, <1>7, <1>8 DEF Spares, SameFill, SameBooks, PlanFits, OpenFits
  <2> QED BY <1>1, <1>2, <1>6, <1>8, <2>1, FitsStill
<1>9. PlansInv'
  <2>1. ASSUME NEW v \in Workers PROVE PlanFits(task[v])'
    <3>1. PICK u : u = task[v]
      OBVIOUS
    <3>2. PlanFits(u)' /\ u = task'[v]
      BY <1>1, <1>8, <3>1 DEF PlansInv, requests
    <3> QED BY <3>2
  <2>2. ASSUME NEW v \in Workers, NEW u \in Workers, v # u PROVE PlansApart(task[v], task[u])'
    <3>1. PICK a, b : a = task[v] /\ b = task[u]
      OBVIOUS
    <3>2. PlansApart(a, b) /\ a = task'[v] /\ b = task'[u]
      BY <1>1, <2>2, <3>1 DEF PlansInv, requests
    <3>3. PlansApart(a, b)'
      BY <3>2 DEF PlansApart
    <3> QED BY <3>2, <3>3
  <2> QED BY <2>1, <2>2 DEF PlansInv
<1>10. MoneyIsBooked'
  BY <1>1, <1>7, MoneyStill
<1> QED BY <1>3, <1>5, <1>9, <1>10 DEF OrderingInv

(* Approvals, expired sessions and deleted products.  *)
LEMMA OthersKeep ==
  ASSUME OrderingInv,
         \/ \E p \in DOMAIN payments : Approve(p)
         \/ \E s \in DOMAIN sessions : Expire(s)
         \/ \E p \in Products : DeleteProduct(p)
         \/ UNCHANGED vars
  PROVE  OrderingInv'
<1>1. RowsOK
  BY TypesInParts DEF OrderingInv
<1>2. ASSUME NEW p \in DOMAIN payments, Approve(p) PROVE OrderingInv'
  <2>1. RowsOK'
    BY <1>1, <1>2 DEF Approve, RowsOK
  <2>2. \A q \in DOMAIN payments : provider'[q] = provider[q] \/ {provider[q], provider'[q]} \subseteq {"open", "approved"}
    BY <1>1, <1>2 DEF Approve, RowsOK
  <2> QED BY <1>2, <2>1, <2>2, WorldKeeps DEF Approve
<1>3. ASSUME NEW s \in DOMAIN sessions, Expire(s) PROVE OrderingInv'
  <2>1. RowsOK'
    BY <1>1, <1>3 DEF Expire, RowsOK, Rows
  <2> QED BY <1>3, <2>1, WorldKeeps DEF Expire
<1>4. ASSUME NEW p \in Products, DeleteProduct(p) PROVE OrderingInv'
  <2>1. RowsOK'
    BY <1>1, <1>4 DEF DeleteProduct, RowsOK
  <2> QED BY <1>4, <2>1, WorldKeeps DEF DeleteProduct
<1>5. CASE UNCHANGED vars
  <2>1. RowsOK'
    BY <1>1, <1>5 DEF vars, rows, RowsOK
  <2> QED BY <1>5, <2>1, WorldKeeps DEF vars, rows
<1> QED BY <1>2, <1>3, <1>4, <1>5

(* A restart ends every plan, and cuts off the money that was under way.  *)
LEMMA RestartKeeps ==
  ASSUME OrderingInv, Restart
  PROVE  OrderingInv'
<1>1. RowsOK /\ NextOK /\ WorkOK /\ TablesInv /\ PlansInv /\ MoneyIsBooked
  BY TypesInParts DEF OrderingInv
<1>2. UNCHANGED <<rows, crossed>> /\ task' = [w \in Workers |-> Idle] /\ load.crashes < MaxCrashes
      /\ load' = [load EXCEPT !.crashes = @ + 1]
  BY DEF Restart, Crash
<1>3. \A p : p \in cut' <=> p \in cut \/ InFlight(p)
  BY DEF Restart, InFlight
<1>4. ASSUME NEW p, InFlight(p) PROVE p \in DOMAIN taken
  <2>1. PICK w \in Workers : Taken(task[w]) /\ Reading(task[w]).paypal = p
    BY <1>1, <1>4, Flight DEF FlightIsWork, Flies
  <2> QED BY <1>1, <2>1 DEF PlansInv, PlanFits, ConfirmFits
<1>5. \A p : ~InFlight(p)'
  BY <1>2 DEF InFlight, At
<1>6. RowsOK' /\ NextOK'
  <2>1. cut' \subseteq DOMAIN taken
    BY <1>1, <1>3, <1>4 DEF TablesInv
  <2>2. cut' \subseteq PaymentIds
    BY <1>1, <2>1 DEF RowsOK, Rows
  <2> QED BY <1>1, <1>2, <2>2 DEF RowsOK, NextOK, rows
<1>7. WorkOK'
  <2>1. load' \in [requests : 0..MaxRequests, crashes : 0..MaxCrashes]
    BY <1>1, <1>2, RequestsAssumption DEF WorkOK, RequestsOK
  <2> QED BY <1>2, <2>1, NothingLeft DEF WorkOK, RequestsOK
<1>8. TypesInv'
  BY <1>6, <1>7, TypesInParts, PTL
<1>9. TablesInv'
  <2>1. \A i : ItemTotal(i)' = ItemTotal(i)
    BY <1>2 DEF ItemTotal, ItemsOf, rows
  <2>2. cut' \subseteq DOMAIN taken'
    BY <1>1, <1>2, <1>3, <1>4 DEF TablesInv, rows
  <2> QED BY <1>1, <1>2, <2>1, <2>2 DEF TablesInv, rows
<1>10. PlansInv'
  <2>1. PICK t : t = Idle
    OBVIOUS
  <2>2. QuietPlan(t)
    BY <2>1, NothingLeft DEF Idle
  <2>3. PlanFits(t)' /\ PlansApart(t, t)'
    BY <2>2, QuietFits
  <2>4. \A v \in Workers : task'[v] = t
    BY <1>2, <2>1
  <2> QED BY <2>3, <2>4 DEF PlansInv
<1>11. MoneyIsBooked'
  <2>1. ASSUME NEW i PROVE Booked(i)' = Booked(i)
    BY <1>2, <1>3, <1>5 DEF Booked, rows
  <2>2. ASSUME NEW i PROVE Received(i)' = Received(i)
    BY <1>1, <1>2, <2>1, ReceivedStays DEF rows
  <2>3. \A q \in DOMAIN taken' : payments'[taken'[q]].status = "captured" \/ InFlight(q)' \/ q \in cut'
    BY <1>1, <1>2, <1>3 DEF MoneyIsBooked, rows
  <2> QED BY <1>1, <1>2, <2>2, <2>3 DEF MoneyIsBooked, rows
<1> QED BY <1>8, <1>9, <1>10, <1>11 DEF OrderingInv

-----------------------------------------------------------------------------
(* The theorems.                                                              *)

(* At the start nothing is ordered, opened or confirmed.  *)
LEMMA OrderingStarts == Init => OrderingInv
<1> SUFFICES ASSUME Init PROVE OrderingInv
  OBVIOUS
<1>1. TypesInv
  BY TypesInit
<1>2. DOMAIN orders = {} /\ DOMAIN payments = {} /\ DOMAIN taken = {} /\ items = <<>> /\ cut = {}
  BY DEF Init, Empty
<1>3. TablesInv
  BY <1>2 DEF TablesInv
<1>4. PlansInv
  <2>1. \A w \in Workers : task[w] = <<>>
    BY DEF Init, RequestsInit, Idle
  <2>2. \A w \in Workers : QuietPlan(task[w])
    BY <2>1, NothingLeft
  <2>3. \A w \in Workers : /\ ~Submitting(task[w]) /\ ~Filling(task[w]) /\ ~Opening(task[w]) /\ ~Capturing(task[w])
                           /\ ~Storing(task[w]) /\ ~Booking(task[w])
    BY <2>2, KindsApart DEF Confirms
  <2> QED BY <2>3 DEF PlansInv, PlanFits, FillFits, OpenFits, ConfirmFits, PlansApart, Submits, Confirms, Taken
<1>5. MoneyIsBooked
  BY <1>2 DEF MoneyIsBooked
<1> QED BY <1>1, <1>3, <1>4, <1>5 DEF OrderingInv

(* Every step.  *)
LEMMA OrderingGoesOn == OrderingInv /\ [Next]_vars => OrderingInv'
<1> SUFFICES ASSUME OrderingInv, [Next]_vars PROVE OrderingInv'
  OBVIOUS
<1>1. ASSUME NEW w \in Workers, Request(w),
             UNCHANGED <<codes, sessions, expired, menu, orders, items, payments, provider, taken, cut, crossed>>
      PROVE  OrderingInv'
  <2>1. CASE QuietRequest(w)
    BY <1>1, <2>1, QuietRequestKeeps
  <2>2. ASSUME NEW s \in DOMAIN sessions, SubmitOrder(w, s) PROVE OrderingInv'
    BY <1>1, <2>2, SubmitKeeps
  <2>3. ASSUME NEW s \in DOMAIN sessions, NEW by \in Providers, InitiatePayment(w, s, by) PROVE OrderingInv'
    BY <1>1, <2>3, InitiateKeeps
  <2> QED BY <1>1, <2>1, <2>2, <2>3 DEF Request, QuietRequest
<1>2. ASSUME NEW w \in Workers, NEW p \in DOMAIN payments, NEW q \in DOMAIN payments, ConfirmPayment(w, p, q)
      PROVE  OrderingInv'
  BY <1>2, ConfirmKeeps
<1>3. ASSUME NEW w \in Workers, Statement(w) PROVE OrderingInv'
  BY <1>3, StatementKeeps
<1>4. CASE Restart
  BY <1>4, RestartKeeps
<1> QED BY <1>1, <1>2, <1>3, <1>4, OthersKeep DEF Next

(* Types, tables, plans and money are in order all the time.  *)
THEOREM OrderingInOrder == Spec => []OrderingInv
BY OrderingStarts, OrderingGoesOn, PTL DEF Spec

(* Every table and every plan has its type.  *)
THEOREM TypeCorrect == Spec => []TypeOK
<1>1. OrderingInv => TypeOK
  BY DEF OrderingInv, TypesInv
<1> QED BY <1>1, OrderingInOrder, PTL

(* What PayPal took is on the payment it was captured for or on its way there, and an
   order has been paid what its captured payments come to (confirmPayment), whichever
   PayPal order a request names, for any number of workers, requests, orders and
   payments; confirmations that overlap on an order and bookings cut off apart.     *)
THEOREM MoneyBooked == Spec => []MoneyIsBooked
<1>1. OrderingInv => MoneyIsBooked
  BY DEF OrderingInv
<1> QED BY <1>1, OrderingInOrder, PTL

(* An order that is paid in full was paid for all its items (submitOrder,
   initiatePayment), for any number of workers, requests, orders and items.  *)
THEOREM PaidForItems == Spec => []PaidIsWhatWasOrdered
<1>1. OrderingInv => PaidIsWhatWasOrdered
  BY DEF OrderingInv, TablesInv, PaidIsWhatWasOrdered
<1> QED BY <1>1, OrderingInOrder, PTL
=============================================================================
