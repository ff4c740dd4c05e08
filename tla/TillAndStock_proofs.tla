------------------------ MODULE TillAndStock_proofs ------------------------
(* What FiscalRecords and StockTaking keep true, each under its own specification.
   They share no row; they share the lemmas about sums, which come first.

   FiscalRecords, for any number of requests, orders, payments and closings: what is
   signed foots, a payment is signed or says that it could not be, and a closing foots
   and has what no other has.  StockTaking, for any number of requests, products and
   counts: a count is booked once, and every change of the stock is explained.       *)
EXTENDS FiscalRecords, StockTaking, FiniteSetTheorems, SequenceTheorems, TLAPS

(* A set of numbers that has 0 and the successor of each of its members has them all:
   were n missing, the members below n would fit into those but 0.               *)
LEMMA Induction ==
  ASSUME NEW T, 0 \in T, \A n \in Nat : n \in T => n + 1 \in T
  PROVE  Nat \subseteq T
<1>1. SUFFICES ASSUME NEW n \in Nat, n \notin T PROVE FALSE
  OBVIOUS
<1> DEFINE A == {i \in 0 .. n : i \in T}
           B == A \ {0}
           f == [i \in A |-> i + 1]
<1>2. IsFiniteSet(A) /\ IsFiniteSet(B) /\ Cardinality(A) \in Nat /\ Cardinality(B) = Cardinality(A) - 1
  <2>1. IsFiniteSet(0 .. n)
    BY FS_Interval
  <2>2. IsFiniteSet(A)
    BY <2>1, FS_Subset
  <2>3. 0 \in A
    OBVIOUS
  <2> HIDE DEF A
  <2> QED BY <2>2, <2>3, FS_CardinalityType, FS_RemoveElement
<1>3. f \in Injection(A, B)
  <2>1. ASSUME NEW i \in A PROVE i + 1 \in B
    <3>1. i \in 0 .. n /\ i \in T /\ i # n
      BY <1>1
    <3> QED BY <3>1
  <2>2. \A i, j \in A : i + 1 = j + 1 => i = j
    OBVIOUS
  <2> QED BY <2>1, <2>2 DEF Injection, IsInjective
<1> HIDE DEF f, A
<1>4. Cardinality(A) <= Cardinality(B)
  BY <1>2, <1>3, FS_Injection
<1> QED BY <1>2, <1>4

(* One member of a set, the one a fold takes first.  *)
First(s) == CHOOSE x \in s : TRUE

(* g is the sum of f over the subsets of S, taken apart as a fold does.  *)
SumsUp(g, f, S) ==
  /\ g \in [SUBSET S -> Int] /\ g[{}] = 0
  /\ \A s \in SUBSET S : s # {} => g[s] = f[First(s)] + g[s \ {First(s)}]

(* Taking a member out of a finite set makes it smaller by one.  *)
LEMMA OneLess ==
  ASSUME NEW S, IsFiniteSet(S), NEW s \in SUBSET S
  PROVE  /\ IsFiniteSet(s) /\ Cardinality(s) \in Nat /\ (Cardinality(s) = 0 <=> s = {})
         /\ \A x \in s : s \ {x} \in SUBSET S /\ Cardinality(s \ {x}) = Cardinality(s) - 1
<1>1. IsFiniteSet(s)
  BY FS_Subset
<1> QED BY <1>1, FS_CardinalityType, FS_EmptySet, FS_RemoveElement

(* Such a sum exists: it is built for the subsets of one size after the other.  *)
LEMMA SumExists ==
  ASSUME NEW S, IsFiniteSet(S), NEW f, \A x \in S : f[x] \in Int
  PROVE  \E g : SumsUp(g, f, S)
<1> DEFINE Good(g, k) == /\ g \in [SUBSET S -> Int] /\ g[{}] = 0
                         /\ \A s \in SUBSET S : s # {} /\ Cardinality(s) <= k
                              => g[s] = f[First(s)] + g[s \ {First(s)}]
           T == {k \in Nat : \E g : Good(g, k)}
<1>1. 0 \in T
  <2>1. Good([s \in SUBSET S |-> 0], 0)
    BY OneLess
  <2> QED BY <2>1
<1>2. ASSUME NEW k \in Nat, k \in T PROVE k + 1 \in T
  <2>1. PICK g : Good(g, k)
    BY <1>2
  <2> DEFINE more(s) == IF Cardinality(s) = k + 1 THEN f[First(s)] + g[s \ {First(s)}] ELSE g[s]
             h == [s \in SUBSET S |-> more(s)]
  <2>2. ASSUME NEW s \in SUBSET S, s # {}
        PROVE  First(s) \in s /\ f[First(s)] \in Int /\ s \ {First(s)} \in SUBSET S
               /\ Cardinality(s \ {First(s)}) = Cardinality(s) - 1 /\ Cardinality(s) \in Nat
    BY <2>2, OneLess DEF First
  <2>3. Cardinality({}) = 0
    BY FS_EmptySet
  <2>4. h \in [SUBSET S -> Int]
    <3>1. ASSUME NEW s \in SUBSET S PROVE more(s) \in Int
      <4>1. CASE s = {}
        BY <2>1, <2>3, <4>1
      <4>2. CASE s # {}
        BY <2>1, <2>2, <4>2
      <4> QED BY <4>1, <4>2
    <3> QED BY <3>1
  <2>5. h[{}] = 0
    BY <2>1, <2>3
  <2>6. ASSUME NEW s \in SUBSET S, s # {}, Cardinality(s) <= k + 1
        PROVE  h[s] = f[First(s)] + h[s \ {First(s)}]
    <3> DEFINE r == s \ {First(s)}
    <3>1. r \in SUBSET S /\ Cardinality(r) = Cardinality(s) - 1 /\ Cardinality(s) \in Nat
      BY <2>2, <2>6
    <3> HIDE DEF r
    <3>2. h[s] = more(s) /\ h[r] = g[r]
      BY <2>6, <3>1
    <3>3. CASE Cardinality(s) = k + 1
      BY <3>2, <3>3 DEF r
    <3>4. CASE Cardinality(s) # k + 1
      <4>1. Cardinality(s) <= k
        BY <2>6, <3>1, <3>4
      <4> QED BY <2>1, <2>6, <3>2, <3>4, <4>1 DEF r
    <3> QED BY <3>3, <3>4 DEF r
  <2> HIDE DEF h
  <2>7. Good(h, k + 1)
    BY <2>4, <2>5, <2>6
  <2> HIDE DEF Good
  <2>8. \E g1 : Good(g1, k + 1)
    BY <2>7
  <2> QED BY <2>8
<1> HIDE DEF T
<1>3. Cardinality(S) \in T
  <2>1. Cardinality(S) \in Nat
    BY FS_CardinalityType
  <2> QED BY <1>1, <1>2, <2>1, Induction
<1>4. PICK g : Good(g, Cardinality(S))
  BY <1>3 DEF T
<1>5. \A s \in SUBSET S : Cardinality(s) <= Cardinality(S)
  BY FS_Subset
<1> QED BY <1>4, <1>5 DEF SumsUp

TakesAny(g, f, S) == \A s \in SUBSET S : \A y \in s : g[s] = f[y] + g[s \ {y}]

(* Whichever member is taken out first, the rest adds up to what is left.  *)
LEMMA SumsTakeAny ==
  ASSUME NEW S, IsFiniteSet(S), NEW f, \A x \in S : f[x] \in Int, NEW g, SumsUp(g, f, S)
  PROVE  TakesAny(g, f, S)
<1> DEFINE T == {k \in Nat : \A s \in SUBSET S : Cardinality(s) = k => \A y \in s : g[s] = f[y] + g[s \ {y}]}
<1>1. 0 \in T
  BY OneLess
<1>2. ASSUME NEW k \in Nat, k \in T PROVE k + 1 \in T
  <2>1. SUFFICES ASSUME NEW s \in SUBSET S, Cardinality(s) = k + 1, NEW y \in s
                 PROVE  g[s] = f[y] + g[s \ {y}]
    OBVIOUS
  <2> DEFINE x == First(s)
  <2>2. x \in s /\ s # {}
    BY DEF First
  <2>3. g[s] = f[x] + g[s \ {x}]
    BY <2>2 DEF SumsUp
  <2> HIDE DEF x
  <2>4. CASE x = y
    BY <2>3, <2>4
  <2>5. CASE x # y
    <3>1. s \ {x} \in SUBSET S /\ s \ {y} \in SUBSET S
          /\ Cardinality(s \ {x}) = k /\ Cardinality(s \ {y}) = k
      BY <2>1, <2>2, OneLess
    <3>2. y \in s \ {x} /\ x \in s \ {y} /\ (s \ {x}) \ {y} = (s \ {y}) \ {x}
      BY <2>2, <2>5
    <3> DEFINE rest == (s \ {x}) \ {y}
    <3>3. g[s \ {x}] = f[y] + g[rest] /\ g[s \ {y}] = f[x] + g[rest]
      BY <1>2, <3>1, <3>2
    <3>4. g[rest] \in Int /\ f[x] \in Int /\ f[y] \in Int
      BY <2>2 DEF SumsUp
    <3> HIDE DEF rest
    <3> QED BY <2>3, <3>3, <3>4
  <2> QED BY <2>4, <2>5
<1> HIDE DEF T
<1>3. Nat \subseteq T
  BY <1>1, <1>2, Induction
<1>4. SUFFICES ASSUME NEW s \in SUBSET S PROVE \A y \in s : g[s] = f[y] + g[s \ {y}]
  BY DEF TakesAny
<1>5. Cardinality(s) \in T
  BY <1>3, OneLess
<1> QED BY <1>5 DEF T

(* Two sums of functions that agree are the same, whatever sets they were built for.  *)
LEMMA SumsAgree ==
  ASSUME NEW S, IsFiniteSet(S), NEW R, NEW f, NEW e, NEW g, NEW h, SumsUp(g, f, S), SumsUp(h, e, R),
         NEW U, U \subseteq S, U \subseteq R, \A x \in U : f[x] = e[x]
  PROVE  g[U] = h[U]
<1> DEFINE T == {k \in Nat : \A s \in SUBSET U : Cardinality(s) = k => g[s] = h[s]}
<1>1. 0 \in T
  BY OneLess DEF SumsUp
<1>2. ASSUME NEW k \in Nat, k \in T PROVE k + 1 \in T
  <2>1. SUFFICES ASSUME NEW s \in SUBSET U, Cardinality(s) = k + 1 PROVE g[s] = h[s]
    OBVIOUS
  <2> DEFINE x == First(s)
  <2>2. s # {} /\ s \in SUBSET S /\ s \in SUBSET R
    BY <2>1, FS_EmptySet
  <2>3. x \in s /\ f[x] = e[x]
    BY <2>2 DEF First
  <2>4. g[s] = f[x] + g[s \ {x}] /\ h[s] = e[x] + h[s \ {x}]
    BY <2>2 DEF SumsUp
  <2> HIDE DEF x
  <2>5. s \ {x} \in SUBSET U /\ Cardinality(s \ {x}) = k
    BY <2>1, <2>2, <2>3, OneLess
  <2> QED BY <1>2, <2>3, <2>4, <2>5
<1> HIDE DEF T
<1>3. IsFiniteSet(U) /\ Cardinality(U) \in Nat
  BY FS_Subset, FS_CardinalityType
<1>4. Cardinality(U) \in T
  BY <1>1, <1>2, <1>3, Induction
<1> QED BY <1>4 DEF T

(* SumFunctionOnSet is such a sum.  *)
LEMMA SumIsOne ==
  ASSUME NEW S, IsFiniteSet(S), NEW f, \A x \in S : f[x] \in Int
  PROVE  \E g : SumsUp(g, f, S) /\ SumFunctionOnSet(f, S) = g[S]
<1> DEFINE Folded(g) == g = [s \in SUBSET S |-> IF s = {} THEN 0 ELSE f[First(s)] + g[s \ {First(s)}]]
           g == CHOOSE h : Folded(h)
<1>1. SumFunctionOnSet(f, S) = g[S]
  BY DEF SumFunctionOnSet, FoldFunctionOnSet, MapThenFoldSet, First
<1>2. ASSUME NEW h, SumsUp(h, f, S) PROVE Folded(h)
  BY <1>2 DEF SumsUp
<1>3. \E h : Folded(h)
  BY <1>2, SumExists
<1>4. Folded(g)
  BY <1>3
<1>5. PICK h : SumsUp(h, f, S)
  BY SumExists
<1> HIDE DEF g
<1>6. \A s \in SUBSET S : s # {} => g[s] = f[First(s)] + g[s \ {First(s)}]
  BY <1>4
<1>7. g[{}] = 0 /\ DOMAIN g = SUBSET S
  BY <1>4
<1>8. g \in [SUBSET S -> Int]
  <2> DEFINE T == {k \in Nat : \A s \in SUBSET S : Cardinality(s) = k => g[s] \in Int}
  <2>1. 0 \in T
    <3>1. \A s \in SUBSET S : Cardinality(s) = 0 => s = {}
      BY OneLess
    <3> QED BY <1>7, <3>1
  <2>2. ASSUME NEW k \in Nat, k \in T PROVE k + 1 \in T
    <3>1. SUFFICES ASSUME NEW s \in SUBSET S, Cardinality(s) = k + 1 PROVE g[s] \in Int
      OBVIOUS
    <3> DEFINE x == First(s)
    <3>2. s # {}
      BY <3>1, FS_EmptySet
    <3>3. x \in s /\ f[x] \in Int
      BY <3>2 DEF First
    <3>4. g[s] = f[x] + g[s \ {x}]
      BY <1>6, <3>2
    <3> HIDE DEF x
    <3>5. s \ {x} \in SUBSET S /\ Cardinality(s \ {x}) = k
      BY <3>1, <3>3, OneLess
    <3> QED BY <2>2, <3>3, <3>4, <3>5
  <2> HIDE DEF T
  <2>3. Nat \subseteq T
    BY <2>1, <2>2, Induction
  <2>4. ASSUME NEW s \in SUBSET S PROVE g[s] \in Int
    <3>1. Cardinality(s) \in T
      BY <2>3, OneLess
    <3> QED BY <3>1 DEF T
  <2>5. g = [s \in SUBSET S |-> g[s]]
    BY <1>4
  <2> QED BY <2>4, <2>5
<1> QED BY <1>1, <1>6, <1>7, <1>8 DEF SumsUp

(* What the proofs need of a sum: it is a number, the empty one is 0, a member is worth
   its value, and only the values of the members count.                             *)
LEMMA SumOfNone == \A f : SumFunctionOnSet(f, {}) = 0
<1> TAKE f
<1>1. PICK g : SumsUp(g, f, {}) /\ SumFunctionOnSet(f, {}) = g[{}]
  BY SumIsOne, FS_EmptySet
<1> QED BY <1>1 DEF SumsUp

(* A sum is a number, and none of its parts is lost or counted twice.  *)
LEMMA SumOfMore ==
  ASSUME NEW S, IsFiniteSet(S), NEW f, \A x \in S : f[x] \in Int
  PROVE  /\ SumFunctionOnSet(f, S) \in Int
         /\ \A y \in S : SumFunctionOnSet(f, S) = f[y] + SumFunctionOnSet(f, S \ {y})
<1>1. PICK g : SumsUp(g, f, S) /\ SumFunctionOnSet(f, S) = g[S]
  BY SumIsOne
<1>2. ASSUME NEW y \in S PROVE SumFunctionOnSet(f, S) = f[y] + SumFunctionOnSet(f, S \ {y})
  <2> DEFINE R == S \ {y}
  <2>1. IsFiniteSet(R) /\ R \subseteq S /\ \A x \in R : f[x] \in Int
    BY FS_Subset
  <2> HIDE DEF R
  <2>2. PICK h : SumsUp(h, f, R) /\ SumFunctionOnSet(f, R) = h[R]
    BY <2>1, SumIsOne
  <2>3. g[R] = h[R]
    BY <1>1, <2>1, <2>2, SumsAgree
  <2>4. TakesAny(g, f, S)
    BY <1>1, SumsTakeAny
  <2>5. S \in SUBSET S
    OBVIOUS
  <2>6. g[S] = f[y] + g[R]
    BY <2>4, <2>5 DEF R, TakesAny
  <2> QED BY <1>1, <2>2, <2>3, <2>6 DEF R
<1> QED BY <1>1, <1>2 DEF SumsUp

(* Two functions that agree on a set have the same sum over it.  *)
LEMMA SumOfSame ==
  ASSUME NEW S, IsFiniteSet(S), NEW f, NEW e, \A x \in S : f[x] \in Int, \A x \in S : f[x] = e[x]
  PROVE  SumFunctionOnSet(f, S) = SumFunctionOnSet(e, S)
<1>1. PICK g : SumsUp(g, f, S) /\ SumFunctionOnSet(f, S) = g[S]
  BY SumIsOne
<1>2. PICK h : SumsUp(h, e, S) /\ SumFunctionOnSet(e, S) = h[S]
  BY SumIsOne
<1>3. g[S] = h[S]
  BY <1>1, <1>2, SumsAgree
<1> QED BY <1>1, <1>2, <1>3

(* The sum of two functions is the sum of their sums.  *)
LEMMA SumOfBoth ==
  ASSUME NEW S, NEW f, NEW e, NEW g, IsFiniteSet(S), \A x \in S : f[x] \in Int /\ e[x] \in Int /\ g[x] = f[x] + e[x]
  PROVE  SumFunctionOnSet(g, S) = SumFunctionOnSet(f, S) + SumFunctionOnSet(e, S)
<1> DEFINE T == {k \in Nat : \A s \in SUBSET S : Cardinality(s) = k =>
                    SumFunctionOnSet(g, s) = SumFunctionOnSet(f, s) + SumFunctionOnSet(e, s)}
<1>1. 0 \in T
  <2>1. ASSUME NEW s \in SUBSET S, Cardinality(s) = 0
        PROVE  SumFunctionOnSet(g, s) = SumFunctionOnSet(f, s) + SumFunctionOnSet(e, s)
    <3>1. s = {}
      BY <2>1, OneLess
    <3>2. SumFunctionOnSet(g, s) = 0 /\ SumFunctionOnSet(f, s) = 0 /\ SumFunctionOnSet(e, s) = 0
      BY <3>1, SumOfNone
    <3> QED BY <3>2
  <2> QED BY <2>1
<1>2. ASSUME NEW k \in Nat, k \in T PROVE k + 1 \in T
  <2>1. SUFFICES ASSUME NEW s \in SUBSET S, Cardinality(s) = k + 1
                 PROVE  SumFunctionOnSet(g, s) = SumFunctionOnSet(f, s) + SumFunctionOnSet(e, s)
    OBVIOUS
  <2>2. IsFiniteSet(s) /\ s # {}
    BY <2>1, OneLess
  <2>3. PICK y \in s : TRUE
    BY <2>2
  <2> DEFINE r == s \ {y}
  <2>4. r \in SUBSET S /\ Cardinality(r) = k /\ IsFiniteSet(r)
    BY <2>1, <2>3, OneLess
  <2>5. \A x \in s : f[x] \in Int /\ e[x] \in Int /\ g[x] \in Int
    OBVIOUS
  <2>6. /\ SumFunctionOnSet(f, s) = f[y] + SumFunctionOnSet(f, r)
        /\ SumFunctionOnSet(e, s) = e[y] + SumFunctionOnSet(e, r)
        /\ SumFunctionOnSet(g, s) = g[y] + SumFunctionOnSet(g, r)
    BY <2>2, <2>3, <2>5, SumOfMore
  <2>7. SumFunctionOnSet(g, r) = SumFunctionOnSet(f, r) + SumFunctionOnSet(e, r)
    BY <1>2, <2>4
  <2> DEFINE a == SumFunctionOnSet(f, r)
             b == SumFunctionOnSet(e, r)
  <2>8. a \in Int /\ b \in Int /\ f[y] \in Int /\ e[y] \in Int /\ g[y] = f[y] + e[y]
    BY <2>3, <2>4, <2>5, SumOfMore
  <2> HIDE DEF r, a, b
  <2>9. SumFunctionOnSet(f, s) = f[y] + a /\ SumFunctionOnSet(e, s) = e[y] + b /\ SumFunctionOnSet(g, s) = (f[y] + e[y]) + (a + b)
    BY <2>6, <2>7, <2>8 DEF a, b
  <2> QED BY <2>8, <2>9
<1> HIDE DEF T
<1>3. Cardinality(S) \in T
  BY <1>1, <1>2, Induction, FS_CardinalityType
<1> QED BY <1>3 DEF T

(* g is c times f; f is 1 on U and 0 outside; f is 0 outside of U.  *)
Scaled(S, f, g, c) == IsFiniteSet(S) /\ c \in Int /\ \A x \in S : f[x] \in Int /\ g[x] = c * f[x]
Marks(S, f, U) == IsFiniteSet(S) /\ U \subseteq S /\ \A x \in S : f[x] = IF x \in U THEN 1 ELSE 0
OnlyOn(S, f, U) == /\ IsFiniteSet(S) /\ U \subseteq S
                   /\ \A x \in S : f[x] \in Int
                   /\ \A x \in S \ U : f[x] = 0

(* A factor can be taken out of a sum.  *)
LEMMA SumScaled ==
  ASSUME NEW S, NEW f, NEW g, NEW c, Scaled(S, f, g, c)
  PROVE  SumFunctionOnSet(g, S) = c * SumFunctionOnSet(f, S)
<1> USE DEF Scaled
<1> DEFINE T == {k \in Nat : \A s \in SUBSET S : Cardinality(s) = k =>
                    SumFunctionOnSet(g, s) = c * SumFunctionOnSet(f, s)}
<1>1. 0 \in T
  <2>1. \A s \in SUBSET S : Cardinality(s) = 0 => s = {}
    BY OneLess
  <2> QED BY <2>1, SumOfNone
<1>2. ASSUME NEW k \in Nat, k \in T PROVE k + 1 \in T
  <2>1. SUFFICES ASSUME NEW s \in SUBSET S, Cardinality(s) = k + 1
                 PROVE  SumFunctionOnSet(g, s) = c * SumFunctionOnSet(f, s)
    OBVIOUS
  <2>2. IsFiniteSet(s) /\ s # {}
    BY <2>1, OneLess
  <2>3. PICK y \in s : TRUE
    BY <2>2
  <2> DEFINE r == s \ {y}
  <2>4. r \in SUBSET S /\ Cardinality(r) = k /\ IsFiniteSet(r)
    BY <2>1, <2>3, OneLess
  <2>5. \A x \in s : f[x] \in Int /\ g[x] \in Int
    OBVIOUS
  <2>6. /\ SumFunctionOnSet(f, s) = f[y] + SumFunctionOnSet(f, r)
        /\ SumFunctionOnSet(g, s) = g[y] + SumFunctionOnSet(g, r)
    BY <2>2, <2>3, <2>5, SumOfMore
  <2>7. SumFunctionOnSet(g, r) = c * SumFunctionOnSet(f, r)
    BY <1>2, <2>4
  <2> DEFINE a == SumFunctionOnSet(f, r)
             d == f[y]
  <2>8. a \in Int /\ d \in Int /\ g[y] = c * d
    BY <2>3, <2>4, <2>5, SumOfMore
  <2> HIDE DEF r, a, d
  <2>9. SumFunctionOnSet(f, s) = d + a /\ SumFunctionOnSet(g, s) = c * d + c * a
    BY <2>6, <2>7, <2>8 DEF a, d
  <2>10. c * (d + a) = c * d + c * a
    BY <2>8
  <2> QED BY <2>9, <2>10
<1> HIDE DEF T
<1>3. Cardinality(S) \in T
  BY <1>1, <1>2, Induction, FS_CardinalityType
<1> QED BY <1>3 DEF T

(* A sum of values that all have a lower bound.  *)
LEMMA SumBounded ==
  ASSUME NEW S, NEW f, NEW low \in Int, IsFiniteSet(S), \A x \in S : f[x] \in Int /\ f[x] >= low
  PROVE  SumFunctionOnSet(f, S) >= low * Cardinality(S)
<1> DEFINE T == {k \in Nat : \A s \in SUBSET S : Cardinality(s) = k => SumFunctionOnSet(f, s) >= low * k}
<1>1. 0 \in T
  <2>1. \A s \in SUBSET S : Cardinality(s) = 0 => s = {}
    BY OneLess
  <2>2. low * 0 = 0
    OBVIOUS
  <2> QED BY <2>1, <2>2, SumOfNone
<1>2. ASSUME NEW k \in Nat, k \in T PROVE k + 1 \in T
  <2>1. SUFFICES ASSUME NEW s \in SUBSET S, Cardinality(s) = k + 1
                 PROVE  SumFunctionOnSet(f, s) >= low * (k + 1)
    OBVIOUS
  <2>2. IsFiniteSet(s) /\ s # {}
    BY <2>1, OneLess
  <2>3. PICK y \in s : TRUE
    BY <2>2
  <2> DEFINE r == s \ {y}
  <2>4. r \in SUBSET S /\ Cardinality(r) = k /\ IsFiniteSet(r)
    BY <2>1, <2>3, OneLess
  <2>6. SumFunctionOnSet(f, s) = f[y] + SumFunctionOnSet(f, r)
    BY <2>2, <2>3, SumOfMore
  <2>7. SumFunctionOnSet(f, r) >= low * k
    BY <1>2, <2>4
  <2> DEFINE a == SumFunctionOnSet(f, r)
             d == f[y]
             m == low * k
  <2>8. a \in Int /\ d \in Int /\ d >= low /\ m \in Int
    BY <2>3, <2>4, SumOfMore
  <2>9. low * (k + 1) = m + low
    OBVIOUS
  <2> HIDE DEF r, a, d, m
  <2>10. SumFunctionOnSet(f, s) = d + a /\ a >= m
    BY <2>6, <2>7 DEF a, d, m
  <2>11. d + a >= m + low
    BY <2>8, <2>10
  <2> QED BY <2>9, <2>10, <2>11
<1> HIDE DEF T
<1>3. Cardinality(S) \in T
  BY <1>1, <1>2, Induction, FS_CardinalityType
<1> QED BY <1>3 DEF T

(* A sum of ones and zeros counts the ones.  *)
LEMMA SumCounts ==
  ASSUME NEW S, NEW f, NEW U, Marks(S, f, U)
  PROVE  SumFunctionOnSet(f, S) = Cardinality(U)
<1> USE DEF Marks
<1> DEFINE T == {k \in Nat : \A s \in SUBSET S : Cardinality(s) = k =>
                    SumFunctionOnSet(f, s) = Cardinality(s \cap U)}
<1>1. 0 \in T
  <2>1. \A s \in SUBSET S : Cardinality(s) = 0 => s = {} /\ s \cap U = {}
    BY OneLess
  <2> QED BY <2>1, SumOfNone, FS_EmptySet
<1>2. ASSUME NEW k \in Nat, k \in T PROVE k + 1 \in T
  <2>1. SUFFICES ASSUME NEW s \in SUBSET S, Cardinality(s) = k + 1
                 PROVE  SumFunctionOnSet(f, s) = Cardinality(s \cap U)
    OBVIOUS
  <2>2. IsFiniteSet(s) /\ s # {}
    BY <2>1, OneLess
  <2>3. PICK y \in s : TRUE
    BY <2>2
  <2> DEFINE r == s \ {y}
  <2>4. r \in SUBSET S /\ Cardinality(r) = k /\ IsFiniteSet(r)
    BY <2>1, <2>3, OneLess
  <2>5. SumFunctionOnSet(f, s) = f[y] + SumFunctionOnSet(f, r) /\ SumFunctionOnSet(f, r) = Cardinality(r \cap U)
    BY <1>2, <2>2, <2>3, <2>4, SumOfMore
  <2>6. IsFiniteSet(r \cap U) /\ Cardinality(r \cap U) \in Nat
    BY <2>4, FS_Intersection, FS_CardinalityType
  <2>7. CASE y \in U
    <3>1. s \cap U = (r \cap U) \cup {y} /\ y \notin r \cap U
      BY <2>3, <2>7
    <3>2. Cardinality(s \cap U) = Cardinality(r \cap U) + 1
      BY <2>6, <3>1, FS_AddElement
    <3> QED BY <2>3, <2>5, <2>6, <2>7, <3>2
  <2>8. CASE y \notin U
    <3>1. s \cap U = r \cap U /\ f[y] = 0
      BY <2>3, <2>8
    <3>2. PICK a \in Nat : a = Cardinality(r \cap U)
      BY <2>6
    <3>3. SumFunctionOnSet(f, s) = 0 + a
      BY <2>5, <3>1, <3>2
    <3> QED BY <3>1, <3>2, <3>3
  <2> QED BY <2>7, <2>8
<1> HIDE DEF T
<1>3. Cardinality(S) \in T
  BY <1>1, <1>2, Induction, FS_CardinalityType
<1>4. S \cap U = U
  OBVIOUS
<1> QED BY <1>3, <1>4 DEF T

(* What is worth nothing may be left out of a sum.  *)
LEMMA SumOfWorth ==
  ASSUME NEW S, NEW f, NEW U, OnlyOn(S, f, U)
  PROVE  SumFunctionOnSet(f, S) = SumFunctionOnSet(f, U)
<1> USE DEF OnlyOn
<1> DEFINE T == {k \in Nat : \A s \in SUBSET S : Cardinality(s) = k =>
                    SumFunctionOnSet(f, s) = SumFunctionOnSet(f, s \cap U)}
<1>1. 0 \in T
  <2>1. \A s \in SUBSET S : Cardinality(s) = 0 => s = {} /\ s \cap U = {}
    BY OneLess
  <2> QED BY <2>1
<1>2. ASSUME NEW k \in Nat, k \in T PROVE k + 1 \in T
  <2>1. SUFFICES ASSUME NEW s \in SUBSET S, Cardinality(s) = k + 1
                 PROVE  SumFunctionOnSet(f, s) = SumFunctionOnSet(f, s \cap U)
    OBVIOUS
  <2>2. IsFiniteSet(s) /\ s # {} /\ IsFiniteSet(s \cap U)
    BY <2>1, OneLess, FS_Intersection
  <2>3. PICK y \in s : TRUE
    BY <2>2
  <2> DEFINE r == s \ {y}
  <2>4. r \in SUBSET S /\ Cardinality(r) = k /\ IsFiniteSet(r)
    BY <2>1, <2>3, OneLess
  <2>5. SumFunctionOnSet(f, s) = f[y] + SumFunctionOnSet(f, r) /\ SumFunctionOnSet(f, r) = SumFunctionOnSet(f, r \cap U)
    BY <1>2, <2>2, <2>3, <2>4, SumOfMore
  <2>6. CASE y \in U
    <3>1. (s \cap U) \ {y} = r \cap U /\ y \in s \cap U
      BY <2>3, <2>6
    <3>2. SumFunctionOnSet(f, s \cap U) = f[y] + SumFunctionOnSet(f, (s \cap U) \ {y})
      BY <2>2, <3>1, SumOfMore
    <3> QED BY <2>5, <3>1, <3>2
  <2>7. CASE y \notin U
    <3>1. s \cap U = r \cap U /\ f[y] = 0
      BY <2>3, <2>7
    <3>2. PICK a \in Int : a = SumFunctionOnSet(f, r)
      BY <2>4, SumOfMore
    <3>3. SumFunctionOnSet(f, s) = 0 + a
      BY <2>5, <3>1, <3>2
    <3>4. SumFunctionOnSet(f, s) = SumFunctionOnSet(f, r \cap U)
      BY <2>5, <3>2, <3>3
    <3> QED BY <3>1, <3>4
  <2> QED BY <2>6, <2>7
<1> HIDE DEF T
<1>3. Cardinality(S) \in T
  BY <1>1, <1>2, Induction, FS_CardinalityType
<1>4. S \cap U = U
  OBVIOUS
<1> QED BY <1>3, <1>4 DEF T

-----------------------------------------------------------------------------
(* What a payment is composed of (vat-split.ts).                              *)

(* Who comes before r when the larger remainder comes first, and of two that are the
   same the lower rate.                                                            *)
Before(rest, C, r) == {q \in C : rest[q] > rest[r] \/ (rest[q] = rest[r] /\ q < r)}
Ahead(rest, q, r) == rest[q] > rest[r] \/ (rest[q] = rest[r] /\ q < r)

(* The first k in that order.  *)
Foremost(rest, C, k) == {r \in C : Cardinality(Before(rest, C, r)) < k}

(* Some member of a set of rates comes first.  *)
LEMMA SomebodyLeads ==
  ASSUME NEW C, IsFiniteSet(C), C \subseteq Int, NEW rest, \A r \in C : rest[r] \in Int, C # {}
  PROVE  \E r \in C : \A q \in C \ {r} : Ahead(rest, r, q)
<1> DEFINE T == {k \in Nat : \A s \in SUBSET C : Cardinality(s) = k /\ s # {} => \E r \in s : \A q \in s \ {r} : Ahead(rest, r, q)}
<1>1. 0 \in T
  BY OneLess
<1>2. ASSUME NEW k \in Nat, k \in T PROVE k + 1 \in T
  <2>1. SUFFICES ASSUME NEW s \in SUBSET C, Cardinality(s) = k + 1, s # {}
                 PROVE  \E r \in s : \A q \in s \ {r} : Ahead(rest, r, q)
    OBVIOUS
  <2>2. PICK y \in s : TRUE
    BY <2>1
  <2> DEFINE t == s \ {y}
  <2>3. t \in SUBSET C /\ Cardinality(t) = k
    <3>1. s \ {y} \in SUBSET C /\ Cardinality(s \ {y}) = Cardinality(s) - 1
      BY <2>2, OneLess
    <3> QED BY <2>1, <3>1
  <2>4. CASE t = {}
    BY <2>2, <2>4
  <2>5. CASE t # {}
    <3>1. PICK r \in t : \A q \in t \ {r} : Ahead(rest, r, q)
      BY <1>2, <2>3, <2>5
    <3>2. y \in Int /\ r \in Int /\ rest[y] \in Int /\ rest[r] \in Int /\ r # y
      BY <2>2, <3>1
    <3>3. Ahead(rest, r, y) \/ Ahead(rest, y, r)
      BY <3>2 DEF Ahead
    <3>4. CASE Ahead(rest, r, y)
      BY <3>1, <3>4
    <3>5. CASE Ahead(rest, y, r)
      <4>1. ASSUME NEW q \in s \ {y} PROVE Ahead(rest, y, q)
        <5>1. q = r \/ (q \in t \ {r} /\ Ahead(rest, r, q))
          BY <3>1, <4>1
        <5>2. q \in Int /\ rest[q] \in Int
          BY <4>1
        <5> QED BY <3>2, <3>5, <5>1, <5>2 DEF Ahead
      <4> QED BY <2>2, <4>1
    <3> QED BY <3>3, <3>4, <3>5
  <2> QED BY <2>4, <2>5
<1> HIDE DEF T
<1>3. Cardinality(C) \in T
  BY <1>1, <1>2, Induction, FS_CardinalityType
<1> QED BY <1>3 DEF T

(* The first k are k.  *)
LEMMA ForemostAreSoMany ==
  ASSUME NEW C, IsFiniteSet(C), C \subseteq Int, NEW rest, \A r \in C : rest[r] \in Int,
         NEW n \in Nat, n <= Cardinality(C)
  PROVE  Cardinality(Foremost(rest, C, n)) = n
<1> DEFINE Low(k) == Foremost(rest, C, k)
           T == {k \in Nat : k <= Cardinality(C) => Cardinality(Low(k)) = k}
<1>1. Cardinality(C) \in Nat
  BY FS_CardinalityType
<1>2. ASSUME NEW r \in C PROVE /\ Before(rest, C, r) \subseteq C /\ IsFiniteSet(Before(rest, C, r))
                               /\ Cardinality(Before(rest, C, r)) \in Nat
  <2>1. Before(rest, C, r) \subseteq C
    BY DEF Before
  <2> QED BY <2>1, FS_Subset, FS_CardinalityType
<1>3. ASSUME NEW q \in C, NEW r \in C PROVE Ahead(rest, q, r) <=> q \in Before(rest, C, r)
  BY DEF Before, Ahead
<1>4. ASSUME NEW q \in C, NEW r \in C, q \in Before(rest, C, r)
      PROVE  Cardinality(Before(rest, C, q)) < Cardinality(Before(rest, C, r))
  <2>1. Before(rest, C, q) \subseteq Before(rest, C, r) \ {q}
    <3>1. rest[q] \in Int /\ rest[r] \in Int /\ q \in Int /\ r \in Int
      BY <1>4
    <3>2. ASSUME NEW x \in Before(rest, C, q) PROVE x \in Before(rest, C, r) /\ x # q
      <4>1. x \in C /\ x \in Int /\ rest[x] \in Int
        BY <3>2 DEF Before
      <4> QED BY <1>4, <3>1, <3>2, <4>1 DEF Before
    <3> QED BY <3>2
  <2> DEFINE b == Before(rest, C, r)
  <2>2. IsFiniteSet(b) /\ q \in b /\ Cardinality(b) \in Nat
    BY <1>2, <1>4
  <2> HIDE DEF b
  <2>3. IsFiniteSet(b \ {q}) /\ Cardinality(b \ {q}) = Cardinality(b) - 1
    BY <2>2, FS_RemoveElement
  <2>4. Cardinality(Before(rest, C, q)) <= Cardinality(b \ {q})
    BY <2>1, <2>3, FS_Subset DEF b
  <2>5. Cardinality(Before(rest, C, q)) \in Nat
    BY <1>2
  <2> QED BY <2>2, <2>3, <2>4, <2>5 DEF b
<1>5. 0 \in T
  <2>1. ASSUME NEW r \in C PROVE ~(Cardinality(Before(rest, C, r)) < 0)
    BY <1>2
  <2>2. Low(0) = {}
    BY <2>1 DEF Foremost
  <2> QED BY <2>2, FS_EmptySet
<1>6. ASSUME NEW k \in Nat, k \in T PROVE k + 1 \in T
  <2>1. SUFFICES ASSUME k + 1 <= Cardinality(C) PROVE Cardinality(Low(k + 1)) = k + 1
    OBVIOUS
  <2>2. Cardinality(Low(k)) = k
    BY <1>1, <1>6, <2>1
  <2>3. Low(k) \subseteq C /\ IsFiniteSet(Low(k))
    <3>1. Low(k) \subseteq C
      BY DEF Foremost
    <3> QED BY <3>1, FS_Subset
  <2> DEFINE R == C \ Low(k)
  <2>4. R # {}
    <3>1. Low(k) # C
      BY <1>1, <2>1, <2>2
    <3> QED BY <2>3, <3>1
  <2>5. PICK r \in R : \A q \in R \ {r} : Ahead(rest, r, q)
    <3>1. IsFiniteSet(R) /\ R \subseteq Int /\ \A q \in R : rest[q] \in Int
      BY FS_Subset
    <3> HIDE DEF R
    <3> QED BY <2>4, <3>1, SomebodyLeads
  <2>6. r \in C /\ ~(Cardinality(Before(rest, C, r)) < k)
    BY <2>5 DEF Foremost
  <2>7. Before(rest, C, r) = Low(k)
    <3>1. ASSUME NEW q \in Before(rest, C, r) PROVE q \in Low(k)
      <4>1. q \in C
        BY <3>1 DEF Before
      <4>2. ~Ahead(rest, r, q)
        <5>1. Ahead(rest, q, r)
          BY <1>3, <2>6, <3>1, <4>1
        <5>2. q \in Int /\ r \in Int /\ rest[q] \in Int /\ rest[r] \in Int
          BY <2>6, <4>1
        <5> QED BY <5>1, <5>2 DEF Ahead
      <4>3. q # r
        BY <2>6, <3>1 DEF Before
      <4> QED BY <2>5, <4>1, <4>2, <4>3
    <3>2. ASSUME NEW q \in Low(k) PROVE q \in Before(rest, C, r)
      <4>1. q \in C /\ Cardinality(Before(rest, C, q)) < k
        BY <3>2 DEF Foremost
      <4>2. q # r
        BY <2>6, <4>1
      <4>3. ~Ahead(rest, r, q)
        <5>1. SUFFICES ASSUME Ahead(rest, r, q) PROVE FALSE
          OBVIOUS
        <5>2. Cardinality(Before(rest, C, r)) < Cardinality(Before(rest, C, q))
          BY <1>3, <1>4, <2>6, <4>1, <5>1
        <5> QED BY <1>2, <2>6, <4>1, <5>2
      <4>4. Ahead(rest, q, r)
        <5>1. q \in Int /\ r \in Int /\ rest[q] \in Int /\ rest[r] \in Int
          BY <2>6, <4>1
        <5> QED BY <4>2, <4>3, <5>1 DEF Ahead
      <4> QED BY <1>3, <2>6, <4>1, <4>4
    <3> QED BY <3>1, <3>2
  <2>8. Low(k + 1) = Low(k) \cup {r}
    <3>1. Cardinality(Before(rest, C, r)) = k
      BY <2>2, <2>7
    <3>2. ASSUME NEW q \in C, q # r, ~(Cardinality(Before(rest, C, q)) < k)
          PROVE  ~(Cardinality(Before(rest, C, q)) < k + 1)
      <4>1. q \in R \ {r}
        BY <3>2 DEF Foremost
      <4>2. r \in Before(rest, C, q)
        BY <1>3, <2>5, <2>6, <4>1
      <4>3. k < Cardinality(Before(rest, C, q))
        BY <1>4, <2>6, <3>1, <4>2
      <4> QED BY <1>2, <4>3
    <3>3. ASSUME NEW q \in C PROVE q \in Low(k + 1) <=> q \in Low(k) \/ q = r
      <4>1. Cardinality(Before(rest, C, q)) \in Nat
        BY <1>2
      <4>2. q \in Low(k + 1) <=> Cardinality(Before(rest, C, q)) < k + 1
        BY DEF Foremost
      <4>3. q \in Low(k) <=> Cardinality(Before(rest, C, q)) < k
        BY DEF Foremost
      <4> QED BY <3>1, <3>2, <4>1, <4>2, <4>3
    <3>4. Low(k + 1) \subseteq C
      BY DEF Foremost
    <3> HIDE DEF Low
    <3> QED BY <2>3, <2>6, <3>3, <3>4
  <2>9. r \notin Low(k)
    BY <2>5
  <2> HIDE DEF Low
  <2> QED BY <2>2, <2>3, <2>8, <2>9, FS_AddElement
<1> HIDE DEF T
<1>7. n \in T
  BY <1>5, <1>6, Induction
<1> QED BY <1>7 DEF T

(* Whole parts and remainders of a division by a positive number.  *)
LEMMA Division ==
  ASSUME NEW a \in Int, NEW d \in Int, d > 0
  PROVE  /\ a \div d \in Int /\ a % d \in Int
         /\ a = d * (a \div d) + (a % d) /\ 0 <= a % d /\ a % d < d
OBVIOUS

(* What two sums of products have in common.  *)
LEMMA WholeShares ==
  ASSUME NEW d \in Int, d > 0, NEW m \in Int, NEW q \in Int, NEW rest \in Int, NEW n \in Int, n > 0,
         m * d = d * q + rest, rest >= 0, rest <= (d - 1) * n
  PROVE  0 <= m - q /\ m - q < n
<1> DEFINE l == m - q
<1>1. l \in Int /\ rest = d * l
  OBVIOUS
<1> HIDE DEF l
<1>2. l >= 0
  <2>1. SUFFICES ASSUME l <= -1 PROVE FALSE
    BY <1>1
  <2>2. d * l <= d * (-1)
    BY <1>1, <2>1
  <2> QED BY <1>1, <2>2
<1>3. l < n
  <2>1. SUFFICES ASSUME l >= n PROVE FALSE
    BY <1>1
  <2>2. d * l >= d * n
    BY <1>1, <2>1
  <2>3. (d - 1) * n = d * n - n
    OBVIOUS
  <2>4. d * n \in Int /\ d * l \in Int
    BY <1>1
  <2> QED BY <1>1, <2>2, <2>3, <2>4
<1> QED BY <1>2, <1>3 DEF l

(* The shares of an amount add up to it, to the cent, whatever the rates and their
   values (allocateToAmount).                                                      *)
THEOREM AllocateFoots ==
  ASSUME NEW R, R \subseteq Int, IsFiniteSet(R), NEW s \in [R -> Nat], SplitSum(s) > 0, NEW t \in Int
  PROVE  LET a == AllocateToAmount(s, t)
         IN  /\ DOMAIN a = {r \in R : s[r] # 0} /\ DOMAIN a # {}
             /\ a \in [DOMAIN a -> Int] /\ SplitSum(a) = t
<1> DEFINE clean == {r \in DOMAIN s : s[r] # 0}
           total == SplitSum(s)
<1>1. clean \subseteq R /\ IsFiniteSet(clean) /\ \A r \in clean : s[r] \in Nat /\ r \in Int
  <2>1. clean \subseteq R
    OBVIOUS
  <2> QED BY <2>1, FS_Subset
<1>2. total = SumFunctionOnSet(s, R) /\ total \in Int
  <2>1. total = SumFunctionOnSet(s, R)
    BY DEF SplitSum, SumFunction
  <2>2. \A r \in R : s[r] \in Int
    OBVIOUS
  <2> QED BY <2>1, <2>2, SumOfMore
<1>3. total = SumFunctionOnSet(s, clean)
  <2>1. (\A r \in R : s[r] \in Int) /\ (\A r \in R \ clean : s[r] = 0)
    OBVIOUS
  <2> HIDE DEF clean, total
  <2>2. SumFunctionOnSet(s, R) = SumFunctionOnSet(s, clean)
    <3>1. OnlyOn(R, s, clean)
      BY <1>1, <2>1 DEF OnlyOn
    <3> QED BY <3>1, SumOfWorth
  <2> QED BY <1>2, <2>2
<1>4. clean # {}
  <2>1. SUFFICES ASSUME clean = {} PROVE FALSE
    OBVIOUS
  <2>2. total = 0
    BY <1>3, <2>1, SumOfNone
  <2> QED BY <2>2
<1>5. CASE total = t
  <2> DEFINE a == [r \in clean |-> s[r]]
  <2>1. AllocateToAmount(s, t) = a
    BY <1>4, <1>5 DEF AllocateToAmount
  <2>2. \A r \in clean : s[r] \in Int /\ s[r] = a[r]
    BY <1>1
  <2>3. SplitSum(a) = SumFunctionOnSet(a, clean)
    BY DEF SplitSum, SumFunction
  <2>4. DOMAIN a = clean /\ a \in [clean -> Int] /\ clean = {r \in R : s[r] # 0}
    BY <2>2
  <2> HIDE DEF clean, total, a
  <2>5. SumFunctionOnSet(s, clean) = SumFunctionOnSet(a, clean)
    BY <1>1, <2>2, SumOfSame
  <2> QED BY <1>3, <1>4, <1>5, <2>1, <2>3, <2>4, <2>5
<1>6. CASE total # t
  <2> DEFINE m == Abs(t)
             ex == [r \in clean |-> s[r] * m]
             floor == [r \in clean |-> (s[r] * m) \div total]
             rest == [r \in clean |-> (s[r] * m) % total]
             whole == [r \in clean |-> total * floor[r]]
             q == SumFunctionOnSet(floor, clean)
             left == m - q
             first == Foremost(rest, clean, left)
             one == [r \in clean |-> IF r \in first THEN 1 ELSE 0]
             share == [r \in clean |-> floor[r] + one[r]]
             sign == IF t < 0 THEN -1 ELSE 1
             a == [r \in clean |-> sign * share[r]]
  <2>1. total > 0 /\ m \in Nat /\ t = sign * m /\ sign \in Int /\ Abs(total) = total
    BY <1>2 DEF Abs
  <2>2. \A r \in clean : Abs(s[r]) = s[r]
    BY <1>1 DEF Abs
  <2>3. AllocateToAmount(s, t) = a
    <3> DEFINE exact(r) == Abs(s[r]) * Abs(t)
               flo(r) == exact(r) \div Abs(total)
               res(r) == exact(r) % Abs(total)
               lef == Abs(t) - SplitSum([r \in clean |-> flo(r)])
               before(r) == {p \in clean : res(p) > res(r) \/ (res(p) = res(r) /\ p < r)}
               sha(r) == flo(r) + (IF Cardinality(before(r)) < lef THEN 1 ELSE 0)
    <3>1. \A r \in clean : flo(r) = floor[r] /\ res(r) = rest[r]
      BY <2>1, <2>2
    <3>2. [r \in clean |-> flo(r)] = floor
      BY <3>1
    <3>3. lef = left
      <4>1. SplitSum(floor) = SumFunctionOnSet(floor, clean)
        BY DEF SplitSum, SumFunction
      <4> QED BY <3>2, <4>1
    <3>4. \A r \in clean : before(r) = Before(rest, clean, r)
      BY <3>1 DEF Before
    <3>5. \A r \in clean : sha(r) = share[r]
      <4>1. \A r \in clean : r \in first <=> Cardinality(Before(rest, clean, r)) < left
        BY DEF Foremost
      <4> QED BY <3>1, <3>3, <3>4, <4>1
    <3>6. AllocateToAmount(s, t) = [r \in clean |-> (IF t < 0 THEN -1 ELSE 1) * sha(r)]
      BY <1>4, <1>6, <2>1 DEF AllocateToAmount
    <3> QED BY <3>5, <3>6
  <2>4. \A r \in clean : /\ ex[r] = s[r] * m /\ ex[r] \in Int /\ floor[r] \in Int /\ rest[r] \in Int
                         /\ ex[r] = whole[r] + rest[r] /\ whole[r] = total * floor[r] /\ whole[r] \in Int
                         /\ 0 <= rest[r] /\ rest[r] <= total - 1
    <3>1. ASSUME NEW r \in clean
          PROVE  /\ ex[r] = s[r] * m /\ ex[r] \in Int /\ floor[r] \in Int /\ rest[r] \in Int
                 /\ ex[r] = whole[r] + rest[r] /\ whole[r] = total * floor[r] /\ whole[r] \in Int
                 /\ 0 <= rest[r] /\ rest[r] <= total - 1
      <4>1. PICK x \in Int : x = s[r] * m
        BY <1>1, <2>1
      <4>2. x \div total \in Int /\ x % total \in Int /\ x = total * (x \div total) + (x % total) /\ 0 <= x % total /\ x % total < total
        BY <1>2, <2>1, <4>1, Division
      <4>3. PICK y \in Int, z \in Int : y = x \div total /\ z = x % total /\ x = total * y + z /\ 0 <= z /\ z < total
        BY <4>2
      <4>4. ex[r] = x /\ floor[r] = y /\ rest[r] = z
        BY <4>1, <4>3
      <4>5. whole[r] = total * y
        BY <4>4
      <4>6. total * y \in Int /\ z <= total - 1
        <5>1. PICK d \in Int : d = total
          BY <1>2
        <5>2. z < d
          BY <4>3, <5>1
        <5>3. d * y \in Int /\ z <= d - 1
          BY <5>2
        <5> QED BY <5>1, <5>3
      <4> HIDE DEF ex, floor, rest, whole, total
      <4> QED BY <4>1, <4>3, <4>4, <4>5, <4>6
    <3> HIDE DEF ex, floor, rest, whole, total, clean
    <3> QED BY <3>1
  <2> DEFINE n == Cardinality(clean)
             Rs == SumFunctionOnSet(rest, clean)
             minus == [r \in clean |-> -1 * rest[r]]
  <2> HIDE DEF clean, total, m, ex, floor, rest, whole, q, left, first, sign
  <2>5. n \in Nat /\ n > 0
    BY <1>1, <1>4, FS_CardinalityType, FS_EmptySet
  <2>6. SumFunctionOnSet(ex, clean) = m * total
    <3>1. Scaled(clean, s, ex, m)
      BY <1>1, <2>1, <2>4 DEF Scaled
    <3>2. SumFunctionOnSet(ex, clean) = m * SumFunctionOnSet(s, clean)
      BY <3>1, SumScaled
    <3> QED BY <1>3, <3>2
  <2>7. SumFunctionOnSet(ex, clean) = SumFunctionOnSet(whole, clean) + Rs
    BY <1>1, <2>4, SumOfBoth
  <2>8. SumFunctionOnSet(whole, clean) = total * q
    <3>1. Scaled(clean, floor, whole, total)
      BY <1>1, <1>2, <2>4 DEF Scaled
    <3> QED BY <3>1, SumScaled DEF q
  <2>9. q \in Int /\ Rs \in Int
    BY <1>1, <2>4, SumOfMore DEF q
  <2>10. Rs >= 0
    <3>1. PICK z \in Int : z = 0
      OBVIOUS
    <3>2. \A r \in clean : rest[r] \in Int /\ rest[r] >= z
      BY <2>4, <3>1
    <3>3. Rs >= z * n
      BY <1>1, <3>2, SumBounded
    <3> HIDE DEF Rs, n
    <3> QED BY <2>5, <3>1, <3>3
  <2>11. Rs <= (total - 1) * n
    <3>1. PICK c \in Int, low \in Int : c = -1 /\ low = 1 - total
      BY <1>2
    <3>2. \A r \in clean : rest[r] \in Int /\ minus[r] = c * rest[r] /\ minus[r] \in Int /\ minus[r] >= low
      BY <1>2, <2>4, <3>1
    <3> HIDE DEF minus
    <3>3. SumFunctionOnSet(minus, clean) = c * Rs
      <4>1. Scaled(clean, rest, minus, c)
        BY <1>1, <3>2 DEF Scaled
      <4> QED BY <4>1, SumScaled
    <3>4. SumFunctionOnSet(minus, clean) >= low * n
      BY <1>1, <3>2, SumBounded
    <3> HIDE DEF Rs, n
    <3>5. low * n = -1 * ((total - 1) * n)
      BY <1>2, <2>5, <3>1
    <3>6. PICK b \in Int : b = (total - 1) * n
      BY <1>2, <2>5
    <3> QED BY <2>9, <3>1, <3>3, <3>4, <3>5, <3>6
  <2>12. 0 <= m - q /\ m - q < n
    <3> HIDE DEF Rs, n
    <3>1. m * total = total * q + Rs
      BY <2>6, <2>7, <2>8
    <3> QED BY <1>2, <2>1, <2>5, <2>9, <2>10, <2>11, <3>1, WholeShares
  <2>13. left \in Nat /\ left <= n /\ left = m - q
    <3> HIDE DEF n
    <3> QED BY <2>1, <2>5, <2>9, <2>12 DEF left
  <2>14. first \subseteq clean /\ Cardinality(first) = left
    <3>1. first \subseteq clean
      BY DEF first, Foremost
    <3>2. clean \subseteq Int
      BY <1>1
    <3> QED BY <1>1, <2>4, <2>13, <3>1, <3>2, ForemostAreSoMany DEF first
  <2>15. SumFunctionOnSet(one, clean) = left
    <3>1. \A r \in clean : one[r] = IF r \in first THEN 1 ELSE 0
      OBVIOUS
    <3> HIDE DEF one
    <3>2. SumFunctionOnSet(one, clean) = Cardinality(first)
      <4>1. Marks(clean, one, first)
        BY <1>1, <2>14, <3>1 DEF Marks
      <4> QED BY <4>1, SumCounts
    <3> QED BY <2>14, <3>2
  <2>16. SumFunctionOnSet(share, clean) = m
    <3>1. \A r \in clean : floor[r] \in Int /\ one[r] \in Int /\ share[r] = floor[r] + one[r]
      BY <2>4
    <3> HIDE DEF one, share
    <3>2. SumFunctionOnSet(share, clean) = q + left
      BY <1>1, <2>15, <3>1, SumOfBoth DEF q
    <3> QED BY <2>1, <2>9, <2>13, <3>2
  <2>17. SumFunctionOnSet(a, clean) = t
    <3>1. \A r \in clean : share[r] \in Int /\ a[r] = sign * share[r]
      BY <2>4
    <3> HIDE DEF share, a
    <3>2. SumFunctionOnSet(a, clean) = sign * SumFunctionOnSet(share, clean)
      <4>1. Scaled(clean, share, a, sign)
        BY <1>1, <2>1, <3>1 DEF Scaled
      <4> QED BY <4>1, SumScaled
    <3> QED BY <2>1, <2>16, <3>2
  <2>18. DOMAIN a = clean /\ a \in [clean -> Int]
    BY <2>1, <2>4
  <2>19. SplitSum(a) = SumFunctionOnSet(a, clean)
    BY <2>18 DEF SplitSum, SumFunction
  <2>20. clean = {r \in R : s[r] # 0}
    BY DEF clean
  <2> HIDE DEF a
  <2> QED BY <1>4, <2>3, <2>17, <2>18, <2>19, <2>20
<1> QED BY <1>5, <1>6

-----------------------------------------------------------------------------
(* What the steps keep true.  *)

Splits == UNION {[d -> Int] : d \in SUBSET Rates}
Rows == [order : Nat, amount : Int, splits : Splits, created : Nat, reverses : Nat \cup {None},
         status : {"captured", "refunded"}, tse : Nat \cup {None, Failed}]
Orders == [event : Events, created : Nat, basket : Baskets, deposit : Deposits, extra : Extras,
           cancelled : SUBSET Rates]
Entries == [amount : Int, splits : Splits, state : {"active", "finished"}]
Closings == [event : Events, start : Nat, end : Nat, content : SUBSET Nat, turnover : [Rates -> Int], paid : Int]

Stages == {"client", "start", "finish", "job", "keep"}
SignItems == [do : {"sign"}, stage : Stages, payment : Nat, row : Rows, number : Nat,
              at : Nat \cup {None, Local}, must : BOOLEAN]
MarkItems == [do : {"refund"}, payment : Nat]
TssItems == [do : {"setUp", "settings"}, tss : Nat]
ExportItems == [do : {"export"}, event : Events, archive : BOOLEAN]
CloseItems == [do : {"close"}, event : Events, start : Nat, end : Nat, content : SUBSET Nat, seen : Nat,
               archive : BOOLEAN]
ArchiveItems == [do : {"archive"}, content : SUBSET Nat]
Items == SignItems \cup MarkItems \cup TssItems \cup ExportItems \cup CloseItems \cup ArchiveItems

(* What a request has still to do: one signature, with the refund's mark before or
   after it, or statements that sign nothing.  *)
IsPlan(t) ==
  /\ t \in Seq(Items)
  /\ \/ \A i \in DOMAIN t : t[i].do # "sign"
     \/ Len(t) = 1
     \/ Len(t) = 2 /\ t[1].do = "sign" /\ t[2].do = "refund"
     \/ Len(t) = 2 /\ t[1].do = "refund" /\ t[2].do = "sign"

Signs(t) == {t[i] : i \in {j \in DOMAIN t : t[j].do = "sign"}}
Closes(t) == {t[i] : i \in {j \in DOMAIN t : t[j].do = "close"}}

PlansOK == DOMAIN task = Workers /\ \A w \in Workers : IsPlan(task[w])

RowsOK ==
  /\ tse \in Nat \cup {None, Local} /\ clock \in Nat
  /\ ledger \in Seq(Entries) /\ orders \in Seq(Orders) /\ closings \in Seq(Closings)
  /\ DOMAIN payments \subseteq Nat /\ payments \in [DOMAIN payments -> Rows]
  /\ next \in [payment : Nat, tss : Nat]
  /\ history \in [excused : SUBSET Nat, early : SUBSET Nat, raced : BOOLEAN]

TypesInv == PlansOK /\ RowsOK

SameRow(r, s) ==
  r.order = s.order /\ r.amount = s.amount /\ r.splits = s.splits /\ r.created = s.created /\ r.reverses = s.reverses

(* A row's taxes are its amount.  *)
Foots(row) == SplitSum(row.splits) = row.amount /\ DOMAIN row.splits # {}

(* A reversal undoes the taxes of a sale.  *)
Mirrors(id, row) ==
  /\ row.reverses \in DOMAIN payments /\ payments[row.reverses].reverses = None
  /\ id \notin history.early => row.splits = Negated(payments[row.reverses].splits)

Placed(id, row) == id \in 0..(next.payment - 1) /\ row.order \in DOMAIN orders /\ Foots(row)

(* Transaction n was finished for this row.  *)
SignedFor(n, row) == n \in DOMAIN ledger /\ ledger[n] = Entry(row, "finished")

SignFits(g) ==
  /\ Placed(g.payment, g.row)
  /\ g.row.reverses = None => /\ g.payment \in DOMAIN payments /\ SameRow(g.row, payments[g.payment])
                              /\ ~g.must
  /\ g.row.reverses # None => g.payment \notin DOMAIN payments /\ Mirrors(g.payment, g.row)
  /\ g.stage # "keep" => g.row.tse = None
  /\ g.stage = "finish" => /\ g.number \in DOMAIN ledger /\ ledger[g.number].amount = g.row.amount
                           /\ ledger[g.number].splits = g.row.splits
  /\ g.stage = "keep" => /\ g.row.tse = None => g.payment \in history.excused
                         /\ g.row.tse \in Nat => SignedFor(g.row.tse, g.row)

(* The transaction a signature in the making has for itself.  *)
HasNumber(g, n) == (g.stage = "finish" /\ n = g.number) \/ (g.stage = "keep" /\ n = g.row.tse)

SignsInv == \A w \in Workers : \A g \in Signs(task[w]) : SignFits(g)

SignsApart ==
  \A v, w \in Workers : v # w =>
    \A g \in Signs(task[v]), h \in Signs(task[w]) :
      g.payment # h.payment /\ \A n \in Nat : ~(HasNumber(g, n) /\ HasNumber(h, n))

NumbersFree ==
  \A w \in Workers : \A g \in Signs(task[w]) : \A n \in Nat :
    HasNumber(g, n) => \A p \in DOMAIN payments : payments[p].tse # n

PaymentFits(p, row) ==
  /\ Placed(p, row)
  /\ row.reverses = None => row.amount >= 1
  /\ row.reverses # None => Mirrors(p, row)
  /\ row.tse \in Nat => SignedFor(row.tse, row)

Awaited(p) == p \in history.excused \/ \E w \in Workers : \E g \in Signs(task[w]) : g.payment = p

PaymentsInv ==
  \A p \in DOMAIN payments : PaymentFits(p, payments[p]) /\ (payments[p].tse = None => Awaited(p))
PaymentsApart ==
  \A p, q \in DOMAIN payments : p # q /\ payments[p].tse \in Nat => payments[q].tse # payments[p].tse
LedgerFoots == \A n \in DOMAIN ledger : SplitSum(ledger[n].splits) = ledger[n].amount

(* When a row counts for the closings.  *)
Stamp(p) == IF payments[p].reverses = None THEN orders[payments[p].order].created ELSE payments[p].created
Covers(z) ==
  /\ z.content \subseteq DOMAIN payments /\ z.start <= z.end /\ z.end <= clock
  /\ \A p \in z.content : z.start <= Stamp(p) /\ Stamp(p) <= z.end

ClosesInv ==
  \A w \in Workers : \A c \in Closes(task[w]) :
    /\ Covers(c) /\ c.seen <= Len(closings)
    /\ c.seen = Len(closings) => c.start = LastEnd(0)

ClosingsInv ==
  /\ \A z \in DOMAIN closings :
       /\ Covers(closings[z])
       /\ closings[z].turnover = BusinessCases(closings[z].content)
       /\ closings[z].paid = PaymentTotal(closings[z].content)
  /\ ~history.raced => \A y, z \in DOMAIN closings : y < z => closings[y].end <= closings[z].start

SigningInv ==
  SignsInv /\ SignsApart /\ NumbersFree /\ PaymentsInv /\ PaymentsApart /\ LedgerFoots

FiscalInv == TypesInv /\ SigningInv /\ ClosesInv /\ ClosingsInv

(* What a statement is, by its name.  *)
LEMMA Kinds ==
  ASSUME NEW s \in Items
  PROVE  /\ s.do = "sign" => s \in SignItems
         /\ s.do = "refund" => s \in MarkItems
         /\ s.do \in {"setUp", "settings"} => s \in TssItems
         /\ s.do = "export" => s \in ExportItems
         /\ s.do = "close" => s \in CloseItems
         /\ s.do = "archive" => s \in ArchiveItems
<1>1. s \in SignItems => s.do = "sign"
  BY DEF SignItems
<1>2. s \in MarkItems => s.do = "refund"
  BY DEF MarkItems
<1>3. s \in TssItems => s.do \in {"setUp", "settings"}
  BY DEF TssItems
<1>4. s \in ExportItems => s.do = "export"
  BY DEF ExportItems
<1>5. s \in CloseItems => s.do = "close"
  BY DEF CloseItems
<1>6. s \in ArchiveItems => s.do = "archive"
  BY DEF ArchiveItems
<1> QED BY <1>1, <1>2, <1>3, <1>4, <1>5, <1>6 DEF Items

(* The first statement makes room for another, or for the next.  *)
LEMMA AnotherFirst ==
  ASSUME NEW S, NEW t \in Seq(S), t # <<>>, NEW x \in S
  PROVE  /\ <<x>> \o Tail(t) \in Seq(S) /\ Len(<<x>> \o Tail(t)) = Len(t) /\ (<<x>> \o Tail(t))[1] = x
         /\ \A i \in 2..Len(t) : (<<x>> \o Tail(t))[i] = t[i]
<1> DEFINE a == <<x>>
           b == Tail(t)
           c == a \o b
<1>1. a \in Seq(S) /\ Len(a) = 1 /\ a[1] = x
  OBVIOUS
<1>7. b \in Seq(S)
  BY HeadTailProperties
<1>2. b \in Seq(S) /\ Len(b) = Len(t) - 1 /\ \A i \in 1 .. Len(b) : b[i] = t[i + 1]
  BY HeadTailProperties
<1>8. a \in Seq(S)
  BY <1>1
<1>3. Len(t) \in Nat /\ Len(t) >= 1
  BY EmptySeq
<1> HIDE DEF a, b
<1>4. c \in Seq(S) /\ Len(c) = Len(a) + Len(b)
      /\ \A i \in 1 .. Len(a) + Len(b) : c[i] = IF i <= Len(a) THEN a[i] ELSE b[i - Len(a)]
  BY <1>8, <1>7, ConcatProperties
<1> HIDE DEF c
<1>5. Len(c) = Len(t) /\ c[1] = x
  BY <1>1, <1>2, <1>3, <1>4
<1>6. ASSUME NEW i \in 2..Len(t) PROVE c[i] = t[i]
  <2>1. c[i] = b[i - 1]
    BY <1>1, <1>2, <1>3, <1>4
  <2>2. i - 1 \in 1 .. Len(b) /\ (i - 1) + 1 = i
    BY <1>2, <1>3
  <2> QED BY <1>2, <2>1, <2>2
<1> QED BY <1>4, <1>5, <1>6 DEF a, b, c

(* What is left of a request after its first statement.  *)
LEMMA NextFirst ==
  ASSUME NEW S, NEW t \in Seq(S), t # <<>>
  PROVE  /\ Tail(t) \in Seq(S) /\ Len(Tail(t)) = Len(t) - 1 /\ Len(t) \in Nat /\ Len(t) >= 1
         /\ DOMAIN t = 1..Len(t) /\ DOMAIN Tail(t) = 1..(Len(t) - 1)
         /\ Head(t) = t[1]
         /\ \A i \in 1 .. Len(t) - 1 : Tail(t)[i] = t[i + 1]
BY HeadTailProperties, EmptySeq, LenProperties

(* A signature that goes on, or that ends: it is the only one of its request.  *)
LEMMA SignFirst ==
  ASSUME NEW t, IsPlan(t), t # <<>>, Head(t).do = "sign"
  PROVE  /\ Head(t) \in SignItems /\ Signs(t) = {Head(t)} /\ Closes(t) = {}
         /\ IsPlan(Tail(t)) /\ Signs(Tail(t)) = {} /\ Closes(Tail(t)) = {}
         /\ \A h \in SignItems : /\ IsPlan(<<h>> \o Tail(t)) /\ Signs(<<h>> \o Tail(t)) = {h}
                                 /\ Closes(<<h>> \o Tail(t)) = {}
<1> DEFINE b == Tail(t)
<1>1. t \in Seq(Items)
  BY DEF IsPlan
<1>2. /\ b \in Seq(Items) /\ Len(b) = Len(t) - 1 /\ Len(t) \in Nat /\ Len(t) >= 1
      /\ DOMAIN t = 1..Len(t) /\ DOMAIN b = 1..(Len(t) - 1)
      /\ Head(t) = t[1]
      /\ \A i \in 1 .. Len(t) - 1 : b[i] = t[i + 1]
  BY <1>1, NextFirst
<1>3. t[1].do = "sign" /\ (Len(t) = 1 \/ (Len(t) = 2 /\ t[2].do = "refund"))
  BY <1>2 DEF IsPlan
<1>4. Head(t) \in SignItems
  BY <1>1, <1>2, <1>3, ElementOfSeq, Kinds
<1> HIDE DEF b
<1>5. Signs(t) = {Head(t)} /\ Closes(t) = {}
  <2>1. CASE Len(t) = 1
    <3>1. DOMAIN t = {1}
      BY <1>2, <2>1
    <3> QED BY <1>2, <1>3, <3>1 DEF Signs, Closes
  <2>2. CASE Len(t) = 2 /\ t[2].do = "refund"
    <3>1. DOMAIN t = {1, 2}
      BY <1>2, <2>2
    <3> QED BY <1>2, <1>3, <2>2, <3>1 DEF Signs, Closes
  <2> QED BY <1>3, <2>1, <2>2
<1>6. \A i \in DOMAIN b : b[i].do = "refund"
  <2>1. CASE Len(t) = 1
    BY <1>2, <2>1
  <2>2. CASE Len(t) = 2 /\ t[2].do = "refund"
    <3>1. DOMAIN b = {1} /\ b[1] = t[1 + 1]
      BY <1>2, <2>2
    <3> QED BY <2>2, <3>1
  <2> QED BY <1>3, <2>1, <2>2
<1>7. IsPlan(b) /\ Signs(b) = {} /\ Closes(b) = {}
  BY <1>2, <1>6 DEF IsPlan, Signs, Closes
<1>8. ASSUME NEW h \in SignItems
      PROVE  IsPlan(<<h>> \o b) /\ Signs(<<h>> \o b) = {h} /\ Closes(<<h>> \o b) = {}
  <2> DEFINE c == <<h>> \o b
  <2>1. h \in Items /\ h.do = "sign"
    BY DEF Items, SignItems
  <2>2. c \in Seq(Items) /\ Len(c) = Len(t) /\ c[1] = h /\ \A i \in 2..Len(t) : c[i] = t[i]
    BY <1>1, <2>1, AnotherFirst DEF b
  <2> HIDE DEF c
  <2>3. DOMAIN c = 1..Len(t)
    BY <2>2, LenProperties
  <2>4. CASE Len(t) = 1
    <3>1. DOMAIN c = {1}
      BY <2>3, <2>4
    <3> QED BY <2>1, <2>2, <2>4, <3>1 DEF Signs, Closes, IsPlan, c
  <2>5. CASE Len(t) = 2 /\ t[2].do = "refund"
    <3>1. DOMAIN c = {1, 2} /\ c[2] = t[2]
      BY <2>2, <2>3, <2>5
    <3> QED BY <2>1, <2>2, <2>5, <3>1 DEF Signs, Closes, IsPlan, c
  <2> QED BY <1>3, <2>4, <2>5
<1> QED BY <1>4, <1>5, <1>7, <1>8 DEF b

(* Another statement is done: what is to be signed and closed stays.  *)
LEMMA OtherDone ==
  ASSUME NEW t, IsPlan(t), t # <<>>, Head(t).do # "sign"
  PROVE  /\ Head(t) \in Items /\ IsPlan(Tail(t)) /\ Signs(Tail(t)) = Signs(t) /\ Closes(Tail(t)) \subseteq Closes(t)
<1> DEFINE b == Tail(t)
<1>1. t \in Seq(Items)
  BY DEF IsPlan
<1>2. /\ b \in Seq(Items) /\ Len(b) = Len(t) - 1 /\ Len(t) \in Nat /\ Len(t) >= 1
      /\ DOMAIN t = 1..Len(t) /\ DOMAIN b = 1..(Len(t) - 1)
      /\ Head(t) = t[1]
      /\ \A i \in 1 .. Len(t) - 1 : b[i] = t[i + 1]
  BY <1>1, NextFirst
<1> HIDE DEF b
<1>3. ASSUME NEW i \in DOMAIN b PROVE i + 1 \in DOMAIN t /\ b[i] = t[i + 1]
  BY <1>2
<1>4. ASSUME NEW j \in DOMAIN t, j # 1 PROVE j - 1 \in DOMAIN b /\ b[j - 1] = t[j]
  <2>1. j - 1 \in 1 .. Len(t) - 1 /\ (j - 1) + 1 = j
    BY <1>2, <1>4
  <2>2. b[j - 1] = t[(j - 1) + 1]
    BY <1>2, <2>1
  <2> QED BY <1>2, <2>1, <2>2
<1>5. Signs(b) = Signs(t)
  <2>1. Signs(b) \subseteq Signs(t)
    BY <1>3 DEF Signs
  <2>2. Signs(t) \subseteq Signs(b)
    <3>1. ASSUME NEW j \in DOMAIN t, t[j].do = "sign" PROVE t[j] \in Signs(b)
      <4>1. j # 1
        BY <1>2, <3>1
      <4>2. j - 1 \in DOMAIN b /\ b[j - 1] = t[j]
        BY <1>4, <4>1
      <4> QED BY <3>1, <4>2 DEF Signs
    <3> QED BY <3>1 DEF Signs
  <2> QED BY <2>1, <2>2
<1>6. Closes(b) \subseteq Closes(t)
  BY <1>3 DEF Closes
<1>7. IsPlan(b)
  <2>1. CASE \A i \in DOMAIN t : t[i].do # "sign"
    BY <1>2, <1>3, <2>1 DEF IsPlan
  <2>2. CASE Len(t) = 1
    <3>1. DOMAIN b = {}
      BY <1>2, <2>2
    <3> QED BY <1>2, <3>1 DEF IsPlan
  <2>3. CASE Len(t) = 2
    BY <1>2, <2>3 DEF IsPlan
  <2> QED BY <2>1, <2>2, <2>3 DEF IsPlan
<1>8. Head(t) \in Items
  BY <1>1, <1>2, ElementOfSeq
<1> QED BY <1>5, <1>6, <1>7, <1>8 DEF b

(* A request that signs nothing goes on with a statement that signs nothing.  *)
LEMMA OtherFirst ==
  ASSUME NEW t, IsPlan(t), t # <<>>, Head(t).do \notin {"sign", "refund"},
         NEW x \in Items, x.do # "sign"
  PROVE  /\ Signs(t) = {} /\ IsPlan(<<x>> \o Tail(t)) /\ Signs(<<x>> \o Tail(t)) = {}
         /\ Closes(<<x>> \o Tail(t)) \subseteq Closes(t) \cup (IF x.do = "close" THEN {x} ELSE {})
<1> DEFINE c == <<x>> \o Tail(t)
<1>1. t \in Seq(Items)
  BY DEF IsPlan
<1>2. /\ Len(t) \in Nat /\ Len(t) >= 1 /\ DOMAIN t = 1..Len(t) /\ Head(t) = t[1]
  BY <1>1, NextFirst
<1>3. \A i \in DOMAIN t : t[i].do # "sign"
  <2>1. CASE Len(t) = 1
    <3>1. DOMAIN t = {1}
      BY <1>2, <2>1
    <3> QED BY <1>2, <3>1
  <2> QED BY <1>2, <2>1 DEF IsPlan
<1>4. c \in Seq(Items) /\ Len(c) = Len(t) /\ c[1] = x /\ \A i \in 2..Len(t) : c[i] = t[i]
  BY <1>1, AnotherFirst
<1> HIDE DEF c
<1>5. DOMAIN c = 1..Len(t)
  BY <1>4, LenProperties
<1>6. ASSUME NEW i \in DOMAIN c PROVE (i = 1 /\ c[i] = x) \/ (i \in DOMAIN t /\ c[i] = t[i])
  <2>1. i = 1 \/ i \in 2..Len(t)
    BY <1>2, <1>5
  <2> QED BY <1>2, <1>4, <1>5, <2>1
<1>7. \A i \in DOMAIN c : c[i].do # "sign"
  BY <1>3, <1>6
<1>8. IsPlan(c) /\ Signs(c) = {} /\ Signs(t) = {}
  BY <1>3, <1>4, <1>7 DEF IsPlan, Signs
<1>9. Closes(c) \subseteq Closes(t) \cup (IF x.do = "close" THEN {x} ELSE {})
  BY <1>6 DEF Closes
<1> QED BY <1>8, <1>9 DEF c

(* A request that begins.  *)
LEMMA Begins ==
  /\ IsPlan(<<>>) /\ Signs(<<>>) = {} /\ Closes(<<>>) = {}
  /\ \A t \in Seq(Items) : (\A i \in DOMAIN t : t[i].do \notin {"sign", "close"}) => IsPlan(t) /\ Signs(t) = {} /\ Closes(t) = {}
  /\ \A g \in SignItems : IsPlan(<<g>>) /\ Signs(<<g>>) = {g} /\ Closes(<<g>>) = {}
  /\ \A g \in SignItems, m \in MarkItems :
       /\ IsPlan(<<g, m>>) /\ Signs(<<g, m>>) = {g} /\ Closes(<<g, m>>) = {}
       /\ IsPlan(<<m, g>>) /\ Signs(<<m, g>>) = {g} /\ Closes(<<m, g>>) = {}
<1>1. ASSUME NEW t \in Seq(Items), \A i \in DOMAIN t : t[i].do \notin {"sign", "close"}
      PROVE  IsPlan(t) /\ Signs(t) = {} /\ Closes(t) = {}
  BY <1>1 DEF IsPlan, Signs, Closes
<1>2. IsPlan(<<>>) /\ Signs(<<>>) = {} /\ Closes(<<>>) = {}
  <2>1. <<>> \in Seq(Items) /\ DOMAIN <<>> = {}
    BY EmptySeq, LenProperties
  <2> QED BY <1>1, <2>1
<1>3. ASSUME NEW g \in SignItems PROVE IsPlan(<<g>>) /\ Signs(<<g>>) = {g} /\ Closes(<<g>>) = {}
  <2>1. g \in Items /\ g.do = "sign"
    BY DEF Items, SignItems
  <2> DEFINE t == <<g>>
  <2>2. t \in Seq(Items) /\ Len(t) = 1 /\ DOMAIN t = {1} /\ t[1] = g
    BY <2>1
  <2> HIDE DEF t
  <2>3. IsPlan(t) /\ Signs(t) = {g} /\ Closes(t) = {}
    BY <2>1, <2>2 DEF IsPlan, Signs, Closes
  <2> QED BY <2>3 DEF t
<1>4. ASSUME NEW g \in SignItems, NEW m \in MarkItems
      PROVE  /\ IsPlan(<<g, m>>) /\ Signs(<<g, m>>) = {g} /\ Closes(<<g, m>>) = {}
             /\ IsPlan(<<m, g>>) /\ Signs(<<m, g>>) = {g} /\ Closes(<<m, g>>) = {}
  <2>1. g \in Items /\ g.do = "sign" /\ m \in Items /\ m.do = "refund"
    BY DEF Items, SignItems, MarkItems
  <2> DEFINE t == <<g, m>>
             u == <<m, g>>
  <2>2. t \in Seq(Items) /\ Len(t) = 2 /\ DOMAIN t = {1, 2} /\ t[1] = g /\ t[2] = m
    BY <2>1
  <2>3. u \in Seq(Items) /\ Len(u) = 2 /\ DOMAIN u = {1, 2} /\ u[1] = m /\ u[2] = g
    BY <2>1
  <2> HIDE DEF t, u
  <2>4. IsPlan(t) /\ Signs(t) = {g} /\ Closes(t) = {}
    BY <2>1, <2>2 DEF IsPlan, Signs, Closes
  <2>5. IsPlan(u) /\ Signs(u) = {g} /\ Closes(u) = {}
    BY <2>1, <2>3 DEF IsPlan, Signs, Closes
  <2> QED BY <2>4, <2>5 DEF t, u
<1> QED BY <1>1, <1>2, <1>3, <1>4

-----------------------------------------------------------------------------
(* What a step does to the requests: of one, w, the signatures `old` become `new`;
   the exports of none get more to close.                                         *)
Shift(w, old, new) ==
  /\ DOMAIN task' = Workers /\ \A v \in Workers : IsPlan(task'[v])
  /\ \A v \in Workers \ {w} : task'[v] = task[v]
  /\ w \in Workers => Signs(task[w]) = old /\ Signs(task'[w]) = new

ClosesFewer == \A v \in Workers : Closes(task'[v]) \subseteq Closes(task[v])

(* The request of w has now t to do.  *)
LEMMA Turns ==
  ASSUME PlansOK, NEW w \in Workers, NEW t, IsPlan(t), task' = [task EXCEPT ![w] = t]
  PROVE  /\ Shift(w, Signs(task[w]), Signs(t))
         /\ task'[w] = t
         /\ Closes(t) \subseteq Closes(task[w]) => ClosesFewer
<1>1. DOMAIN task' = Workers /\ task'[w] = t /\ \A v \in Workers \ {w} : task'[v] = task[v]
  BY DEF PlansOK
<1>2. \A v \in Workers : IsPlan(task'[v])
  BY <1>1 DEF PlansOK
<1>3. Closes(t) \subseteq Closes(task[w]) => ClosesFewer
  BY <1>1 DEF ClosesFewer
<1> QED BY <1>1, <1>2, <1>3 DEF Shift

(* A step of one request leaves plans.  *)
LEMMA PlansShift ==
  ASSUME NEW w, NEW old, NEW new, Shift(w, old, new)
  PROVE  PlansOK'
BY DEF Shift, PlansOK

(* A signature goes on, as another one for the same request.  *)
LEMMA SignGoesOn ==
  ASSUME PlansOK, NEW w \in Workers, At(w, "sign"), NEW h \in SignItems, Then(w, <<h>>)
  PROVE  Now(w) \in SignItems /\ Shift(w, {Now(w)}, {h}) /\ ClosesFewer
<1>1. IsPlan(task[w]) /\ task[w] # <<>> /\ Head(task[w]).do = "sign"
  BY DEF PlansOK, At, Idle, Now
<1> DEFINE t == <<h>> \o Tail(task[w])
<1>2. Now(w) \in SignItems /\ Signs(task[w]) = {Now(w)} /\ IsPlan(t) /\ Signs(t) = {h} /\ Closes(t) = {}
  BY <1>1, SignFirst DEF Now
<1>3. task' = [task EXCEPT ![w] = t]
  BY DEF Then
<1> HIDE DEF t
<1> QED BY <1>2, <1>3, Turns

(* A signature is done, or its request is.  *)
LEMMA SignEnds ==
  ASSUME PlansOK, NEW w \in Workers, At(w, "sign"), Done(w) \/ Fail(w)
  PROVE  Now(w) \in SignItems /\ Shift(w, {Now(w)}, {}) /\ ClosesFewer
<1>1. IsPlan(task[w]) /\ task[w] # <<>> /\ Head(task[w]).do = "sign"
  BY DEF PlansOK, At, Idle, Now
<1>2. /\ Now(w) \in SignItems /\ Signs(task[w]) = {Now(w)}
      /\ IsPlan(Tail(task[w])) /\ Signs(Tail(task[w])) = {} /\ Closes(Tail(task[w])) = {}
  BY <1>1, SignFirst DEF Now
<1>3. PICK t : t \in {Tail(task[w]), <<>>} /\ task' = [task EXCEPT ![w] = t]
  BY DEF Done, Fail, Idle
<1>4. IsPlan(t) /\ Signs(t) = {} /\ Closes(t) = {}
  BY <1>2, <1>3, Begins
<1> QED BY <1>2, <1>3, <1>4, Turns

(* A request that signs nothing goes on.  *)
LEMMA OtherGoesOn ==
  ASSUME PlansOK, NEW w \in Workers, task[w] # Idle, Now(w).do \notin {"sign", "refund"},
         NEW x \in Items, x.do # "sign", Then(w, <<x>>)
  PROVE  /\ Shift(w, {}, {})
         /\ Closes(task'[w]) \subseteq Closes(task[w]) \cup (IF x.do = "close" THEN {x} ELSE {})
<1>1. IsPlan(task[w]) /\ task[w] # <<>> /\ Head(task[w]).do \notin {"sign", "refund"}
  BY DEF PlansOK, Idle, Now
<1> DEFINE t == <<x>> \o Tail(task[w])
<1>2. Signs(task[w]) = {} /\ IsPlan(t) /\ Signs(t) = {} /\ Closes(t) \subseteq Closes(task[w]) \cup (IF x.do = "close" THEN {x} ELSE {})
  BY <1>1, OtherFirst
<1>3. task' = [task EXCEPT ![w] = t]
  BY DEF Then
<1> HIDE DEF t
<1>4. Shift(w, {}, {}) /\ task'[w] = t
  BY <1>2, <1>3, Turns
<1> QED BY <1>2, <1>4

(* A statement that signs nothing is done, or its request is.  *)
LEMMA OtherEnds ==
  ASSUME PlansOK, NEW w \in Workers, task[w] # Idle, Now(w).do # "sign", Done(w) \/ (Fail(w) /\ Now(w).do # "refund")
  PROVE  Now(w) \in Items /\ Shift(w, Signs(task[w]), Signs(task[w])) /\ ClosesFewer
<1>1. IsPlan(task[w]) /\ task[w] # <<>> /\ Head(task[w]).do # "sign"
  BY DEF PlansOK, Idle, Now
<1>2. Now(w) \in Items /\ IsPlan(Tail(task[w])) /\ Signs(Tail(task[w])) = Signs(task[w]) /\ Closes(Tail(task[w])) \subseteq Closes(task[w])
  BY <1>1, OtherDone DEF Now
<1>3. CASE Done(w)
  <2>1. task' = [task EXCEPT ![w] = Tail(task[w])]
    BY <1>3 DEF Done
  <2> QED BY <1>2, <2>1, Turns
<1>4. CASE Fail(w) /\ Now(w).do # "refund"
  <2>1. task' = [task EXCEPT ![w] = <<>>]
    BY <1>4 DEF Fail, Idle
  <2>2. Signs(task[w]) = {}
    BY <1>1, <1>2, <1>4, OtherFirst DEF Now
  <2> QED BY <1>2, <2>1, <2>2, Begins, Turns
<1> QED BY <1>3, <1>4

(* A request starts with what it has to do.  *)
LEMMA RequestBegins ==
  ASSUME PlansOK, NEW w \in Workers, NEW t, IsPlan(t), Closes(t) = {}, Start(w, t)
  PROVE  Shift(w, {}, Signs(t)) /\ ClosesFewer
<1>1. task[w] = <<>> /\ task' = [task EXCEPT ![w] = t]
  BY DEF Start, Ready, Idle
<1>2. Signs(task[w]) = {}
  BY <1>1, Begins
<1> QED BY <1>1, <1>2, Turns

(* No request gets on.  *)
LEMMA NobodyTurns ==
  ASSUME PlansOK, task' = task, NEW w
  PROVE  Shift(w, Signs(task[w]), Signs(task[w])) /\ ClosesFewer
BY DEF PlansOK, Shift, ClosesFewer

-----------------------------------------------------------------------------
(* Rows are added, and nothing that was agreed on changes.  *)
SameOrder(r, s) == r.created = s.created /\ r.basket = s.basket /\ r.deposit = s.deposit
OrdersGrow ==
  DOMAIN orders \subseteq DOMAIN orders' /\ \A o \in DOMAIN orders : SameOrder(orders'[o], orders[o])
PaymentsGrow ==
  DOMAIN payments \subseteq DOMAIN payments' /\ \A p \in DOMAIN payments : SameRow(payments'[p], payments[p])
LedgerGrows ==
  /\ DOMAIN ledger \subseteq DOMAIN ledger'
  /\ \A n \in DOMAIN ledger : /\ ledger'[n].amount = ledger[n].amount /\ ledger'[n].splits = ledger[n].splits
                              /\ ledger[n].state = "finished" => ledger'[n] = ledger[n]
Grows ==
  /\ OrdersGrow /\ PaymentsGrow /\ LedgerGrows
  /\ next.payment <= next'.payment /\ next'.payment \in Nat
  /\ history.excused \subseteq history'.excused
  /\ \A id \in Nat : id < next.payment => (id \in history'.early <=> id \in history.early)

(* A row keeps its place,  *)
LEMMA PlacedStays ==
  ASSUME RowsOK, Grows, NEW id, NEW row, Placed(id, row)
  PROVE  Placed(id, row)'
<1>1. next.payment \in Nat /\ next.payment <= next'.payment /\ next'.payment \in Nat
  BY DEF RowsOK, Grows
<1>2. id \in 0..(next.payment - 1) => id \in 0..(next'.payment - 1)
  BY <1>1
<1> QED BY <1>2 DEF Placed, Grows, OrdersGrow, SameOrder

(* a reversal its sale,  *)
LEMMA MirrorsStays ==
  ASSUME RowsOK, Grows, NEW id, id \in 0..(next.payment - 1), NEW row, Mirrors(id, row)
  PROVE  Mirrors(id, row)'
<1>1. id \in Nat /\ id < next.payment
  BY DEF RowsOK
<1> QED BY <1>1 DEF Mirrors, Grows, PaymentsGrow, SameRow

(* a signature its transaction,  *)
LEMMA SignedStays ==
  ASSUME Grows, NEW n, NEW row, SignedFor(n, row)
  PROVE  SignedFor(n, row)'
BY DEF SignedFor, Grows, LedgerGrows, Entry

(* and so a signature in the making goes on fitting its row,  *)
LEMMA FitStays ==
  ASSUME RowsOK, Grows, NEW g, SignFits(g), g.row.reverses # None => g.payment \notin DOMAIN payments'
  PROVE  SignFits(g)'
<1>1. Placed(g.payment, g.row) /\ g.payment \in 0..(next.payment - 1)
  BY DEF SignFits, Placed
<1>2. Placed(g.payment, g.row)'
  BY <1>1, PlacedStays
<1>3. g.row.reverses = None => (g.payment \in DOMAIN payments' /\ SameRow(g.row, payments'[g.payment]) /\ ~g.must)
  BY DEF SignFits, Grows, PaymentsGrow, SameRow
<1>4. g.row.reverses # None => (g.payment \notin DOMAIN payments' /\ Mirrors(g.payment, g.row)')
  BY <1>1, MirrorsStays DEF SignFits
<1>5. g.stage = "finish" => (g.number \in DOMAIN ledger' /\ ledger'[g.number].amount = g.row.amount /\ ledger'[g.number].splits = g.row.splits)
  BY DEF SignFits, Grows, LedgerGrows
<1>6. g.stage = "keep" => ((g.row.tse = None => g.payment \in history'.excused) /\ (g.row.tse \in Nat => SignedFor(g.row.tse, g.row)'))
  BY SignedStays DEF SignFits, Grows
<1>7. g.stage # "keep" => g.row.tse = None
  BY DEF SignFits
<1> QED BY <1>2, <1>3, <1>4, <1>5, <1>6, <1>7 DEF SignFits

(* and a payment what it says.  *)
LEMMA PaymentStays ==
  ASSUME RowsOK, Grows, NEW p, NEW row, PaymentFits(p, row)
  PROVE  PaymentFits(p, row)'
<1>1. Placed(p, row) /\ p \in 0..(next.payment - 1) /\ row.order \in DOMAIN orders
  BY DEF PaymentFits, Placed
<1>2. Placed(p, row)'
  BY <1>1, PlacedStays
<1>3. row.reverses = None => row.amount >= 1
  BY DEF PaymentFits
<1>4. row.reverses # None => Mirrors(p, row)'
  BY <1>1, MirrorsStays DEF PaymentFits
<1>5. row.tse \in Nat => SignedFor(row.tse, row)'
  BY SignedStays DEF PaymentFits
<1> QED BY <1>2, <1>3, <1>4, <1>5 DEF PaymentFits

(* A row that only differs in what became of it fits as well.  *)
LEMMA SameRowFits ==
  ASSUME NEW p, NEW row, NEW new, PaymentFits(p, row), SameRow(new, row), new.tse \in Nat => SignedFor(new.tse, new)
  PROVE  PaymentFits(p, new)
BY DEF PaymentFits, SameRow, Placed, Foots, Mirrors

(* The signatures in the making, when one request gets on with its own.  *)
LEMMA SignsGoOn ==
  ASSUME RowsOK, SignsInv, Grows, NEW w, NEW old, NEW new, Shift(w, old, new),
         \A h \in new : SignFits(h)',
         \A v \in Workers \ {w} : \A g \in Signs(task[v]) : g.row.reverses # None => g.payment \notin DOMAIN payments'
  PROVE  SignsInv'
<1>1. SUFFICES ASSUME NEW v \in Workers, NEW g \in Signs(task'[v]) PROVE SignFits(g)'
  BY DEF SignsInv
<1>2. CASE v = w
  BY <1>1, <1>2 DEF Shift
<1>3. CASE v # w
  <2>1. g \in Signs(task[v])
    BY <1>1, <1>3 DEF Shift
  <2>2. SignFits(g)
    BY <2>1 DEF SignsInv
  <2> QED BY <1>3, <2>1, <2>2, FitStays
<1> QED BY <1>2, <1>3

(* What is to be asked of a new signature h of request w.  *)
NobodyElse(w, h) ==
  \A v \in Workers \ {w} : \A g \in Signs(task[v]) :
    g.payment # h.payment /\ \A n \in Nat : ~(HasNumber(g, n) /\ HasNumber(h, n))

(* Two requests sign different payments with different transactions.  *)
LEMMA ApartGoesOn ==
  ASSUME SignsApart, NEW w, NEW old, NEW new, Shift(w, old, new), \A h \in new : NobodyElse(w, h)
  PROVE  SignsApart'
<1>1. SUFFICES ASSUME NEW u \in Workers, NEW v \in Workers, u # v, NEW g \in Signs(task'[u]), NEW h \in Signs(task'[v])
               PROVE  g.payment # h.payment /\ \A n \in Nat : ~(HasNumber(g, n) /\ HasNumber(h, n))
  BY DEF SignsApart
<1>2. CASE u = w
  <2>1. g \in new /\ h \in Signs(task[v])
    BY <1>1, <1>2 DEF Shift
  <2> QED BY <1>1, <1>2, <2>1 DEF NobodyElse
<1>3. CASE v = w
  <2>1. h \in new /\ g \in Signs(task[u])
    BY <1>1, <1>3 DEF Shift
  <2> QED BY <1>1, <1>3, <2>1 DEF NobodyElse
<1>4. CASE u # w /\ v # w
  <2>1. g \in Signs(task[u]) /\ h \in Signs(task[v])
    BY <1>1, <1>4 DEF Shift
  <2> QED BY <1>1, <2>1 DEF SignsApart
<1> QED BY <1>2, <1>3, <1>4

(* No payment has the transaction h has for itself.  *)
Unused(h) == \A n \in Nat : HasNumber(h, n) => \A p \in DOMAIN payments : payments[p].tse # n

(* A step that changes no payment.  *)
LEMMA SigningGoesOn ==
  ASSUME RowsOK, SigningInv, Grows, NEW w, NEW old, NEW new, Shift(w, old, new),
         payments' = payments, LedgerFoots',
         \A h \in new : SignFits(h)' /\ NobodyElse(w, h) /\ Unused(h),
         \A g \in old : g.payment \in history'.excused \/ g.payment \notin DOMAIN payments \/ \E h \in new : h.payment = g.payment
  PROVE  SigningInv'
<1>1. SignsInv'
  <2>1. \A v \in Workers \ {w} : \A g \in Signs(task[v]) : g.row.reverses # None => g.payment \notin DOMAIN payments'
    BY DEF SigningInv, SignsInv, SignFits
  <2> QED BY <2>1, SignsGoOn DEF SigningInv
<1>2. SignsApart'
  BY ApartGoesOn DEF SigningInv
<1>3. NumbersFree'
  <2>1. SUFFICES ASSUME NEW v \in Workers, NEW g \in Signs(task'[v]), NEW n \in Nat, HasNumber(g, n)
                 PROVE  \A p \in DOMAIN payments : payments[p].tse # n
    BY DEF NumbersFree, HasNumber
  <2>2. CASE v = w
    BY <2>1, <2>2 DEF Shift, Unused
  <2>3. CASE v # w
    <3>1. g \in Signs(task[v])
      BY <2>1, <2>3 DEF Shift
    <3> QED BY <2>1, <3>1 DEF SigningInv, NumbersFree
  <2> QED BY <2>2, <2>3
<1>4. PaymentsInv'
  <2>1. SUFFICES ASSUME NEW p \in DOMAIN payments
                 PROVE  PaymentFits(p, payments[p])' /\ (payments[p].tse = None => Awaited(p)')
    BY DEF PaymentsInv
  <2>2. PICK row : row = payments[p]
    OBVIOUS
  <2>3. PaymentFits(p, row)'
    BY <2>1, <2>2, PaymentStays DEF SigningInv, PaymentsInv
  <2>4. PaymentFits(p, payments[p])'
    BY <2>2, <2>3
  <2>5. ASSUME payments[p].tse = None PROVE Awaited(p)'
    <3>1. p \in history.excused \/ \E v \in Workers : \E g \in Signs(task[v]) : g.payment = p
      BY <2>1, <2>5 DEF SigningInv, PaymentsInv, Awaited
    <3>2. CASE p \in history.excused
      BY <3>2 DEF Grows, Awaited
    <3>3. CASE \E v \in Workers : \E g \in Signs(task[v]) : g.payment = p
      <4>0. PICK v \in Workers : \E g \in Signs(task[v]) : g.payment = p
        BY <3>3
      <4>1. PICK g \in Signs(task[v]) : g.payment = p
        BY <4>0
      <4>2. CASE v = w
        <5>1. g \in old
          BY <4>1, <4>2 DEF Shift
        <5>2. p \in history'.excused \/ \E h \in Signs(task'[w]) : h.payment = p
          BY <2>1, <4>1, <4>2, <5>1 DEF Shift
        <5> QED BY <4>2, <5>2 DEF Awaited
      <4>3. CASE v # w
        <5>1. Signs(task'[v]) = Signs(task[v])
          BY <4>3 DEF Shift
        <5> QED BY <4>1, <5>1 DEF Awaited
      <4> QED BY <4>2, <4>3
    <3> QED BY <3>1, <3>2, <3>3
  <2> QED BY <2>4, <2>5
<1>5. PaymentsApart'
  BY DEF SigningInv, PaymentsApart
<1> QED BY <1>1, <1>2, <1>3, <1>4, <1>5 DEF SigningInv

(* A transaction somebody has for himself is one of the ledger.  *)
LEMMA NumbersExist ==
  ASSUME SigningInv, NEW n \in Nat
  PROVE  /\ \A v \in Workers : \A g \in Signs(task[v]) : HasNumber(g, n) => n \in DOMAIN ledger
         /\ \A p \in DOMAIN payments : payments[p].tse = n => n \in DOMAIN ledger
BY DEF SigningInv, SignsInv, SignFits, HasNumber, PaymentsInv, PaymentFits, SignedFor

(* A step of a signature: what it has for itself was its own or nobody's.  *)
LEMMA OneSignGoesOn ==
  ASSUME PlansOK, RowsOK, SigningInv, Grows, NEW w \in Workers, At(w, "sign"), NEW h \in SignItems, Then(w, <<h>>),
         payments' = payments, LedgerFoots', SignFits(h)', h.payment = Now(w).payment,
         \A n \in Nat : HasNumber(h, n) => n \notin DOMAIN ledger \/ HasNumber(Now(w), n)
  PROVE  PlansOK' /\ ClosesFewer /\ SigningInv'
<1>1. Now(w) \in SignItems /\ Shift(w, {Now(w)}, {h}) /\ ClosesFewer
  BY SignGoesOn
<1>2. Now(w) \in Signs(task[w])
  BY <1>1 DEF Shift
<1>3. NobodyElse(w, h)
  <2>1. SUFFICES ASSUME NEW v \in Workers, v # w, NEW g \in Signs(task[v])
                 PROVE  g.payment # h.payment /\ \A n \in Nat : ~(HasNumber(g, n) /\ HasNumber(h, n))
    BY DEF NobodyElse
  <2>2. g.payment # Now(w).payment /\ \A n \in Nat : ~(HasNumber(g, n) /\ HasNumber(Now(w), n))
    BY <1>2, <2>1 DEF SigningInv, SignsApart
  <2> QED BY <2>1, <2>2, NumbersExist
<1>4. Unused(h)
  <2>1. SUFFICES ASSUME NEW n \in Nat, HasNumber(h, n), NEW p \in DOMAIN payments PROVE payments[p].tse # n
    BY DEF Unused
  <2>2. CASE n \notin DOMAIN ledger
    BY <2>1, <2>2, NumbersExist
  <2>3. CASE HasNumber(Now(w), n)
    BY <1>2, <2>1, <2>3 DEF SigningInv, NumbersFree
  <2> QED BY <2>1, <2>2, <2>3
<1>5. SigningInv'
  <2>1. PICK g : g = Now(w)
    OBVIOUS
  <2> DEFINE old == {g}
             new == {h}
  <2>2. Shift(w, old, new)
    BY <1>1, <2>1
  <2>3. \A x \in new : SignFits(x)' /\ NobodyElse(w, x) /\ Unused(x)
    BY <1>3, <1>4
  <2>4. \A x \in old : \E y \in new : y.payment = x.payment
    BY <2>1
  <2> HIDE DEF old, new
  <2> QED BY <2>2, <2>3, <2>4, SigningGoesOn
<1> QED BY <1>1, <1>5, PlansShift

(* A step that signs nothing.  *)
LEMMA NothingSigned ==
  ASSUME RowsOK, SigningInv, Grows, NEW w, Shift(w, Signs(task[w]), Signs(task[w])),
         payments' = payments, ledger' = ledger
  PROVE  SigningInv'
<1>1. LedgerFoots'
  BY DEF SigningInv, LedgerFoots
<1>2. PICK old : old = Signs(task[w])
  OBVIOUS
<1>3. Shift(w, old, old)
  BY <1>2
<1>4. ASSUME NEW h \in old, w \in Workers PROVE SignFits(h)' /\ NobodyElse(w, h) /\ Unused(h)
  <2>1. SignFits(h) /\ (h.row.reverses # None => h.payment \notin DOMAIN payments')
    BY <1>2, <1>4 DEF SigningInv, SignsInv, SignFits
  <2>2. SignFits(h)'
    BY <2>1, FitStays
  <2>3. NobodyElse(w, h)
    BY <1>2, <1>4 DEF SigningInv, SignsApart, NobodyElse
  <2>4. Unused(h)
    BY <1>2, <1>4 DEF SigningInv, NumbersFree, Unused
  <2> QED BY <2>2, <2>3, <2>4
<1>5. CASE w \in Workers
  BY <1>1, <1>3, <1>4, <1>5, SigningGoesOn
<1>6. CASE w \notin Workers
  <2>1. Shift(w, {}, {})
    BY <1>3, <1>6 DEF Shift
  <2> DEFINE none == {}
  <2>2. \A h \in none : SignFits(h)' /\ NobodyElse(w, h) /\ Unused(h)
    OBVIOUS
  <2>3. \A g \in none : g.payment \in history'.excused \/ g.payment \notin DOMAIN payments \/ \E h \in none : h.payment = g.payment
    OBVIOUS
  <2> HIDE DEF none
  <2> QED BY <1>1, <2>1, <2>2, <2>3, SigningGoesOn DEF none
<1> QED BY <1>5, <1>6

-----------------------------------------------------------------------------
(* What the closings read stays as they read it.  *)
LEMMA StampStays ==
  ASSUME SigningInv, Grows, NEW p \in DOMAIN payments
  PROVE  Stamp(p)' = Stamp(p)
<1>1. payments[p].order \in DOMAIN orders
  BY DEF SigningInv, PaymentsInv, PaymentFits, Placed
<1>2. p \in DOMAIN payments' /\ SameRow(payments'[p], payments[p])
      /\ orders'[payments[p].order].created = orders[payments[p].order].created
  BY <1>1 DEF Grows, PaymentsGrow, OrdersGrow, SameOrder
<1> QED BY <1>2 DEF Stamp, SameRow

(* A closing covers what it covered.  *)
LEMMA CoversStays ==
  ASSUME RowsOK, SigningInv, Grows, clock' \in Nat, clock <= clock', NEW z, Covers(z), z.end \in Nat
  PROVE  Covers(z)'
<1>1. z.content \subseteq DOMAIN payments'
  BY DEF Covers, Grows, PaymentsGrow
<1>2. ASSUME NEW p \in z.content PROVE z.start <= Stamp(p)' /\ Stamp(p)' <= z.end
  <2>1. p \in DOMAIN payments
    BY DEF Covers
  <2>2. Stamp(p)' = Stamp(p)
    BY <2>1, StampStays
  <2> QED BY <2>2 DEF Covers
<1>3. z.end <= clock'
  BY DEF Covers, RowsOK
<1> QED BY <1>1, <1>2, <1>3 DEF Covers

(* The tables of a closing are what they were.  *)
LEMMA TablesStay ==
  ASSUME SigningInv, Grows, NEW content, content \subseteq DOMAIN payments
  PROVE  BusinessCases(content)' = BusinessCases(content) /\ PaymentTotal(content)' = PaymentTotal(content)
<1>1. ASSUME NEW p \in content
      PROVE  /\ p \in DOMAIN payments /\ p \in DOMAIN payments'
             /\ payments'[p].order = payments[p].order /\ payments'[p].amount = payments[p].amount
             /\ payments'[p].reverses = payments[p].reverses
             /\ payments[p].order \in DOMAIN orders /\ SameOrder(orders'[payments[p].order], orders[payments[p].order])
  <2>1. p \in DOMAIN payments /\ payments[p].order \in DOMAIN orders
    BY <1>1 DEF SigningInv, PaymentsInv, PaymentFits, Placed
  <2> QED BY <2>1 DEF Grows, PaymentsGrow, OrdersGrow, SameOrder, SameRow
<1> DEFINE sales == {p \in content : payments[p].reverses = None}
           sold == {payments[p].order : p \in sales}
           sales1 == {p \in content : payments'[p].reverses = None}
           sold1 == {payments'[p].order : p \in sales1}
           amounts(s) == [p \in s |-> payments[p].amount]
           amounts1(s) == [p \in s |-> payments'[p].amount]
           parts(r) == [o \in sold |-> ItemLines(o, r)]
           parts1(r) == [o \in sold1 |-> ItemLines(o, r)']
           deposits == [o \in sold |-> DepositLines(o)]
           deposits1 == [o \in sold1 |-> DepositLines(o)']
<1>2. SalesIn(content) = sales /\ SalesIn(content)' = sales1
  BY DEF SalesIn
<1>3. sales1 = sales
  BY <1>1
<1>4. sold1 = sold
  BY <1>1, <1>3
<1>5. ASSUME NEW s, s \subseteq content PROVE amounts1(s) = amounts(s)
  BY <1>1, <1>5
<1>11. \A o \in sold : SameOrder(orders'[o], orders[o])
  BY <1>1
<1>6. ASSUME NEW r PROVE parts1(r) = parts(r)
  BY <1>4, <1>11 DEF ItemLines, SameOrder
<1>12. deposits1 = deposits
  BY <1>4, <1>11 DEF DepositLines, SameOrder
<1>7. PaymentTotal(content)' = PaymentTotal(content)
  BY <1>5 DEF PaymentTotal
<1>8. BusinessCases(content) =
        [r \in Rates |-> SplitSum(parts(r))
                         + (IF r = 19 THEN SplitSum(deposits) + SplitSum(amounts(content \ sales)) ELSE 0)]
  BY <1>2 DEF BusinessCases
<1>9. BusinessCases(content)' =
        [r \in Rates |-> SplitSum(parts1(r))
                         + (IF r = 19 THEN SplitSum(deposits1) + SplitSum(amounts1(content \ sales1)) ELSE 0)]
  BY <1>2 DEF BusinessCases
<1>10. amounts1(content \ sales1) = amounts(content \ sales)
  BY <1>3, <1>5
<1> HIDE DEF parts, parts1, deposits, deposits1, amounts, amounts1, sales, sales1, sold, sold1
<1> QED BY <1>6, <1>7, <1>8, <1>9, <1>10, <1>12

(* Every step but those of an export leaves the closings in order.  *)
LEMMA ClosesStay ==
  ASSUME TypesInv, SigningInv, ClosesInv, Grows, clock' \in Nat, clock <= clock', closings' = closings, ClosesFewer
  PROVE  ClosesInv'
<1>1. SUFFICES ASSUME NEW w \in Workers, NEW c \in Closes(task'[w])
               PROVE  /\ Covers(c)' /\ c.seen <= Len(closings)
                      /\ c.seen = Len(closings) => c.start = LastEnd(0)
  BY DEF ClosesInv, LastEnd
<1>2. c \in Closes(task[w])
  BY <1>1 DEF ClosesFewer
<1>3. /\ Covers(c) /\ c.seen <= Len(closings)
      /\ c.seen = Len(closings) => c.start = LastEnd(0)
  BY <1>2 DEF ClosesInv
<1>4. c \in CloseItems
  <2>1. task[w] \in Seq(Items)
    BY DEF TypesInv, PlansOK, IsPlan
  <2>2. PICK i \in DOMAIN task[w] : c = task[w][i] /\ c.do = "close"
    BY <1>2 DEF Closes
  <2>3. c \in Items
    BY <2>1, <2>2, LenProperties, ElementOfSeq
  <2> QED BY <2>2, <2>3, Kinds
<1>5. c.end \in Nat
  BY <1>4 DEF CloseItems
<1> QED BY <1>3, <1>5, CoversStays DEF TypesInv

(* The closings stay in order.  *)
LEMMA ClosingsStay ==
  ASSUME RowsOK, SigningInv, ClosingsInv, Grows, clock' \in Nat, clock <= clock',
         closings' = closings, history'.raced = history.raced
  PROVE  ClosingsInv'
<1>1. ASSUME NEW z \in DOMAIN closings
      PROVE  /\ Covers(closings[z])'
             /\ closings[z].turnover = BusinessCases(closings[z].content)'
             /\ closings[z].paid = PaymentTotal(closings[z].content)'
  <2>1. PICK row : row = closings[z]
    OBVIOUS
  <2>2. PICK content : content = row.content
    OBVIOUS
  <2>3. row \in Closings
    BY <2>1, LenProperties, ElementOfSeq DEF RowsOK
  <2>4. row.end \in Nat
    BY <2>3 DEF Closings
  <2>5. Covers(row) /\ row.turnover = BusinessCases(content) /\ row.paid = PaymentTotal(content)
    BY <2>1, <2>2 DEF ClosingsInv
  <2>6. Covers(row)'
    BY <2>4, <2>5, CoversStays
  <2>7. row.turnover = BusinessCases(content)' /\ row.paid = PaymentTotal(content)'
    <3>1. content \subseteq DOMAIN payments
      BY <2>2, <2>5 DEF Covers
    <3> QED BY <2>5, <3>1, TablesStay
  <2>8. closings'[z] = row
    BY <2>1
  <2>9. Covers(closings[z])'
    BY <2>6, <2>8
  <2>10. BusinessCases(closings[z].content)' = BusinessCases(content)' /\ PaymentTotal(closings[z].content)' = PaymentTotal(content)'
    BY <2>2, <2>8
  <2> QED BY <2>1, <2>7, <2>9, <2>10
<1>2. DOMAIN closings' = DOMAIN closings
  OBVIOUS
<1> QED BY <1>1, <1>2 DEF ClosingsInv

-----------------------------------------------------------------------------
(* The steps that neither sign nor close.  *)
LEMMA QuietKeeps ==
  ASSUME FiscalInv, NEW w, Shift(w, Signs(task[w]), Signs(task[w])), ClosesFewer,
         UNCHANGED <<payments, ledger, closings, history>>, OrdersGrow,
         next'.payment = next.payment, clock <= clock', RowsOK'
  PROVE  FiscalInv'
<1>1. Grows
  BY DEF Grows, PaymentsGrow, LedgerGrows, SameRow, FiscalInv, TypesInv, RowsOK
<1>2. SigningInv'
  BY <1>1, NothingSigned DEF FiscalInv, TypesInv
<1>3. clock' \in Nat
  BY DEF RowsOK
<1>4. ClosesInv'
  BY <1>1, <1>3, ClosesStay DEF FiscalInv
<1>5. ClosingsInv'
  BY <1>1, <1>3, ClosingsStay DEF FiscalInv, TypesInv
<1>6. PlansOK'
  BY PlansShift
<1> QED BY <1>2, <1>4, <1>5, <1>6 DEF FiscalInv, TypesInv

(* Statements that are made are of their kind.  *)
LEMMA ItemKinds ==
  /\ \A t \in Nat : [do |-> "setUp", tss |-> t] \in Items /\ [do |-> "settings", tss |-> t] \in Items
  /\ \A p \in Nat : [do |-> "refund", payment |-> p] \in MarkItems
  /\ \A e \in Events, a \in BOOLEAN : [do |-> "export", event |-> e, archive |-> a] \in Items
  /\ \A c \in SUBSET Nat : [do |-> "archive", content |-> c] \in Items
BY DEF Items, TssItems, MarkItems, ExportItems, ArchiveItems

(* A TSS is to be set up: nothing is signed or closed.  *)
LEMMA ProvisionKeeps == ASSUME FiscalInv, NEW w \in Workers, ProvisionTss(w) PROVE FiscalInv'
<1>1. RowsOK /\ PlansOK /\ next.tss \in Nat
  BY DEF FiscalInv, TypesInv, RowsOK
<1> DEFINE a == [do |-> "setUp", tss |-> next.tss]
           b == [do |-> "settings", tss |-> next.tss]
           t == <<a, b>>
<1>2. a \in Items /\ b \in Items /\ a.do = "setUp" /\ b.do = "settings"
  BY <1>1, ItemKinds
<1>3. Start(w, t)
  BY DEF ProvisionTss
<1> HIDE DEF a, b
<1>4. t \in Seq(Items) /\ DOMAIN t = {1, 2} /\ t[1] = a /\ t[2] = b
  BY <1>2
<1> HIDE DEF t
<1>5. IsPlan(t) /\ Signs(t) = {} /\ Closes(t) = {}
  BY <1>2, <1>4, Begins
<1>6. Shift(w, {}, Signs(t)) /\ ClosesFewer
  BY <1>1, <1>3, <1>5, RequestBegins
<1>7. Shift(w, Signs(task[w]), Signs(task[w]))
  BY <1>5, <1>6 DEF Shift
<1>8. RowsOK'
  <2>1. next' \in [payment : Nat, tss : Nat]
    <3>1. next \in [payment : Nat, tss : Nat] /\ next.tss + 1 \in Nat /\ next' = [next EXCEPT !.tss = next.tss + 1]
      BY <1>1 DEF ProvisionTss, RowsOK
    <3> QED BY <3>1
  <2> QED BY <1>1, <2>1 DEF ProvisionTss, RowsOK
<1>9. UNCHANGED <<payments, ledger, closings, history>> /\ OrdersGrow /\ next'.payment = next.payment /\ clock' = clock /\ clock \in Nat
  BY <1>1 DEF ProvisionTss, OrdersGrow, SameOrder, RowsOK
<1> QED BY <1>6, <1>7, <1>8, <1>9, QuietKeeps

(* A step of the set-up.  *)
LEMMA SetUpKeeps == ASSUME FiscalInv, NEW w \in Workers, SetUpTss(w) PROVE FiscalInv'
<1>1. RowsOK /\ PlansOK
  BY DEF FiscalInv, TypesInv
<1>2. task[w] # Idle /\ Now(w).do = "setUp" /\ (Fail(w) \/ Done(w) \/ task' = task)
  BY DEF SetUpTss, At, requests
<1>3. Shift(w, Signs(task[w]), Signs(task[w])) /\ ClosesFewer
  BY <1>1, <1>2, OtherEnds, NobodyTurns
<1>4. UNCHANGED <<payments, ledger, closings, history>> /\ OrdersGrow /\ next' = next /\ clock' = clock /\ clock \in Nat
  BY <1>1 DEF SetUpTss, OrdersGrow, SameOrder, RowsOK
<1>5. RowsOK'
  BY <1>1 DEF SetUpTss, RowsOK
<1> QED BY <1>3, <1>4, <1>5, QuietKeeps

(* The settings get the TSS.  *)
LEMMA SaveSettingsKeeps == ASSUME FiscalInv, NEW w \in Workers, SaveSettings(w) PROVE FiscalInv'
<1>1. RowsOK /\ PlansOK
  BY DEF FiscalInv, TypesInv
<1>2. task[w] # Idle /\ Now(w).do = "settings" /\ Done(w)
  BY DEF SaveSettings, At
<1>3. Shift(w, Signs(task[w]), Signs(task[w])) /\ ClosesFewer /\ Now(w) \in Items
  BY <1>1, <1>2, OtherEnds
<1>4. tse' \in Nat
  BY <1>2, <1>3, Kinds DEF SaveSettings, TssItems
<1>5. UNCHANGED <<payments, ledger, closings, history>> /\ OrdersGrow /\ next' = next /\ clock' = clock /\ clock \in Nat
  BY <1>1 DEF SaveSettings, OrdersGrow, SameOrder, RowsOK
<1>6. RowsOK'
  BY <1>1, <1>4 DEF SaveSettings, RowsOK
<1> QED BY <1>3, <1>5, <1>6, QuietKeeps

(* An order is added.  *)
LEMMA PlaceOrderKeeps ==
  ASSUME FiscalInv, NEW e \in Events, NEW basket \in Baskets, NEW deposit \in Deposits, NEW extra \in Extras,
         PlaceOrder(e, basket, deposit, extra)
  PROVE  FiscalInv'
<1>1. RowsOK /\ PlansOK
  BY DEF FiscalInv, TypesInv
<1> DEFINE row == [event |-> e, created |-> clock, basket |-> basket, deposit |-> deposit, extra |-> extra,
                   cancelled |-> {}]
<1>2. row \in Orders
  BY <1>1 DEF Orders, RowsOK
<1>3. orders' = Append(orders, row) /\ orders \in Seq(Orders)
  BY <1>1 DEF PlaceOrder, RowsOK
<1> HIDE DEF row
<1>4. orders' \in Seq(Orders) /\ OrdersGrow
  <2>1. Append(orders, row) \in Seq(Orders) /\ Len(Append(orders, row)) = Len(orders) + 1
        /\ \A i \in 1 .. Len(orders) : Append(orders, row)[i] = orders[i]
    BY <1>2, <1>3, AppendProperties
  <2>2. DOMAIN orders = 1..Len(orders) /\ DOMAIN orders' = 1..Len(orders') /\ Len(orders) \in Nat
    BY <1>3, <2>1, LenProperties
  <2> QED BY <1>3, <2>1, <2>2 DEF OrdersGrow, SameOrder
<1>5. task' = task /\ UNCHANGED <<payments, ledger, closings, history, next, clock>>
  BY DEF PlaceOrder, requests
<1>6. PICK w : Shift(w, Signs(task[w]), Signs(task[w])) /\ ClosesFewer
  BY <1>1, <1>5, NobodyTurns
<1>7. RowsOK' /\ clock \in Nat
  BY <1>1, <1>4 DEF PlaceOrder, RowsOK
<1> QED BY <1>4, <1>5, <1>6, <1>7, QuietKeeps

(* An order is edited: what was signed and exported of it stays.  *)
LEMMA EditOrderKeeps ==
  ASSUME FiscalInv, NEW w \in Workers, NEW o \in DOMAIN orders, EditOrder(w, o) PROVE FiscalInv'
<1>1. RowsOK /\ PlansOK
  BY DEF FiscalInv, TypesInv
<1>2. PICK extra \in Extras, cancelled \in SUBSET DOMAIN orders[o].basket :
        /\ Start(w, <<>>)
        /\ orders' = [orders EXCEPT ![o].extra = extra, ![o].cancelled = cancelled]
        /\ UNCHANGED <<tse, tss, ledger, registered, clock, payments, closings, archives, next, history>>
  BY DEF EditOrder
<1>3. DOMAIN orders = 1..Len(orders) /\ Len(orders) \in Nat /\ orders \in Seq(Orders) /\ orders[o] \in Orders
  BY <1>1, LenProperties, ElementOfSeq DEF RowsOK
<1>4. PICK row : row = [orders[o] EXCEPT !.extra = extra, !.cancelled = cancelled]
  OBVIOUS
<1>5. DOMAIN orders[o].basket \subseteq Rates
  <2>1. PICK sold \in SUBSET Rates : orders[o].basket \in [sold -> Nat]
    BY <1>3, FiscalAssumption DEF Orders
  <2> QED BY <2>1
<1>6. row \in Orders /\ SameOrder(row, orders[o])
  <2>1. cancelled \in SUBSET Rates
    BY <1>2, <1>5
  <2> QED BY <1>2, <1>3, <1>4, <2>1 DEF Orders, SameOrder
<1>7. orders' = [orders EXCEPT ![o] = row]
  BY <1>2, <1>4
<1>8. orders' \in Seq(Orders) /\ OrdersGrow
  <2>1. orders' \in Seq(Orders)
    BY <1>3, <1>6, <1>7, ExceptSeq
  <2> QED BY <1>6, <1>7, <2>1 DEF OrdersGrow, SameOrder
<1>9. IsPlan(<<>>) /\ Signs(<<>>) = {} /\ Closes(<<>>) = {}
  BY Begins
<1>10. Shift(w, {}, {}) /\ ClosesFewer
  BY <1>1, <1>2, <1>9, RequestBegins
<1>11. Shift(w, Signs(task[w]), Signs(task[w]))
  BY <1>10 DEF Shift
<1>12. UNCHANGED <<payments, ledger, closings, history, next, clock>> /\ clock \in Nat
  BY <1>1, <1>2 DEF RowsOK
<1>13. RowsOK'
  BY <1>1, <1>2, <1>8 DEF RowsOK
<1> QED BY <1>8, <1>10, <1>11, <1>12, <1>13, QuietKeeps

(* Time goes by.  *)
LEMMA TickKeeps == ASSUME FiscalInv, Tick PROVE FiscalInv'
<1>1. RowsOK /\ PlansOK
  BY DEF FiscalInv, TypesInv
<1>2. task' = task /\ UNCHANGED <<payments, ledger, closings, history, next, orders>> /\ clock' = clock + 1 /\ clock \in Nat
  BY <1>1 DEF Tick, requests, RowsOK
<1>3. PICK w : Shift(w, Signs(task[w]), Signs(task[w])) /\ ClosesFewer
  BY <1>1, <1>2, NobodyTurns
<1>4. RowsOK' /\ OrdersGrow /\ clock <= clock'
  BY <1>1, <1>2 DEF Tick, RowsOK, OrdersGrow, SameOrder
<1> QED BY <1>2, <1>3, <1>4, QuietKeeps

(* Nothing happens.  *)
LEMMA StutterKeeps == ASSUME FiscalInv, UNCHANGED vars PROVE FiscalInv'
<1>1. RowsOK /\ PlansOK
  BY DEF FiscalInv, TypesInv
<1>2. task' = task /\ UNCHANGED <<payments, ledger, closings, history, next, orders, clock, tse>> /\ clock \in Nat
  BY <1>1 DEF vars, rows, requests, RowsOK
<1>3. PICK w : Shift(w, Signs(task[w]), Signs(task[w])) /\ ClosesFewer
  BY <1>1, <1>2, NobodyTurns
<1>4. RowsOK' /\ OrdersGrow
  BY <1>1, <1>2 DEF RowsOK, OrdersGrow, SameOrder
<1> QED BY <1>2, <1>3, <1>4, QuietKeeps

(* An export is asked for.  *)
LEMMA GenerateKeeps == ASSUME FiscalInv, NEW w \in Workers, NEW e \in Events, GenerateExport(w, e) PROVE FiscalInv'
<1>1. RowsOK /\ PlansOK
  BY DEF FiscalInv, TypesInv
<1> DEFINE a == [do |-> "export", event |-> e, archive |-> FALSE]
           t == <<a>>
<1>2. a \in Items /\ a.do = "export" /\ Start(w, t)
  BY ItemKinds DEF GenerateExport
<1> HIDE DEF a
<1>3. t \in Seq(Items) /\ DOMAIN t = {1} /\ t[1] = a
  BY <1>2
<1> HIDE DEF t
<1>4. IsPlan(t) /\ Signs(t) = {} /\ Closes(t) = {}
  BY <1>2, <1>3, Begins
<1>5. Shift(w, {}, Signs(t)) /\ ClosesFewer
  BY <1>1, <1>2, <1>4, RequestBegins
<1>6. Shift(w, Signs(task[w]), Signs(task[w]))
  BY <1>4, <1>5 DEF Shift
<1>7. UNCHANGED <<payments, ledger, closings, history, next, orders, clock, tse>> /\ clock \in Nat
  BY <1>1 DEF GenerateExport, rows, RowsOK
<1>8. RowsOK' /\ OrdersGrow
  BY <1>1, <1>7 DEF RowsOK, OrdersGrow, SameOrder
<1> QED BY <1>5, <1>6, <1>7, <1>8, QuietKeeps

(* The archival asks for one export after the other.  *)
LEMMA ArchivalKeeps == ASSUME FiscalInv, NEW w \in Workers, HandleArchival(w) PROVE FiscalInv'
<1>1. RowsOK /\ PlansOK
  BY DEF FiscalInv, TypesInv
<1>2. PICK t : t \in Seq(Items) /\ (\A i \in DOMAIN t : t[i].do = "export") /\ Start(w, t)
  <2> DEFINE since == LastEnd(-1)
             due == {orders[o].event : o \in {n \in DOMAIN orders : orders[n].created > since}}
             t(e) == [i \in DOMAIN e |-> [do |-> "export", event |-> e[i], archive |-> TRUE]]
  <2>1. PICK e \in [1..Cardinality(due) -> due] : Start(w, t(e))
    BY DEF HandleArchival
  <2>2. IsFiniteSet(due) /\ due \subseteq Events
    <3>1. IsFiniteSet(DOMAIN orders) /\ \A n \in DOMAIN orders : orders[n] \in Orders
      <4>1. DOMAIN orders = 1..Len(orders) /\ Len(orders) \in Nat
        BY <1>1, LenProperties DEF RowsOK
      <4>2. IsFiniteSet(1..Len(orders))
        BY <4>1, FS_Interval
      <4>3. \A n \in 1..Len(orders) : orders[n] \in Orders
        BY <1>1, ElementOfSeq DEF RowsOK
      <4> QED BY <4>1, <4>2, <4>3
    <3>2. IsFiniteSet({n \in DOMAIN orders : orders[n].created > since})
      BY <3>1, FS_Subset
    <3>3. due \subseteq Events
      BY <3>1 DEF Orders
    <3>4. IsFiniteSet(due)
      <4> DEFINE D == {n \in DOMAIN orders : orders[n].created > since}
                 f == [o \in D |-> orders[o].event]
      <4>1. due = {f[o] : o \in D}
        OBVIOUS
      <4>2. f \in Surjection(D, due)
        BY <4>1 DEF Surjection
      <4> HIDE DEF f, due, D
      <4>3. IsFiniteSet(D)
        BY <3>2 DEF D
      <4> QED BY <4>2, <4>3, FS_Surjection
    <3> QED BY <3>3, <3>4
  <2> HIDE DEF due
  <2>3. Cardinality(due) \in Nat
    BY <2>2, FS_CardinalityType
  <2>4. \A i \in 1..Cardinality(due) : t(e)[i] \in Items /\ t(e)[i].do = "export"
    BY <2>2, ItemKinds
  <2>5. t(e) \in [1..Cardinality(due) -> Items] /\ DOMAIN t(e) = 1..Cardinality(due)
    BY <2>4
  <2> HIDE DEF t
  <2>6. t(e) \in Seq(Items)
    BY <2>3, <2>5, SeqDef
  <2> QED BY <2>1, <2>4, <2>5, <2>6
<1>4. IsPlan(t) /\ Signs(t) = {} /\ Closes(t) = {}
  BY <1>2, Begins
<1>5. Shift(w, {}, Signs(t)) /\ ClosesFewer
  BY <1>1, <1>2, <1>4, RequestBegins
<1>6. Shift(w, Signs(task[w]), Signs(task[w]))
  BY <1>4, <1>5 DEF Shift
<1>7. UNCHANGED <<payments, ledger, closings, history, next, orders, clock, tse>> /\ clock \in Nat
  BY <1>1 DEF HandleArchival, rows, RowsOK
<1>8. RowsOK' /\ OrdersGrow
  BY <1>1, <1>7 DEF RowsOK, OrdersGrow, SameOrder
<1> QED BY <1>5, <1>6, <1>7, <1>8, QuietKeeps

(* An archive is kept.  *)
LEMMA PersistKeeps == ASSUME FiscalInv, NEW w \in Workers, PersistArchive(w) PROVE FiscalInv'
<1>1. RowsOK /\ PlansOK
  BY DEF FiscalInv, TypesInv
<1>2. task[w] # Idle /\ Now(w).do = "archive" /\ Done(w)
  BY DEF PersistArchive, At
<1>3. Shift(w, Signs(task[w]), Signs(task[w])) /\ ClosesFewer
  BY <1>1, <1>2, OtherEnds
<1>4. UNCHANGED <<payments, ledger, closings, history, next, orders, clock, tse>> /\ clock \in Nat
  BY <1>1 DEF PersistArchive, RowsOK
<1>5. RowsOK' /\ OrdersGrow
  BY <1>1, <1>4 DEF RowsOK, OrdersGrow, SameOrder
<1> QED BY <1>3, <1>4, <1>5, QuietKeeps

-----------------------------------------------------------------------------
(* The steps of a signature.  *)

Follows(g, h) == h.payment = g.payment /\ h.must = g.must /\ SameRow(h.row, g.row)

MovedOn(g, s) == [g EXCEPT !.stage = s]
MovedAt(g, s, a) == [g EXCEPT !.stage = s, !.at = a]
Marked(g, s, x) == [g EXCEPT !.stage = s, !.row.tse = x]
Numbered(g, s, n, x) == [g EXCEPT !.stage = s, !.number = n, !.row.tse = x]

(* A signature with another stage is of the same payment,  *)
LEMMA FollowsOn ==
  ASSUME NEW g \in SignItems, NEW s \in Stages, NEW h, h = MovedOn(g, s)
  PROVE  h \in SignItems /\ Follows(g, h) /\ h.stage = s /\ h.row.tse = g.row.tse
BY DEF SignItems, Follows, SameRow, MovedOn

(* also with the TSE it goes to,  *)
LEMMA FollowsAt ==
  ASSUME NEW g \in SignItems, NEW s \in Stages, NEW a \in Nat \cup {None, Local}, NEW h, h = MovedAt(g, s, a)
  PROVE  h \in SignItems /\ Follows(g, h) /\ h.stage = s /\ h.row.tse = g.row.tse
BY DEF SignItems, Follows, SameRow, MovedAt

(* also with what came of it,  *)
LEMMA FollowsMarked ==
  ASSUME NEW g \in SignItems, NEW s \in Stages, NEW x \in Nat \cup {None, Failed},
         NEW h, h = Marked(g, s, x)
  PROVE  h \in SignItems /\ Follows(g, h) /\ h.stage = s /\ h.row.tse = x
<1>1. g.row \in Rows
  BY DEF SignItems
<1> DEFINE r == [g.row EXCEPT !.tse = x]
<1>2. r \in Rows /\ SameRow(r, g.row) /\ r.tse = x
  BY <1>1 DEF Rows, SameRow
<1>3. h = [g EXCEPT !.stage = s, !.row = r]
  BY DEF SignItems, Marked
<1> HIDE DEF r
<1> QED BY <1>2, <1>3 DEF SignItems, Follows

(* also with the answer of the TSE.  *)
LEMMA FollowsAnswered ==
  ASSUME NEW g \in SignItems, NEW s \in Stages, NEW n \in Nat, NEW x \in Nat \cup {None, Failed},
         NEW h, h = Numbered(g, s, n, x)
  PROVE  h \in SignItems /\ Follows(g, h) /\ h.stage = s /\ h.row.tse = x /\ h.number = n
<1>1. g.row \in Rows
  BY DEF SignItems
<1> DEFINE r == [g.row EXCEPT !.tse = x]
<1>2. r \in Rows /\ SameRow(r, g.row) /\ r.tse = x
  BY <1>1 DEF Rows, SameRow
<1>3. h = [g EXCEPT !.stage = s, !.number = n, !.row = r]
  BY DEF SignItems, Numbered
<1> HIDE DEF r
<1> QED BY <1>2, <1>3 DEF SignItems, Follows

(* What is no number says so.  *)
LEMMA MarksApart == None \notin Nat /\ Failed \notin Nat /\ Failed # None
<1>1. None \notin Nat /\ Failed \notin Nat
  BY FiscalAssumption
<1>2. Failed # None
  <2>1. SUFFICES ASSUME Failed = None PROVE FALSE
    OBVIOUS
  <2> DEFINE S == {None}
             T == S \cup {Local}
  <2>2. IsFiniteSet(S) /\ Cardinality(S) = 1
    BY FS_Singleton
  <2>3. T = {None, Local, Failed}
    BY <2>1
  <2> HIDE DEF S
  <2>4. Cardinality(T) = IF Local \in S THEN Cardinality(S) ELSE Cardinality(S) + 1
    BY <2>2, FS_AddElement
  <2>5. Cardinality(T) # 3
    BY <2>2, <2>4
  <2> HIDE DEF T
  <2> QED BY <2>3, <2>5, FiscalAssumption
<1> QED BY <1>1, <1>2

(* A signature fits when the one it follows did, and what is new of it does.  *)
LEMMA FollowerFits ==
  ASSUME RowsOK, Grows, payments' = payments, NEW g, NEW h, SignFits(g), Follows(g, h),
         h.stage # "keep" => h.row.tse = None,
         h.stage = "finish" => (/\ h.number \in DOMAIN ledger' /\ ledger'[h.number].amount = g.row.amount
                                /\ ledger'[h.number].splits = g.row.splits),
         h.stage = "keep" => (/\ h.row.tse = None => h.payment \in history'.excused
                              /\ h.row.tse \in Nat => SignedFor(h.row.tse, g.row)')
  PROVE  SignFits(h)'
<1>1. SameRow(h.row, g.row) /\ h.payment = g.payment /\ h.must = g.must
  BY DEF Follows
<1>2. Placed(g.payment, g.row) /\ g.payment \in 0..(next.payment - 1)
  BY DEF SignFits, Placed
<1>3. Placed(g.payment, g.row)'
  BY <1>2, PlacedStays
<1>4. Placed(h.payment, h.row)'
  BY <1>1, <1>3 DEF Placed, SameRow, Foots
<1>5. g.row.reverses # None => Mirrors(g.payment, g.row)'
  BY <1>2, MirrorsStays DEF SignFits
<1>6. h.row.reverses # None => (h.payment \notin DOMAIN payments' /\ Mirrors(h.payment, h.row)')
  BY <1>1, <1>5 DEF SignFits, Mirrors, SameRow
<1>7. h.row.reverses = None => (h.payment \in DOMAIN payments' /\ SameRow(h.row, payments'[h.payment]) /\ ~h.must)
  BY <1>1 DEF SignFits, SameRow
<1>8. h.stage = "keep" /\ h.row.tse \in Nat => SignedFor(h.row.tse, h.row)'
  BY <1>1 DEF SignedFor, Entry, SameRow
<1>9. h.stage = "finish" => (h.number \in DOMAIN ledger' /\ ledger'[h.number].amount = h.row.amount
                             /\ ledger'[h.number].splits = h.row.splits)
  BY <1>1 DEF SameRow
<1> QED BY <1>4, <1>6, <1>7, <1>8, <1>9 DEF SignFits

(* What is left to show of a step of a signature.  *)
LEMMA SignStep ==
  ASSUME FiscalInv, NEW w \in Workers, At(w, "sign"), NEW h \in SignItems, Then(w, <<h>>),
         Follows(Now(w), h), UNCHANGED <<tse, clock, orders, payments, closings, next>>,
         ledger' \in Seq(Entries), LedgerGrows, LedgerFoots',
         history' \in [excused : SUBSET Nat, early : SUBSET Nat, raced : BOOLEAN],
         history.excused \subseteq history'.excused, history'.early = history.early, history'.raced = history.raced,
         h.stage # "keep" => h.row.tse = None,
         h.stage = "finish" => (/\ h.number \in DOMAIN ledger' /\ ledger'[h.number].amount = Now(w).row.amount
                                /\ ledger'[h.number].splits = Now(w).row.splits),
         h.stage = "keep" => (/\ h.row.tse = None => h.payment \in history'.excused
                              /\ h.row.tse \in Nat => /\ h.row.tse \in DOMAIN ledger'
                                                      /\ ledger'[h.row.tse] = Entry(Now(w).row, "finished")),
         \A n \in Nat : HasNumber(h, n) => n \notin DOMAIN ledger \/ HasNumber(Now(w), n)
  PROVE  FiscalInv'
<1>1. RowsOK /\ PlansOK /\ SigningInv
  BY DEF FiscalInv, TypesInv
<1>2. RowsOK' /\ clock' \in Nat /\ clock <= clock'
  BY <1>1 DEF RowsOK
<1>3. Grows
  BY <1>1 DEF Grows, OrdersGrow, SameOrder, PaymentsGrow, SameRow, RowsOK
<1>4. PICK g : g = Now(w)
  OBVIOUS
<1>5. SignFits(g)
  <2>1. Now(w) \in SignItems /\ Shift(w, {Now(w)}, {h})
    BY <1>1, SignGoesOn
  <2>2. Now(w) \in Signs(task[w])
    BY <2>1 DEF Shift
  <2> QED BY <1>1, <1>4, <2>2 DEF SigningInv, SignsInv
<1>6. SignFits(h)'
  <2>1. h.row.tse \in Nat /\ h.stage = "keep" => SignedFor(h.row.tse, g.row)'
    BY <1>4 DEF SignedFor, Entry
  <2> QED BY <1>1, <1>3, <1>4, <1>5, <2>1, FollowerFits
<1>7. h.payment = Now(w).payment
  BY DEF Follows
<1>8. PlansOK' /\ ClosesFewer /\ SigningInv'
  BY <1>1, <1>3, <1>6, <1>7, OneSignGoesOn
<1>9. ClosesInv'
  BY <1>2, <1>3, <1>8, ClosesStay DEF FiscalInv
<1>10. ClosingsInv'
  BY <1>1, <1>2, <1>3, ClosingsStay DEF FiscalInv
<1> QED BY <1>2, <1>8, <1>9, <1>10 DEF FiscalInv, TypesInv

(* What the request of w is signing.  *)
LEMMA SigningNow ==
  ASSUME FiscalInv, NEW w \in Workers, At(w, "sign")
  PROVE  /\ Now(w) \in SignItems /\ SignFits(Now(w)) /\ RowsOK /\ LedgerFoots
         /\ Now(w) \in Signs(task[w]) /\ Signs(task[w]) = {Now(w)}
<1>1. IsPlan(task[w]) /\ task[w] # <<>> /\ Head(task[w]).do = "sign"
  BY DEF FiscalInv, TypesInv, PlansOK, At, Idle, Now
<1>2. Now(w) \in SignItems /\ Signs(task[w]) = {Now(w)}
  BY <1>1, SignFirst DEF Now
<1> QED BY <1>2 DEF FiscalInv, TypesInv, SigningInv, SignsInv

(* A signature that fails is not asked for again.  *)
LEMMA GiveUpKeeps ==
  ASSUME FiscalInv, NEW w \in Workers, At(w, "sign"), GiveUp(w),
         UNCHANGED <<tse, clock, orders, payments, closings, next, history>>,
         ledger' \in Seq(Entries), LedgerGrows, LedgerFoots'
  PROVE  FiscalInv'
<1>1. PICK g : g = Now(w)
  OBVIOUS
<1>2. PICK h : h = Marked(g, "keep", Failed)
  OBVIOUS
<1>3. Then(w, <<h>>)
  BY <1>1, <1>2 DEF GiveUp, Marked
<1>4. g \in SignItems /\ RowsOK
  BY <1>1, SigningNow
<1>5. h \in SignItems /\ Follows(g, h) /\ h.stage = "keep" /\ h.row.tse = Failed
  <2>1. PICK s \in Stages, x \in Nat \cup {None, Failed} : s = "keep" /\ x = Failed
    BY DEF Stages
  <2>2. h = Marked(g, s, x)
    BY <1>2, <2>1
  <2>3. h \in SignItems /\ Follows(g, h) /\ h.stage = s /\ h.row.tse = x
    BY <1>4, <2>2, FollowsMarked
  <2> QED BY <2>1, <2>3
<1>6. Failed \notin Nat /\ Failed # None
  BY MarksApart
<1>7. \A n \in Nat : ~HasNumber(h, n)
  BY <1>5, <1>6 DEF HasNumber
<1>8. history' \in [excused : SUBSET Nat, early : SUBSET Nat, raced : BOOLEAN]
  BY <1>4 DEF RowsOK
<1>9. Follows(Now(w), h)
  BY <1>1, <1>5
<1> QED BY <1>3, <1>5, <1>6, <1>7, <1>8, <1>9, SignStep

(* There is no TSE: the payment is excused.  *)
LEMMA NothingToSignKeeps == ASSUME FiscalInv, NEW w \in Workers, NothingToSign(w) PROVE FiscalInv'
<1>1. PICK g : g = Now(w)
  OBVIOUS
<1>2. PICK h : h = MovedOn(g, "keep")
  OBVIOUS
<1>3. At(w, "sign") /\ g.stage = "client" /\ Then(w, <<h>>) /\ UNCHANGED rows
      /\ history' = [history EXCEPT !.excused = @ \cup {g.payment}]
  BY <1>1, <1>2 DEF NothingToSign, Signing, GoOn, MovedOn
<1>4. g \in SignItems /\ RowsOK /\ SignFits(g) /\ LedgerFoots
  BY <1>1, <1>3, SigningNow
<1>5. h \in SignItems /\ Follows(g, h) /\ h.stage = "keep" /\ h.row.tse = g.row.tse
  BY <1>2, <1>4, FollowsOn DEF Stages
<1>6. h.row.tse = None /\ None \notin Nat /\ g.payment \in Nat /\ h.payment = g.payment
  BY <1>3, <1>4, <1>5, MarksApart DEF SignFits, SignItems, Follows
<1>7. \A n \in Nat : ~HasNumber(h, n)
  BY <1>5, <1>6 DEF HasNumber
<1>8. /\ history' \in [excused : SUBSET Nat, early : SUBSET Nat, raced : BOOLEAN]
      /\ history.excused \subseteq history'.excused /\ h.payment \in history'.excused
      /\ history'.early = history.early /\ history'.raced = history.raced
  BY <1>3, <1>4, <1>6 DEF RowsOK
<1>9. Follows(Now(w), h)
  BY <1>1, <1>5
<1>10. UNCHANGED <<tse, clock, orders, payments, closings, next>> /\ ledger' \in Seq(Entries) /\ LedgerGrows /\ LedgerFoots'
  BY <1>3, <1>4 DEF rows, LedgerGrows, LedgerFoots, RowsOK
<1> QED BY <1>3, <1>5, <1>6, <1>7, <1>8, <1>9, <1>10, SignStep

(* What a step that closes nothing leaves to show.  *)
LEMMA ClosesNothing ==
  ASSUME FiscalInv, NEW w, NEW old, NEW new, Shift(w, old, new), ClosesFewer, Grows, RowsOK', SigningInv',
         closings' = closings, history'.raced = history.raced, clock' = clock
  PROVE  FiscalInv'
<1>1. clock' \in Nat /\ clock <= clock'
  BY DEF FiscalInv, TypesInv, RowsOK
<1>2. ClosesInv'
  BY <1>1, ClosesStay DEF FiscalInv
<1>3. ClosingsInv'
  BY <1>1, ClosingsStay DEF FiscalInv, TypesInv
<1>4. PlansOK'
  BY PlansShift
<1> QED BY <1>2, <1>3, <1>4 DEF FiscalInv, TypesInv

(* The client is not found: the payment is excused, a reversal is not made.  *)
LEMMA LookupFailsKeeps == ASSUME FiscalInv, NEW w \in Workers, LookupFails(w) PROVE FiscalInv'
<1>1. RowsOK /\ PlansOK /\ SigningInv
  BY DEF FiscalInv, TypesInv
<1>2. PICK g : g = Now(w)
  OBVIOUS
<1>3. /\ At(w, "sign") /\ (Done(w) \/ Fail(w))
      /\ history' = [history EXCEPT !.excused = @ \cup {g.payment}]
      /\ UNCHANGED <<tse, ledger, clock, orders, payments, closings, next>>
  BY <1>2 DEF LookupFails, Signing, rows
<1>4. g \in SignItems /\ Shift(w, {g}, {}) /\ ClosesFewer
  BY <1>1, <1>2, <1>3, SignEnds
<1>5. g.payment \in Nat
  BY <1>4 DEF SignItems
<1>6. /\ history' \in [excused : SUBSET Nat, early : SUBSET Nat, raced : BOOLEAN]
      /\ history.excused \subseteq history'.excused /\ g.payment \in history'.excused
      /\ history'.early = history.early /\ history'.raced = history.raced
  BY <1>1, <1>3, <1>5 DEF RowsOK
<1>7. LedgerFoots'
  BY <1>1, <1>3 DEF SigningInv, LedgerFoots
<1> DEFINE old == {g}
           none == {}
<1>8. Shift(w, old, none) /\ (\A h \in none : SignFits(h)' /\ NobodyElse(w, h) /\ Unused(h)) /\ \A h \in old : h = g
  BY <1>4
<1> HIDE DEF old, none
<1>9. Grows
  BY <1>1, <1>3, <1>6 DEF Grows, OrdersGrow, SameOrder, PaymentsGrow, LedgerGrows, SameRow, RowsOK
<1>10. RowsOK'
  BY <1>1, <1>3, <1>6 DEF RowsOK
<1>11. \A h \in old : h.payment \in history'.excused \/ h.payment \notin DOMAIN payments \/ \E x \in none : x.payment = h.payment
  BY <1>6, <1>8
<1>12. SigningInv'
  BY <1>1, <1>3, <1>7, <1>8, <1>9, <1>11, SigningGoesOn
<1> QED BY <1>3, <1>4, <1>6, <1>9, <1>10, <1>12, ClosesNothing

(* The till is registered at the TSE, or it fails.  *)
LEMMA EnsureClientKeeps == ASSUME FiscalInv, NEW w \in Workers, EnsureClient(w) PROVE FiscalInv'
<1>1. PICK g : g = Now(w)
  OBVIOUS
<1>2. PICK s, h : s = (IF tse = Local THEN "job" ELSE "start") /\ h = MovedAt(g, s, tse)
  OBVIOUS
<1>3. At(w, "sign") /\ g.stage = "client" /\ (GiveUp(w) \/ Then(w, <<h>>))
      /\ UNCHANGED <<tse, clock, orders, payments, closings, next, history, ledger>>
  BY <1>1, <1>2 DEF EnsureClient, Signing, MovedAt
<1>4. g \in SignItems /\ RowsOK /\ SignFits(g) /\ LedgerFoots
  BY <1>1, <1>3, SigningNow
<1>5. ledger' \in Seq(Entries) /\ LedgerGrows /\ LedgerFoots'
  BY <1>3, <1>4 DEF LedgerGrows, LedgerFoots, RowsOK
<1>6. CASE GiveUp(w)
  BY <1>3, <1>5, <1>6, GiveUpKeeps
<1>7. CASE Then(w, <<h>>)
  <2>1. tse \in Nat \cup {None, Local} /\ s \in Stages /\ s \notin {"keep", "finish"}
    BY <1>2, <1>4 DEF RowsOK, Stages
  <2>2. h \in SignItems /\ Follows(g, h) /\ h.stage = s /\ h.row.tse = g.row.tse
    BY <1>2, <1>4, <2>1, FollowsAt
  <2>3. h.row.tse = None
    BY <1>3, <1>4, <2>2 DEF SignFits
  <2>4. \A n \in Nat : ~HasNumber(h, n)
    BY <2>1, <2>2 DEF HasNumber
  <2>5. Follows(Now(w), h) /\ history' \in [excused : SUBSET Nat, early : SUBSET Nat, raced : BOOLEAN]
    BY <1>1, <1>3, <1>4, <2>2 DEF RowsOK
  <2> QED BY <1>3, <1>5, <1>7, <2>1, <2>2, <2>3, <2>4, <2>5, SignStep
<1> QED BY <1>3, <1>6, <1>7

(* A transaction is added, or finished: it foots as what is signed does.  *)
LEMMA LedgerMore ==
  ASSUME RowsOK, LedgerFoots, NEW row \in Rows, Foots(row), NEW state \in {"active", "finished"},
         ledger' = Append(ledger, Entry(row, state))
  PROVE  /\ ledger' \in Seq(Entries) /\ LedgerGrows /\ LedgerFoots'
         /\ Len(ledger) + 1 \in Nat /\ Len(ledger) + 1 \in DOMAIN ledger' /\ Len(ledger) + 1 \notin DOMAIN ledger
         /\ ledger'[Len(ledger) + 1] = Entry(row, state)
<1> DEFINE e == Entry(row, state)
<1>1. e \in Entries /\ SplitSum(e.splits) = e.amount
  BY DEF Entry, Entries, Rows, Foots
<1>2. ledger \in Seq(Entries) /\ Len(ledger) \in Nat /\ DOMAIN ledger = 1..Len(ledger)
  BY LenProperties DEF RowsOK
<1> HIDE DEF e
<1>3. /\ ledger' \in Seq(Entries) /\ Len(ledger') = Len(ledger) + 1
      /\ \A i \in 1 .. Len(ledger) : ledger'[i] = ledger[i]
      /\ ledger'[Len(ledger) + 1] = e
  <2>1. ledger' = Append(ledger, e)
    BY DEF e
  <2> QED BY <1>1, <1>2, <2>1, AppendProperties
<1>4. DOMAIN ledger' = 1..(Len(ledger) + 1)
  BY <1>3, LenProperties
<1>5. LedgerGrows
  BY <1>2, <1>3, <1>4 DEF LedgerGrows
<1>6. LedgerFoots'
  <2>1. ASSUME NEW n \in DOMAIN ledger' PROVE SplitSum(ledger'[n].splits) = ledger'[n].amount
    <3>1. n \in DOMAIN ledger \/ n = Len(ledger) + 1
      BY <1>2, <1>4
    <3> QED BY <1>1, <1>2, <1>3, <3>1 DEF LedgerFoots
  <2> QED BY <2>1 DEF LedgerFoots
<1> QED BY <1>2, <1>3, <1>4, <1>5, <1>6 DEF e

(* A transaction that is finished has the row it was started with.  *)
LEMMA LedgerFinished ==
  ASSUME RowsOK, LedgerFoots, NEW n \in DOMAIN ledger, ledger' = [ledger EXCEPT ![n].state = "finished"]
  PROVE  /\ ledger' \in Seq(Entries) /\ LedgerGrows /\ LedgerFoots' /\ n \in Nat /\ n \in DOMAIN ledger'
         /\ ledger'[n].amount = ledger[n].amount /\ ledger'[n].splits = ledger[n].splits
         /\ ledger'[n] = [amount |-> ledger[n].amount, splits |-> ledger[n].splits, state |-> "finished"]
<1>1. ledger \in Seq(Entries) /\ DOMAIN ledger = 1..Len(ledger)
  BY LenProperties DEF RowsOK
<1>2. ledger[n] \in Entries
  BY <1>1, ElementOfSeq
<1> DEFINE e == [ledger[n] EXCEPT !.state = "finished"]
<1>3. /\ e \in Entries /\ e.amount = ledger[n].amount /\ e.splits = ledger[n].splits
      /\ e = [amount |-> ledger[n].amount, splits |-> ledger[n].splits, state |-> "finished"]
      /\ ledger[n].state = "finished" => e = ledger[n]
  BY <1>2 DEF Entries
<1>4. ledger' = [ledger EXCEPT ![n] = e]
  OBVIOUS
<1> HIDE DEF e
<1>5. /\ ledger' \in Seq(Entries) /\ DOMAIN ledger' = DOMAIN ledger
      /\ \A j \in DOMAIN ledger : ledger'[j] = IF j = n THEN e ELSE ledger[j]
  <2> DEFINE u == [ledger EXCEPT ![n] = e]
  <2>1. n \in 1..Len(ledger) /\ e \in Entries
    BY <1>1, <1>3
  <2>2. u \in Seq(Entries)
    BY <1>1, <2>1, ExceptSeq
  <2>3. DOMAIN u = DOMAIN ledger /\ \A j \in DOMAIN ledger : u[j] = IF j = n THEN e ELSE ledger[j]
    OBVIOUS
  <2> QED BY <1>4, <2>2, <2>3
<1>6. LedgerGrows
  BY <1>3, <1>5 DEF LedgerGrows
<1>7. LedgerFoots'
  BY <1>3, <1>5 DEF LedgerFoots
<1> QED BY <1>1, <1>3, <1>5, <1>6, <1>7

(* The answer of the TSE, or none.  *)
LEMMA AnsweredKeeps ==
  ASSUME FiscalInv, NEW w \in Workers, At(w, "sign"), NEW number \in Nat, NEW stage \in {"finish", "keep"},
         Answered(w, number, stage),
         UNCHANGED <<tse, clock, orders, payments, closings, next, history>>,
         ledger' \in Seq(Entries), LedgerGrows, LedgerFoots', number \in DOMAIN ledger',
         ledger'[number] = Entry(Now(w).row, IF stage = "keep" THEN "finished" ELSE "active"),
         number \notin DOMAIN ledger \/ HasNumber(Now(w), number)
  PROVE  FiscalInv'
<1>1. PICK g : g = Now(w)
  OBVIOUS
<1>2. PICK x \in Nat \cup {None, Failed} : x = IF stage = "keep" THEN number ELSE None
  OBVIOUS
<1>3. PICK h : h = Numbered(g, stage, number, x)
  OBVIOUS
<1>4. GiveUp(w) \/ Then(w, <<h>>)
  BY <1>1, <1>2, <1>3 DEF Answered, Numbered
<1>5. CASE GiveUp(w)
  BY <1>5, GiveUpKeeps
<1>6. CASE Then(w, <<h>>)
  <2>1. g \in SignItems /\ RowsOK
    BY <1>1, SigningNow
  <2>2. h \in SignItems /\ Follows(g, h) /\ h.stage = stage /\ h.row.tse = x /\ h.number = number
    <3>1. stage \in Stages
      BY DEF Stages
    <3> QED BY <1>2, <1>3, <2>1, <3>1, FollowsAnswered
  <2>3. \A n \in Nat : HasNumber(h, n) => n = number
    BY <1>2, <2>2 DEF HasNumber
  <2>4. \A n \in Nat : HasNumber(h, n) => n \notin DOMAIN ledger \/ HasNumber(Now(w), n)
    BY <2>3
  <2>5. Follows(Now(w), h) /\ history' \in [excused : SUBSET Nat, early : SUBSET Nat, raced : BOOLEAN]
    BY <1>1, <2>1, <2>2 DEF RowsOK
  <2>6. h.stage # "keep" => h.row.tse = None
    BY <1>2, <2>2
  <2>7. h.stage = "finish" => (/\ h.number \in DOMAIN ledger' /\ ledger'[h.number].amount = Now(w).row.amount
                               /\ ledger'[h.number].splits = Now(w).row.splits)
    BY <2>2 DEF Entry
  <2>8. h.stage = "keep" => (/\ h.row.tse = None => h.payment \in history'.excused
                             /\ h.row.tse \in Nat => /\ h.row.tse \in DOMAIN ledger'
                                                     /\ ledger'[h.row.tse] = Entry(Now(w).row, "finished"))
    BY <1>2, <2>2, MarksApart
  <2>9. history.excused \subseteq history'.excused /\ history'.early = history.early /\ history'.raced = history.raced
    OBVIOUS
  <2> QED BY <1>6, <2>2, <2>4, <2>5, <2>6, <2>7, <2>8, <2>9, SignStep
<1> QED BY <1>4, <1>5, <1>6

(* A row that is signed foots.  *)
LEMMA SignedRow ==
  ASSUME NEW g \in SignItems, SignFits(g)
  PROVE  g.row \in Rows /\ Foots(g.row)
BY DEF SignItems, SignFits, Placed

(* The request did not reach the TSE.  *)
LEMMA LedgerAsItWas ==
  ASSUME RowsOK, LedgerFoots, ledger' = ledger
  PROVE  ledger' \in Seq(Entries) /\ LedgerGrows /\ LedgerFoots'
BY DEF RowsOK, LedgerGrows, LedgerFoots

(* A transaction is started, or it fails; the number may be lost.  *)
LEMMA StartTransactionKeeps == ASSUME FiscalInv, NEW w \in Workers, StartTransaction(w) PROVE FiscalInv'
<1>1. At(w, "sign") /\ UNCHANGED <<tse, clock, orders, payments, closings, next, history>>
      /\ \/ GiveUp(w) /\ ledger' = ledger
         \/ ledger' = Append(ledger, Entry(Now(w).row, "active")) /\ Answered(w, Len(ledger) + 1, "finish")
  BY DEF StartTransaction, Signing
<1>2. RowsOK /\ LedgerFoots /\ Now(w).row \in Rows /\ Foots(Now(w).row)
  BY <1>1, SigningNow, SignedRow
<1>3. CASE GiveUp(w) /\ ledger' = ledger
  BY <1>1, <1>2, <1>3, LedgerAsItWas, GiveUpKeeps
<1>4. CASE ledger' = Append(ledger, Entry(Now(w).row, "active")) /\ Answered(w, Len(ledger) + 1, "finish")
  <2>1. PICK row, number : row = Now(w).row /\ number = Len(ledger) + 1
    OBVIOUS
  <2>2. ledger' = Append(ledger, Entry(row, "active")) /\ Answered(w, number, "finish")
    BY <1>4, <2>1
  <2>3. /\ ledger' \in Seq(Entries) /\ LedgerGrows /\ LedgerFoots'
        /\ number \in Nat /\ number \in DOMAIN ledger' /\ number \notin DOMAIN ledger
        /\ ledger'[number] = Entry(row, "active")
    BY <1>2, <2>1, <2>2, LedgerMore
  <2> QED BY <1>1, <2>1, <2>2, <2>3, AnsweredKeeps
<1> QED BY <1>1, <1>3, <1>4

(* The local agent signs, or it fails.  *)
LEMMA SignLocallyKeeps == ASSUME FiscalInv, NEW w \in Workers, SignLocally(w) PROVE FiscalInv'
<1>1. At(w, "sign") /\ UNCHANGED <<tse, clock, orders, payments, closings, next, history>>
      /\ \/ GiveUp(w) /\ ledger' = ledger
         \/ ledger' = Append(ledger, Entry(Now(w).row, "finished")) /\ Answered(w, Len(ledger) + 1, "keep")
  BY DEF SignLocally, Signing
<1>2. RowsOK /\ LedgerFoots /\ Now(w).row \in Rows /\ Foots(Now(w).row)
  BY <1>1, SigningNow, SignedRow
<1>3. CASE GiveUp(w) /\ ledger' = ledger
  BY <1>1, <1>2, <1>3, LedgerAsItWas, GiveUpKeeps
<1>4. CASE ledger' = Append(ledger, Entry(Now(w).row, "finished")) /\ Answered(w, Len(ledger) + 1, "keep")
  <2>1. PICK row, number : row = Now(w).row /\ number = Len(ledger) + 1
    OBVIOUS
  <2>2. ledger' = Append(ledger, Entry(row, "finished")) /\ Answered(w, number, "keep")
    BY <1>4, <2>1
  <2>3. /\ ledger' \in Seq(Entries) /\ LedgerGrows /\ LedgerFoots'
        /\ number \in Nat /\ number \in DOMAIN ledger' /\ number \notin DOMAIN ledger
        /\ ledger'[number] = Entry(row, "finished")
    BY <1>2, <2>1, <2>2, LedgerMore
  <2> QED BY <1>1, <2>1, <2>2, <2>3, AnsweredKeeps
<1> QED BY <1>1, <1>3, <1>4

(* A transaction is finished, or it fails; the signature may be lost.  *)
LEMMA FinishTransactionKeeps == ASSUME FiscalInv, NEW w \in Workers, FinishTransaction(w) PROVE FiscalInv'
<1>1. At(w, "sign") /\ Now(w).stage = "finish" /\ UNCHANGED <<tse, clock, orders, payments, closings, next, history>>
      /\ \/ GiveUp(w) /\ ledger' = ledger
         \/ ledger' = [ledger EXCEPT ![Now(w).number].state = "finished"] /\ Answered(w, Now(w).number, "keep")
  BY DEF FinishTransaction, Signing
<1>2. RowsOK /\ LedgerFoots /\ Now(w).row \in Rows /\ Foots(Now(w).row) /\ SignFits(Now(w))
  BY <1>1, SigningNow, SignedRow
<1>3. CASE GiveUp(w) /\ ledger' = ledger
  BY <1>1, <1>2, <1>3, LedgerAsItWas, GiveUpKeeps
<1>4. CASE ledger' = [ledger EXCEPT ![Now(w).number].state = "finished"] /\ Answered(w, Now(w).number, "keep")
  <2>1. PICK row, number : row = Now(w).row /\ number = Now(w).number
    OBVIOUS
  <2>2. number \in DOMAIN ledger /\ ledger[number].amount = row.amount /\ ledger[number].splits = row.splits
    BY <1>1, <1>2, <2>1 DEF SignFits
  <2>3. ledger' = [ledger EXCEPT ![number].state = "finished"] /\ Answered(w, number, "keep")
    BY <1>4, <2>1
  <2>4. /\ ledger' \in Seq(Entries) /\ LedgerGrows /\ LedgerFoots' /\ number \in Nat /\ number \in DOMAIN ledger'
        /\ ledger'[number] = [amount |-> ledger[number].amount, splits |-> ledger[number].splits, state |-> "finished"]
    BY <1>2, <2>2, <2>3, LedgerFinished
  <2>5. ledger'[number] = Entry(Now(w).row, "finished")
    BY <2>1, <2>2, <2>4 DEF Entry
  <2>6. HasNumber(Now(w), number)
    BY <1>1, <2>1 DEF HasNumber
  <2> QED BY <1>1, <2>3, <2>4, <2>5, <2>6, AnsweredKeeps
<1> QED BY <1>1, <1>3, <1>4

-----------------------------------------------------------------------------
(* Exports and closings.  *)
LEMMA ClosingRows ==
  ASSUME RowsOK
  PROVE  /\ Len(closings) \in Nat /\ DOMAIN closings = 1..Len(closings)
         /\ \A z \in DOMAIN closings : closings[z] \in Closings /\ closings[z].start \in Nat /\ closings[z].end \in Nat
         /\ closings = <<>> <=> Len(closings) = 0
<1>1. closings \in Seq(Closings)
  BY DEF RowsOK
<1>2. Len(closings) \in Nat /\ DOMAIN closings = 1..Len(closings)
  BY <1>1, LenProperties
<1>3. \A z \in DOMAIN closings : closings[z] \in Closings
  BY <1>1, <1>2, ElementOfSeq
<1>4. closings = <<>> <=> Len(closings) = 0
  BY <1>1, EmptySeq
<1> QED BY <1>2, <1>3, <1>4 DEF Closings

(* The end of the last closing.  *)
LEMMA LastEndIs ==
  ASSUME RowsOK, ClosingsInv
  PROVE  /\ LastEnd(0) \in Nat /\ LastEnd(0) <= clock
         /\ Len(closings) # 0 => LastEnd(0) = closings[Len(closings)].end
<1>1. CASE Len(closings) = 0
  <2>1. LastEnd(0) = 0 /\ clock \in Nat
    BY <1>1, ClosingRows DEF LastEnd, RowsOK
  <2> QED BY <1>1, <2>1
<1>2. CASE Len(closings) # 0
  <2>1. Len(closings) \in DOMAIN closings /\ closings # <<>>
    BY <1>2, ClosingRows
  <2>2. LastEnd(0) = closings[Len(closings)].end
    BY <2>1 DEF LastEnd, Last
  <2>3. closings[Len(closings)].end <= clock /\ closings[Len(closings)].end \in Nat
    BY <2>1, ClosingRows DEF ClosingsInv, Covers
  <2> QED BY <2>2, <2>3
<1> QED BY <1>1, <1>2

(* An export reads its period: what it has to close is covered by it.  *)
LEMMA ReadPeriodKeeps == ASSUME FiscalInv, NEW w \in Workers, ReadPeriod(w) PROVE FiscalInv'
<1> DEFINE e == Now(w).event
           start == LastEnd(0)
           content == Qualifying(e, start, clock)
           c == [do |-> "close", event |-> e, start |-> start, end |-> clock, content |-> content,
                 seen |-> Len(closings), archive |-> Now(w).archive]
<1>1. RowsOK /\ PlansOK /\ SigningInv /\ ClosesInv /\ ClosingsInv
  BY DEF FiscalInv, TypesInv
<1>2. task[w] # Idle /\ Now(w).do = "export" /\ UNCHANGED <<rows, history>>
      /\ (Done(w) \/ Fail(w) \/ Then(w, <<c>>))
  BY DEF ReadPeriod, At
<1>3. UNCHANGED <<payments, ledger, closings, history, next, orders, clock, tse>> /\ clock \in Nat /\ clock <= clock'
  BY <1>1, <1>2 DEF rows, RowsOK
<1>4. RowsOK' /\ OrdersGrow
  BY <1>1, <1>3 DEF RowsOK, OrdersGrow, SameOrder
<1>5. CASE Done(w) \/ Fail(w)
  <2>1. Shift(w, Signs(task[w]), Signs(task[w])) /\ ClosesFewer
    BY <1>1, <1>2, <1>5, OtherEnds
  <2> QED BY <1>3, <1>4, <2>1, QuietKeeps
<1>6. CASE Then(w, <<c>>)
  <2>1. Now(w) \in Items
    BY <1>1, <1>2, OtherDone DEF PlansOK, Idle, Now
  <2>2. Now(w) \in ExportItems
    BY <1>2, <2>1, Kinds
  <2>3. start \in Nat /\ start <= clock
    BY <1>1, LastEndIs
  <2>4. content \subseteq DOMAIN payments /\ content \in SUBSET Nat
    BY <1>1 DEF Qualifying, RowsOK
  <2>5. c \in CloseItems /\ c \in Items /\ c.do = "close"
    <3>1. Now(w).event \in Events /\ Now(w).archive \in BOOLEAN
      BY <2>2 DEF ExportItems
    <3>2. Len(closings) \in Nat
      BY <1>1, ClosingRows
    <3> HIDE DEF content, start
    <3> QED BY <1>1, <2>3, <2>4, <3>1, <3>2 DEF CloseItems, Items, RowsOK
  <2>6. \A p \in content : start <= Stamp(p) /\ Stamp(p) <= clock
    BY DEF Qualifying, Within, Stamp
  <2>7. c.content = content /\ c.start = start /\ c.end = clock /\ c.seen = Len(closings)
    OBVIOUS
  <2>8. Covers(c)
    <3> HIDE DEF content, start, c
    <3> QED BY <1>3, <2>3, <2>4, <2>6, <2>7 DEF Covers
  <2>9. c.seen <= Len(closings) /\ (c.seen = Len(closings) => c.start = LastEnd(0))
    <3>1. Len(closings) \in Nat
      BY <1>1, ClosingRows
    <3> HIDE DEF c
    <3> QED BY <2>7, <3>1 DEF start
  <2>10. PICK x : x = c
    OBVIOUS
  <2> HIDE DEF c, content, start
  <2>11. Shift(w, {}, {}) /\ Closes(task'[w]) \subseteq Closes(task[w]) \cup {x}
    BY <1>1, <1>2, <1>6, <2>5, <2>10, OtherGoesOn
  <2>12. Grows
    BY <1>1, <1>3, <1>4 DEF Grows, PaymentsGrow, LedgerGrows, SameRow, RowsOK
  <2>13. SigningInv'
    <3>1. Shift(w, Signs(task[w]), Signs(task[w]))
      BY <2>11 DEF Shift
    <3> QED BY <1>1, <1>3, <2>12, <3>1, NothingSigned
  <2>14. ClosingsInv'
    BY <1>1, <1>3, <2>12, ClosingsStay
  <2>15. ClosesInv'
    <3>1. SUFFICES ASSUME NEW v \in Workers, NEW d \in Closes(task'[v])
                   PROVE  /\ Covers(d)' /\ d.seen <= Len(closings)
                          /\ d.seen = Len(closings) => d.start = LastEnd(0)
      BY <1>3 DEF ClosesInv, LastEnd
    <3>2. d \in Closes(task[v]) \/ d = x
      BY <2>11, <3>1 DEF Shift
    <3>3. Covers(d) /\ d.seen <= Len(closings) /\ (d.seen = Len(closings) => d.start = LastEnd(0))
      BY <1>1, <2>8, <2>9, <2>10, <3>2 DEF ClosesInv
    <3>4. d.content \subseteq DOMAIN payments /\ \A p \in d.content : Stamp(p)' = Stamp(p)
      BY <1>1, <2>12, <3>3, StampStays DEF Covers
    <3>5. Covers(d)'
      BY <1>3, <3>3, <3>4 DEF Covers
    <3> QED BY <3>3, <3>5
  <2>16. PlansOK'
    BY <2>11, PlansShift
  <2> QED BY <1>4, <2>13, <2>14, <2>15, <2>16 DEF FiscalInv, TypesInv
<1> QED BY <1>2, <1>5, <1>6

(* The rates are so many numbers.  *)
LEMMA RatesAre == Rates \subseteq Int /\ IsFiniteSet(Rates)
<1>1. IsFiniteSet(0 .. 19) /\ Rates \subseteq 0 .. 19
  <2>1. IsFiniteSet(0 .. 19)
    <3>1. PICK low \in Int, high \in Int : low = 0 /\ high = 19
      OBVIOUS
    <3>2. IsFiniteSet(low .. high)
      BY FS_Interval
    <3> QED BY <3>1, <3>2
  <2>2. Rates \subseteq 0 .. 19
    BY DEF Rates
  <2> QED BY <2>1, <2>2
<1>2. IsFiniteSet(Rates)
  BY <1>1, FS_Subset
<1> QED BY <1>2 DEF Rates

(* The tables of a closing are sums of numbers.  *)
LEMMA PaymentsAre ==
  ASSUME RowsOK, SigningInv
  PROVE  /\ IsFiniteSet(DOMAIN payments)
         /\ \A p \in DOMAIN payments : /\ payments[p] \in Rows /\ payments[p].amount \in Int
                                       /\ payments[p].order \in DOMAIN orders
<1>1. DOMAIN payments \subseteq 0..(next.payment - 1)
  BY DEF SigningInv, PaymentsInv, PaymentFits, Placed
<1>2. IsFiniteSet(0..(next.payment - 1))
  <2>1. PICK k \in Int : k = next.payment - 1
    BY DEF RowsOK
  <2>2. IsFiniteSet(0..k)
    BY FS_Interval
  <2> QED BY <2>1, <2>2
<1>3. IsFiniteSet(DOMAIN payments)
  BY <1>1, <1>2, FS_Subset
<1>4. \A p \in DOMAIN payments : payments[p] \in Rows /\ payments[p].order \in DOMAIN orders
  BY DEF RowsOK, SigningInv, PaymentsInv, PaymentFits, Placed
<1> QED BY <1>3, <1>4 DEF Rows

(* Orders are so many, and have baskets.  *)
LEMMA OrdersAre ==
  ASSUME RowsOK
  PROVE  /\ IsFiniteSet(DOMAIN orders)
         /\ \A o \in DOMAIN orders : orders[o] \in Orders /\ orders[o].basket \in Baskets /\ orders[o].created \in Nat
<1>1. DOMAIN orders = 1..Len(orders) /\ Len(orders) \in Nat /\ orders \in Seq(Orders)
  BY LenProperties DEF RowsOK
<1>2. IsFiniteSet(1..Len(orders))
  BY <1>1, FS_Interval
<1>3. \A o \in 1..Len(orders) : orders[o] \in Orders
  BY <1>1, ElementOfSeq
<1> QED BY <1>1, <1>2, <1>3 DEF Orders

(* What an order has at a rate is a number.  *)
LEMMA PartIsNumber ==
  ASSUME RowsOK, NEW o \in DOMAIN orders, NEW r
  PROVE  ItemLines(o, r) \in Int
<1>1. orders[o].basket \in Baskets
  BY OrdersAre
<1>2. PICK sold \in SUBSET Rates : orders[o].basket \in [sold -> Nat]
  BY <1>1, FiscalAssumption
<1> QED BY <1>2 DEF ItemLines

(* A sum of numbers is one.  *)
LEMMA SumIsNumber ==
  ASSUME NEW S, IsFiniteSet(S), NEW f, f \in [S -> Int]
  PROVE  SplitSum(f) = SumFunctionOnSet(f, S) /\ SplitSum(f) \in Int
<1>1. SplitSum(f) = SumFunctionOnSet(f, S)
  BY DEF SplitSum, SumFunction
<1>2. \A x \in S : f[x] \in Int
  OBVIOUS
<1> QED BY <1>1, <1>2, SumOfMore

Sold(content) == {payments[p].order : p \in SalesIn(content)}

(* The orders of some payments are so many.  *)
LEMMA SoldAre ==
  ASSUME RowsOK, SigningInv, NEW content, content \subseteq DOMAIN payments
  PROVE  IsFiniteSet(Sold(content)) /\ Sold(content) \subseteq DOMAIN orders
<1>1. Sold(content) \subseteq DOMAIN orders
  BY PaymentsAre DEF Sold, SalesIn
<1> QED BY <1>1, OrdersAre, FS_Subset

(* The amounts of some payments have a sum.  *)
LEMMA AmountsAre ==
  ASSUME RowsOK, SigningInv, NEW S, S \subseteq DOMAIN payments
  PROVE  /\ IsFiniteSet(S)
         /\ [p \in S |-> payments[p].amount] \in [S -> Int]
         /\ SplitSum([p \in S |-> payments[p].amount]) \in Int
<1>1. IsFiniteSet(S)
  BY PaymentsAre, FS_Subset
<1>2. [p \in S |-> payments[p].amount] \in [S -> Int]
  BY PaymentsAre
<1> QED BY <1>1, <1>2, SumIsNumber

(* What the orders of some payments have at a rate has a sum.  *)
LEMMA PartsAre ==
  ASSUME RowsOK, SigningInv, NEW content, content \subseteq DOMAIN payments, NEW r
  PROVE  /\ [o \in Sold(content) |-> ItemLines(o, r)] \in [Sold(content) -> Int]
         /\ SplitSum([o \in Sold(content) |-> ItemLines(o, r)]) \in Int
<1>1. IsFiniteSet(Sold(content)) /\ [o \in Sold(content) |-> ItemLines(o, r)] \in [Sold(content) -> Int]
  BY SoldAre, PartIsNumber
<1> QED BY <1>1, SumIsNumber

(* What is owed of an order, and the lines that are exported of it, are numbers.  *)
LEMMA OrderIsNumbers ==
  ASSUME RowsOK, NEW o \in DOMAIN orders
  PROVE  /\ Owed(o) \in Int /\ Lines(o) \in Int /\ DepositLines(o) \in Int
         /\ SplitSum(orders[o].basket) \in Int
<1>1. PICK row : row = orders[o]
  OBVIOUS
<1>2. row \in Orders /\ row.basket \in Baskets
  BY <1>1, OrdersAre
<1>3. PICK sold \in SUBSET Rates : row.basket \in [sold -> Nat]
  BY <1>2, FiscalAssumption
<1>4. row.deposit \in [Rates -> Nat] /\ row.extra.discount \in Int /\ row.extra.tip \in Int
  <2>1. row.deposit \in Deposits /\ row.extra \in Extras
    BY <1>2 DEF Orders
  <2> QED BY <2>1, FiscalAssumption
<1>5. ASSUME NEW S \in SUBSET sold
      PROVE  SplitSum([r \in S |-> row.basket[r]]) \in Int /\ SplitSum([r \in S |-> row.deposit[r]]) \in Int
  <2>1. IsFiniteSet(S)
    BY <1>3, <1>5, RatesAre, FS_Subset
  <2>2. [r \in S |-> row.basket[r]] \in [S -> Int] /\ [r \in S |-> row.deposit[r]] \in [S -> Int]
    BY <1>3, <1>4, <1>5
  <2> QED BY <2>1, <2>2, SumIsNumber
<1>6. DepositLines(o) \in Int
  <2>1. DOMAIN row.basket \in SUBSET sold
    BY <1>3
  <2> QED BY <1>1, <1>5, <2>1 DEF DepositLines
<1>7. SplitSum(row.basket) \in Int
  <2>1. IsFiniteSet(sold)
    BY <1>3, RatesAre, FS_Subset
  <2>2. row.basket \in [sold -> Int]
    BY <1>3
  <2> QED BY <2>1, <2>2, SumIsNumber
<1>8. Owed(o) \in Int
  <2>1. PICK live, subtotal, rest : /\ live = DOMAIN row.basket \ row.cancelled
                                    /\ subtotal = SplitSum([r \in live |-> row.basket[r]])
                                    /\ rest = SplitSum([r \in live |-> row.deposit[r]])
    OBVIOUS
  <2>2. live \in SUBSET sold
    BY <1>3, <2>1
  <2>3. subtotal \in Int /\ rest \in Int
    BY <1>5, <2>1, <2>2
  <2>4. PICK off : off = IF row.extra.discount > subtotal THEN subtotal ELSE row.extra.discount
    OBVIOUS
  <2>5. Owed(o) = subtotal - off + row.extra.tip + rest
    BY <1>1, <2>1, <2>4 DEF Owed
  <2> QED BY <1>4, <2>3, <2>4, <2>5
<1> QED BY <1>1, <1>6, <1>7, <1>8 DEF Lines

(* What the orders of some payments have for deposits has a sum.  *)
LEMMA DepositsAre ==
  ASSUME RowsOK, SigningInv, NEW content, content \subseteq DOMAIN payments
  PROVE  /\ [o \in Sold(content) |-> DepositLines(o)] \in [Sold(content) -> Int]
         /\ SplitSum([o \in Sold(content) |-> DepositLines(o)]) \in Int
<1>1. IsFiniteSet(Sold(content)) /\ [o \in Sold(content) |-> DepositLines(o)] \in [Sold(content) -> Int]
  BY SoldAre, OrderIsNumbers
<1> QED BY <1>1, SumIsNumber

(* The tables of a closing, by the rates.  *)
LEMMA TablesAreNumbers ==
  ASSUME RowsOK, SigningInv, NEW content, content \subseteq DOMAIN payments
  PROVE  /\ BusinessCases(content) \in [Rates -> Int] /\ PaymentTotal(content) \in Int
         /\ BusinessCases(content) =
              [r \in Rates |-> SplitSum([o \in Sold(content) |-> ItemLines(o, r)])
                               + (IF r = 19 THEN SplitSum([o \in Sold(content) |-> DepositLines(o)])
                                                 + PaymentTotal(content \ SalesIn(content)) ELSE 0)]
<1>1. PaymentTotal(content) \in Int /\ PaymentTotal(content \ SalesIn(content)) \in Int
  BY AmountsAre DEF PaymentTotal
<1>2. BusinessCases(content) =
              [r \in Rates |-> SplitSum([o \in Sold(content) |-> ItemLines(o, r)])
                               + (IF r = 19 THEN SplitSum([o \in Sold(content) |-> DepositLines(o)])
                                                 + PaymentTotal(content \ SalesIn(content)) ELSE 0)]
  BY DEF BusinessCases, Sold, PaymentTotal
<1>3. \A r \in Rates : SplitSum([o \in Sold(content) |-> ItemLines(o, r)]) \in Int
  BY PartsAre
<1>4. SplitSum([o \in Sold(content) |-> DepositLines(o)]) \in Int
  BY DepositsAre
<1> QED BY <1>1, <1>2, <1>3, <1>4

(* A closing is added: it has the tables of what it read, and starts where the
   last one ended unless another came in between.  *)
LEMMA AllocateKeeps == ASSUME FiscalInv, NEW w \in Workers, AllocateClosing(w) PROVE FiscalInv'
<1>1. RowsOK /\ PlansOK /\ SigningInv /\ ClosesInv /\ ClosingsInv
  BY DEF FiscalInv, TypesInv
<1>2. PICK c : c = Now(w)
  OBVIOUS
<1> DEFINE row == [event |-> c.event, start |-> c.start, end |-> c.end, content |-> c.content,
                   turnover |-> BusinessCases(c.content), paid |-> PaymentTotal(c.content)]
           a == [do |-> "archive", content |-> c.content]
           n == Len(closings) + 1
<1>3. /\ task[w] # Idle /\ c.do = "close" /\ closings' = Append(closings, row)
      /\ history' = [history EXCEPT !.raced = @ \/ Len(closings) # c.seen]
      /\ Done(w) \/ Then(w, <<a>>)
      /\ UNCHANGED <<tse, ledger, clock, orders, payments, next>>
  BY <1>2 DEF AllocateClosing, At
<1>4. c \in Items /\ c \in CloseItems /\ c \in Closes(task[w])
  <2>1. IsPlan(task[w]) /\ task[w] # <<>> /\ c = Head(task[w])
    BY <1>1, <1>2, <1>3 DEF PlansOK, Idle, Now
  <2>2. c \in Items
    BY <1>3, <2>1, OtherDone
  <2>3. 1 \in DOMAIN task[w] /\ task[w][1] = c
    BY <2>1, NextFirst DEF IsPlan
  <2> QED BY <1>3, <2>2, <2>3, Kinds DEF Closes
<1>5. /\ c.event \in Events /\ c.start \in Nat /\ c.end \in Nat /\ c.content \in SUBSET Nat /\ c.seen \in Nat
      /\ Covers(c) /\ c.seen <= Len(closings) /\ (c.seen = Len(closings) => c.start = LastEnd(0))
  BY <1>1, <1>4 DEF CloseItems, ClosesInv
<1>6. c.content \subseteq DOMAIN payments
  BY <1>5 DEF Covers
<1>7. row \in Closings
  BY <1>1, <1>5, <1>6, TablesAreNumbers DEF Closings
<1>8. /\ row.start = c.start /\ row.end = c.end /\ row.content = c.content
      /\ row.turnover = BusinessCases(c.content) /\ row.paid = PaymentTotal(c.content)
  OBVIOUS
<1> HIDE DEF row
<1>9. /\ closings' \in Seq(Closings) /\ Len(closings') = n /\ DOMAIN closings' = 1..n
      /\ \A z \in 1..Len(closings) : closings'[z] = closings[z]
      /\ closings'[n] = row
  <2>1. closings \in Seq(Closings)
    BY <1>1 DEF RowsOK
  <2>2. /\ closings' \in Seq(Closings) /\ Len(closings') = n
        /\ \A z \in 1..Len(closings) : closings'[z] = closings[z]
        /\ closings'[n] = row
    BY <1>3, <1>7, <2>1, AppendProperties
  <2> QED BY <2>2, LenProperties
<1>10. Grows
  BY <1>1, <1>3 DEF Grows, OrdersGrow, SameOrder, PaymentsGrow, LedgerGrows, SameRow, RowsOK
<1>11. Shift(w, Signs(task[w]), Signs(task[w])) /\ ClosesFewer
  <2>1. CASE Done(w)
    BY <1>1, <1>2, <1>3, <2>1, OtherEnds
  <2>2. CASE Then(w, <<a>>)
    <3>1. a \in Items /\ a.do = "archive"
      BY <1>5, ItemKinds
    <3> HIDE DEF a
    <3>2. Shift(w, {}, {}) /\ Closes(task'[w]) \subseteq Closes(task[w])
      BY <1>1, <1>2, <1>3, <2>2, <3>1, OtherGoesOn
    <3> QED BY <3>2 DEF Shift, ClosesFewer
  <2> QED BY <1>3, <2>1, <2>2
<1>12. SigningInv'
  BY <1>1, <1>3, <1>10, <1>11, NothingSigned
<1>13. \A z : Covers(z) => Covers(z)'
  <2>1. ASSUME NEW z, Covers(z) PROVE Covers(z)'
    <3>1. z.content \subseteq DOMAIN payments /\ \A p \in z.content : Stamp(p)' = Stamp(p)
      BY <1>1, <1>10, <2>1, StampStays DEF Covers
    <3> QED BY <1>3, <2>1, <3>1 DEF Covers
  <2> QED BY <2>1
<1>14. ClosesInv'
  <2>1. SUFFICES ASSUME NEW v \in Workers, NEW d \in Closes(task'[v])
                 PROVE  /\ Covers(d)' /\ d.seen <= Len(closings')
                        /\ d.seen = Len(closings') => d.start = LastEnd(0)'
    BY DEF ClosesInv
  <2>2. d \in Closes(task[v])
    BY <1>11, <2>1 DEF ClosesFewer
  <2>3. Covers(d) /\ d.seen <= Len(closings)
    BY <1>1, <2>2 DEF ClosesInv
  <2>4. d.seen \in Nat
    <3>1. task[v] \in Seq(Items)
      BY <1>1 DEF PlansOK, IsPlan
    <3>2. PICK i \in DOMAIN task[v] : d = task[v][i] /\ d.do = "close"
      BY <2>2 DEF Closes
    <3>3. d \in Items
      BY <3>1, <3>2, LenProperties, ElementOfSeq
    <3> QED BY <3>2, <3>3, Kinds DEF CloseItems
  <2>5. Len(closings) \in Nat /\ Len(closings') = Len(closings) + 1
    BY <1>1, <1>9, ClosingRows
  <2>6. d.seen <= Len(closings') /\ d.seen # Len(closings')
    BY <2>3, <2>4, <2>5
  <2> QED BY <1>13, <2>3, <2>6
<1>15. ClosingsInv'
  <2>1. Len(closings) \in Nat /\ DOMAIN closings = 1..Len(closings)
    BY <1>1, ClosingRows
  <2>2. ASSUME NEW z \in DOMAIN closings' 
        PROVE (z \in DOMAIN closings /\ closings'[z] = closings[z]) \/ (z = n /\ closings'[z] = row)
    BY <1>9, <2>1
  <2>3. ASSUME NEW z \in DOMAIN closings'
        PROVE  /\ Covers(closings[z])'
               /\ closings'[z].turnover = BusinessCases(closings[z].content)'
               /\ closings'[z].paid = PaymentTotal(closings[z].content)'
    <3>1. PICK x, content : x = closings'[z] /\ content = x.content
      OBVIOUS
    <3>2. Covers(x) /\ x.turnover = BusinessCases(content) /\ x.paid = PaymentTotal(content)
      <4>1. CASE z \in DOMAIN closings /\ closings'[z] = closings[z]
        BY <1>1, <3>1, <4>1 DEF ClosingsInv
      <4>2. CASE z = n /\ closings'[z] = row
        <5>1. Covers(row)
          BY <1>5, <1>8 DEF Covers
        <5> QED BY <1>8, <3>1, <4>2, <5>1
      <4> QED BY <2>2, <2>3, <4>1, <4>2
    <3>3. Covers(x)' /\ x.turnover = BusinessCases(content)' /\ x.paid = PaymentTotal(content)'
      <4>1. content \subseteq DOMAIN payments
        BY <3>1, <3>2 DEF Covers
      <4> QED BY <1>1, <1>10, <1>13, <3>2, <4>1, TablesStay
    <3>4. Covers(closings[z])' /\ BusinessCases(closings[z].content)' = BusinessCases(content)'
          /\ PaymentTotal(closings[z].content)' = PaymentTotal(content)'
      BY <3>1, <3>3
    <3> QED BY <3>1, <3>3, <3>4
  <2>4. ASSUME ~history'.raced, NEW y \in DOMAIN closings', NEW z \in DOMAIN closings', y < z
        PROVE  closings'[y].end <= closings'[z].start
    <3>1. history \in [excused : SUBSET Nat, early : SUBSET Nat, raced : BOOLEAN]
      BY <1>1 DEF RowsOK
    <3>2. ~history.raced /\ c.seen = Len(closings)
      BY <1>3, <2>4, <3>1
    <3>3. y \in 1..Len(closings) /\ y \in DOMAIN closings /\ closings'[y] = closings[y]
      BY <1>9, <2>1, <2>4
    <3>4. CASE z \in DOMAIN closings /\ closings'[z] = closings[z]
      BY <1>1, <2>4, <3>2, <3>3, <3>4 DEF ClosingsInv
    <3>5. CASE z = n /\ closings'[z] = row
      <4>1. Len(closings) # 0 /\ Len(closings) \in DOMAIN closings
        BY <2>1, <3>3
      <4>2. row.start = closings[Len(closings)].end
        BY <1>1, <1>5, <1>8, <3>2, <4>1, LastEndIs
      <4>3. CASE y = Len(closings)
        <5>1. closings[y].end \in Nat
          BY <1>1, <3>3, ClosingRows
        <5> QED BY <3>3, <3>5, <4>2, <4>3, <5>1
      <4>4. CASE y # Len(closings)
        <5>1. y < Len(closings)
          BY <2>1, <3>3, <4>4
        <5>2. closings[y].end <= closings[Len(closings)].start /\ closings[Len(closings)].start <= closings[Len(closings)].end
          BY <1>1, <3>2, <3>3, <4>1, <5>1 DEF ClosingsInv, Covers
        <5>3. closings[y].end \in Nat /\ closings[Len(closings)].start \in Nat /\ closings[Len(closings)].end \in Nat
          BY <1>1, <3>3, <4>1, ClosingRows
        <5>4. closings[y].end <= closings[Len(closings)].end
          BY <5>2, <5>3
        <5> QED BY <3>3, <3>5, <4>2, <5>4
      <4> QED BY <4>3, <4>4
    <3> QED BY <2>2, <2>4, <3>4, <3>5
  <2> QED BY <2>3, <2>4 DEF ClosingsInv
<1>16. RowsOK'
  <2>1. history' \in [excused : SUBSET Nat, early : SUBSET Nat, raced : BOOLEAN]
    BY <1>1, <1>3 DEF RowsOK
  <2> QED BY <1>1, <1>3, <1>9, <2>1 DEF RowsOK
<1>17. PlansOK'
  BY <1>11, PlansShift
<1> QED BY <1>12, <1>14, <1>15, <1>16, <1>17 DEF FiscalInv, TypesInv

-----------------------------------------------------------------------------
(* A step that adds a row, or writes one again.  *)
LEMMA RowsGrow ==
  ASSUME RowsOK, NEW id \in Nat, NEW row \in Rows, payments' = With(payments, id, row),
         id \in DOMAIN payments => SameRow(row, payments[id])
  PROVE  /\ DOMAIN payments' = DOMAIN payments \cup {id} /\ DOMAIN payments' \subseteq Nat
         /\ payments' \in [DOMAIN payments' -> Rows] /\ payments'[id] = row
         /\ \A p \in DOMAIN payments \ {id} : payments'[p] = payments[p]
         /\ PaymentsGrow
<1>1. DOMAIN payments \subseteq Nat /\ payments \in [DOMAIN payments -> Rows]
  BY DEF RowsOK
<1>2. payments' = [k \in DOMAIN payments \cup {id} |-> IF k = id THEN row ELSE payments[k]]
  BY DEF With
<1>3. DOMAIN payments' = DOMAIN payments \cup {id} /\ payments'[id] = row
  BY <1>2
<1>4. \A p \in DOMAIN payments \ {id} : payments'[p] = payments[p]
  BY <1>2
<1>5. payments' \in [DOMAIN payments' -> Rows]
  BY <1>1, <1>2
<1>6. PaymentsGrow
  BY <1>3, <1>4 DEF PaymentsGrow, SameRow
<1> QED BY <1>1, <1>3, <1>4, <1>5, <1>6

(* No other payment, and no signature in the making, has the transaction of a row.  *)
OwnNumber(id, row) ==
  /\ \A p \in DOMAIN payments \ {id} : payments[p].tse # row.tse
  /\ \A v \in Workers : \A g \in Signs(task'[v]) : ~HasNumber(g, row.tse)

(* Its signatures, numbers and rows go on being each other's.  *)
LEMMA RowsGoOn ==
  ASSUME RowsOK, SigningInv, Grows, NEW w, NEW old, NEW new, Shift(w, old, new), LedgerFoots',
         NEW id \in Nat, NEW row \in Rows, payments' = With(payments, id, row),
         id \in DOMAIN payments => SameRow(row, payments[id]),
         id \in DOMAIN payments \/ \A v \in Workers \ {w} : \A g \in Signs(task[v]) : g.payment # id,
         \A h \in new : SignFits(h)' /\ NobodyElse(w, h) /\ Unused(h),
         \A g \in old : g.payment = id \/ \E h \in new : h.payment = g.payment,
         PaymentFits(id, row)',
         row.tse = None => Awaited(id)',
         row.tse \in Nat => OwnNumber(id, row)
  PROVE  SigningInv'
<1>1. /\ DOMAIN payments' = DOMAIN payments \cup {id} /\ payments'[id] = row
      /\ \A p \in DOMAIN payments \ {id} : payments'[p] = payments[p]
  BY RowsGrow
<1>2. SignsInv'
  <2>1. ASSUME NEW v \in Workers \ {w}, NEW g \in Signs(task[v]), g.row.reverses # None PROVE g.payment \notin DOMAIN payments'
    <3>1. g.payment \notin DOMAIN payments
      BY <2>1 DEF SigningInv, SignsInv, SignFits
    <3>2. g.payment # id
      BY <2>1, <3>1
    <3> QED BY <1>1, <3>1, <3>2
  <2> QED BY <2>1, SignsGoOn DEF SigningInv
<1>3. SignsApart'
  BY ApartGoesOn DEF SigningInv
<1>4. NumbersFree'
  <2>1. SUFFICES ASSUME NEW v \in Workers, NEW g \in Signs(task'[v]), NEW n \in Nat, HasNumber(g, n), NEW p \in DOMAIN payments'
                 PROVE  payments'[p].tse # n
    BY DEF NumbersFree, HasNumber
  <2>2. CASE p = id
    BY <1>1, <2>1, <2>2 DEF OwnNumber
  <2>3. CASE p # id
    <3>1. p \in DOMAIN payments /\ payments'[p] = payments[p]
      BY <1>1, <2>1, <2>3
    <3>2. CASE v = w
      BY <2>1, <3>1, <3>2 DEF Shift, Unused
    <3>3. CASE v # w
      <4>1. g \in Signs(task[v])
        BY <2>1, <3>3 DEF Shift
      <4> QED BY <2>1, <3>1, <4>1 DEF SigningInv, NumbersFree
    <3> QED BY <3>2, <3>3
  <2> QED BY <2>2, <2>3
<1>5. PaymentsInv'
  <2>1. SUFFICES ASSUME NEW p \in DOMAIN payments'
                 PROVE  PaymentFits(p, payments[p])' /\ (payments[p].tse = None => Awaited(p))'
    BY DEF PaymentsInv
  <2>2. PICK x : x = payments'[p]
    OBVIOUS
  <2>3. CASE p = id
    BY <1>1, <2>2, <2>3
  <2>4. CASE p # id
    <3>1. p \in DOMAIN payments /\ x = payments[p]
      BY <1>1, <2>1, <2>2, <2>4
    <3>2. PaymentFits(p, x)'
      BY <3>1, PaymentStays DEF SigningInv, PaymentsInv
    <3>3. ASSUME x.tse = None PROVE Awaited(p)'
      <4>1. p \in history.excused \/ \E v \in Workers : \E g \in Signs(task[v]) : g.payment = p
        BY <3>1, <3>3 DEF SigningInv, PaymentsInv, Awaited
      <4>2. CASE p \in history.excused
        BY <4>2 DEF Grows, Awaited
      <4>3. CASE \E v \in Workers : \E g \in Signs(task[v]) : g.payment = p
        <5>0. PICK v \in Workers : \E g \in Signs(task[v]) : g.payment = p
          BY <4>3
        <5>1. PICK g \in Signs(task[v]) : g.payment = p
          BY <5>0
        <5>2. CASE v = w
          <6>1. g \in old /\ g.payment # id
            BY <2>4, <5>1, <5>2 DEF Shift
          <6>2. PICK h \in new : h.payment = p
            BY <5>1, <6>1
          <6>3. h \in Signs(task'[w])
            BY <5>2, <6>2 DEF Shift
          <6> QED BY <5>2, <6>2, <6>3 DEF Awaited
        <5>3. CASE v # w
          <6>1. Signs(task'[v]) = Signs(task[v])
            BY <5>3 DEF Shift
          <6> QED BY <5>1, <6>1 DEF Awaited
        <5> QED BY <5>2, <5>3
      <4> QED BY <4>1, <4>2, <4>3
    <3>4. PaymentFits(p, payments[p])' /\ (payments'[p].tse = None => Awaited(p)')
      BY <2>2, <3>2, <3>3
    <3> QED BY <3>4
  <2> QED BY <2>3, <2>4
<1>6. PaymentsApart'
  <2>1. SUFFICES ASSUME NEW p \in DOMAIN payments', NEW q \in DOMAIN payments', p # q, payments'[p].tse \in Nat,
                        payments'[q].tse = payments'[p].tse
                 PROVE  FALSE
    BY DEF PaymentsApart
  <2>2. CASE p = id
    <3>1. q \in DOMAIN payments \ {id} /\ payments'[q] = payments[q]
      BY <1>1, <2>1, <2>2
    <3> QED BY <1>1, <2>1, <2>2, <3>1 DEF OwnNumber
  <2>3. CASE q = id
    <3>1. p \in DOMAIN payments \ {id} /\ payments'[p] = payments[p]
      BY <1>1, <2>1, <2>3
    <3> QED BY <1>1, <2>1, <2>3, <3>1 DEF OwnNumber
  <2>4. CASE p # id /\ q # id
    <3>1. p \in DOMAIN payments /\ q \in DOMAIN payments /\ payments'[p] = payments[p] /\ payments'[q] = payments[q]
      BY <1>1, <2>1, <2>4
    <3> QED BY <2>1, <3>1 DEF SigningInv, PaymentsApart
  <2> QED BY <2>2, <2>3, <2>4
<1> QED BY <1>2, <1>3, <1>4, <1>5, <1>6 DEF SigningInv

(* A row that is made, and a signature that begins.  *)
LEMMA NewRow ==
  ASSUME RowsOK, NEW o \in Nat, NEW amount \in Int, NEW splits \in Splits, NEW reverses, reverses \in Nat \cup {None}
  PROVE  /\ Row(o, amount, splits, reverses) \in Rows
         /\ Row(o, amount, splits, reverses).order = o
         /\ Row(o, amount, splits, reverses).amount = amount
         /\ Row(o, amount, splits, reverses).splits = splits
         /\ Row(o, amount, splits, reverses).reverses = reverses
         /\ Row(o, amount, splits, reverses).tse = None
BY DEF Row, Rows, RowsOK

(* A signature that begins has no transaction yet.  *)
LEMMA NewSign ==
  ASSUME NEW id \in Nat, NEW row \in Rows, NEW must \in BOOLEAN
  PROVE  /\ Sign(id, row, must) \in SignItems
         /\ Sign(id, row, must).payment = id /\ Sign(id, row, must).row = row /\ Sign(id, row, must).must = must
         /\ Sign(id, row, must).stage = "client"
         /\ \A n : ~HasNumber(Sign(id, row, must), n)
BY DEF Sign, SignItems, Stages, HasNumber

(* The shares of an amount are a composition of it.  *)
LEMMA SharesAre ==
  ASSUME NEW sold \in SUBSET Rates, NEW s \in [sold -> Nat], SplitSum(s) > 0, NEW t \in Int,
         NEW a, a = AllocateToAmount(s, t)
  PROVE  a \in Splits /\ DOMAIN a # {} /\ SplitSum(a) = t
<1>1. IsFiniteSet(sold) /\ sold \subseteq Int
  BY RatesAre, FS_Subset
<1>2. DOMAIN a = {r \in sold : s[r] # 0} /\ DOMAIN a # {} /\ a \in [DOMAIN a -> Int] /\ SplitSum(a) = t
  BY <1>1, AllocateFoots
<1>3. DOMAIN a \in SUBSET Rates
  BY <1>2
<1> QED BY <1>2, <1>3 DEF Splits

(* A payment and its signature begin.  *)
LEMMA PayKeeps ==
  ASSUME FiscalInv, NEW w \in Workers, NEW o \in DOMAIN orders, NEW amount \in Int, amount >= 1,
         NEW sold \in SUBSET Rates, NEW base \in [sold -> Nat], SplitSum(base) > 0, PayOrder(w, o, amount, base)
  PROVE  FiscalInv'
<1>1. RowsOK /\ PlansOK /\ SigningInv /\ ClosesInv /\ ClosingsInv /\ TypesInv
  BY DEF FiscalInv, TypesInv
<1>2. PICK id \in Nat : id = next.payment
  BY <1>1 DEF RowsOK
<1>3. PICK splits : splits = AllocateToAmount(base, amount)
  OBVIOUS
<1>4. splits \in Splits /\ DOMAIN splits # {} /\ SplitSum(splits) = amount
  BY <1>3, SharesAre
<1>5. PICK row : row = Row(o, amount, splits, None)
  OBVIOUS
<1>6. o \in Nat
  BY <1>1, LenProperties DEF RowsOK
<1>7. /\ row \in Rows /\ row.order = o /\ row.amount = amount /\ row.splits = splits
      /\ row.reverses = None /\ row.tse = None
  BY <1>1, <1>4, <1>5, <1>6, NewRow
<1>30. PICK must \in BOOLEAN : must = FALSE
  OBVIOUS
<1>8. PICK g : g = Sign(id, row, must)
  OBVIOUS
<1>9. /\ g \in SignItems /\ g.payment = id /\ g.row = row /\ g.must = FALSE /\ g.stage = "client"
      /\ \A n : ~HasNumber(g, n)
  BY <1>2, <1>7, <1>8, <1>30, NewSign
<1>10. /\ payments' = With(payments, id, row) /\ Start(w, <<g>>) /\ next' = [next EXCEPT !.payment = @ + 1]
       /\ UNCHANGED <<tse, ledger, clock, orders, closings, history>>
  BY <1>2, <1>3, <1>5, <1>8, <1>30 DEF PayOrder
<1>11. id \notin DOMAIN payments
  <2>1. SUFFICES ASSUME id \in DOMAIN payments PROVE FALSE
    OBVIOUS
  <2>2. id \in 0..(next.payment - 1)
    BY <1>1, <2>1 DEF SigningInv, PaymentsInv, PaymentFits, Placed
  <2> QED BY <1>2, <2>2
<1>12. next' \in [payment : Nat, tss : Nat] /\ next'.payment = id + 1
  <2>1. next \in [payment : Nat, tss : Nat] /\ id + 1 \in Nat /\ next' = [next EXCEPT !.payment = id + 1]
    BY <1>1, <1>2, <1>10 DEF RowsOK
  <2> QED BY <2>1
<1>13. /\ DOMAIN payments' = DOMAIN payments \cup {id} /\ DOMAIN payments' \subseteq Nat
       /\ payments' \in [DOMAIN payments' -> Rows] /\ payments'[id] = row /\ PaymentsGrow
  BY <1>1, <1>7, <1>10, <1>11, RowsGrow
<1>14. Grows
  BY <1>1, <1>2, <1>10, <1>12, <1>13 DEF Grows, OrdersGrow, SameOrder, LedgerGrows, RowsOK
<1>15. RowsOK'
  BY <1>1, <1>10, <1>12, <1>13 DEF RowsOK
<1>16. Shift(w, {}, {g}) /\ ClosesFewer
  <2>1. IsPlan(<<g>>) /\ Signs(<<g>>) = {g} /\ Closes(<<g>>) = {}
    BY <1>9, Begins
  <2> QED BY <1>1, <1>10, <2>1, RequestBegins
<1>17. Foots(row)
  BY <1>4, <1>7 DEF Foots
<1>18. Placed(id, row)'
  <2>1. id \in 0..(next'.payment - 1)
    BY <1>12
  <2> QED BY <1>7, <1>10, <1>17, <2>1 DEF Placed
<1>19. PaymentFits(id, row)'
  <2>1. row.tse \notin Nat
    BY <1>7, MarksApart
  <2> QED BY <1>7, <1>10, <1>18, <2>1 DEF PaymentFits
<1>20. SignFits(g)'
  BY <1>7, <1>9, <1>13, <1>18 DEF SignFits, SameRow
<1>21. ASSUME NEW v \in Workers, NEW x \in Signs(task[v]) PROVE x.payment # id
  <2>1. x.payment \in 0..(next.payment - 1)
    BY <1>1, <1>21 DEF SigningInv, SignsInv, SignFits, Placed
  <2> QED BY <1>2, <2>1
<1>22. NobodyElse(w, g) /\ Unused(g)
  BY <1>9, <1>21 DEF NobodyElse, Unused
<1>23. Awaited(id)'
  <2>1. g \in Signs(task'[w])
    BY <1>16 DEF Shift
  <2> QED BY <1>9, <2>1 DEF Awaited
<1>24. LedgerFoots'
  BY <1>1, <1>10 DEF SigningInv, LedgerFoots
<1>25. SigningInv'
  <2> DEFINE old == {}
             new == {g}
  <2>1. Shift(w, old, new)
    BY <1>16
  <2>2. \A h \in new : SignFits(h)' /\ NobodyElse(w, h) /\ Unused(h)
    BY <1>20, <1>22
  <2>3. \A h \in old : h.payment = id \/ \E x \in new : x.payment = h.payment
    OBVIOUS
  <2>4. \A v \in Workers \ {w} : \A x \in Signs(task[v]) : x.payment # id
    BY <1>21
  <2>5. row.tse \notin Nat
    BY <1>7, MarksApart
  <2> HIDE DEF old, new
  <2> QED BY <1>1, <1>7, <1>10, <1>11, <1>14, <1>19, <1>23, <1>24, <2>1, <2>2, <2>3, <2>4, <2>5, RowsGoOn
<1>26. clock' \in Nat /\ clock <= clock'
  BY <1>1, <1>10 DEF RowsOK
<1>27. ClosesInv'
  BY <1>1, <1>10, <1>14, <1>16, <1>26, ClosesStay
<1>28. ClosingsInv'
  BY <1>1, <1>10, <1>14, <1>26, ClosingsStay
<1>29. PlansOK'
  BY <1>16, PlansShift
<1> QED BY <1>15, <1>25, <1>27, <1>28, <1>29 DEF FiscalInv, TypesInv

(* A basket has numbers at some rates, not all of them zero.  *)
LEMMA BasketIs ==
  ASSUME RowsOK, NEW o \in DOMAIN orders
  PROVE  SplitSum(orders[o].basket) > 0 /\ \E sold \in SUBSET Rates : orders[o].basket \in [sold -> Nat]
BY OrdersAre, FiscalAssumption

(* What is open of an order is a number.  *)
LEMMA OpenIsNumber ==
  ASSUME RowsOK, SigningInv, NEW o \in DOMAIN orders
  PROVE  Open(o) \in Int
<1>1. Kept(o) \subseteq DOMAIN payments
  BY DEF Kept
<1>2. SplitSum([p \in Kept(o) |-> payments[p].amount]) \in Int
  BY <1>1, AmountsAre
<1> QED BY <1>2, OrderIsNumbers DEF Open

(* A part of an order is paid, composed like the whole.  *)
LEMMA PayPartKeeps == ASSUME FiscalInv, NEW w \in Workers, NEW o \in DOMAIN orders, PayPart(w, o) PROVE FiscalInv'
<1>1. RowsOK /\ SigningInv
  BY DEF FiscalInv, TypesInv
<1>2. PICK amount \in 1..Open(o) : PayOrder(w, o, amount, orders[o].basket)
  BY DEF PayPart
<1>3. Open(o) \in Int
  BY <1>1, OpenIsNumber
<1>4. amount \in Int /\ amount >= 1
  BY <1>3
<1>5. PICK sold \in SUBSET Rates : orders[o].basket \in [sold -> Nat]
  BY <1>1, BasketIs
<1>6. SplitSum(orders[o].basket) > 0
  BY <1>1, BasketIs
<1> QED BY <1>2, <1>4, <1>5, <1>6, PayKeeps

(* Items of an order are paid, composed of what they are.  *)
LEMMA PayItemsKeeps == ASSUME FiscalInv, NEW w \in Workers, NEW o \in DOMAIN orders, PayItems(w, o) PROVE FiscalInv'
<1>1. RowsOK /\ SigningInv
  BY DEF FiscalInv, TypesInv
<1>2. PICK r \in DOMAIN orders[o].basket :
        LET item == [q \in {r} |-> orders[o].basket[q]]
        IN  item[r] > 0 /\ PayOrder(w, o, item[r], item)
  BY DEF PayItems
<1>3. PICK item : item = [q \in {r} |-> orders[o].basket[q]]
  OBVIOUS
<1>4. PICK amount : amount = item[r]
  OBVIOUS
<1>5. amount > 0 /\ PayOrder(w, o, amount, item)
  BY <1>2, <1>3, <1>4
<1>9. PICK sold \in SUBSET Rates : orders[o].basket \in [sold -> Nat]
  BY <1>1, BasketIs
<1>7. amount \in Int /\ amount >= 1
  <2>1. amount \in Nat
    BY <1>3, <1>4, <1>9
  <2> QED BY <1>5, <2>1
<1>10. {r} \in SUBSET Rates /\ item \in [{r} -> Nat]
  BY <1>3, <1>9
<1>11. SplitSum(item) > 0
  <2>1. IsFiniteSet({r}) /\ {r} \ {r} = {}
    BY FS_Singleton
  <2>2. \A q \in {r} : item[q] \in Int
    BY <1>10
  <2>3. SumFunctionOnSet(item, {r}) = item[r] + SumFunctionOnSet(item, {r} \ {r})
    BY <2>1, <2>2, SumOfMore
  <2>4. SumFunctionOnSet(item, {r}) = amount
    <3>1. PICK none : none = {r} \ {r}
      OBVIOUS
    <3>2. SumFunctionOnSet(item, none) = 0
      <4>1. none = {}
        BY <3>1
      <4> QED BY <4>1, SumOfNone
    <3> QED BY <1>4, <1>7, <2>3, <3>1, <3>2
  <2>5. SplitSum(item) = SumFunctionOnSet(item, {r})
    <3>1. item \in [{r} -> Int]
      BY <1>10
    <3> QED BY <2>1, <3>1, SumIsNumber
  <2> QED BY <1>7, <2>4, <2>5
<1> QED BY <1>5, <1>7, <1>10, <1>11, PayKeeps

-----------------------------------------------------------------------------
(* Refunds.  *)

(* The inverse of a composition has the inverse sum.  *)
LEMMA NegatedSum ==
  ASSUME NEW splits \in Splits
  PROVE  Negated(splits) \in Splits /\ DOMAIN Negated(splits) = DOMAIN splits /\ SplitSum(Negated(splits)) = -SplitSum(splits)
<1>1. PICK d \in SUBSET Rates : splits \in [d -> Int]
  BY DEF Splits
<1>2. IsFiniteSet(d)
  BY RatesAre, FS_Subset
<1>3. PICK n : n = Negated(splits)
  OBVIOUS
<1>4. n \in [d -> Int] /\ \A x \in d : n[x] = -splits[x]
  BY <1>1, <1>3 DEF Negated
<1>5. n \in Splits /\ DOMAIN n = DOMAIN splits
  BY <1>1, <1>4 DEF Splits
<1>6. Scaled(d, splits, n, -1)
  BY <1>1, <1>2, <1>4 DEF Scaled
<1>7. SumFunctionOnSet(n, d) = (-1) * SumFunctionOnSet(splits, d)
  BY <1>6, SumScaled
<1>8. SplitSum(n) = SumFunctionOnSet(n, d) /\ SplitSum(splits) = SumFunctionOnSet(splits, d) /\ SplitSum(splits) \in Int
  BY <1>1, <1>2, <1>4, SumIsNumber
<1>9. SplitSum(n) = -SplitSum(splits)
  BY <1>7, <1>8
<1> QED BY <1>3, <1>5, <1>9

(* The taxes of a reversal are its amount, and those of its sale where it was signed.  *)
LEMMA ReversalFoots ==
  ASSUME RowsOK, SigningInv, NEW p \in DOMAIN payments, payments[p].reverses = None,
         NEW sale, sale = payments[p], NEW splits, splits = ReversalSplits(sale)
  PROVE  /\ splits \in Splits /\ DOMAIN splits # {} /\ SplitSum(splits) = -sale.amount
         /\ sale.tse # None => splits = Negated(sale.splits)
<1>1. sale \in Rows /\ sale.order \in DOMAIN orders /\ sale.amount \in Int
  BY PaymentsAre
<1>2. Foots(sale)
  BY DEF SigningInv, PaymentsInv, PaymentFits, Placed
<1>3. sale.splits \in Splits
  BY <1>1 DEF Rows
<1>4. CASE sale.tse # None
  <2>1. splits = Negated(sale.splits)
    BY <1>2, <1>4 DEF ReversalSplits, Foots
  <2>2. splits \in Splits /\ DOMAIN splits = DOMAIN sale.splits /\ SplitSum(splits) = -SplitSum(sale.splits)
    BY <1>3, <2>1, NegatedSum
  <2> QED BY <1>2, <2>1, <2>2 DEF Foots
<1>5. CASE sale.tse = None
  <2>1. PICK t \in Int : t = -sale.amount
    BY <1>1
  <2>2. PICK s : s = orders[sale.order].basket
    OBVIOUS
  <2>3. splits = AllocateToAmount(s, t)
    BY <1>5, <2>1, <2>2 DEF ReversalSplits
  <2>4. PICK sold \in SUBSET Rates : s \in [sold -> Nat]
    BY <1>1, <2>2, BasketIs
  <2>5. SplitSum(s) > 0
    BY <1>1, <2>2, BasketIs
  <2>6. splits \in Splits /\ DOMAIN splits # {} /\ SplitSum(splits) = t
    BY <2>3, <2>4, <2>5, SharesAre
  <2> QED BY <1>5, <2>1, <2>6
<1> QED BY <1>4, <1>5

(* A refund begins: its reversal foots, and mirrors the sale unless that was not
   signed yet.  *)
LEMMA RefundKeeps ==
  ASSUME FiscalInv, NEW w \in Workers, NEW p \in DOMAIN payments, NEW forced \in BOOLEAN, Refund(w, p, forced)
  PROVE  FiscalInv'
<1>1. RowsOK /\ PlansOK /\ SigningInv /\ ClosesInv /\ ClosingsInv /\ TypesInv
  BY DEF FiscalInv, TypesInv
<1>2. PICK id \in Nat : id = next.payment
  BY <1>1 DEF RowsOK
<1>3. PICK sale : sale = payments[p]
  OBVIOUS
<1>4. PICK splits : splits = ReversalSplits(sale)
  OBVIOUS
<1>5. PICK amount : amount = -sale.amount
  OBVIOUS
<1>6. PICK row : row = Row(sale.order, amount, splits, p)
  OBVIOUS
<1>7. PICK g : g = Sign(id, row, forced)
  OBVIOUS
<1>8. PICK m : m = [do |-> "refund", payment |-> p]
  OBVIOUS
<1>9. /\ sale.reverses = None
      /\ Start(w, <<g, m>>) \/ Start(w, <<m, g>>)
      /\ next' = [next EXCEPT !.payment = @ + 1]
      /\ history' = [history EXCEPT !.early = IF sale.tse = None THEN @ \cup {id} ELSE @]
      /\ UNCHANGED <<tse, ledger, clock, orders, payments, closings>>
  BY <1>2, <1>3, <1>4, <1>5, <1>6, <1>7, <1>8 DEF Refund
<1>10. sale \in Rows /\ sale.order \in DOMAIN orders /\ sale.amount \in Int /\ amount \in Int /\ p \in Nat
  BY <1>1, <1>3, <1>5, PaymentsAre DEF RowsOK
<1>11. /\ splits \in Splits /\ DOMAIN splits # {} /\ SplitSum(splits) = amount
       /\ sale.tse # None => splits = Negated(sale.splits)
  BY <1>1, <1>3, <1>4, <1>5, <1>9, ReversalFoots
<1>12. sale.order \in Nat
  BY <1>10 DEF Rows
<1>13. /\ row \in Rows /\ row.order = sale.order /\ row.amount = amount /\ row.splits = splits
       /\ row.reverses = p /\ row.tse = None
  <2>1. p \in Nat \cup {None}
    BY <1>10
  <2> QED BY <1>1, <1>6, <1>10, <1>11, <1>12, <2>1, NewRow
<1>14. /\ g \in SignItems /\ g.payment = id /\ g.row = row /\ g.must = forced /\ g.stage = "client"
       /\ \A n : ~HasNumber(g, n)
  BY <1>2, <1>7, <1>13, NewSign
<1>15. m \in MarkItems
  BY <1>8, <1>10, ItemKinds
<1>16. Shift(w, {}, {g}) /\ ClosesFewer
  <2>1. PICK t : Start(w, t) /\ t \in {<<g, m>>, <<m, g>>}
    BY <1>9
  <2>2. IsPlan(t) /\ Signs(t) = {g} /\ Closes(t) = {}
    BY <1>14, <1>15, <2>1, Begins
  <2> QED BY <1>1, <2>1, <2>2, RequestBegins
<1>17. next' \in [payment : Nat, tss : Nat] /\ next'.payment = id + 1
  <2>1. next \in [payment : Nat, tss : Nat] /\ id + 1 \in Nat /\ next' = [next EXCEPT !.payment = id + 1]
    BY <1>1, <1>2, <1>9 DEF RowsOK
  <2> QED BY <2>1
<1>18. /\ history' \in [excused : SUBSET Nat, early : SUBSET Nat, raced : BOOLEAN]
       /\ history'.excused = history.excused /\ history'.raced = history.raced
       /\ \A i \in Nat : i # id => (i \in history'.early <=> i \in history.early)
       /\ id \notin history'.early => sale.tse # None
  <2>1. history \in [excused : SUBSET Nat, early : SUBSET Nat, raced : BOOLEAN]
    BY <1>1 DEF RowsOK
  <2>2. PICK early \in SUBSET Nat : early = IF sale.tse = None THEN history.early \cup {id} ELSE history.early
    BY <2>1
  <2>3. history' = [history EXCEPT !.early = early]
    BY <1>9, <2>2
  <2>4. history' \in [excused : SUBSET Nat, early : SUBSET Nat, raced : BOOLEAN] /\ history'.early = early
        /\ history'.excused = history.excused /\ history'.raced = history.raced
    BY <2>1, <2>3
  <2> QED BY <2>2, <2>4
<1>19. Grows
  BY <1>1, <1>2, <1>9, <1>17, <1>18 DEF Grows, OrdersGrow, SameOrder, PaymentsGrow, LedgerGrows, SameRow, RowsOK
<1>20. RowsOK'
  BY <1>1, <1>9, <1>17, <1>18 DEF RowsOK
<1>21. id \notin DOMAIN payments
  <2>1. SUFFICES ASSUME id \in DOMAIN payments PROVE FALSE
    OBVIOUS
  <2>2. id \in 0..(next.payment - 1)
    BY <1>1, <2>1 DEF SigningInv, PaymentsInv, PaymentFits, Placed
  <2> QED BY <1>2, <2>2
<1>22. SignFits(g)'
  <2>1. Placed(id, row)'
    <3>1. id \in 0..(next'.payment - 1)
      BY <1>17
    <3>2. Foots(row)
      BY <1>11, <1>13 DEF Foots
    <3> QED BY <1>9, <1>10, <1>13, <3>1, <3>2 DEF Placed
  <2>2. Mirrors(id, row)'
    BY <1>3, <1>9, <1>11, <1>13, <1>18 DEF Mirrors
  <2>3. row.reverses # None
    BY <1>10, <1>13, MarksApart
  <2> QED BY <1>9, <1>13, <1>14, <1>21, <2>1, <2>2, <2>3 DEF SignFits
<1>23. ASSUME NEW v \in Workers, NEW x \in Signs(task[v]) PROVE x.payment # id
  <2>1. x.payment \in 0..(next.payment - 1)
    BY <1>1, <1>23 DEF SigningInv, SignsInv, SignFits, Placed
  <2> QED BY <1>2, <2>1
<1>24. NobodyElse(w, g) /\ Unused(g)
  BY <1>14, <1>23 DEF NobodyElse, Unused
<1>25. LedgerFoots'
  BY <1>1, <1>9 DEF SigningInv, LedgerFoots
<1>26. SigningInv'
  <2> DEFINE old == {}
             new == {g}
  <2>1. Shift(w, old, new)
    BY <1>16
  <2>2. \A h \in new : SignFits(h)' /\ NobodyElse(w, h) /\ Unused(h)
    BY <1>22, <1>24
  <2>3. \A h \in old : h.payment \in history'.excused \/ h.payment \notin DOMAIN payments \/ \E x \in new : x.payment = h.payment
    OBVIOUS
  <2> HIDE DEF old, new
  <2> QED BY <1>1, <1>9, <1>19, <1>25, <2>1, <2>2, <2>3, SigningGoesOn
<1> QED BY <1>9, <1>16, <1>18, <1>19, <1>20, <1>26, ClosesNothing

(* The original is marked, whatever became of it meanwhile.  *)
LEMMA StoreRefundKeeps == ASSUME FiscalInv, NEW w \in Workers, StoreRefund(w) PROVE FiscalInv'
<1>1. RowsOK /\ PlansOK /\ SigningInv
  BY DEF FiscalInv, TypesInv
<1>2. PICK p : p = Now(w).payment
  OBVIOUS
<1>3. /\ task[w] # Idle /\ Now(w).do = "refund" /\ Done(w)
      /\ payments' = [payments EXCEPT ![p].status = "refunded"]
      /\ UNCHANGED <<tse, ledger, clock, orders, closings, next, history>>
  BY <1>2 DEF StoreRefund, At
<1>4. PICK old : old = Signs(task[w])
  OBVIOUS
<1>5. Shift(w, old, old) /\ ClosesFewer
  BY <1>1, <1>3, <1>4, OtherEnds
<1>6. LedgerFoots'
  BY <1>1, <1>3 DEF SigningInv, LedgerFoots
<1>7. CASE p \notin DOMAIN payments
  <2>1. payments' = payments
    BY <1>1, <1>3, <1>7 DEF RowsOK
  <2>4. Grows
    BY <1>1, <1>3, <2>1 DEF Grows, OrdersGrow, SameOrder, PaymentsGrow, LedgerGrows, SameRow, RowsOK
  <2>5. RowsOK'
    BY <1>1, <1>3, <2>1 DEF RowsOK
  <2>2. Grows /\ RowsOK'
    BY <2>4, <2>5
  <2>3. SigningInv'
    BY <1>1, <1>3, <1>4, <1>5, <2>1, <2>2, NothingSigned
  <2> QED BY <1>3, <1>5, <2>2, <2>3, ClosesNothing
<1>8. CASE p \in DOMAIN payments
  <2>1. PICK was : was = payments[p]
    OBVIOUS
  <2>2. PICK row : row = [was EXCEPT !.status = "refunded"]
    OBVIOUS
  <2>3. was \in Rows /\ p \in Nat /\ PaymentFits(p, was) /\ (was.tse = None => Awaited(p))
    BY <1>1, <1>8, <2>1 DEF RowsOK, SigningInv, PaymentsInv
  <2>4. row \in Rows /\ SameRow(row, was) /\ row.tse = was.tse
    BY <2>2, <2>3 DEF Rows, SameRow
  <2>5. payments' = With(payments, p, row)
    BY <1>1, <1>3, <1>8, <2>1, <2>2 DEF With, RowsOK
  <2>6. /\ DOMAIN payments' = DOMAIN payments \cup {p} /\ DOMAIN payments' \subseteq Nat
        /\ payments' \in [DOMAIN payments' -> Rows] /\ PaymentsGrow
    BY <1>1, <2>1, <2>3, <2>4, <2>5, RowsGrow
  <2>7. Grows
    BY <1>1, <1>3, <2>6 DEF Grows, OrdersGrow, SameOrder, LedgerGrows, RowsOK
  <2>8. RowsOK'
    BY <1>1, <1>3, <2>6 DEF RowsOK
  <2>9. ASSUME NEW h \in old PROVE SignFits(h)' /\ NobodyElse(w, h) /\ Unused(h)
    <3>1. SignFits(h) /\ (h.row.reverses # None => h.payment \notin DOMAIN payments')
      BY <1>1, <1>4, <1>8, <2>6, <2>9 DEF SigningInv, SignsInv, SignFits
    <3>2. SignFits(h)'
      BY <1>1, <2>7, <3>1, FitStays
    <3>3. NobodyElse(w, h) /\ Unused(h)
      BY <1>1, <1>4, <2>9 DEF SigningInv, SignsApart, NobodyElse, NumbersFree, Unused
    <3> QED BY <3>2, <3>3
  <2>10. SignedFor(row.tse, row) \/ row.tse \notin Nat
    BY <2>3, <2>4 DEF PaymentFits, SignedFor, Entry, SameRow
  <2>11. PaymentFits(p, row)
    BY <2>3, <2>4, <2>10, SameRowFits
  <2>12. PaymentFits(p, row)'
    BY <1>1, <2>7, <2>11, PaymentStays
  <2>13. row.tse = None => Awaited(p)'
    <3>1. SUFFICES ASSUME row.tse = None PROVE Awaited(p)'
      OBVIOUS
    <3>2. p \in history.excused \/ \E v \in Workers : \E g \in Signs(task[v]) : g.payment = p
      BY <2>3, <2>4, <3>1 DEF Awaited
    <3>3. \A v \in Workers : Signs(task'[v]) = Signs(task[v])
      BY <1>4, <1>5 DEF Shift
    <3> QED BY <1>3, <3>2, <3>3 DEF Awaited
  <2>14. row.tse \in Nat => OwnNumber(p, row)
    <3>1. SUFFICES ASSUME row.tse \in Nat PROVE OwnNumber(p, row)
      OBVIOUS
    <3>2. \A v \in Workers : Signs(task'[v]) = Signs(task[v])
      BY <1>4, <1>5 DEF Shift
    <3>3. \A q \in DOMAIN payments \ {p} : payments[q].tse # row.tse
      BY <1>1, <1>8, <2>1, <2>4, <3>1 DEF SigningInv, PaymentsApart
    <3>4. \A v \in Workers : \A g \in Signs(task[v]) : ~HasNumber(g, row.tse)
      BY <1>1, <1>8, <2>1, <2>4, <3>1 DEF SigningInv, NumbersFree
    <3> QED BY <3>2, <3>3, <3>4 DEF OwnNumber
  <2>15. \A g \in old : \E h \in old : h.payment = g.payment
    OBVIOUS
  <2>16. SigningInv'
    BY <1>1, <1>5, <1>6, <1>8, <2>1, <2>3, <2>4, <2>5, <2>7, <2>9, <2>12, <2>13, <2>14, <2>15, RowsGoOn
  <2> QED BY <1>3, <1>5, <2>7, <2>8, <2>16, ClosesNothing
<1> QED BY <1>7, <1>8

-----------------------------------------------------------------------------
(* What was signed is kept.  *)
LEMMA KeepKeeps == ASSUME FiscalInv, NEW w \in Workers, Keep(w) PROVE FiscalInv'
<1>1. RowsOK /\ PlansOK /\ SigningInv
  BY DEF FiscalInv, TypesInv
<1>2. PICK g : g = Now(w)
  OBVIOUS
<1>3. PICK id, row : id = g.payment /\ row = g.row
  OBVIOUS
<1>4. PICK new : new = IF row.reverses = None THEN row ELSE [row EXCEPT !.created = clock]
  OBVIOUS
<1>5. /\ At(w, "sign") /\ g.stage = "keep" /\ (Done(w) \/ Fail(w))
      /\ UNCHANGED <<tse, ledger, clock, orders, closings, next, history>>
      /\ \/ g.must /\ row.tse = Failed /\ payments' = payments
         \/ row.tse = None /\ row.reverses = None /\ payments' = payments
         \/ ~(row.tse = None /\ row.reverses = None) /\ payments' = With(payments, id, new)
  BY <1>2, <1>3, <1>4 DEF Keep, Signing
<1>6. g \in SignItems /\ Shift(w, {g}, {}) /\ ClosesFewer
  BY <1>1, <1>2, <1>5, SignEnds
<1>7. g \in Signs(task[w]) /\ SignFits(g)
  BY <1>1, <1>6 DEF Shift, SigningInv, SignsInv
<1>8. LedgerFoots'
  BY <1>1, <1>5 DEF SigningInv, LedgerFoots
<1> DEFINE old == {g}
           none == {}
<1>9. Shift(w, old, none) /\ (\A h \in none : SignFits(h)' /\ NobodyElse(w, h) /\ Unused(h)) /\ \A h \in old : h = g
  BY <1>6
<1> HIDE DEF old, none
<1>10. CASE payments' = payments /\ (g.payment \in history.excused \/ g.payment \notin DOMAIN payments)
  <2>1. Grows
    BY <1>1, <1>5, <1>10 DEF Grows, OrdersGrow, SameOrder, PaymentsGrow, LedgerGrows, SameRow, RowsOK
  <2>2. RowsOK'
    BY <1>1, <1>5, <1>10 DEF RowsOK
  <2>3. \A h \in old : h.payment \in history'.excused \/ h.payment \notin DOMAIN payments \/ \E x \in none : x.payment = h.payment
    BY <1>5, <1>9, <1>10
  <2>4. SigningInv'
    BY <1>1, <1>8, <1>9, <1>10, <2>1, <2>3, SigningGoesOn
  <2> QED BY <1>5, <1>6, <2>1, <2>2, <2>4, ClosesNothing
<1>11. CASE g.must /\ row.tse = Failed /\ payments' = payments
  <2>1. g.payment \notin DOMAIN payments
    BY <1>3, <1>7, <1>11 DEF SignFits
  <2> QED BY <1>10, <1>11, <2>1
<1>12. CASE row.tse = None /\ row.reverses = None /\ payments' = payments
  <2>1. g.payment \in history.excused
    BY <1>3, <1>5, <1>7, <1>12 DEF SignFits
  <2> QED BY <1>10, <1>12, <2>1
<1>13. CASE ~(row.tse = None /\ row.reverses = None) /\ payments' = With(payments, id, new)
  <2>1. id \in Nat /\ row \in Rows /\ clock \in Nat
    BY <1>1, <1>3, <1>6 DEF SignItems, RowsOK
  <2>2. /\ new \in Rows /\ new.order = row.order /\ new.amount = row.amount /\ new.splits = row.splits
        /\ new.reverses = row.reverses /\ new.tse = row.tse
        /\ row.reverses = None => new = row
    BY <1>4, <2>1 DEF Rows
  <2>3. Placed(id, new)
    BY <1>3, <1>7, <2>2 DEF SignFits, Placed, Foots
  <2>4. new.tse \in Nat => SignedFor(new.tse, new)
    BY <1>3, <1>5, <1>7, <2>2 DEF SignFits, SignedFor, Entry
  <2>5. id \in DOMAIN payments => SameRow(new, payments[id])
    BY <1>3, <1>7, <2>2 DEF SignFits
  <2>6. PaymentFits(id, new)
    <3>1. CASE row.reverses = None
      <4>1. id \in DOMAIN payments /\ SameRow(new, payments[id])
        BY <1>3, <1>7, <2>5, <3>1 DEF SignFits
      <4>2. PICK was : was = payments[id]
        OBVIOUS
      <4>3. PaymentFits(id, was) /\ SameRow(new, was)
        BY <1>1, <4>1, <4>2 DEF SigningInv, PaymentsInv
      <4> QED BY <2>4, <4>3, SameRowFits
    <3>2. CASE row.reverses # None
      <4>1. Mirrors(id, new)
        BY <1>3, <1>7, <2>2, <3>2 DEF SignFits, Mirrors
      <4> QED BY <2>2, <2>3, <2>4, <3>2, <4>1 DEF PaymentFits
    <3> QED BY <3>1, <3>2
  <2>7. /\ DOMAIN payments' = DOMAIN payments \cup {id} /\ DOMAIN payments' \subseteq Nat
        /\ payments' \in [DOMAIN payments' -> Rows] /\ PaymentsGrow
    BY <1>1, <1>13, <2>1, <2>2, <2>5, RowsGrow
  <2>8. Grows
    BY <1>1, <1>5, <2>7 DEF Grows, OrdersGrow, SameOrder, LedgerGrows, RowsOK
  <2>9. RowsOK'
    BY <1>1, <1>5, <2>7 DEF RowsOK
  <2>10. PaymentFits(id, new)'
    BY <1>1, <2>6, <2>8, PaymentStays
  <2>11. new.tse = None => Awaited(id)'
    BY <1>3, <1>5, <1>7, <2>2 DEF SignFits, Awaited
  <2>12. ASSUME NEW v \in Workers \ {w}, NEW x \in Signs(task[v])
         PROVE  x.payment # id /\ \A n \in Nat : ~(HasNumber(x, n) /\ HasNumber(g, n))
    BY <1>1, <1>3, <1>7, <2>12 DEF SigningInv, SignsApart
  <2>13. new.tse \in Nat => OwnNumber(id, new)
    <3>1. SUFFICES ASSUME new.tse \in Nat PROVE OwnNumber(id, new)
      OBVIOUS
    <3>2. HasNumber(g, new.tse)
      BY <1>3, <1>5, <2>2 DEF HasNumber
    <3>3. \A p \in DOMAIN payments : payments[p].tse # new.tse
      BY <1>1, <1>7, <3>1, <3>2 DEF SigningInv, NumbersFree
    <3>4. ASSUME NEW v \in Workers, NEW x \in Signs(task'[v]) PROVE ~HasNumber(x, new.tse)
      <4>1. v # w
        BY <1>6, <3>4 DEF Shift
      <4>2. x \in Signs(task[v])
        BY <1>6, <3>4, <4>1 DEF Shift
      <4> QED BY <2>12, <3>1, <3>2, <4>1, <4>2
    <3> QED BY <3>3, <3>4 DEF OwnNumber
  <2>14. \A h \in old : h.payment = id \/ \E x \in none : x.payment = h.payment
    BY <1>3, <1>9
  <2>15. \A v \in Workers \ {w} : \A x \in Signs(task[v]) : x.payment # id
    BY <2>12
  <2>16. SigningInv'
    BY <1>1, <1>8, <1>9, <1>13, <2>1, <2>2, <2>5, <2>8, <2>10, <2>11, <2>13, <2>14, <2>15, RowsGoOn
  <2> QED BY <1>5, <1>6, <2>8, <2>9, <2>16, ClosesNothing
<1> QED BY <1>5, <1>11, <1>12, <1>13

-----------------------------------------------------------------------------
(* A restart.  *)

(* A signature is the first statement of its request or the last one.  *)
LEMMA SignAtAnEnd ==
  ASSUME NEW t, IsPlan(t), NEW g \in Signs(t)
  PROVE  /\ g \in SignItems /\ t # <<>>
         /\ (g = Head(t) /\ Head(t).do = "sign") \/ (g = Last(t) /\ Last(t).do = "sign")
<1>1. t \in Seq(Items)
  BY DEF IsPlan
<1>2. PICK i \in DOMAIN t : g = t[i] /\ g.do = "sign"
  BY DEF Signs
<1>3. DOMAIN t = 1..Len(t) /\ Len(t) \in Nat
  BY <1>1, LenProperties
<1>4. t # <<>>
  BY <1>1, <1>2, <1>3, EmptySeq
<1>5. Head(t) = t[1] /\ Last(t) = t[Len(t)]
  BY <1>1, <1>4, NextFirst DEF Last
<1>6. g \in SignItems
  BY <1>1, <1>2, <1>3, ElementOfSeq, Kinds
<1>7. Len(t) \in {1, 2}
  BY <1>2 DEF IsPlan
<1>8. i = 1 \/ i = Len(t)
  <2>1. PICK n \in Nat : n = Len(t) /\ DOMAIN t = 1..n
    BY <1>3
  <2>2. n = 1 \/ n = 2
    BY <1>7, <2>1
  <2>3. i \in 1..n
    BY <2>1
  <2>4. i = 1 \/ i = n
    BY <2>2, <2>3
  <2> QED BY <2>1, <2>4
<1> QED BY <1>2, <1>4, <1>5, <1>6, <1>8

(* What was being signed is lost: its payments are excused.  *)
LEMMA RestartKeeps == ASSUME FiscalInv, Restart PROVE FiscalInv'
<1>1. RowsOK /\ PlansOK /\ SigningInv /\ ClosesInv /\ ClosingsInv /\ TypesInv
  BY DEF FiscalInv, TypesInv
<1>2. PICK lost : lost = {Last(task[w]).payment : w \in {v \in Busy : Last(task[v]).do = "sign"}}
  OBVIOUS
<1>3. PICK stopped : stopped = {Now(w).payment : w \in {v \in Busy : Now(v).do = "sign"}}
  OBVIOUS
<1>4. PICK excused : excused = history.excused \cup lost \cup stopped
  OBVIOUS
<1>5. /\ task' = [w \in Workers |-> <<>>] /\ history' = [history EXCEPT !.excused = excused]
      /\ UNCHANGED <<tse, ledger, clock, orders, payments, closings, next>>
  BY <1>2, <1>3, <1>4 DEF Restart, Crash, Idle, rows
<1>6. \A w \in Workers : IsPlan(task'[w]) /\ Signs(task'[w]) = {} /\ Closes(task'[w]) = {}
  BY <1>5, Begins
<1>7. ASSUME NEW w \in Workers, NEW g \in Signs(task[w]) PROVE g.payment \in excused
  <2>1. /\ task[w] # <<>>
        /\ (g = Head(task[w]) /\ Head(task[w]).do = "sign") \/ (g = Last(task[w]) /\ Last(task[w]).do = "sign")
    BY <1>1, <1>7, SignAtAnEnd DEF PlansOK
  <2>2. w \in Busy
    BY <2>1 DEF Busy, Idle
  <2>3. g.payment \in stopped \/ g.payment \in lost
    BY <1>2, <1>3, <2>1, <2>2 DEF Now
  <2> QED BY <1>4, <2>3
<1>8. lost \subseteq Nat /\ stopped \subseteq Nat
  <2>1. ASSUME NEW w \in Busy PROVE /\ w \in Workers /\ task[w] \in Seq(Items) /\ task[w] # <<>>
                                    /\ Head(task[w]) \in Items /\ Last(task[w]) \in Items
    <3>1. w \in Workers /\ task[w] \in Seq(Items) /\ task[w] # <<>>
      BY <1>1, <2>1 DEF Busy, Idle, PlansOK, IsPlan
    <3>2. /\ Len(task[w]) \in Nat /\ Len(task[w]) >= 1 /\ DOMAIN task[w] = 1..Len(task[w])
          /\ Head(task[w]) = task[w][1]
      BY <3>1, NextFirst
    <3>3. 1 \in 1..Len(task[w]) /\ Len(task[w]) \in 1..Len(task[w])
      BY <3>2
    <3>4. task[w][1] \in Items /\ task[w][Len(task[w])] \in Items
      BY <3>1, <3>3, ElementOfSeq
    <3> QED BY <3>1, <3>2, <3>4 DEF Last
  <2>2. \A w \in Busy : Last(task[w]).do = "sign" => Last(task[w]).payment \in Nat
    BY <2>1, Kinds DEF SignItems
  <2>3. \A w \in Busy : Head(task[w]).do = "sign" => Head(task[w]).payment \in Nat
    BY <2>1, Kinds DEF SignItems
  <2> QED BY <1>2, <1>3, <2>2, <2>3 DEF Now
<1>9. /\ history' \in [excused : SUBSET Nat, early : SUBSET Nat, raced : BOOLEAN]
      /\ history'.excused = excused /\ history'.early = history.early /\ history'.raced = history.raced
  <2>1. history \in [excused : SUBSET Nat, early : SUBSET Nat, raced : BOOLEAN]
    BY <1>1 DEF RowsOK
  <2>2. excused \in SUBSET Nat
    BY <1>4, <1>8, <2>1
  <2> QED BY <1>5, <2>1, <2>2
<1>10. RowsOK'
  BY <1>1, <1>5, <1>9 DEF RowsOK
<1>11. Grows
  BY <1>1, <1>4, <1>5, <1>9 DEF Grows, OrdersGrow, SameOrder, PaymentsGrow, LedgerGrows, SameRow, RowsOK
<1>12. PlansOK'
  BY <1>5, <1>6 DEF PlansOK
<1>13. SigningInv'
  <2>1. SignsInv' /\ SignsApart' /\ NumbersFree'
    BY <1>6 DEF SignsInv, SignsApart, NumbersFree
  <2>2. PaymentsApart' /\ LedgerFoots'
    BY <1>1, <1>5 DEF SigningInv, PaymentsApart, LedgerFoots
  <2>3. PaymentsInv'
    <3>1. SUFFICES ASSUME NEW p \in DOMAIN payments
                   PROVE  PaymentFits(p, payments[p])' /\ (payments[p].tse = None => Awaited(p)')
      BY <1>5 DEF PaymentsInv
    <3>2. PICK row : row = payments[p]
      OBVIOUS
    <3>3. PaymentFits(p, row)'
      BY <1>1, <1>11, <3>1, <3>2, PaymentStays DEF SigningInv, PaymentsInv
    <3>4. PaymentFits(p, payments[p])'
      BY <1>5, <3>2, <3>3
    <3>5. ASSUME payments[p].tse = None PROVE Awaited(p)'
      <4>1. p \in history.excused \/ \E v \in Workers : \E g \in Signs(task[v]) : g.payment = p
        BY <1>1, <3>1, <3>5 DEF SigningInv, PaymentsInv, Awaited
      <4>2. p \in excused
        BY <1>4, <1>7, <4>1
      <4> QED BY <1>9, <4>2 DEF Awaited
    <3> QED BY <3>4, <3>5
  <2> QED BY <2>1, <2>2, <2>3 DEF SigningInv
<1>14. ClosesFewer
  BY <1>6 DEF ClosesFewer
<1>15. clock' \in Nat /\ clock <= clock' /\ closings' = closings
  BY <1>1, <1>5 DEF RowsOK
<1>16. ClosesInv' /\ ClosingsInv'
  BY <1>1, <1>9, <1>11, <1>14, <1>15, ClosesStay, ClosingsStay
<1> QED BY <1>10, <1>12, <1>13, <1>16 DEF FiscalInv, TypesInv

-----------------------------------------------------------------------------
(* The invariant.  *)
LEMMA FiscalStarts == Init => FiscalInv
<1> SUFFICES ASSUME Init PROVE FiscalInv
  OBVIOUS
<1>1. /\ task = [w \in Workers |-> <<>>] /\ tse \in {None, Local, 1} /\ clock = 0
      /\ ledger = <<>> /\ orders = <<>> /\ closings = <<>> /\ payments = Empty
      /\ next = [payment |-> 1, tss |-> Cardinality(DOMAIN tss) + 1]
      /\ history = [excused |-> {}, early |-> {}, raced |-> FALSE]
  BY DEF Init, RequestsInit, Idle
<1>2. \A w \in Workers : IsPlan(task[w]) /\ Signs(task[w]) = {} /\ Closes(task[w]) = {}
  BY <1>1, Begins
<1>3. DOMAIN payments = {} /\ DOMAIN ledger = {} /\ DOMAIN closings = {}
  BY <1>1 DEF Empty
<1>4. Cardinality(DOMAIN tss) \in Nat
  <2>1. PICK d : d = DOMAIN tss
    OBVIOUS
  <2>2. d = {1} \/ d = {}
    BY <2>1 DEF Init, Empty
  <2>3. Cardinality(d) \in Nat
    <3>1. CASE d = {1}
      <4>1. PICK one : one = 1
        OBVIOUS
      <4>2. Cardinality({one}) = 1
        BY FS_Singleton
      <4> QED BY <3>1, <4>1, <4>2
    <3>2. CASE d = {}
      BY <3>2, FS_EmptySet
    <3> QED BY <2>2, <3>1, <3>2
  <2> QED BY <2>1, <2>3
<1>5. RowsOK
  <2>1. <<>> \in Seq(Entries) /\ <<>> \in Seq(Orders) /\ <<>> \in Seq(Closings)
    BY EmptySeq
  <2>2. payments \in [DOMAIN payments -> Rows]
    BY <1>1, <1>3 DEF Empty
  <2>3. next \in [payment : Nat, tss : Nat]
    BY <1>1, <1>4
  <2>4. tse \in Nat \cup {None, Local} /\ clock \in Nat
    BY <1>1
  <2>5. history \in [excused : SUBSET Nat, early : SUBSET Nat, raced : BOOLEAN]
    BY <1>1
  <2> QED BY <1>1, <1>3, <2>1, <2>2, <2>3, <2>4, <2>5 DEF RowsOK
<1>6. PlansOK
  BY <1>1, <1>2 DEF PlansOK
<1>7. SigningInv
  BY <1>2, <1>3 DEF SigningInv, SignsInv, SignsApart, NumbersFree, PaymentsInv, PaymentsApart, LedgerFoots
<1>8. ClosesInv /\ ClosingsInv
  BY <1>2, <1>3 DEF ClosesInv, ClosingsInv
<1> QED BY <1>5, <1>6, <1>7, <1>8 DEF FiscalInv, TypesInv

(* and every step keeps it.  *)
LEMMA FiscalGoesOn == FiscalInv /\ [Next]_vars => FiscalInv'
<1> SUFFICES ASSUME FiscalInv, [Next]_vars PROVE FiscalInv'
  OBVIOUS
<1>1. CASE UNCHANGED vars
  BY <1>1, StutterKeeps
<1>2. ASSUME NEW w \in Workers, ProvisionTss(w) \/ SetUpTss(w) \/ SaveSettings(w) PROVE FiscalInv'
  BY <1>2, ProvisionKeeps, SetUpKeeps, SaveSettingsKeeps
<1>3. ASSUME NEW w \in Workers, NEW o \in DOMAIN orders, PayPart(w, o) \/ PayItems(w, o) \/ EditOrder(w, o)
      PROVE  FiscalInv'
  BY <1>3, PayPartKeeps, PayItemsKeeps, EditOrderKeeps
<1>4. ASSUME NEW w \in Workers, NEW p \in DOMAIN payments, NEW forced \in BOOLEAN, Refund(w, p, forced) PROVE FiscalInv'
  BY <1>4, RefundKeeps
<1>5. ASSUME NEW w \in Workers, StoreRefund(w) \/ NothingToSign(w) \/ LookupFails(w) \/ EnsureClient(w)
      PROVE  FiscalInv'
  BY <1>5, StoreRefundKeeps, NothingToSignKeeps, LookupFailsKeeps, EnsureClientKeeps
<1>6. ASSUME NEW w \in Workers, StartTransaction(w) \/ FinishTransaction(w) \/ SignLocally(w) \/ Keep(w) PROVE FiscalInv'
  BY <1>6, StartTransactionKeeps, FinishTransactionKeeps, SignLocallyKeeps, KeepKeeps
<1>7. ASSUME NEW w \in Workers, NEW e \in Events, GenerateExport(w, e) PROVE FiscalInv'
  BY <1>7, GenerateKeeps
<1>8. ASSUME NEW w \in Workers, HandleArchival(w) \/ ReadPeriod(w) \/ AllocateClosing(w) \/ PersistArchive(w)
      PROVE  FiscalInv'
  BY <1>8, ArchivalKeeps, ReadPeriodKeeps, AllocateKeeps, PersistKeeps
<1>9. ASSUME NEW e \in Events, NEW basket \in Baskets, NEW deposit \in Deposits, NEW extra \in Extras,
             PlaceOrder(e, basket, deposit, extra)
      PROVE  FiscalInv'
  BY <1>9, PlaceOrderKeeps
<1>10. CASE Tick \/ Restart
  BY <1>10, TickKeeps, RestartKeeps
<1>11. CASE Next
  BY <1>2, <1>3, <1>4, <1>5, <1>6, <1>7, <1>8, <1>9, <1>10, <1>11 DEF Next
<1> QED BY <1>1, <1>11

(* FiscalInv holds in every state: rows and requests have their types; what is being
   signed fits the row it is signed for and has its transaction for itself; a closing
   covers the rows of its period and has their tables.                            *)
THEOREM FiscalInOrder == Spec => []FiscalInv
<1> QED BY FiscalStarts, FiscalGoesOn, PTL DEF Spec

(* A payment of a till with a TSE is signed or says that it could not be, except for
   what nothing had to sign, what was being signed when the process stopped, and
   where the database failed before the client was known; and the transaction it carries is finished, its own, and nobody else's.            *)
THEOREM EveryPaymentIsSigned == Spec => []SignedOrMarked
<1>1. ASSUME FiscalInv PROVE SignedOrMarked
  <2>1. RowsOK /\ SigningInv
    BY <1>1 DEF FiscalInv, TypesInv
  <2>2. SUFFICES ASSUME NEW p \in DOMAIN payments
                 PROVE  /\ payments[p].tse = None => p \in history.excused \/ InSigning(p)
                        /\ payments[p].tse \in Nat =>
                             /\ ledger[payments[p].tse] = Entry(payments[p], "finished")
                             /\ \A q \in DOMAIN payments \ {p} : payments[q].tse # payments[p].tse
    BY DEF SignedOrMarked
  <2>3. PaymentFits(p, payments[p]) /\ (payments[p].tse = None => Awaited(p))
    BY <2>1, <2>2 DEF SigningInv, PaymentsInv
  <2>4. Awaited(p) => p \in history.excused \/ InSigning(p)
    BY DEF Awaited, Signs, InSigning
  <2>5. payments[p].tse \in Nat => ledger[payments[p].tse] = Entry(payments[p], "finished")
    BY <2>3 DEF PaymentFits, SignedFor
  <2>6. payments[p].tse \in Nat => \A q \in DOMAIN payments \ {p} : payments[q].tse # payments[p].tse
    BY <2>1, <2>2 DEF SigningInv, PaymentsApart
  <2> QED BY <2>3, <2>4, <2>5, <2>6
<1> QED BY <1>1, FiscalInOrder, PTL

(* The taxes of every transaction add up to its amount, and a reversal of a signed
   sale undoes exactly its taxes.                                                 *)
THEOREM TaxesFoot == Spec => []SplitsFoot
<1>1. ASSUME FiscalInv PROVE SplitsFoot
  <2>1. RowsOK /\ SigningInv
    BY <1>1 DEF FiscalInv, TypesInv
  <2>2. ASSUME NEW p \in DOMAIN payments, payments[p].reverses # None, p \notin history.early
        PROVE  payments[p].splits = Negated(payments[payments[p].reverses].splits)
    BY <2>1, <2>2 DEF SigningInv, PaymentsInv, PaymentFits, Mirrors
  <2> QED BY <2>1, <2>2 DEF SplitsFoot, SigningInv, LedgerFoots
<1> QED BY <1>1, FiscalInOrder, PTL

(* As long as no two exports overlapped, a row is in two closings only where it is as
   old as the second one's start.                                                 *)
THEOREM RowsClosedOnce == Spec => []ClosedOnce
<1>1. ASSUME FiscalInv PROVE ClosedOnce
  <2>1. RowsOK /\ SigningInv /\ ClosingsInv
    BY <1>1 DEF FiscalInv, TypesInv
  <2>2. SUFFICES ASSUME NEW y \in DOMAIN closings, NEW z \in DOMAIN closings,
                        NEW p \in closings[y].content \cap closings[z].content, y < z, ~history.raced
                 PROVE  closings[z].start \in {payments[p].created, orders[payments[p].order].created}
    BY DEF ClosedOnce
  <2>3. closings[y].end <= closings[z].start
    BY <2>1, <2>2 DEF ClosingsInv
  <2>4. /\ p \in DOMAIN payments
        /\ Stamp(p) <= closings[y].end /\ closings[z].start <= Stamp(p)
    BY <2>1, <2>2 DEF ClosingsInv, Covers
  <2>5. closings[y].end \in Nat /\ closings[z].start \in Nat
    BY <2>1, ClosingRows
  <2>6. Stamp(p) \in Nat /\ Stamp(p) \in {payments[p].created, orders[payments[p].order].created}
    BY <2>1, <2>4, PaymentsAre, OrdersAre DEF Stamp, Rows
  <2>7. PICK s \in Nat : s = Stamp(p)
    BY <2>6
  <2>8. s = closings[z].start
    BY <2>3, <2>4, <2>5, <2>7
  <2> QED BY <2>6, <2>7, <2>8
<1> QED BY <1>1, FiscalInOrder, PTL

-----------------------------------------------------------------------------
(* What a closing adds up to.  *)

(* The sum over a set is that of two parts of it.  *)
LEMMA SumOfParts ==
  ASSUME NEW S, IsFiniteSet(S), NEW f, \A x \in S : f[x] \in Int, NEW U \in SUBSET S, NEW V, V = S \ U
  PROVE  SumFunctionOnSet(f, S) = SumFunctionOnSet(f, U) + SumFunctionOnSet(f, V)
<1> DEFINE g == [x \in S |-> IF x \in U THEN f[x] ELSE 0]
           h == [x \in S |-> IF x \in U THEN 0 ELSE f[x]]
<1>1. \A x \in S : g[x] \in Int /\ h[x] \in Int /\ f[x] = g[x] + h[x]
  OBVIOUS
<1>2. OnlyOn(S, g, U) /\ \A x \in U : g[x] = f[x] /\ g[x] \in Int
  BY DEF OnlyOn
<1>3. OnlyOn(S, h, V) /\ \A x \in V : h[x] = f[x] /\ h[x] \in Int
  BY DEF OnlyOn
<1>4. IsFiniteSet(U) /\ IsFiniteSet(V)
  BY FS_Subset
<1> HIDE DEF g, h
<1>5. SumFunctionOnSet(f, S) = SumFunctionOnSet(g, S) + SumFunctionOnSet(h, S)
  BY <1>1, SumOfBoth
<1>6. SumFunctionOnSet(g, S) = SumFunctionOnSet(g, U) /\ SumFunctionOnSet(h, S) = SumFunctionOnSet(h, V)
  BY <1>2, <1>3, SumOfWorth
<1>7. SumFunctionOnSet(g, U) = SumFunctionOnSet(f, U) /\ SumFunctionOnSet(h, V) = SumFunctionOnSet(f, V)
  BY <1>2, <1>3, <1>4, SumOfSame
<1> QED BY <1>5, <1>6, <1>7

(* The sum over a set is that of what belongs to each of some keys.  *)
OfKeys(S, key, s) == {x \in S : key[x] \in s}
Keyed(S, f, O, key, F) ==
  /\ IsFiniteSet(S) /\ \A x \in S : f[x] \in Int
  /\ IsFiniteSet(O) /\ \A x \in S : key[x] \in O
  /\ \A o \in O : F[o] = SumFunctionOnSet(f, OfKeys(S, key, {o}))

(* They can be summed key by key.  *)
LEMMA SumByKey ==
  ASSUME NEW S, NEW f, NEW O, NEW key, NEW F, Keyed(S, f, O, key, F)
  PROVE  SumFunctionOnSet(F, O) = SumFunctionOnSet(f, S)
<1> USE DEF Keyed
<1> DEFINE T == {k \in Nat : \A s \in SUBSET O : Cardinality(s) = k =>
                    SumFunctionOnSet(F, s) = SumFunctionOnSet(f, OfKeys(S, key, s))}
<1>1. ASSUME NEW s \in SUBSET O PROVE /\ OfKeys(S, key, s) \subseteq S /\ IsFiniteSet(OfKeys(S, key, s))
                                      /\ \A x \in OfKeys(S, key, s) : f[x] \in Int
                                      /\ SumFunctionOnSet(f, OfKeys(S, key, s)) \in Int
  <2>1. OfKeys(S, key, s) \subseteq S
    BY DEF OfKeys
  <2>2. IsFiniteSet(OfKeys(S, key, s))
    BY <2>1, FS_Subset
  <2>3. \A x \in OfKeys(S, key, s) : f[x] \in Int
    BY <2>1
  <2> QED BY <2>1, <2>2, <2>3, SumOfMore
<1>2. \A o \in O : F[o] \in Int
  <2>1. SUFFICES ASSUME NEW o \in O PROVE F[o] \in Int
    OBVIOUS
  <2>2. {o} \in SUBSET O
    OBVIOUS
  <2> QED BY <1>1, <2>2
<1>3. 0 \in T
  <2>1. ASSUME NEW s \in SUBSET O, Cardinality(s) = 0
        PROVE  SumFunctionOnSet(F, s) = SumFunctionOnSet(f, OfKeys(S, key, s))
    <3>1. s = {}
      BY <2>1, OneLess
    <3>2. OfKeys(S, key, s) = {}
      BY <3>1 DEF OfKeys
    <3> QED BY <3>1, <3>2, SumOfNone
  <2> QED BY <2>1
<1>4. ASSUME NEW k \in Nat, k \in T PROVE k + 1 \in T
  <2>1. SUFFICES ASSUME NEW s \in SUBSET O, Cardinality(s) = k + 1
                 PROVE  SumFunctionOnSet(F, s) = SumFunctionOnSet(f, OfKeys(S, key, s))
    OBVIOUS
  <2>2. IsFiniteSet(s) /\ s # {}
    BY <2>1, OneLess
  <2>3. PICK y \in s : TRUE
    BY <2>2
  <2>4. PICK r : r = s \ {y}
    OBVIOUS
  <2>5. r \in SUBSET O /\ Cardinality(r) = k
    BY <2>1, <2>3, <2>4, OneLess
  <2>6. SumFunctionOnSet(F, s) = F[y] + SumFunctionOnSet(F, r)
    BY <1>2, <2>1, <2>2, <2>3, <2>4, SumOfMore
  <2>7. SumFunctionOnSet(F, r) = SumFunctionOnSet(f, OfKeys(S, key, r))
    BY <1>4, <2>5
  <2>8. F[y] = SumFunctionOnSet(f, OfKeys(S, key, {y}))
    BY <2>1, <2>3
  <2>9. PICK all, one, rest : all = OfKeys(S, key, s) /\ one = OfKeys(S, key, {y}) /\ rest = OfKeys(S, key, r)
    OBVIOUS
  <2>10. one \in SUBSET all /\ rest = all \ one
    BY <2>3, <2>4, <2>9 DEF OfKeys
  <2>11. IsFiniteSet(all) /\ \A x \in all : f[x] \in Int
    BY <1>1, <2>1, <2>9
  <2>12. SumFunctionOnSet(f, all) = SumFunctionOnSet(f, one) + SumFunctionOnSet(f, rest)
    BY <2>10, <2>11, SumOfParts
  <2> QED BY <2>6, <2>7, <2>8, <2>9, <2>12
<1> HIDE DEF T
<1>5. Nat \subseteq T
  BY <1>3, <1>4, Induction
<1>6. SumFunctionOnSet(F, O) = SumFunctionOnSet(f, OfKeys(S, key, O))
  <2>1. Cardinality(O) \in Nat /\ O \in SUBSET O
    BY FS_CardinalityType
  <2>2. Cardinality(O) \in T
    BY <1>5, <2>1
  <2> QED BY <2>1, <2>2 DEF T
<1>7. OfKeys(S, key, O) = S
  BY DEF OfKeys
<1> QED BY <1>6, <1>7

(* The sum over the rates, one by one.  *)
LEMMA SumOfRates ==
  ASSUME NEW f, \A r \in Rates : f[r] \in Int
  PROVE  SumFunctionOnSet(f, Rates) = f[0] + f[7] + f[19]
<1>1. PICK a, b, c : a = {0, 7, 19} /\ b = {7, 19} /\ c = {19}
  OBVIOUS
<1>2. b = a \ {0} /\ c = b \ {7} /\ c \ {19} = {} /\ a = Rates
  BY <1>1 DEF Rates
<1>3. IsFiniteSet(a) /\ IsFiniteSet(b) /\ IsFiniteSet(c)
  <2>1. IsFiniteSet(a) /\ b \in SUBSET a /\ c \in SUBSET a
    BY <1>2, RatesAre
  <2> QED BY <2>1, FS_Subset
<1>4. \A x \in a : f[x] \in Int
  BY <1>2
<1>5. SumFunctionOnSet(f, a) = f[0] + SumFunctionOnSet(f, b)
  <2>1. 0 \in a
    BY <1>1
  <2> QED BY <1>2, <1>3, <1>4, <2>1, SumOfMore
<1>6. SumFunctionOnSet(f, b) = f[7] + SumFunctionOnSet(f, c)
  <2>1. 7 \in b /\ \A x \in b : f[x] \in Int
    BY <1>1, <1>4
  <2>2. SumFunctionOnSet(f, b) = f[7] + SumFunctionOnSet(f, b \ {7})
    BY <1>3, <2>1, SumOfMore
  <2> QED BY <1>2, <2>2
<1>7. SumFunctionOnSet(f, c) = f[19]
  <2>1. 19 \in c /\ (\A x \in c : f[x] \in Int) /\ f[19] \in Int
    BY <1>1, <1>4
  <2>2. SumFunctionOnSet(f, c) = f[19] + SumFunctionOnSet(f, c \ {19})
    BY <1>3, <2>1, SumOfMore
  <2>3. PICK none : none = c \ {19}
    OBVIOUS
  <2>4. SumFunctionOnSet(f, none) = 0
    <3>1. none = {}
      BY <1>2, <2>3
    <3> QED BY <3>1, SumOfNone
  <2> QED BY <2>1, <2>2, <2>3, <2>4
<1>8. f[0] \in Int /\ f[7] \in Int /\ f[19] \in Int
  BY <1>1, <1>4
<1> QED BY <1>2, <1>5, <1>6, <1>7, <1>8

(* An order is what it has at the three rates.  *)
LEMMA BasketOfRates ==
  ASSUME RowsOK, NEW o \in DOMAIN orders
  PROVE  SplitSum(orders[o].basket) = ItemLines(o, 0) + ItemLines(o, 7) + ItemLines(o, 19)
<1>1. PICK basket : basket = orders[o].basket
  OBVIOUS
<1>2. PICK sold \in SUBSET Rates : basket \in [sold -> Nat]
  BY <1>1, BasketIs
<1>3. PICK f : f = [r \in Rates |-> ItemLines(o, r)]
  OBVIOUS
<1>4. \A r \in Rates : f[r] = ItemLines(o, r) /\ f[r] \in Int
  BY <1>3, PartIsNumber
<1>5. \A r \in Rates : f[r] = IF r \in sold THEN basket[r] ELSE 0
  BY <1>1, <1>2, <1>4 DEF ItemLines
<1>6. OnlyOn(Rates, f, sold)
  BY <1>2, <1>4, <1>5, RatesAre DEF OnlyOn
<1>7. SumFunctionOnSet(f, Rates) = SumFunctionOnSet(f, sold)
  BY <1>6, SumOfWorth
<1>8. IsFiniteSet(sold)
  BY RatesAre, FS_Subset
<1>9. SumFunctionOnSet(f, sold) = SumFunctionOnSet(basket, sold)
  <2>1. \A r \in sold : f[r] \in Int /\ f[r] = basket[r]
    BY <1>4, <1>5
  <2> QED BY <1>8, <2>1, SumOfSame
<1>10. SplitSum(basket) = SumFunctionOnSet(basket, sold)
  <2>1. basket \in [sold -> Int]
    BY <1>2
  <2> QED BY <1>8, <2>1, SumIsNumber
<1>11. SumFunctionOnSet(f, Rates) = f[0] + f[7] + f[19]
  BY <1>4, SumOfRates
<1>12. f[0] = ItemLines(o, 0) /\ f[7] = ItemLines(o, 7) /\ f[19] = ItemLines(o, 19)
  BY <1>4 DEF Rates
<1> QED BY <1>1, <1>7, <1>9, <1>10, <1>11, <1>12

(* The turnover of a closing: the lines of its orders, less its reversals.  *)
LEMMA TurnoverIs ==
  ASSUME RowsOK, SigningInv, NEW content, content \subseteq DOMAIN payments
  PROVE  SplitSum(BusinessCases(content)) =
           SplitSum([o \in Sold(content) |-> Lines(o)]) + PaymentTotal(content \ SalesIn(content))
<1>1. PICK sold, back : sold = Sold(content) /\ back = PaymentTotal(content \ SalesIn(content))
  OBVIOUS
<1>2. IsFiniteSet(sold) /\ sold \subseteq DOMAIN orders
  BY <1>1, SoldAre
<1>3. back \in Int
  <2>1. content \ SalesIn(content) \subseteq DOMAIN payments
    OBVIOUS
  <2> QED BY <1>1, <2>1, AmountsAre DEF PaymentTotal
<1> DEFINE at(r) == [o \in sold |-> ItemLines(o, r)]
<1>4. PICK f0, f7, f19 : f0 = at(0) /\ f7 = at(7) /\ f19 = at(19)
  OBVIOUS
<1>18. PICK d : d = [o \in sold |-> DepositLines(o)]
  OBVIOUS
<1>19. d \in [sold -> Int] /\ SplitSum(d) \in Int /\ SplitSum(d) = SumFunctionOnSet(d, sold)
  BY <1>1, <1>2, <1>18, DepositsAre, SumIsNumber
<1>5. PICK turnover : turnover = BusinessCases(content)
  OBVIOUS
<1>6. /\ turnover \in [Rates -> Int]
      /\ turnover[0] = SplitSum(f0) /\ turnover[7] = SplitSum(f7) /\ turnover[19] = SplitSum(f19) + (SplitSum(d) + back)
  <2>1. turnover \in [Rates -> Int]
        /\ turnover = [r \in Rates |-> SplitSum(at(r)) + (IF r = 19 THEN SplitSum(d) + back ELSE 0)]
    BY <1>1, <1>5, <1>18, TablesAreNumbers
  <2>2. SplitSum(at(0)) \in Int /\ SplitSum(at(7)) \in Int
    BY <1>1, PartsAre
  <2>3. 0 \in Rates /\ 7 \in Rates /\ 19 \in Rates
    BY DEF Rates
  <2> HIDE DEF at
  <2> QED BY <1>4, <2>1, <2>2, <2>3
<1>7. /\ f0 \in [sold -> Int] /\ f7 \in [sold -> Int] /\ f19 \in [sold -> Int]
      /\ \A o \in sold : f0[o] = ItemLines(o, 0) /\ f7[o] = ItemLines(o, 7) /\ f19[o] = ItemLines(o, 19)
  BY <1>2, <1>4, PartIsNumber
<1>8. SplitSum(turnover) = turnover[0] + turnover[7] + turnover[19]
  <2>1. SplitSum(turnover) = SumFunctionOnSet(turnover, Rates)
    BY <1>6, RatesAre, SumIsNumber
  <2> QED BY <1>6, <2>1, SumOfRates
<1>9. /\ SplitSum(f0) = SumFunctionOnSet(f0, sold) /\ SplitSum(f7) = SumFunctionOnSet(f7, sold)
      /\ SplitSum(f19) = SumFunctionOnSet(f19, sold)
      /\ SplitSum(f0) \in Int /\ SplitSum(f7) \in Int /\ SplitSum(f19) \in Int
  BY <1>2, <1>7, SumIsNumber
<1>10. PICK f : f = [o \in sold |-> f0[o] + f7[o]]
  OBVIOUS
<1>11. PICK g : g = [o \in sold |-> SplitSum(orders[o].basket)]
  OBVIOUS
<1>12. \A o \in sold : f0[o] \in Int /\ f7[o] \in Int /\ f[o] = f0[o] + f7[o]
  BY <1>7, <1>10
<1>13. \A o \in sold : f[o] \in Int /\ f19[o] \in Int /\ g[o] = f[o] + f19[o]
  <2>1. SUFFICES ASSUME NEW o \in sold PROVE f[o] \in Int /\ f19[o] \in Int /\ g[o] = f[o] + f19[o]
    OBVIOUS
  <2>2. SplitSum(orders[o].basket) = ItemLines(o, 0) + ItemLines(o, 7) + ItemLines(o, 19)
    BY <1>2, BasketOfRates
  <2> QED BY <1>7, <1>11, <1>12, <2>2
<1>14. SumFunctionOnSet(f, sold) = SumFunctionOnSet(f0, sold) + SumFunctionOnSet(f7, sold)
  BY <1>2, <1>12, SumOfBoth
<1>15. SumFunctionOnSet(g, sold) = SumFunctionOnSet(f, sold) + SumFunctionOnSet(f19, sold)
  BY <1>2, <1>13, SumOfBoth
<1>16. PICK l : l = [o \in sold |-> Lines(o)]
  OBVIOUS
<1>20. l \in [sold -> Int] /\ \A o \in sold : g[o] \in Int /\ d[o] \in Int /\ l[o] = g[o] + d[o]
  BY <1>2, <1>11, <1>16, <1>18, OrderIsNumbers DEF Lines
<1>21. SumFunctionOnSet(l, sold) = SumFunctionOnSet(g, sold) + SumFunctionOnSet(d, sold)
  BY <1>2, <1>20, SumOfBoth
<1>22. SplitSum(l) = SumFunctionOnSet(l, sold)
  BY <1>2, <1>20, SumIsNumber
<1>17. SplitSum(turnover) = SplitSum(l) + back
  BY <1>3, <1>6, <1>8, <1>9, <1>14, <1>15, <1>19, <1>21, <1>22
<1> QED BY <1>1, <1>5, <1>16, <1>17

(* What was paid: for each order sold, and back.  *)
PaidFor(content, o) == SplitSum([p \in {q \in SalesIn(content) : payments[q].order = o} |-> payments[p].amount])

(* Payments are summed order by order, reversals apart.  *)
LEMMA PaidIs ==
  ASSUME RowsOK, SigningInv, NEW content, content \subseteq DOMAIN payments
  PROVE  PaymentTotal(content) =
           SplitSum([o \in Sold(content) |-> PaidFor(content, o)]) + PaymentTotal(content \ SalesIn(content))
<1>1. PICK sales, back, sold : sales = SalesIn(content) /\ back = content \ sales /\ sold = Sold(content)
  OBVIOUS
<1>2. PICK amount, key : amount = [p \in DOMAIN payments |-> payments[p].amount]
                         /\ key = [p \in DOMAIN payments |-> payments[p].order]
  OBVIOUS
<1>3. sales \in SUBSET content /\ back \in SUBSET content
  BY <1>1 DEF SalesIn
<1>4. ASSUME NEW S \in SUBSET content
      PROVE  /\ IsFiniteSet(S) /\ \A x \in S : amount[x] \in Int
             /\ PaymentTotal(S) = SumFunctionOnSet(amount, S)
  <2>1. PICK f : f = [p \in S |-> payments[p].amount]
    OBVIOUS
  <2>2. IsFiniteSet(S) /\ f \in [S -> Int]
    BY <1>4, <2>1, AmountsAre
  <2>3. \A x \in S : f[x] \in Int /\ amount[x] = f[x]
    BY <1>2, <1>4, <2>1, <2>2
  <2>4. SplitSum(f) = SumFunctionOnSet(f, S)
    BY <2>2, SumIsNumber
  <2>5. SumFunctionOnSet(f, S) = SumFunctionOnSet(amount, S)
    BY <2>2, <2>3, SumOfSame
  <2> QED BY <2>1, <2>2, <2>3, <2>4, <2>5 DEF PaymentTotal
<1>5. PaymentTotal(content) = PaymentTotal(sales) + PaymentTotal(back)
  <2>1. SumFunctionOnSet(amount, content) = SumFunctionOnSet(amount, sales) + SumFunctionOnSet(amount, back)
    <3>1. IsFiniteSet(content) /\ \A x \in content : amount[x] \in Int
      BY <1>4
    <3> QED BY <1>1, <1>3, <3>1, SumOfParts
  <2> QED BY <1>3, <1>4, <2>1
<1>6. PICK F : F = [o \in sold |-> PaidFor(content, o)]
  OBVIOUS
<1>7. ASSUME NEW o \in sold PROVE F[o] = SumFunctionOnSet(amount, OfKeys(sales, key, {o})) /\ F[o] \in Int
  <2>1. PICK S : S = {q \in sales : payments[q].order = o}
    OBVIOUS
  <2>2. S = OfKeys(sales, key, {o}) /\ S \in SUBSET content
    BY <1>2, <1>3, <2>1 DEF OfKeys
  <2>3. F[o] = PaymentTotal(S)
    BY <1>1, <1>6, <1>7, <2>1 DEF PaidFor, PaymentTotal
  <2>4. PaymentTotal(S) = SumFunctionOnSet(amount, S)
    BY <1>4, <2>2
  <2>5. PaymentTotal(S) \in Int
    BY <2>2, AmountsAre DEF PaymentTotal
  <2> QED BY <2>2, <2>3, <2>4, <2>5
<1>8. SumFunctionOnSet(F, sold) = SumFunctionOnSet(amount, sales)
  <2>1. IsFiniteSet(sales) /\ (\A x \in sales : amount[x] \in Int)
    BY <1>3, <1>4
  <2>2. IsFiniteSet(sold)
    BY <1>1, SoldAre
  <2>3. \A x \in sales : key[x] \in sold
    BY <1>1, <1>2, <1>3 DEF Sold
  <2>4. Keyed(sales, amount, sold, key, F)
    BY <1>7, <2>1, <2>2, <2>3 DEF Keyed
  <2> QED BY <2>4, SumByKey
<1>9. SplitSum(F) = SumFunctionOnSet(F, sold)
  <2>1. IsFiniteSet(sold)
    BY <1>1, SoldAre
  <2>2. F \in [sold -> Int]
    BY <1>6, <1>7
  <2> QED BY <2>1, <2>2, SumIsNumber
<1>10. PaymentTotal(sales) = SplitSum(F)
  BY <1>3, <1>4, <1>8, <1>9
<1> QED BY <1>1, <1>5, <1>6, <1>10

(* The turnover of a closing is what was paid in it, reversals on both sides, and what
   the lines of its orders come to over their payments.                           *)
THEOREM TurnoverFoots == Spec => []ClosingFoots
<1>1. ASSUME FiscalInv PROVE ClosingFoots
  <2>1. RowsOK /\ SigningInv /\ ClosingsInv
    BY <1>1 DEF FiscalInv, TypesInv
  <2>2. SUFFICES ASSUME NEW z \in DOMAIN closings
                 PROVE  SplitSum(closings[z].turnover) = closings[z].paid
                          + SplitSum([o \in Sold(closings[z].content) |-> Lines(o) - PaidFor(closings[z].content, o)])
    BY DEF ClosingFoots, PaidFor, Sold
  <2>3. PICK content : content = closings[z].content
    OBVIOUS
  <2>4. /\ content \subseteq DOMAIN payments /\ closings[z].turnover = BusinessCases(content)
        /\ closings[z].paid = PaymentTotal(content)
    BY <2>1, <2>2, <2>3 DEF ClosingsInv, Covers
  <2>5. PICK sold, back : sold = Sold(content) /\ back = PaymentTotal(content \ SalesIn(content))
    OBVIOUS
  <2>6. IsFiniteSet(sold) /\ sold \subseteq DOMAIN orders /\ back \in Int
    <3>1. content \ SalesIn(content) \subseteq DOMAIN payments
      BY <2>4
    <3> QED BY <2>1, <2>4, <2>5, <3>1, SoldAre, AmountsAre DEF PaymentTotal
  <2>7. PICK l, f, h : /\ l = [o \in sold |-> Lines(o)] /\ f = [o \in sold |-> PaidFor(content, o)]
                       /\ h = [o \in sold |-> Lines(o) - PaidFor(content, o)]
    OBVIOUS
  <2>8. \A o \in sold : Lines(o) \in Int /\ PaidFor(content, o) \in Int
    <3>1. ASSUME NEW o \in sold PROVE PaidFor(content, o) \in Int
      <4>1. {q \in SalesIn(content) : payments[q].order = o} \subseteq DOMAIN payments
        BY <2>4 DEF SalesIn
      <4> QED BY <2>1, <4>1, AmountsAre DEF PaidFor
    <3> QED BY <2>1, <2>6, <3>1, OrderIsNumbers
  <2>9. /\ l \in [sold -> Int] /\ f \in [sold -> Int] /\ h \in [sold -> Int]
        /\ \A o \in sold : h[o] \in Int /\ f[o] \in Int /\ l[o] = h[o] + f[o]
    BY <2>7, <2>8
  <2>10. SumFunctionOnSet(l, sold) = SumFunctionOnSet(h, sold) + SumFunctionOnSet(f, sold)
    BY <2>6, <2>9, SumOfBoth
  <2>11. /\ SplitSum(l) = SumFunctionOnSet(l, sold) /\ SplitSum(f) = SumFunctionOnSet(f, sold)
         /\ SplitSum(h) = SumFunctionOnSet(h, sold)
         /\ SplitSum(l) \in Int /\ SplitSum(f) \in Int /\ SplitSum(h) \in Int
    BY <2>6, <2>9, SumIsNumber
  <2>12. SplitSum(closings[z].turnover) = SplitSum(l) + back
    BY <2>1, <2>4, <2>5, <2>7, TurnoverIs
  <2>13. closings[z].paid = SplitSum(f) + back
    BY <2>1, <2>4, <2>5, <2>7, PaidIs
  <2>14. SplitSum(closings[z].turnover) = closings[z].paid + SplitSum(h)
    BY <2>6, <2>10, <2>11, <2>12, <2>13
  <2> QED BY <2>3, <2>5, <2>7, <2>14
<1> QED BY <1>1, FiscalInOrder, PTL

-----------------------------------------------------------------------------
(* Products, their stock and the counts (StockTaking).  *)

(* The statements of the requests.  *)
CategorySaves == [do : {"saveCategory"}, category : CategoryIds, name : Names, with : SUBSET ProductIds]
CategoryRemovals == [do : {"removeCategory"}, category : CategoryIds]
ProductInserts == [do : {"newProduct"}, product : ProductIds, row : ProductRow]
ProductSaves == [do : {"saveProduct"}, product : ProductIds, row : ProductRow, read : Nat]
ProductRemovals == [do : {"softRemove"}, product : ProductIds]
MovementInserts == [do : {"movement"}, row : Movement]
CountSaves == [do : {"saveCount"}, count : CountIds, status : Statuses, with : SUBSET ItemIds]
CountRemovals == [do : {"removeCount"}, count : CountIds]
ItemSaves == [do : {"saveItem"}, item : ItemIds, row : ItemRow, count : CountIds]
Adjustments == [do : {"adjust"}, count : CountIds, product : ProductIds, quantity : Int]
OfProducts == CategorySaves \cup CategoryRemovals \cup ProductInserts \cup ProductSaves
                \cup ProductRemovals \cup MovementInserts
OfCounts == CountSaves \cup CountRemovals \cup ItemSaves \cup Adjustments
Jobs == OfProducts \cup OfCounts

Ids == [category : 1..MaxCategories + 1, product : 1..MaxProducts + 1,
        count : 1..MaxCounts + 1, item : 1..MaxItems + 1]

StockTypes ==
  /\ DOMAIN task = Workers /\ \A w \in Workers : task[w] \in Seq(Jobs)
  /\ DOMAIN categories \subseteq CategoryIds /\ \A c \in DOMAIN categories : categories[c] \in Names
  /\ DOMAIN products \subseteq ProductIds /\ \A p \in DOMAIN products : products[p] \in ProductRow
  /\ movements \in Seq(Movement) /\ drifted \subseteq ProductIds
  /\ nextId \in Ids
  /\ DOMAIN counts \subseteq CountIds /\ \A c \in DOMAIN counts : counts[c] \in Statuses
  /\ DOMAIN items \subseteq ItemIds /\ \A i \in DOMAIN items : items[i] \in ItemRow
  /\ raced \subseteq CountIds /\ cut \in [CountIds -> Nat] /\ removed \subseteq ProductIds

(* A movement follows the save of its product, and tells what that changes.  *)
TellsOf(save, row) ==
  /\ save.do = "saveProduct" /\ save.product = row.product
  /\ save.read = row.before /\ save.row.stock = row.after
MovesInTurn(t) == \A k \in DOMAIN t : t[k].do = "movement" /\ k > 1 => TellsOf(t[k - 1], t[k].row)

(* A product that is to be inserted is not there, and nobody else inserts it; the
   others are there.                                                              *)
IsNew(w, k) == k \in DOMAIN task[w] /\ task[w][k].do = "newProduct"
ProductsInv ==
  /\ \A p \in DOMAIN products : p < nextId.product /\ (products[p].deleted => p \in removed)
  /\ \A w \in Workers : MovesInTurn(task[w])
  /\ \A w \in Workers, k \in Nat : IsNew(w, k) =>
       /\ task[w][k].product \notin DOMAIN products /\ task[w][k].product < nextId.product
       /\ \A v \in Workers, j \in Nat :
            IsNew(v, j) /\ task[v][j].product = task[w][k].product => v = w /\ j = k
  /\ \A w \in Workers : \A k \in DOMAIN task[w] :
       task[w][k].do \in {"saveProduct", "softRemove", "adjust"} => task[w][k].product \in DOMAIN products

(* The items there are and those still to be saved, each with its count and its
   product: an item keeps both, and a count has a product once.                   *)
Saved == {[item |-> i, count |-> items[i].count, product |-> items[i].product] : i \in DOMAIN items}
Unsaved(w) ==
  {[item |-> task[w][k].item, count |-> task[w][k].count, product |-> task[w][k].row.product] :
     k \in {j \in DOMAIN task[w] : task[w][j].do = "saveItem"}}
Entered == Saved \cup UNION {Unsaved(w) : w \in Workers}
ItemsInv ==
  /\ \A w \in Workers : \A k \in DOMAIN task[w] : task[w][k].do = "saveItem" => task[w][k].row.count = task[w][k].count
  /\ \A x \in Entered : x.item < nextId.item /\ x.count < nextId.count /\ x.product \in DOMAIN products
  /\ \A x, y \in Entered :
       /\ x.item = y.item => x = y
       /\ x.count = y.count /\ x.product = y.product /\ x.count \notin raced => x = y
  /\ \A c \in DOMAIN counts : c < nextId.count
  /\ \A w \in Workers, c \in CountIds : Concerns(w, c) => c < nextId.count

(* A request completes count c, or does something else.  *)
Books(job, c, p) ==
  \/ job.do = "adjust" /\ job.count = c /\ job.product = p
  \/ job.do = "movement" /\ job.row.count = c /\ job.row.product = p
Due(t, c) == {p \in ProductIds : \E k \in DOMAIN t : Books(t[k], c, p)}
IsCompletion(t, c) ==
  /\ t # <<>> /\ t[Len(t)].do = "saveCount" /\ t[Len(t)].count = c /\ t[Len(t)].status = "completed"
  /\ \A k \in 1 .. Len(t) - 1 : t[k].do = "saveProduct" \/ \E p \in ProductIds : Books(t[k], c, p)
Distinct(t, c) == \A j, k \in DOMAIN t, p \in ProductIds : Books(t[j], c, p) /\ Books(t[k], c, p) => j = k
IsOther(t) ==
  \A k \in DOMAIN t :
    /\ t[k].do # "adjust" /\ (t[k].do = "movement" => t[k].row.count = NoCount)
    /\ t[k].do = "saveCount" => t[k].status # "completed"
PlansInv == \A w \in Workers : IsOther(task[w]) \/ \E c \in CountIds : IsCompletion(task[w], c)

Covered(i) ==
  items[i].product \in removed \/ Difference(items[i]) = 0 \/ Booked(items[i].count, items[i].product) # {}
Underway(w, c) ==
  /\ c \in DOMAIN counts /\ counts[c] # "completed" /\ Distinct(task[w], c)
  /\ ItemsOf(c) \subseteq task[w][Len(task[w])].with
  /\ \A i \in ItemsOf(c) : Covered(i) \/ items[i].product \in Due(task[w], c)
  /\ \A p \in ProductIds :
       Cardinality(Booked(c, p)) <= IF p \in Due(task[w], c) THEN cut[c] ELSE 1 + cut[c]
IsCompleted(c) == c \in DOMAIN counts /\ counts[c] = "completed"
Finished(c) ==
  /\ \A w \in Workers : ~ Concerns(w, c)
  /\ \A i \in ItemsOf(c) : Covered(i)
  /\ \A p \in ProductIds : Cardinality(Booked(c, p)) <= 1 + cut[c]
CountSound(c) ==
  /\ \A w, v \in Workers : Concerns(w, c) /\ Concerns(v, c) => w = v
  /\ \A w \in Workers : IsCompletion(task[w], c) => Underway(w, c)
  /\ IsCompleted(c) => Finished(c)
  /\ (\A w \in Workers : ~ IsCompletion(task[w], c)) /\ ~ IsCompleted(c) =>
       \A p \in ProductIds : Cardinality(Booked(c, p)) <= cut[c]
CountsInv == \A c \in CountIds \ raced : CountSound(c)

StockInv == StockTypes /\ ProductsInv /\ ItemsInv /\ PlansInv /\ CountsInv

-----------------------------------------------------------------------------
(* One request, w, has now t to do.  *)
Turn(w, t) == DOMAIN task' = Workers /\ task'[w] = t /\ \A v \in Workers \ {w} : task'[v] = task[v]

(* The kinds of statements are apart, and these are about a count.  *)
LEMMA JobKinds ==
  ASSUME NEW s \in Jobs
  PROVE  /\ s.do = "saveCategory" => s \in CategorySaves
         /\ s.do = "removeCategory" => s \in CategoryRemovals
         /\ s.do = "newProduct" => s \in ProductInserts
         /\ s.do = "saveProduct" => s \in ProductSaves
         /\ s.do = "softRemove" => s \in ProductRemovals
         /\ s.do = "movement" => s \in MovementInserts
         /\ s.do = "saveCount" => s \in CountSaves
         /\ s.do = "removeCount" => s \in CountRemovals
         /\ s.do = "saveItem" => s \in ItemSaves
         /\ s.do = "adjust" => s \in Adjustments
         /\ s \in OfCounts <=> "count" \in DOMAIN s
         /\ s \in OfCounts <=> s.do \in {"saveCount", "removeCount", "saveItem", "adjust"}
<1>1. s \in CategorySaves => s.do = "saveCategory" /\ "count" \notin DOMAIN s
  BY DEF CategorySaves
<1>2. s \in CategoryRemovals => s.do = "removeCategory" /\ "count" \notin DOMAIN s
  BY DEF CategoryRemovals
<1>3. s \in ProductInserts => s.do = "newProduct" /\ "count" \notin DOMAIN s
  BY DEF ProductInserts
<1>4. s \in ProductSaves => s.do = "saveProduct" /\ "count" \notin DOMAIN s
  BY DEF ProductSaves
<1>5. s \in ProductRemovals => s.do = "softRemove" /\ "count" \notin DOMAIN s
  BY DEF ProductRemovals
<1>6. s \in MovementInserts => s.do = "movement" /\ "count" \notin DOMAIN s
  BY DEF MovementInserts
<1>7. s \in CountSaves => s.do = "saveCount" /\ "count" \in DOMAIN s
  BY DEF CountSaves
<1>8. s \in CountRemovals => s.do = "removeCount" /\ "count" \in DOMAIN s
  BY DEF CountRemovals
<1>9. s \in ItemSaves => s.do = "saveItem" /\ "count" \in DOMAIN s
  BY DEF ItemSaves
<1>10. s \in Adjustments => s.do = "adjust" /\ "count" \in DOMAIN s
  BY DEF Adjustments
<1> QED BY <1>1, <1>2, <1>3, <1>4, <1>5, <1>6, <1>7, <1>8, <1>9, <1>10 DEF Jobs, OfProducts, OfCounts

(* A handler of the catalogue has read what it needs and begins.  *)
CatalogueBegun(w, t) ==
  /\ task[w] = <<>> /\ Turn(w, t) /\ t \in Seq(OfProducts) /\ MovesInTurn(t)
  /\ \A k \in DOMAIN t :
       /\ t[k].do = "movement" => k > 1 /\ t[k].row.count = NoCount
       /\ t[k].do \in {"saveProduct", "softRemove"} => t[k].product \in DOMAIN products
       /\ t[k].do = "newProduct" => nextId.product <= t[k].product /\ t[k].product < nextId'.product
  /\ \A j, k \in DOMAIN t :
       t[j].do = "newProduct" /\ t[k].do = "newProduct" /\ t[j].product = t[k].product => j = k
  /\ nextId' \in Ids
  /\ nextId.product <= nextId'.product /\ nextId'.count = nextId.count /\ nextId'.item = nextId.item
  /\ UNCHANGED <<categories, products, movements, drifted>>

(* A request that starts has its task, and the others keep theirs.  *)
LEMMA StartTurns ==
  ASSUME StockTypes, NEW w \in Workers, NEW t, Start(w, t)
  PROVE  task[w] = <<>> /\ Turn(w, t)
BY DEF StockTypes, Start, Ready, Idle, Turn

(* One statement; a save of a product and its movement.  *)
LEMMA BeginsWithOne ==
  ASSUME StockTypes, NEW w \in Workers, NEW s \in OfProducts, Start(w, <<s>>),
         s.do # "movement",
         s.do \in {"saveProduct", "softRemove"} => s.product \in DOMAIN products,
         s.do = "newProduct" => nextId.product <= s.product /\ s.product < nextId'.product,
         nextId' \in Ids,
         nextId.product <= nextId'.product, nextId'.count = nextId.count, nextId'.item = nextId.item,
         UNCHANGED <<categories, products, movements, drifted>>
  PROVE  CatalogueBegun(w, <<s>>)
<1> DEFINE t == <<s>>
<1>1. t \in Seq(OfProducts) /\ DOMAIN t = {1} /\ t[1] = s
  OBVIOUS
<1>2. task[w] = <<>> /\ Turn(w, t)
  BY StartTurns
<1> HIDE DEF t
<1>3. MovesInTurn(t)
  BY <1>1 DEF MovesInTurn
<1>4. CatalogueBegun(w, t)
  BY <1>1, <1>2, <1>3 DEF CatalogueBegun
<1> QED BY <1>4 DEF t

(* The same, for a handler that takes no id.  *)
LEMMA BeginsWithOneOnly ==
  ASSUME StockTypes, NEW w \in Workers, NEW s \in OfProducts, Start(w, <<s>>), UNCHANGED catalogue,
         s.do \notin {"movement", "newProduct"},
         s.do \in {"saveProduct", "softRemove"} => s.product \in DOMAIN products
  PROVE  \E t : CatalogueBegun(w, t)
<1>1. UNCHANGED <<categories, products, movements, drifted, nextId>>
  BY DEF catalogue
<1>2. nextId' \in Ids /\ nextId.product <= nextId'.product /\ nextId'.count = nextId.count /\ nextId'.item = nextId.item
  BY <1>1 DEF StockTypes, Ids
<1>3. CatalogueBegun(w, <<s>>)
  BY <1>1, <1>2, BeginsWithOne
<1> QED BY <1>3

(* The ids that are given next.  *)
LEMMA IdsAre ==
  ASSUME NEW n \in Ids
  PROVE  /\ n.category \in Nat /\ n.product \in Nat /\ n.count \in Nat /\ n.item \in Nat
         /\ n.category >= 1 /\ n.product >= 1 /\ n.count >= 1 /\ n.item >= 1
BY CatalogueAssumption, StockAssumption DEF Ids

(* An id moves on as long as there are rows left.  *)
LEMMA IdsMove ==
  ASSUME NEW n \in Ids, NEW i \in Nat
  PROVE  /\ \A j \in Nat :
              n.category + i <= MaxCategories + 1 /\ n.product + j <= MaxProducts + 1 =>
                [n EXCEPT !.category = n.category + i, !.product = n.product + j] \in Ids
         /\ n.category + i <= MaxCategories + 1 => [n EXCEPT !.category = n.category + i] \in Ids
         /\ n.product + i <= MaxProducts + 1 => [n EXCEPT !.product = n.product + i] \in Ids
         /\ n.count + i <= MaxCounts + 1 => [n EXCEPT !.count = n.count + i] \in Ids
         /\ n.item + i <= MaxItems + 1 => [n EXCEPT !.item = n.item + i] \in Ids
<1>1. MaxCategories \in Nat /\ MaxProducts \in Nat /\ MaxCounts \in Nat /\ MaxItems \in Nat
  BY CatalogueAssumption, StockAssumption
<1>2. \A m, x, y : m \in Nat /\ x \in 1 .. y + 1 /\ y \in Nat /\ x + m <= y + 1 => x + m \in 1 .. y + 1
  OBVIOUS
<1>3. n.category \in 1..MaxCategories + 1 /\ n.product \in 1..MaxProducts + 1 /\ n.count \in 1..MaxCounts + 1
      /\ n.item \in 1..MaxItems + 1
  BY DEF Ids
<1>4. /\ \A x \in 1..MaxCategories + 1, y \in 1..MaxProducts + 1 : [n EXCEPT !.category = x, !.product = y] \in Ids
      /\ \A x \in 1..MaxCategories + 1 : [n EXCEPT !.category = x] \in Ids
      /\ \A x \in 1..MaxProducts + 1 : [n EXCEPT !.product = x] \in Ids
      /\ \A x \in 1..MaxCounts + 1 : [n EXCEPT !.count = x] \in Ids
      /\ \A x \in 1..MaxItems + 1 : [n EXCEPT !.item = x] \in Ids
  BY DEF Ids
<1> QED BY <1>1, <1>2, <1>3, <1>4

(* What an id is after it was moved.  *)
LEMMA IdsThen ==
  ASSUME NEW n \in Ids, NEW x, NEW y
  PROVE  /\ LET m == [n EXCEPT !.category = x, !.product = y]
             IN  m.category = x /\ m.product = y /\ m.count = n.count /\ m.item = n.item
         /\ LET m == [n EXCEPT !.category = x] IN m.category = x /\ m.product = n.product /\ m.count = n.count /\ m.item = n.item
         /\ LET m == [n EXCEPT !.product = x] IN m.category = n.category /\ m.product = x /\ m.count = n.count /\ m.item = n.item
         /\ LET m == [n EXCEPT !.count = x] IN m.category = n.category /\ m.product = n.product /\ m.count = x /\ m.item = n.item
         /\ LET m == [n EXCEPT !.item = x] IN m.category = n.category /\ m.product = n.product /\ m.count = n.count /\ m.item = x
BY DEF Ids

(* A save of a product with the movement that tells of it.  *)
LEMMA BeginsWithMove ==
  ASSUME StockTypes, NEW w \in Workers, NEW p \in DOMAIN products, NEW row \in ProductRow, NEW quantity \in Int,
         Start(w, <<SaveProduct(p, row), Move(p, NoCount, quantity, products[p].stock, row.stock)>>),
         UNCHANGED catalogue
  PROVE  \E t : CatalogueBegun(w, t)
<1> DEFINE s == SaveProduct(p, row)
           m == Move(p, NoCount, quantity, products[p].stock, row.stock)
           t == <<s, m>>
<1>1. products[p] \in ProductRow /\ p \in ProductIds
  BY DEF StockTypes
<1>2. s \in ProductSaves /\ s.do = "saveProduct" /\ s.product = p
  BY <1>1 DEF ProductSaves, SaveProduct, ProductRow
<1>3. m \in MovementInserts /\ m.do = "movement" /\ m.row.count = NoCount /\ TellsOf(s, m.row)
  BY <1>1 DEF MovementInserts, Movement, Move, NoCount, ProductRow, TellsOf, SaveProduct
<1>4. s \in OfProducts /\ m \in OfProducts
  BY <1>2, <1>3 DEF OfProducts
<1>5. task[w] = <<>> /\ Turn(w, t)
  BY StartTurns
<1> HIDE DEF s, m
<1>6. t \in Seq(OfProducts) /\ DOMAIN t = {1, 2} /\ t[1] = s /\ t[2] = m
  BY <1>4
<1> HIDE DEF t
<1>7. MovesInTurn(t)
  <2>1. SUFFICES ASSUME NEW k \in DOMAIN t, t[k].do = "movement", k > 1 PROVE TellsOf(t[k - 1], t[k].row)
    BY DEF MovesInTurn
  <2>2. k = 2
    BY <1>6, <2>1
  <2> QED BY <1>3, <1>6, <2>2
<1>8. UNCHANGED <<categories, products, movements, drifted, nextId>> /\ nextId \in Ids
  BY DEF catalogue, StockTypes
<1>10. nextId' \in Ids /\ nextId.product <= nextId'.product /\ nextId'.count = nextId.count /\ nextId'.item = nextId.item
       /\ UNCHANGED <<categories, products, movements, drifted>>
  BY <1>8, IdsAre
<1>11. \A k \in DOMAIN t :
         /\ t[k].do = "movement" => k > 1 /\ t[k].row.count = NoCount
         /\ t[k].do \in {"saveProduct", "softRemove"} => t[k].product \in DOMAIN products
         /\ t[k].do # "newProduct"
  BY <1>2, <1>3, <1>6
<1>12. CatalogueBegun(w, t)
  BY <1>5, <1>6, <1>7, <1>10, <1>11 DEF CatalogueBegun
<1> QED BY <1>12

(* The handlers of a category each begin so.  *)
LEMMA CategoryBegins ==
  ASSUME StockTypes, NEW w \in Workers
  PROVE  /\ \A name \in Names : CreateCategory(w, name) => \E t : CatalogueBegun(w, t)
         /\ \A c \in DOMAIN categories, name \in Names : UpdateCategory(w, c, name) => \E t : CatalogueBegun(w, t)
         /\ \A c \in DOMAIN categories : RemoveCategory(w, c) => \E t : CatalogueBegun(w, t)
<1>1. ASSUME NEW name \in Names, CreateCategory(w, name) PROVE \E t : CatalogueBegun(w, t)
  <2> DEFINE s == [do |-> "saveCategory", category |-> nextId.category, name |-> name, with |-> {}]
  <2>1. nextId.category \in CategoryIds
    <3>1. nextId \in Ids /\ nextId.category <= MaxCategories
      BY <1>1 DEF StockTypes, CreateCategory
    <3> QED BY <3>1, IdsAre, CatalogueAssumption DEF CategoryIds
  <2>2. s \in OfProducts /\ s.do = "saveCategory"
    BY <2>1 DEF OfProducts, CategorySaves
  <2>3. Start(w, <<s>>) /\ nextId' = [nextId EXCEPT !.category = @ + 1] /\ UNCHANGED <<categories, products, movements, drifted>>
    BY <1>1 DEF CreateCategory
  <2>4. /\ nextId' \in Ids
        /\ nextId.product <= nextId'.product /\ nextId'.count = nextId.count /\ nextId'.item = nextId.item
    <3>1. nextId \in Ids /\ nextId.category + 1 <= MaxCategories + 1 /\ 1 \in Nat /\ nextId.product \in Nat
      BY <1>1, IdsAre, CatalogueAssumption DEF StockTypes, CreateCategory
    <3>2. nextId' = [nextId EXCEPT !.category = nextId.category + 1]
      BY <2>3
    <3>3. nextId' \in Ids
      BY <3>1, <3>2, IdsMove
    <3>4. nextId'.product = nextId.product /\ nextId'.count = nextId.count /\ nextId'.item = nextId.item
      BY <3>1, <3>2, IdsThen
    <3> QED BY <3>1, <3>3, <3>4
  <2> HIDE DEF s
  <2>5. CatalogueBegun(w, <<s>>)
    BY <2>2, <2>3, <2>4, BeginsWithOne
  <2> QED BY <2>5
<1>2. ASSUME NEW c \in DOMAIN categories, NEW name \in Names, UpdateCategory(w, c, name) PROVE \E t : CatalogueBegun(w, t)
  <2> DEFINE s == [do |-> "saveCategory", category |-> c, name |-> name, with |-> In(c) \cap Live]
  <2>1. s \in OfProducts /\ s.do = "saveCategory"
    BY DEF StockTypes, OfProducts, CategorySaves, Live, In
  <2>2. Start(w, <<s>>) /\ UNCHANGED catalogue
    BY <1>2 DEF UpdateCategory
  <2> HIDE DEF s
  <2> QED BY <2>1, <2>2, BeginsWithOneOnly
<1>3. ASSUME NEW c \in DOMAIN categories, RemoveCategory(w, c) PROVE \E t : CatalogueBegun(w, t)
  <2> DEFINE s == [do |-> "removeCategory", category |-> c]
  <2>1. s \in OfProducts /\ s.do = "removeCategory"
    BY DEF StockTypes, OfProducts, CategoryRemovals
  <2>2. Start(w, <<s>>) /\ UNCHANGED catalogue
    BY <1>3 DEF RemoveCategory
  <2> HIDE DEF s
  <2> QED BY <2>1, <2>2, BeginsWithOneOnly
<1> QED BY <1>1, <1>2, <1>3

(* The handlers of a product that leave its stock, or set it.  *)
LEMMA ProductBegins ==
  ASSUME StockTypes, NEW w \in Workers
  PROVE  /\ \A name \in Names, c \in DOMAIN categories : CreateProduct(w, name, c) => \E t : CatalogueBegun(w, t)
         /\ \A p \in DOMAIN products :
              UpdateProduct(w, p) \/ UpdateAvailability(w, p) \/ RemoveProduct(w, p) => \E t : CatalogueBegun(w, t)
<1>1. ASSUME NEW name \in Names, NEW c \in DOMAIN categories, CreateProduct(w, name, c) PROVE \E t : CatalogueBegun(w, t)
  <2>1. PICK stock \in 0..MaxStock : Start(w, <<NewProduct(nextId.product, name, c, stock)>>)
    BY <1>1 DEF CreateProduct
  <2> DEFINE s == NewProduct(nextId.product, name, c, stock)
  <2>2. nextId.product \in ProductIds /\ c \in CategoryIds /\ stock \in Nat
    <3>1. nextId \in Ids /\ nextId.product <= MaxProducts /\ c \in CategoryIds
      BY <1>1 DEF StockTypes, CreateProduct
    <3> QED BY <3>1, IdsAre, CatalogueAssumption DEF ProductIds
  <2>3. s \in OfProducts /\ s.do = "newProduct" /\ s.product = nextId.product
    BY <2>2 DEF OfProducts, ProductInserts, NewProduct, ProductRow
  <2>4. nextId' = [nextId EXCEPT !.product = @ + 1] /\ UNCHANGED <<categories, products, movements, drifted>>
    BY <1>1 DEF CreateProduct
  <2>5. /\ nextId' \in Ids
        /\ nextId'.product = nextId.product + 1 /\ nextId'.count = nextId.count /\ nextId'.item = nextId.item
    <3>1. nextId \in Ids /\ nextId.product + 1 <= MaxProducts + 1 /\ 1 \in Nat
      BY <1>1, IdsAre, CatalogueAssumption DEF StockTypes, CreateProduct
    <3>2. nextId' = [nextId EXCEPT !.product = nextId.product + 1]
      BY <2>4
    <3>3. nextId' \in Ids
      BY <3>1, <3>2, IdsMove
    <3>4. nextId'.product = nextId.product + 1 /\ nextId'.count = nextId.count /\ nextId'.item = nextId.item
      BY <3>1, <3>2, IdsThen
    <3> QED BY <3>3, <3>4
  <2> HIDE DEF s
  <2>6. nextId.product \in Int /\ nextId.product <= nextId'.product /\ nextId.product < nextId'.product
    BY <2>2, <2>5 DEF ProductIds
  <2>7. CatalogueBegun(w, <<s>>)
    BY <2>1, <2>3, <2>4, <2>5, <2>6, BeginsWithOne DEF s
  <2> QED BY <2>7
<1>2. ASSUME NEW p \in DOMAIN products, NEW row \in ProductRow, Start(w, <<SaveProduct(p, row)>>), UNCHANGED catalogue
      PROVE  \E t : CatalogueBegun(w, t)
  <2> DEFINE s == SaveProduct(p, row)
  <2>1. s \in OfProducts /\ s.do = "saveProduct" /\ s.product = p
    BY DEF StockTypes, OfProducts, ProductSaves, SaveProduct, ProductRow
  <2> HIDE DEF s
  <2> QED BY <1>2, <2>1, BeginsWithOneOnly DEF s
<1>3. ASSUME NEW p \in DOMAIN products, UpdateProduct(w, p) PROVE \E t : CatalogueBegun(w, t)
  <2>1. PICK row : /\ row \in {[products[p] EXCEPT !.category = c] : c \in DOMAIN categories}
                        \cup {[products[p] EXCEPT !.tracked = ~@]}
                        \cup {[products[p] EXCEPT !.stock = n] : n \in 0..MaxStock}
                   /\ Start(w, <<SaveProduct(p, row)>>)
    BY <1>3 DEF UpdateProduct
  <2>2. products[p] \in ProductRow /\ \A c \in DOMAIN categories : c \in CategoryIds
    BY DEF StockTypes
  <2>3. /\ \A c \in DOMAIN categories : [products[p] EXCEPT !.category = c] \in ProductRow
        /\ [products[p] EXCEPT !.tracked = ~@] \in ProductRow
        /\ \A n \in 0..MaxStock : [products[p] EXCEPT !.stock = n] \in ProductRow
    <3>1. \A c \in DOMAIN categories : [products[p] EXCEPT !.category = c] \in ProductRow
      BY <2>2 DEF ProductRow
    <3>2. [products[p] EXCEPT !.tracked = ~@] \in ProductRow
      BY <2>2 DEF ProductRow
    <3>3. \A n \in Nat : [products[p] EXCEPT !.stock = n] \in ProductRow
      BY <2>2 DEF ProductRow
    <3> QED BY <3>1, <3>2, <3>3, CatalogueAssumption
  <2>4. row \in ProductRow
    BY <2>1, <2>3
  <2> QED BY <1>2, <1>3, <2>1, <2>4 DEF UpdateProduct
<1>4. ASSUME NEW p \in DOMAIN products, UpdateAvailability(w, p) PROVE \E t : CatalogueBegun(w, t)
  <2>1. [products[p] EXCEPT !.available = ~@] \in ProductRow
    BY DEF StockTypes, ProductRow
  <2> QED BY <1>2, <1>4, <2>1 DEF UpdateAvailability
<1>5. ASSUME NEW p \in DOMAIN products, RemoveProduct(w, p) PROVE \E t : CatalogueBegun(w, t)
  <2> DEFINE s == [do |-> "softRemove", product |-> p]
  <2>1. s \in OfProducts /\ s.do = "softRemove" /\ s.product = p
    BY DEF StockTypes, OfProducts, ProductRemovals
  <2>2. Start(w, <<s>>) /\ UNCHANGED catalogue
    BY <1>5 DEF RemoveProduct
  <2> HIDE DEF s
  <2> QED BY <2>1, <2>2, BeginsWithOneOnly
<1> QED BY <1>1, <1>3, <1>4, <1>5

(* A sale and an adjustment save the product and write the movement.  *)
LEMMA StockBegins ==
  ASSUME StockTypes, NEW w \in Workers, NEW p \in DOMAIN products
  PROVE  /\ Sell(w, p) => \E t : CatalogueBegun(w, t)
         /\ \A quantity \in Int : AdjustStock(w, p, quantity) => \E t : CatalogueBegun(w, t)
<1>1. products[p] \in ProductRow /\ products[p].stock \in Nat
  BY DEF StockTypes, ProductRow
<1>2. \A n \in Nat : [products[p] EXCEPT !.stock = n] \in ProductRow /\ [products[p] EXCEPT !.stock = n].stock = n
  BY <1>1 DEF ProductRow
<1>3. ASSUME Sell(w, p) PROVE \E t : CatalogueBegun(w, t)
  <2> DEFINE n == products[p].stock - 1
  <2>1. n \in Nat
    BY <1>1, <1>3 DEF Sell
  <2>2. Start(w, <<SaveProduct(p, [products[p] EXCEPT !.stock = n]), Move(p, NoCount, -1, products[p].stock, n)>>)
        /\ UNCHANGED catalogue
    BY <1>3 DEF Sell
  <2> HIDE DEF n
  <2>3. -1 \in Int
    OBVIOUS
  <2> QED BY <1>2, <2>1, <2>2, <2>3, BeginsWithMove
<1>4. ASSUME NEW quantity \in Int, AdjustStock(w, p, quantity) PROVE \E t : CatalogueBegun(w, t)
  <2> DEFINE n == AtLeastZero(products[p].stock + quantity)
  <2>1. n \in Nat
    BY <1>1 DEF AtLeastZero
  <2>2. Start(w, <<SaveProduct(p, [products[p] EXCEPT !.stock = n]), Move(p, NoCount, quantity, products[p].stock, n)>>)
        /\ UNCHANGED catalogue
    BY <1>4 DEF AdjustStock
  <2> HIDE DEF n
  <2> QED BY <1>2, <2>1, <2>2, BeginsWithMove
<1> QED BY <1>3, <1>4

(* The members of a finite set, each once.  *)
LEMMA OrdersOf ==
  ASSUME NEW S, IsFiniteSet(S)
  PROVE  /\ Cardinality(S) \in Nat /\ SetToSeq(S) \in SetToSeqs(S)
         /\ \A f \in SetToSeqs(S) :
              /\ f \in [1..Cardinality(S) -> S] /\ DOMAIN f = 1..Cardinality(S) /\ Len(f) = Cardinality(S)
              /\ \A i, j \in DOMAIN f : f[i] = f[j] => i = j
              /\ \A x \in S : \E i \in DOMAIN f : f[i] = x
<1> DEFINE n == Cardinality(S)
<1>1. n \in Nat /\ ExistsBijection(1..n, S)
  BY FS_CardinalityType
<1>2. ASSUME NEW f \in [1..n -> S], IsInjective(f) PROVE f \in SetToSeqs(S)
  BY <1>1, <1>2 DEF SetToSeqs, IsInjective
<1>3. SetToSeq(S) \in SetToSeqs(S)
  <2>1. PICK f \in Bijection(1..n, S) : TRUE
    BY <1>1 DEF ExistsBijection
  <2>2. \E g \in [1..n -> S] : IsInjective(g)
    BY <2>1 DEF Bijection, Injection
  <2>3. SetToSeq(S) \in [1..n -> S] /\ IsInjective(SetToSeq(S))
    BY <2>2 DEF SetToSeq
  <2> QED BY <1>2, <2>3
<1>4. ASSUME NEW f \in SetToSeqs(S)
      PROVE  /\ f \in [1..n -> S] /\ DOMAIN f = 1..n /\ Len(f) = n
             /\ \A i, j \in DOMAIN f : f[i] = f[j] => i = j
             /\ \A x \in S : \E i \in DOMAIN f : f[i] = x
  <2>1. f \in [1..n -> S] /\ DOMAIN f = 1..n /\ \A i, j \in 1..n : i # j => f[i] # f[j]
    BY <1>4 DEF SetToSeqs
  <2>2. f \in Injection(1..n, S)
    BY <2>1 DEF Injection, IsInjective
  <2>3. Cardinality(1..n) = n
    BY <1>1, FS_Interval
  <2>4. f \in Surjection(1..n, S)
    BY <2>2, <2>3, FS_Injection
  <2>5. Len(f) = n
    BY <1>1, <2>1
  <2> QED BY <2>1, <2>4, <2>5 DEF Surjection
<1> QED BY <1>1, <1>3, <1>4

(* A finite set of numbers has a largest one.  *)
LEMMA LargestExists ==
  ASSUME NEW n \in Nat, NEW S \in SUBSET (1..n), S # {}
  PROVE  Latest(S) \in S /\ \A i \in S : i <= Latest(S)
<1> DEFINE T == {k \in Nat : \A R \in SUBSET (1..k) : R # {} => \E i \in R : \A j \in R : j <= i}
<1>1. 0 \in T
  <2>1. 1..0 = {} /\ 0 \in Nat
    OBVIOUS
  <2> QED BY <2>1
<1>2. ASSUME NEW k \in Nat, k \in T PROVE k + 1 \in T
  <2>1. SUFFICES ASSUME NEW R \in SUBSET (1..k + 1), R # {} PROVE \E i \in R : \A j \in R : j <= i
    OBVIOUS
  <2>2. CASE k + 1 \in R
    BY <2>2
  <2>3. CASE k + 1 \notin R
    <3>1. R \in SUBSET (1..k)
      BY <2>3
    <3> QED BY <1>2, <2>1, <3>1
  <2> QED BY <2>2, <2>3
<1> HIDE DEF T
<1>3. n \in T
  BY <1>1, <1>2, Induction
<1>4. \E i \in S : \A j \in S : j <= i
  BY <1>3 DEF T
<1> QED BY <1>4 DEF Latest

(* The names of the categories that an import makes, each once.  *)
LEMMA FreshNames ==
  ASSUME StockTypes, NEW list \in Lists
  PROVE  /\ list \in Seq([category : Names \cup {Blank}, name : Names \cup {Blank}, stock : Nat])
         /\ NewCategories(list) \subseteq Names /\ IsFiniteSet(NewCategories(list))
         /\ \A i \in DOMAIN list : Valid(list[i]) /\ CategoryNamed(list[i].category) = {} =>
              list[i].category \in NewCategories(list)
<1>1. list \in Seq([category : Names \cup {Blank}, name : Names \cup {Blank}, stock : Nat])
  BY CatalogueAssumption
<1> DEFINE n == Len(list)
           wanted == [i \in DOMAIN list |-> IF Valid(list[i]) THEN list[i].category ELSE Blank]
           Line == [category : Names \cup {Blank}, name : Names \cup {Blank}, stock : Nat]
<1>2. n \in Nat /\ DOMAIN list = 1..n /\ \A i \in 1..n : list[i] \in Line
  <2> HIDE DEF Line
  <2>1. list \in Seq(Line)
    BY <1>1 DEF Line
  <2> QED BY <2>1, LenProperties
<1>3. NewCategories(list) = ToSet(wanted) \ (Range(categories) \cup {Blank})
  BY DEF NewCategories
<1>4. wanted \in Surjection(1..n, ToSet(wanted))
  BY <1>2 DEF Surjection, ToSet
<1>5. IsFiniteSet(ToSet(wanted))
  BY <1>2, <1>4, FS_Interval, FS_Surjection
<1>6. \A i \in 1..n : wanted[i] \in Names \cup {Blank}
  BY <1>2
<1>7. \A i \in DOMAIN list : Valid(list[i]) /\ CategoryNamed(list[i].category) = {} =>
         list[i].category \in ToSet(wanted) \ (Range(categories) \cup {Blank})
  <2>1. SUFFICES ASSUME NEW i \in DOMAIN list, Valid(list[i]), CategoryNamed(list[i].category) = {}
                 PROVE  list[i].category \in ToSet(wanted) /\ list[i].category \notin Range(categories)
                        /\ list[i].category # Blank
    OBVIOUS
  <2>2. wanted[i] = list[i].category /\ i \in DOMAIN wanted
    BY <2>1
  <2> HIDE DEF wanted
  <2> QED BY <2>1, <2>2 DEF Valid, CategoryNamed, Range, ToSet
<1>8. ToSet(wanted) \subseteq Names \cup {Blank}
  BY <1>2, <1>6 DEF ToSet
<1> HIDE DEF wanted
<1>9. IsFiniteSet(NewCategories(list))
  BY <1>3, <1>5, FS_Subset
<1> QED BY <1>1, <1>3, <1>7, <1>8, <1>9

(* A row of an imported list that is good for something.  *)
LEMMA AppliedIs ==
  ASSUME StockTypes, NEW list \in Lists, NEW mode \in Modes, NEW i \in DOMAIN list,
         NEW fresh \in SetToSeqs(NewCategories(list)), nextId.category + Len(fresh) <= MaxCategories + 1,
         NEW id \in ProductIds, Action(list[i], mode) \in {"create", "update"}
  PROVE  LET s == Applied(list[i], mode, id, fresh)
         IN  /\ s \in OfProducts
             /\ Action(list[i], mode) = "create" => s.do = "newProduct" /\ s.product = id
             /\ Action(list[i], mode) = "update" => s.do = "saveProduct" /\ s.product \in DOMAIN products
<1> DEFINE row == list[i]
           c == CategoryFor(row.category, fresh)
           Line == [category : Names \cup {Blank}, name : Names \cup {Blank}, stock : Nat]
<1>1. row \in Line
  <2> HIDE DEF Line
  <2>1. list \in Seq(Line)
    BY FreshNames DEF Line
  <2> QED BY <2>1, LenProperties
<1>2. Valid(row) /\ row.name \in Names /\ row.category \in Names /\ row.stock \in Nat
  BY <1>1, CatalogueAssumption DEF Action, Valid
<1>3. c \in CategoryIds
  <2>1. CASE CategoryNamed(row.category) # {}
    <3>1. CategoryNamed(row.category) \in SUBSET (1..MaxCategories) /\ MaxCategories \in Nat
      BY CatalogueAssumption DEF StockTypes, CategoryNamed, CategoryIds
    <3> QED BY <2>1, <3>1, LargestExists DEF CategoryFor, CategoryIds
  <2>2. CASE CategoryNamed(row.category) = {}
    <3>1. row.category \in NewCategories(list) /\ IsFiniteSet(NewCategories(list))
      BY <1>2, <2>2, FreshNames
    <3>2. DOMAIN fresh = 1..Len(fresh) /\ Len(fresh) \in Nat /\ \E k \in DOMAIN fresh : fresh[k] = row.category
      BY <3>1, OrdersOf
    <3> DEFINE k == CHOOSE j \in DOMAIN fresh : fresh[j] = row.category
    <3>3. k \in 1..Len(fresh)
      BY <3>2
    <3>4. c = nextId.category + k - 1
      BY <2>2 DEF CategoryFor
    <3>5. nextId.category \in Nat /\ nextId.category >= 1 /\ MaxCategories \in Nat
      BY IdsAre, CatalogueAssumption DEF StockTypes
    <3> HIDE DEF k, c
    <3> QED BY <3>2, <3>3, <3>4, <3>5 DEF CategoryIds
  <2> QED BY <2>1, <2>2
<1>4. CASE Action(row, mode) = "create"
  <2>1. Applied(row, mode, id, fresh) = NewProduct(id, row.name, c, row.stock)
    BY <1>4 DEF Applied
  <2> HIDE DEF c, row
  <2>2. NewProduct(id, row.name, c, row.stock) \in ProductInserts
    BY <1>2, <1>3 DEF NewProduct, ProductInserts, ProductRow
  <2>3. NewProduct(id, row.name, c, row.stock).do = "newProduct" /\ NewProduct(id, row.name, c, row.stock).product = id
    BY DEF NewProduct
  <2> QED BY <1>4, <2>1, <2>2, <2>3 DEF OfProducts, row
<1>5. CASE Action(row, mode) = "update"
  <2> DEFINE old == Latest(Matches(row))
  <2>1. Matches(row) # {}
    BY <1>2, <1>5 DEF Action
  <2>2. Matches(row) \in SUBSET (1..MaxProducts) /\ MaxProducts \in Nat /\ Matches(row) \subseteq DOMAIN products
    BY CatalogueAssumption DEF StockTypes, Matches, Live, ProductIds
  <2>3. old \in DOMAIN products
    BY <2>1, <2>2, LargestExists
  <2>4. Applied(row, mode, id, fresh) = SaveProduct(old, [products[old] EXCEPT !.category = c])
    BY <1>5 DEF Applied
  <2> HIDE DEF c, row, old
  <2>5. products[old] \in ProductRow /\ old \in ProductIds /\ products[old].stock \in Nat
    BY <2>3 DEF StockTypes, ProductRow
  <2>6. [products[old] EXCEPT !.category = c] \in ProductRow
    BY <1>3, <2>5 DEF ProductRow
  <2> DEFINE s == SaveProduct(old, [products[old] EXCEPT !.category = c])
  <2>7. s \in ProductSaves /\ s.do = "saveProduct" /\ s.product = old
    BY <2>5, <2>6 DEF SaveProduct, ProductSaves
  <2> QED BY <1>5, <2>3, <2>4, <2>7 DEF OfProducts, row
<1> QED BY <1>4, <1>5

(* The products of a list that come before a row, and so its id.  *)
LEMMA RowsBefore ==
  ASSUME NEW n \in Nat, NEW R \in SUBSET (1..n)
  PROVE  /\ IsFiniteSet(R) /\ Cardinality(R) \in Nat
         /\ \A i \in R : Cardinality({j \in R : j < i}) \in Nat /\ Cardinality({j \in R : j < i}) < Cardinality(R)
         /\ \A i, k \in R : Cardinality({j \in R : j < i}) = Cardinality({j \in R : j < k}) => i = k
<1>1. IsFiniteSet(R) /\ Cardinality(R) \in Nat
  <2>1. IsFiniteSet(1..n)
    BY FS_Interval
  <2> QED BY <2>1, FS_Subset, FS_CardinalityType
<1>2. ASSUME NEW A \in SUBSET R, NEW B \in SUBSET A, NEW x \in A, x \notin B
      PROVE  Cardinality(B) \in Nat /\ Cardinality(A) \in Nat /\ Cardinality(B) < Cardinality(A)
  <2>1. IsFiniteSet(A) /\ IsFiniteSet(B)
    BY <1>1, FS_Subset
  <2>2. Cardinality(B) <= Cardinality(A) /\ Cardinality(B) # Cardinality(A)
    BY <1>2, <2>1, FS_Subset
  <2> QED BY <2>1, <2>2, FS_CardinalityType
<1>3. ASSUME NEW i \in R
      PROVE  Cardinality({j \in R : j < i}) \in Nat /\ Cardinality({j \in R : j < i}) < Cardinality(R)
  <2>1. {j \in R : j < i} \in SUBSET R /\ i \notin {j \in R : j < i} /\ R \in SUBSET R
    OBVIOUS
  <2> QED BY <1>2, <2>1
<1>4. ASSUME NEW i \in R, NEW k \in R, i < k
      PROVE  Cardinality({j \in R : j < i}) < Cardinality({j \in R : j < k})
  <2>1. {j \in R : j < i} \in SUBSET {j \in R : j < k}
    <3>1. \A j \in R : j \in Int
      OBVIOUS
    <3>2. \A j \in R : j < i => j < k
      BY <1>4, <3>1
    <3> QED BY <3>2
  <2>2. i \in {j \in R : j < k} /\ i \notin {j \in R : j < i} /\ {j \in R : j < k} \in SUBSET R
    BY <1>4
  <2> QED BY <1>2, <2>1, <2>2
<1>5. ASSUME NEW i \in R, NEW k \in R, Cardinality({j \in R : j < i}) = Cardinality({j \in R : j < k}) PROVE i = k
  <2>1. i \in Int /\ k \in Int
    OBVIOUS
  <2>2. CASE i < k
    BY <1>3, <1>4, <1>5, <2>2
  <2>3. CASE k < i
    BY <1>3, <1>4, <1>5, <2>3
  <2> QED BY <2>1, <2>2, <2>3
<1> QED BY <1>1, <1>3, <1>5

(* The import makes the new categories, then the products, each with an id of its own.  *)
LEMMA ImportBegins ==
  ASSUME StockTypes, NEW w \in Workers, NEW list \in Lists, NEW mode \in Modes, ImportProducts(w, list, mode)
  PROVE  \E t : CatalogueBegun(w, t)
<1> DEFINE fresh == SetToSeq(NewCategories(list))
           Made == {i \in DOMAIN list : Action(list[i], mode) = "create"}
           Moved == {i \in DOMAIN list : Action(list[i], mode) = "update"}
           Id(i) == nextId.product + Cardinality({j \in Made : j < i})
           Category(i) == [do |-> "saveCategory", category |-> nextId.category + i - 1, name |-> fresh[i], with |-> {}]
           a == [i \in DOMAIN fresh |-> Category(i)]
           n == Len(list)
<1>1. PICK order \in Ascending(Made \cup Moved) :
         Start(w, a \o [k \in DOMAIN order |-> Applied(list[order[k]], mode, Id(order[k]), fresh)])
  BY DEF ImportProducts
<1> DEFINE b == [k \in DOMAIN order |-> Applied(list[order[k]], mode, Id(order[k]), fresh)]
           t == a \o b
<1>2. /\ nextId.category + Len(fresh) <= MaxCategories + 1
      /\ nextId.product + Cardinality(Made) <= MaxProducts + 1
      /\ nextId' = [nextId EXCEPT !.category = nextId.category + Len(fresh), !.product = nextId.product + Cardinality(Made)]
      /\ UNCHANGED <<categories, products, movements, drifted>>
  BY DEF ImportProducts
<1>3. n \in Nat /\ DOMAIN list = 1..n
  BY FreshNames, LenProperties
<1>4. /\ fresh \in SetToSeqs(NewCategories(list)) /\ NewCategories(list) \subseteq Names
      /\ Len(fresh) \in Nat /\ DOMAIN fresh = 1..Len(fresh) /\ \A i \in DOMAIN fresh : fresh[i] \in Names
  <2>1. IsFiniteSet(NewCategories(list)) /\ NewCategories(list) \subseteq Names
    BY FreshNames
  <2>2. /\ fresh \in SetToSeqs(NewCategories(list)) /\ fresh \in [1..Cardinality(NewCategories(list)) -> NewCategories(list)]
        /\ Cardinality(NewCategories(list)) \in Nat /\ Len(fresh) = Cardinality(NewCategories(list))
        /\ DOMAIN fresh = 1..Len(fresh)
    BY <2>1, OrdersOf
  <2> QED BY <2>1, <2>2
<1>5. /\ nextId.category \in Nat /\ nextId.category >= 1 /\ nextId.product \in Nat /\ nextId.product >= 1
      /\ nextId \in Ids /\ MaxCategories \in Nat /\ MaxProducts \in Nat
  BY IdsAre, CatalogueAssumption DEF StockTypes
<1>6. Made \in SUBSET (1..n) /\ Moved \in SUBSET (1..n) /\ Made \cap Moved = {}
  BY <1>3
<1>7. /\ IsFiniteSet(Made \cup Moved) /\ Cardinality(Made \cup Moved) \in Nat /\ Cardinality(Made) \in Nat
      /\ \A i \in Made : Id(i) \in ProductIds /\ nextId.product <= Id(i) /\ Id(i) < nextId.product + Cardinality(Made)
      /\ \A i, k \in Made : Id(i) = Id(k) => i = k
  <2>1. (Made \cup Moved) \in SUBSET (1..n)
    BY <1>6
  <2> HIDE DEF Made, Moved
  <2>2. IsFiniteSet(Made \cup Moved) /\ Cardinality(Made \cup Moved) \in Nat
    BY <1>3, <2>1, RowsBefore
  <2>3. /\ Cardinality(Made) \in Nat
        /\ \A i \in Made : Cardinality({j \in Made : j < i}) \in Nat /\ Cardinality({j \in Made : j < i}) < Cardinality(Made)
        /\ \A i, k \in Made : Cardinality({j \in Made : j < i}) = Cardinality({j \in Made : j < k}) => i = k
    BY <1>3, <1>6, RowsBefore
  <2> DEFINE before(i) == Cardinality({j \in Made : j < i})
             all == Cardinality(Made)
  <2>4. \A i \in Made : before(i) \in Nat /\ before(i) < all
    BY <2>3
  <2>5. all \in Nat /\ nextId.product + all <= MaxProducts + 1
    BY <1>2, <2>3
  <2>6. \A i, k \in Made : before(i) = before(k) => i = k
    BY <2>3
  <2>7. \A i \in Made : Id(i) = nextId.product + before(i)
    OBVIOUS
  <2> HIDE DEF before, all, Id, Made
  <2>8. /\ \A i \in Made : Id(i) \in 1..MaxProducts /\ nextId.product <= Id(i) /\ Id(i) < nextId.product + all
        /\ \A i, k \in Made : Id(i) = Id(k) => i = k
    BY <1>5, <2>4, <2>5, <2>6, <2>7
  <2> QED BY <2>2, <2>5, <2>8 DEF ProductIds, all
<1>8. /\ order \in [1..Cardinality(Made \cup Moved) -> Made \cup Moved]
      /\ \A i, j \in DOMAIN order : order[i] = order[j] => i = j
  <2>1. order \in [1..Cardinality(Made \cup Moved) -> Made \cup Moved] /\ \A i, j \in DOMAIN order : i < j => order[i] < order[j]
    BY DEF Ascending
  <2>2. \A i \in DOMAIN order : order[i] \in Int /\ i \in Int
    BY <1>6, <2>1
  <2> QED BY <2>1, <2>2
<1> DEFINE m == Cardinality(Made \cup Moved)
<1>9. a \in Seq(OfProducts) /\ Len(a) = Len(fresh) /\ \A i \in 1..Len(fresh) : a[i].do = "saveCategory"
  <2>1. \A i \in DOMAIN fresh : Category(i) \in CategorySaves
    BY <1>2, <1>4, <1>5 DEF CategorySaves, CategoryIds
  <2>2. \A i \in DOMAIN fresh : Category(i) \in OfProducts /\ Category(i).do = "saveCategory"
    BY <2>1 DEF OfProducts
  <2> HIDE DEF Category, fresh
  <2> QED BY <1>4, <2>2
<1>10. ASSUME NEW k \in 1..m
       PROVE  /\ b[k] \in OfProducts /\ order[k] \in Made \cup Moved
              /\ order[k] \in Made => b[k].do = "newProduct" /\ b[k].product = Id(order[k])
              /\ order[k] \in Moved => b[k].do = "saveProduct" /\ b[k].product \in DOMAIN products
  <2>1. order[k] \in Made \cup Moved /\ b[k] = Applied(list[order[k]], mode, Id(order[k]), fresh)
    BY <1>8
  <2> DEFINE i == order[k]
  <2>2. i \in DOMAIN list /\ Action(list[i], mode) \in {"create", "update"}
    BY <2>1
  <2>3. CASE i \in Made
    <3>1. Id(i) \in ProductIds /\ Action(list[i], mode) = "create"
      BY <1>7, <2>3
    <3> HIDE DEF Id, fresh, i
    <3>2. LET s == Applied(list[i], mode, Id(i), fresh) IN s \in OfProducts /\ s.do = "newProduct" /\ s.product = Id(i)
      BY <1>2, <1>4, <2>2, <3>1, AppliedIs
    <3> QED BY <1>6, <2>1, <2>3, <3>2 DEF i
  <2>4. CASE i \in Moved
    <3>1. Action(list[i], mode) = "update"
      BY <2>4
    <3>2. Applied(list[i], mode, Id(i), fresh) = Applied(list[i], mode, nextId.product, fresh)
      BY <3>1 DEF Applied
    <3>3. MaxProducts >= 1 /\ 1 \in ProductIds
      <4>1. list[i] \in [category : Names \cup {Blank}, name : Names \cup {Blank}, stock : Nat]
        BY <2>2, FreshNames, LenProperties
      <4>2. Matches(list[i]) # {}
        BY <3>1 DEF Action
      <4> QED BY <1>5, <4>2 DEF Matches, Live, StockTypes, ProductIds
    <3>4. Applied(list[i], mode, Id(i), fresh) = Applied(list[i], mode, 1, fresh)
      BY <3>1 DEF Applied
    <3> HIDE DEF Id, fresh, i
    <3>5. LET s == Applied(list[i], mode, 1, fresh) IN s \in OfProducts /\ s.do = "saveProduct" /\ s.product \in DOMAIN products
      BY <1>2, <1>4, <2>2, <3>1, <3>3, AppliedIs
    <3> QED BY <1>6, <2>1, <2>4, <3>4, <3>5 DEF i
  <2> QED BY <2>1, <2>3, <2>4
<1>11. b \in Seq(OfProducts) /\ Len(b) = m
  <2>1. DOMAIN order = 1..m /\ m \in Nat
    BY <1>7, <1>8
  <2>2. b = [k \in 1..m |-> b[k]]
    BY <2>1
  <2>3. \A k \in 1..m : b[k] \in OfProducts
    BY <1>10
  <2> HIDE DEF b, m
  <2>4. b \in [1..m -> OfProducts]
    BY <2>2, <2>3
  <2> QED BY <2>1, <2>4
<1> HIDE DEF Made, Moved, Id, fresh, a, b, m
<1>12. /\ t \in Seq(OfProducts) /\ Len(t) = Len(a) + m /\ DOMAIN t = 1..(Len(a) + m) /\ m \in Nat /\ Len(a) \in Nat
       /\ \A i \in 1..Len(a) : t[i].do = "saveCategory"
       /\ \A i \in Len(a) + 1..Len(a) + m : t[i] = b[i - Len(a)]
  <2>1. /\ t \in Seq(OfProducts) /\ Len(t) = Len(a) + Len(b)
        /\ \A i \in 1..Len(a) + Len(b) : t[i] = IF i <= Len(a) THEN a[i] ELSE b[i - Len(a)]
    BY <1>9, <1>11, ConcatProperties
  <2>2. Len(a) \in Nat /\ m \in Nat /\ DOMAIN t = 1..Len(t)
    BY <1>9, <1>11, <2>1, LenProperties
  <2> HIDE DEF t
  <2>3. Len(t) = Len(a) + m /\ DOMAIN t = 1..(Len(a) + m)
    BY <1>11, <2>1, <2>2
  <2>4. \A i \in 1..Len(a) : t[i].do = "saveCategory"
    <3>1. \A i \in 1..Len(a) : i \in 1..Len(a) + Len(b) /\ i <= Len(a)
      BY <1>11, <2>2
    <3>2. \A i \in 1..Len(a) : t[i] = a[i]
      BY <2>1, <3>1
    <3> QED BY <1>9, <3>2
  <2>5. \A i \in Len(a) + 1..Len(a) + m : t[i] = b[i - Len(a)]
    <3>1. \A i \in Len(a) + 1..Len(a) + m : i \in 1..Len(a) + Len(b) /\ ~ (i <= Len(a))
      BY <1>11, <2>2
    <3> QED BY <2>1, <3>1
  <2> QED BY <2>1, <2>2, <2>3, <2>4, <2>5
<1>13. task[w] = <<>> /\ Turn(w, t)
  BY <1>1, StartTurns DEF b
<1> HIDE DEF t
<1>14. ASSUME NEW k \in DOMAIN t
       PROVE  \/ t[k].do = "saveCategory" /\ k <= Len(a)
              \/ /\ k - Len(a) \in 1..m /\ t[k] = b[k - Len(a)]
                 /\ \/ t[k].do = "saveProduct" /\ t[k].product \in DOMAIN products
                    \/ t[k].do = "newProduct" /\ order[k - Len(a)] \in Made /\ t[k].product = Id(order[k - Len(a)])
  <2>1. CASE k <= Len(a)
    BY <1>12, <2>1
  <2>2. CASE ~ (k <= Len(a))
    <3>1. k - Len(a) \in 1..m /\ t[k] = b[k - Len(a)]
      BY <1>12, <2>2
    <3> QED BY <1>10, <3>1
  <2> QED BY <2>1, <2>2
<1>15. MovesInTurn(t)
  BY <1>14 DEF MovesInTurn
<1>16. nextId' \in Ids /\ nextId'.product = nextId.product + Cardinality(Made) /\ nextId'.count = nextId.count /\ nextId'.item = nextId.item
  <2> DEFINE x == nextId.category + Len(fresh)
             y == nextId.product + Cardinality(Made)
  <2>1. nextId' = [nextId EXCEPT !.category = x, !.product = y]
    BY <1>2
  <2>2. [nextId EXCEPT !.category = x, !.product = y] \in Ids
    BY <1>2, <1>4, <1>5, <1>7, IdsMove
  <2> HIDE DEF x, y
  <2>3. nextId'.product = y /\ nextId'.count = nextId.count /\ nextId'.item = nextId.item
    BY <1>5, <2>1, IdsThen
  <2> QED BY <2>1, <2>2, <2>3 DEF y
<1>17. ASSUME NEW j \in DOMAIN t, NEW k \in DOMAIN t, t[j].do = "newProduct", t[k].do = "newProduct", t[j].product = t[k].product
       PROVE  j = k
  <2>1. /\ j - Len(a) \in 1..m /\ order[j - Len(a)] \in Made /\ t[j].product = Id(order[j - Len(a)])
        /\ k - Len(a) \in 1..m /\ order[k - Len(a)] \in Made /\ t[k].product = Id(order[k - Len(a)])
    BY <1>14, <1>17
  <2>2. order[j - Len(a)] = order[k - Len(a)]
    BY <1>7, <1>17, <2>1
  <2>3. j - Len(a) = k - Len(a)
    BY <1>8, <2>1, <2>2 DEF m
  <2> QED BY <1>12, <2>3
<1>18. \A k \in DOMAIN t :
         /\ t[k].do # "movement"
         /\ t[k].do \in {"saveProduct", "softRemove"} => t[k].product \in DOMAIN products
         /\ t[k].do = "newProduct" => nextId.product <= t[k].product /\ t[k].product < nextId'.product
  BY <1>7, <1>14, <1>16
<1>19. nextId.product <= nextId'.product
  BY <1>5, <1>7, <1>16
<1>20. CatalogueBegun(w, t)
  BY <1>2, <1>12, <1>13, <1>15, <1>16, <1>17, <1>18, <1>19 DEF CatalogueBegun
<1> QED BY <1>20

(* Every handler of the catalogue begins so.  *)
LEMMA CatalogueBegins ==
  ASSUME StockTypes, NEW w \in Workers, CatalogueRequest(w)
  PROVE  \E t : CatalogueBegun(w, t)
<1>1. \A quantity \in (-MaxStock..MaxStock) \ {0} : quantity \in Int
  BY CatalogueAssumption
<1> QED BY <1>1, CategoryBegins, ProductBegins, StockBegins, ImportBegins DEF CatalogueRequest

-----------------------------------------------------------------------------
(* What a step leaves alone.  *)
LEMMA BookedCounts ==
  ASSUME StockTypes, NEW c, NEW p
  PROVE  IsFiniteSet(Booked(c, p)) /\ Cardinality(Booked(c, p)) \in Nat
<1>1. Len(movements) \in Nat /\ DOMAIN movements = 1..Len(movements)
  BY LenProperties DEF StockTypes
<1>2. IsFiniteSet(1..Len(movements)) /\ Booked(c, p) \in SUBSET (1..Len(movements))
  BY <1>1, FS_Interval DEF Booked
<1> QED BY <1>2, FS_Subset, FS_CardinalityType

(* A count stays sound when a step touches neither it nor a completion of it.  *)
LEMMA Untouched ==
  ASSUME StockTypes, StockTypes', NEW c \in CountIds, CountSound(c),
         \A v \in Workers : Concerns(v, c)' => Concerns(v, c),
         \A v \in Workers : IsCompletion(task[v], c) \/ IsCompletion(task'[v], c) => task'[v] = task[v],
         c \in DOMAIN counts' <=> c \in DOMAIN counts, c \in DOMAIN counts => counts'[c] = counts[c],
         ItemsOf(c)' \subseteq ItemsOf(c), \A i \in ItemsOf(c)' : items'[i] = items[i],
         \A p \in ProductIds : Booked(c, p)' = Booked(c, p),
         cut[c] <= cut'[c], removed \subseteq removed'
  PROVE  CountSound(c)'
<1>1. cut[c] \in Nat /\ cut'[c] \in Nat /\ \A p \in ProductIds : Cardinality(Booked(c, p)) \in Nat
  BY BookedCounts DEF StockTypes
<1>2. \A i \in ItemsOf(c)' : i \in ItemsOf(c) /\ items'[i] = items[i] /\ items[i].count = c /\ items[i].product \in ProductIds
  BY DEF StockTypes, ItemsOf, ItemRow
<1>3. ASSUME NEW i \in ItemsOf(c)', Covered(i) PROVE Covered(i)'
  BY <1>2, <1>3 DEF Covered, Difference
<1>4. \A p \in ProductIds : Cardinality(Booked(c, p))' = Cardinality(Booked(c, p))
  OBVIOUS
<1>5. ASSUME NEW v \in Workers, IsCompletion(task'[v], c) PROVE Underway(v, c)'
  <2>1. task'[v] = task[v] /\ Underway(v, c)
    BY <1>5 DEF CountSound
  <2>2. Due(task'[v], c) = Due(task[v], c)
    BY <2>1
  <2>3. c \in DOMAIN counts' /\ counts'[c] # "completed" /\ ItemsOf(c)' \subseteq task'[v][Len(task'[v])].with /\ Distinct(task'[v], c)
    BY <2>1 DEF Underway
  <2>4. \A i \in ItemsOf(c)' : Covered(i)' \/ items'[i].product \in Due(task'[v], c)
    BY <1>2, <1>3, <2>1, <2>2 DEF Underway
  <2>5. \A p \in ProductIds : Cardinality(Booked(c, p))' <= IF p \in Due(task'[v], c) THEN cut'[c] ELSE 1 + cut'[c]
    BY <1>1, <1>4, <2>1, <2>2 DEF Underway
  <2> QED BY <2>3, <2>4, <2>5 DEF Underway
<1>6. ASSUME IsCompleted(c)' PROVE Finished(c)'
  <2>1. Finished(c)
    BY <1>6 DEF CountSound, IsCompleted
  <2> QED BY <1>1, <1>2, <1>3, <1>4, <2>1 DEF Finished
<1>7. ASSUME \A w \in Workers : ~ IsCompletion(task'[w], c), ~ IsCompleted(c)'
      PROVE  \A p \in ProductIds : Cardinality(Booked(c, p))' <= cut'[c]
  <2>1. (\A w \in Workers : ~ IsCompletion(task[w], c)) /\ ~ IsCompleted(c)
    BY <1>7 DEF IsCompleted
  <2>2. \A p \in ProductIds : Cardinality(Booked(c, p)) <= cut[c]
    BY <2>1 DEF CountSound
  <2> QED BY <1>1, <1>4, <2>2
<1>8. \A w, v \in Workers : Concerns(w, c)' /\ Concerns(v, c)' => w = v
  BY DEF CountSound
<1> QED BY <1>5, <1>6, <1>7, <1>8 DEF CountSound

(* What a step of the catalogue notes for the counts.  *)
Noted ==
  /\ removed' = removed \cup {p \in DOMAIN products' : products'[p].deleted}
  /\ cut' = [c \in CountIds |-> cut[c] + IF CutOff(c) THEN 1 ELSE 0]
  /\ UNCHANGED <<counts, items, raced>>

(* The histories only grow, and a completion that is cut off is noted.  *)
LEMMA NotesGrow ==
  ASSUME StockTypes, Noted, DOMAIN products' \subseteq ProductIds
  PROVE  /\ cut' \in [CountIds -> Nat] /\ removed' \subseteq ProductIds /\ removed \subseteq removed'
         /\ \A c \in CountIds : cut[c] \in Nat /\ cut[c] <= cut'[c] /\ (CutOff(c) => cut'[c] = cut[c] + 1)
         /\ \A p \in DOMAIN products' : products'[p].deleted => p \in removed'
<1>1. \A c \in CountIds : cut[c] \in Nat /\ cut'[c] = cut[c] + IF CutOff(c) THEN 1 ELSE 0
  BY DEF StockTypes, Noted
<1>2. cut' = [c \in CountIds |-> cut'[c]]
  BY DEF Noted
<1>3. \A c \in CountIds : cut'[c] \in Nat /\ cut[c] <= cut'[c] /\ (CutOff(c) => cut'[c] = cut[c] + 1)
  BY <1>1
<1>4. cut' \in [CountIds -> Nat]
  BY <1>2, <1>3
<1> QED BY <1>1, <1>3, <1>4 DEF StockTypes, Noted

(* Who concerns a count.  *)
LEMMA ConcernIs ==
  ASSUME NEW t \in Seq(Jobs), NEW c
  PROVE  /\ (\E i \in DOMAIN t : "count" \in DOMAIN t[i] /\ t[i].count = c)
              <=> \E i \in DOMAIN t : t[i] \in OfCounts /\ t[i].count = c
         /\ t \in Seq(OfProducts) => ~ \E i \in DOMAIN t : "count" \in DOMAIN t[i] /\ t[i].count = c
         /\ t \in Seq(OfProducts) => ~ IsCompletion(t, c)
<1>1. \A i \in DOMAIN t : t[i] \in Jobs /\ i \in 1..Len(t)
  BY LenProperties
<1>2. \A s \in OfProducts : s \in Jobs
  BY DEF Jobs
<1>3. \A s \in OfProducts : s \notin OfCounts
  <2>1. SUFFICES ASSUME NEW s \in OfProducts, s \in OfCounts PROVE FALSE
    OBVIOUS
  <2>2. s.do \in {"saveCount", "removeCount", "saveItem", "adjust"}
    BY <1>2, <2>1, JobKinds
  <2> QED BY <2>1, <2>2 DEF OfProducts, CategorySaves, CategoryRemovals, ProductInserts, ProductSaves,
                            ProductRemovals, MovementInserts
<1>4. ASSUME t \in Seq(OfProducts), NEW i \in DOMAIN t PROVE t[i] \in OfProducts
  BY <1>4, LenProperties
<1>5. ASSUME t \in Seq(OfProducts) PROVE ~ IsCompletion(t, c)
  <2>1. SUFFICES ASSUME IsCompletion(t, c) PROVE FALSE
    OBVIOUS
  <2>2. Len(t) \in DOMAIN t
    BY <2>1, EmptySeq, LenProperties DEF IsCompletion
  <2>3. t[Len(t)] \in OfProducts /\ t[Len(t)] \in OfCounts
    BY <1>1, <1>4, <1>5, <2>1, <2>2, JobKinds DEF IsCompletion
  <2> QED BY <1>3, <2>3
<1> QED BY <1>1, <1>3, <1>4, <1>5, JobKinds

-----------------------------------------------------------------------------
(* A request of the catalogue begins.  *)
LEMMA OfProductsAre ==
  ASSUME NEW t \in Seq(OfProducts)
  PROVE  t \in Seq(Jobs) /\ \A k \in DOMAIN t : t[k] \in OfProducts /\ t[k].do \notin {"saveCount", "removeCount", "saveItem", "adjust"}
<1>1. OfProducts \subseteq Jobs
  BY DEF Jobs
<1>2. \A k \in DOMAIN t : t[k] \in OfProducts
  BY LenProperties
<1>3. \A s \in OfProducts : s.do \notin {"saveCount", "removeCount", "saveItem", "adjust"}
  BY DEF OfProducts, CategorySaves, CategoryRemovals, ProductInserts, ProductSaves, ProductRemovals, MovementInserts
<1> QED BY <1>1, <1>2, <1>3, SeqMonotonic

(* Nothing to do is a plan.  *)
LEMMA EmptyPlan ==
  <<>> \in Seq(Jobs) /\ DOMAIN <<>> = {} /\ IsOther(<<>>) /\ MovesInTurn(<<>>) /\ \A c : ~ IsCompletion(<<>>, c)
BY EmptySeq, LenProperties DEF IsOther, MovesInTurn, IsCompletion

(* A beginning of the catalogue keeps the types,  *)
LEMMA BegunTypes ==
  ASSUME StockTypes, NEW w \in Workers, NEW t, CatalogueBegun(w, t), Noted
  PROVE  StockTypes'
<1>1. t \in Seq(Jobs)
  BY OfProductsAre DEF CatalogueBegun
<1>2. DOMAIN task' = Workers /\ \A v \in Workers : task'[v] \in Seq(Jobs)
  BY <1>1 DEF CatalogueBegun, Turn, StockTypes
<1>3. DOMAIN products' \subseteq ProductIds
  BY DEF StockTypes, CatalogueBegun
<1>4. cut' \in [CountIds -> Nat] /\ removed' \subseteq ProductIds
  BY <1>3, NotesGrow
<1>5. UNCHANGED <<categories, products, movements, drifted, counts, items, raced>> /\ nextId' \in Ids
  BY DEF CatalogueBegun, Noted
<1> QED BY <1>2, <1>4, <1>5 DEF StockTypes

(* what is said of the products,  *)
LEMMA BegunProducts ==
  ASSUME StockTypes, ProductsInv, NEW w \in Workers, NEW t, CatalogueBegun(w, t), Noted
  PROVE  ProductsInv'
<1>1. task[w] = <<>> /\ task'[w] = t /\ \A v \in Workers \ {w} : task'[v] = task[v]
  BY DEF CatalogueBegun, Turn
<1>2. /\ products' = products /\ nextId.product \in Nat /\ nextId'.product \in Nat /\ nextId.product <= nextId'.product
      /\ \A p \in ProductIds : p \in Nat
  BY IdsAre DEF CatalogueBegun, StockTypes, ProductIds
<1>3. \A p \in DOMAIN products' : products'[p].deleted => p \in removed'
  BY <1>2, NotesGrow DEF StockTypes
<1>4. \A p \in DOMAIN products' : p < nextId'.product
  BY <1>2 DEF ProductsInv, StockTypes
<1>5. \A v \in Workers : MovesInTurn(task'[v])
  BY <1>1 DEF ProductsInv, CatalogueBegun
<1>6. \A v \in Workers : \A k \in DOMAIN task'[v] :
         task'[v][k].do \in {"saveProduct", "softRemove", "adjust"} => task'[v][k].product \in DOMAIN products'
  <2>1. \A k \in DOMAIN t : t[k].do \in {"saveProduct", "softRemove", "adjust"} => t[k].product \in DOMAIN products
    BY OfProductsAre DEF CatalogueBegun
  <2> QED BY <1>1, <1>2, <2>1 DEF ProductsInv
<1>7. \A v \in Workers, k \in Nat : IsNew(v, k)' <=> k \in DOMAIN task'[v] /\ task'[v][k].do = "newProduct"
  BY DEF IsNew
<1>8. \A v \in Workers \ {w}, k \in Nat : IsNew(v, k)' => IsNew(v, k) /\ task'[v] = task[v]
  BY <1>1 DEF IsNew
<1>9. \A k \in Nat : IsNew(w, k)' =>
         k \in DOMAIN t /\ t[k].do = "newProduct" /\ nextId.product <= t[k].product /\ t[k].product < nextId'.product
         /\ task'[w][k] = t[k] /\ t[k].product \in ProductIds
  <2>1. SUFFICES ASSUME NEW k \in Nat, IsNew(w, k)' PROVE k \in DOMAIN t /\ t[k].do = "newProduct" /\ t[k].product \in ProductIds
    BY <1>1 DEF CatalogueBegun
  <2>2. k \in DOMAIN t /\ t[k].do = "newProduct"
    BY <1>1, <2>1 DEF IsNew
  <2>3. t[k] \in Jobs
    BY <2>2, OfProductsAre DEF CatalogueBegun, Jobs
  <2> QED BY <2>2, <2>3, JobKinds DEF ProductInserts
<1>10. ASSUME NEW v \in Workers, NEW k \in Nat, IsNew(v, k)'
       PROVE  /\ task'[v][k].product \notin DOMAIN products /\ task'[v][k].product < nextId'.product
              /\ v # w => task'[v][k].product < nextId.product
  <2>1. CASE v = w
    BY <1>2, <1>4, <1>9, <1>10, <2>1 DEF ProductsInv, StockTypes
  <2>2. CASE v # w
    <3>1. IsNew(v, k) /\ task'[v] = task[v] /\ task[v][k].product \in ProductIds
      <4>1. IsNew(v, k) /\ task'[v] = task[v]
        BY <1>8, <1>10, <2>2
      <4>2. task[v][k] \in Jobs /\ task[v][k].do = "newProduct"
        BY <4>1, LenProperties DEF IsNew, StockTypes
      <4> QED BY <4>1, <4>2, JobKinds DEF ProductInserts
    <3>2. task[v][k].product \notin DOMAIN products /\ task[v][k].product < nextId.product
      BY <3>1 DEF ProductsInv
    <3> QED BY <1>2, <3>1, <3>2
  <2> QED BY <2>1, <2>2
<1>11. ASSUME NEW v \in Workers, NEW k \in Nat, IsNew(v, k)', NEW u \in Workers, NEW j \in Nat, IsNew(u, j)',
              task'[u][j].product = task'[v][k].product
       PROVE  u = v /\ j = k
  <2>1. CASE u # w /\ v # w
    BY <1>8, <1>11, <2>1 DEF ProductsInv
  <2>2. CASE u = w /\ v = w
    BY <1>9, <1>11, <2>2 DEF CatalogueBegun
  <2>3. CASE u = w /\ v # w
    <3>1. task'[v][k].product < nextId.product /\ nextId.product <= t[j].product /\ t[j].product \in ProductIds
      BY <1>9, <1>10, <1>11, <2>3
    <3> QED BY <1>1, <1>2, <1>11, <2>3, <3>1
  <2>4. CASE u # w /\ v = w
    <3>1. task'[u][j].product < nextId.product /\ nextId.product <= t[k].product /\ t[k].product \in ProductIds
      BY <1>9, <1>10, <1>11, <2>4
    <3> QED BY <1>1, <1>2, <1>11, <2>4, <3>1
  <2> QED BY <2>1, <2>2, <2>3, <2>4
<1> QED BY <1>2, <1>3, <1>4, <1>5, <1>6, <1>10, <1>11 DEF ProductsInv

(* and the invariant.  *)
LEMMA BegunKeeps ==
  ASSUME StockInv, NEW w \in Workers, NEW t, CatalogueBegun(w, t), Noted
  PROVE  StockInv'
<1>1. StockTypes /\ ProductsInv /\ ItemsInv /\ PlansInv /\ CountsInv
  BY DEF StockInv
<1>2. StockTypes' /\ ProductsInv'
  BY <1>1, BegunTypes, BegunProducts
<1>3. task[w] = <<>> /\ task'[w] = t /\ (\A v \in Workers \ {w} : task'[v] = task[v])
      /\ UNCHANGED <<products, counts, items, raced, movements>> /\ nextId'.count = nextId.count /\ nextId'.item = nextId.item
  BY DEF CatalogueBegun, Turn, Noted
<1>4. t \in Seq(OfProducts) /\ t \in Seq(Jobs)
      /\ \A k \in DOMAIN t : t[k].do \notin {"saveCount", "removeCount", "saveItem", "adjust"}
  BY OfProductsAre DEF CatalogueBegun
<1>5. ASSUME NEW c \in CountIds PROVE \A v \in Workers : Concerns(v, c)' => Concerns(v, c)
  <2>1. ~ Concerns(w, c)'
    BY <1>3, <1>4, ConcernIs DEF Concerns
  <2> QED BY <1>3, <2>1 DEF Concerns
<1>6. \A v \in Workers : Unsaved(v)' = Unsaved(v)
  <2>1. Unsaved(w)' = {}
    BY <1>3, <1>4 DEF Unsaved
  <2>2. Unsaved(w) = {}
    BY <1>3, EmptyPlan DEF Unsaved
  <2>3. \A v \in Workers \ {w} : Unsaved(v)' = Unsaved(v)
    BY <1>3 DEF Unsaved
  <2> QED BY <2>1, <2>2, <2>3
<1>7. ItemsInv'
  <2>1. Entered' = Entered
    BY <1>3, <1>6 DEF Entered, Saved
  <2>2. \A v \in Workers : \A k \in DOMAIN task'[v] : task'[v][k].do = "saveItem" => task'[v][k].row.count = task'[v][k].count
    BY <1>1, <1>3, <1>4 DEF ItemsInv
  <2>3. \A v \in Workers, c \in CountIds : Concerns(v, c)' => c < nextId'.count
    BY <1>1, <1>3, <1>5 DEF ItemsInv
  <2> QED BY <1>1, <1>3, <2>1, <2>2, <2>3 DEF ItemsInv
<1>8. PlansInv'
  <2>1. IsOther(t)
    BY <1>4 DEF IsOther, CatalogueBegun
  <2> QED BY <1>1, <1>3, <2>1 DEF PlansInv
<1>9. CountsInv'
  <2>1. SUFFICES ASSUME NEW c \in CountIds \ raced' PROVE CountSound(c)'
    BY DEF CountsInv
  <2>2. CountSound(c)
    BY <1>1, <1>3, <2>1 DEF CountsInv
  <2>3. \A v \in Workers : IsCompletion(task[v], c) \/ IsCompletion(task'[v], c) => task'[v] = task[v]
    BY <1>3, <1>4, EmptyPlan, ConcernIs
  <2>4. cut[c] <= cut'[c] /\ removed \subseteq removed'
    BY <1>1, <1>2, NotesGrow DEF StockTypes
  <2>5. \A p \in ProductIds : Booked(c, p)' = Booked(c, p)
    BY <1>3 DEF Booked
  <2>6. ItemsOf(c)' = ItemsOf(c) /\ \A i \in ItemsOf(c)' : items'[i] = items[i]
    BY <1>3 DEF ItemsOf
  <2> QED BY <1>1, <1>2, <1>3, <1>5, <2>2, <2>3, <2>4, <2>5, <2>6, Untouched
<1> QED BY <1>2, <1>7, <1>8, <1>9 DEF StockInv

-----------------------------------------------------------------------------
(* A request about count c has read what it needs and begins.  *)
FreshItem(s, c) ==
  /\ nextId.item <= s.item /\ s.item < nextId'.item /\ s.row.product \in DOMAIN products
  /\ \A i \in ItemsOf(c) : items[i].product # s.row.product
KnownItem(s, c) == s.item \in DOMAIN items /\ items[s.item].count = c /\ items[s.item].product = s.row.product
CountBegun(w, c, t) ==
  /\ task[w] = <<>> /\ Turn(w, t) /\ t \in Seq(OfCounts)
  /\ c \in CountIds /\ c < nextId'.count /\ ~ IsCompleted(c)
  /\ \A k \in DOMAIN t :
       /\ t[k].count = c
       /\ t[k].do = "adjust" => t[k].product \in DOMAIN products
       /\ t[k].do = "saveItem" => t[k].row.count = c /\ (FreshItem(t[k], c) \/ KnownItem(t[k], c))
  /\ \A j, k \in DOMAIN t :
       /\ t[j].do = "saveItem" /\ t[k].do = "saveItem"
       /\ t[j].item = t[k].item \/ t[j].row.product = t[k].row.product
       => j = k
  /\ \/ IsOther(t)
     \/ /\ IsCompletion(t, c) /\ c \in DOMAIN counts /\ ItemsOf(c) \subseteq t[Len(t)].with
        /\ (c \notin raced' => Distinct(t, c))
        /\ \A i \in ItemsOf(c) : Difference(items[i]) = 0 \/ items[i].product \in Due(t, c)
  /\ raced' = IF \E o \in Workers : Concerns(o, c) THEN raced \cup {c} ELSE raced
  /\ nextId' \in Ids
  /\ nextId'.product = nextId.product /\ nextId.count <= nextId'.count /\ nextId.item <= nextId'.item
  /\ UNCHANGED <<categories, products, movements, drifted, counts, items, cut, removed>>

(* The tasks of the requests about a count.  *)
LEMMA OfCountsAre ==
  ASSUME NEW t \in Seq(OfCounts)
  PROVE  /\ t \in Seq(Jobs)
         /\ \A k \in DOMAIN t :
              /\ t[k] \in OfCounts /\ t[k] \in Jobs /\ "count" \in DOMAIN t[k]
              /\ t[k].do \in {"saveCount", "removeCount", "saveItem", "adjust"}
<1>1. OfCounts \subseteq Jobs
  BY DEF Jobs
<1>2. \A k \in DOMAIN t : t[k] \in OfCounts
  BY LenProperties
<1> QED BY <1>1, <1>2, SeqMonotonic, JobKinds

(* A completion concerns its count, and no other one.  *)
LEMMA CompletionConcerns ==
  ASSUME NEW t \in Seq(Jobs), NEW c, IsCompletion(t, c)
  PROVE  /\ \E i \in DOMAIN t : "count" \in DOMAIN t[i] /\ t[i].count = c
         /\ Len(t) \in DOMAIN t /\ DOMAIN t = 1..Len(t) /\ Len(t) \in Nat /\ Len(t) >= 1
         /\ ~ IsOther(t) /\ \A d : IsCompletion(t, d) => d = c
<1>1. Len(t) \in DOMAIN t /\ DOMAIN t = 1..Len(t) /\ Len(t) \in Nat /\ Len(t) >= 1
  BY EmptySeq, LenProperties DEF IsCompletion
<1>2. t[Len(t)] \in Jobs /\ t[Len(t)].do = "saveCount" /\ t[Len(t)].count = c /\ t[Len(t)].status = "completed"
  BY <1>1, LenProperties DEF IsCompletion
<1>3. "count" \in DOMAIN t[Len(t)]
  BY <1>2, JobKinds
<1>4. ~ IsOther(t)
  BY <1>1, <1>2 DEF IsOther
<1>5. \A d : IsCompletion(t, d) => d = c
  BY <1>2 DEF IsCompletion
<1> QED BY <1>1, <1>2, <1>3, <1>4, <1>5

(* A beginning about a count keeps the types,  *)
LEMMA CountBegunTypes ==
  ASSUME StockTypes, NEW w \in Workers, NEW c, NEW t, CountBegun(w, c, t)
  PROVE  StockTypes'
<1>1. t \in Seq(Jobs)
  BY OfCountsAre DEF CountBegun
<1>2. DOMAIN task' = Workers /\ \A v \in Workers : task'[v] \in Seq(Jobs)
  BY <1>1 DEF CountBegun, Turn, StockTypes
<1>3. raced' \subseteq CountIds
  BY DEF CountBegun, StockTypes
<1>4. UNCHANGED <<categories, products, movements, drifted, counts, items, cut, removed>> /\ nextId' \in Ids
  BY DEF CountBegun
<1> QED BY <1>2, <1>3, <1>4 DEF StockTypes

(* what is said of the products,  *)
LEMMA CountBegunProducts ==
  ASSUME StockTypes, ProductsInv, NEW w \in Workers, NEW c, NEW t, CountBegun(w, c, t)
  PROVE  ProductsInv'
<1>1. task'[w] = t /\ \A v \in Workers \ {w} : task'[v] = task[v]
  BY DEF CountBegun, Turn
<1>2. products' = products /\ removed' = removed /\ nextId'.product = nextId.product
  BY DEF CountBegun
<1>3. \A k \in DOMAIN t : t[k].do \in {"saveCount", "removeCount", "saveItem", "adjust"}
  BY OfCountsAre DEF CountBegun
<1>4. \A v \in Workers : MovesInTurn(task'[v])
  <2>1. MovesInTurn(t)
    BY <1>3 DEF MovesInTurn
  <2> QED BY <1>1, <2>1 DEF ProductsInv
<1>5. \A v \in Workers, k \in Nat : IsNew(v, k)' => v # w /\ task'[v] = task[v] /\ IsNew(v, k)
  BY <1>1, <1>3 DEF IsNew
<1>6. \A v \in Workers : \A k \in DOMAIN task'[v] :
         task'[v][k].do \in {"saveProduct", "softRemove", "adjust"} => task'[v][k].product \in DOMAIN products
  <2>1. \A k \in DOMAIN t : t[k].do \in {"saveProduct", "softRemove", "adjust"} => t[k].product \in DOMAIN products
    BY <1>3 DEF CountBegun
  <2> QED BY <1>1, <2>1 DEF ProductsInv
<1>7. \A v \in Workers, k \in Nat : IsNew(v, k)' =>
       /\ task'[v][k].product \notin DOMAIN products' /\ task'[v][k].product < nextId'.product
       /\ \A u \in Workers, j \in Nat :
            IsNew(u, j)' /\ task'[u][j].product = task'[v][k].product => u = v /\ j = k
  BY <1>2, <1>5 DEF ProductsInv
<1>8. \A p \in DOMAIN products' : p < nextId'.product /\ (products'[p].deleted => p \in removed')
  BY <1>2 DEF ProductsInv
<1> QED BY <1>2, <1>4, <1>6, <1>7, <1>8 DEF ProductsInv

(* what is said of the items: fresh ones have new ids, known ones stay what they are,  *)
LEMMA CountBegunItems ==
  ASSUME StockTypes, StockTypes', ItemsInv, NEW w \in Workers, NEW c, NEW t, CountBegun(w, c, t)
  PROVE  ItemsInv'
<1>1. task[w] = <<>> /\ task'[w] = t /\ \A v \in Workers \ {w} : task'[v] = task[v]
  BY DEF CountBegun, Turn
<1>2. UNCHANGED <<products, counts, items>> /\ raced \subseteq raced' /\ nextId.item <= nextId'.item
      /\ nextId.count <= nextId'.count /\ c < nextId'.count /\ c \in CountIds
  BY DEF CountBegun
<1>3. /\ nextId.item \in Nat /\ nextId'.item \in Nat /\ nextId.count \in Nat /\ nextId'.count \in Nat
      /\ \A d \in CountIds : d \in Nat
      /\ \A i \in ItemIds : i \in Nat
  BY IdsAre DEF StockTypes, CountIds, ItemIds
<1>4. \A k \in DOMAIN t : t[k].do = "saveItem" => t[k].count = c /\ t[k].row.count = c /\ t[k].item \in ItemIds
  <2>1. \A k \in DOMAIN t : t[k].do = "saveItem" => t[k] \in ItemSaves
    BY OfCountsAre, JobKinds DEF CountBegun
  <2> QED BY <2>1 DEF ItemSaves, CountBegun
<1> DEFINE Rec(k) == [item |-> t[k].item, count |-> t[k].count, product |-> t[k].row.product]
           Is(k) == k \in DOMAIN t /\ t[k].do = "saveItem" /\ FreshItem(t[k], c)
<1>5. \A x \in Unsaved(w)' : x \in Saved \/ \E k : Is(k) /\ x = Rec(k)
  <2>1. SUFFICES ASSUME NEW k \in DOMAIN t, t[k].do = "saveItem", ~ FreshItem(t[k], c) PROVE Rec(k) \in Saved
    BY <1>1 DEF Unsaved
  <2>2. KnownItem(t[k], c)
    BY <2>1 DEF CountBegun
  <2> QED BY <1>4, <2>1, <2>2 DEF KnownItem, Saved
<1>6. \A v \in Workers \ {w} : Unsaved(v)' = Unsaved(v)
  BY <1>1 DEF Unsaved
<1>7. \A x \in Entered' : x \in Entered \/ \E k : Is(k) /\ x = Rec(k)
  <2>1. Saved' = Saved
    BY <1>2 DEF Saved
  <2> HIDE DEF Rec, Is
  <2> QED BY <1>5, <1>6, <2>1 DEF Entered
<1>8. \A x \in Entered : x.item \in Nat /\ x.item < nextId.item /\ x.count \in Nat /\ x.count < nextId.count /\ x.product \in DOMAIN products
  <2>1. \A x \in Saved : x.item \in Nat /\ x.count \in Nat
    BY <1>3 DEF Saved, StockTypes, ItemRow
  <2>2. \A v \in Workers : \A x \in Unsaved(v) : x.item \in Nat /\ x.count \in Nat
    <3>1. SUFFICES ASSUME NEW v \in Workers, NEW k \in DOMAIN task[v], task[v][k].do = "saveItem"
                   PROVE  task[v][k].item \in Nat /\ task[v][k].count \in Nat
      BY DEF Unsaved
    <3>2. task[v][k] \in Jobs
      BY LenProperties DEF StockTypes
    <3> QED BY <1>3, <3>1, <3>2, JobKinds DEF ItemSaves
  <2> QED BY <2>1, <2>2 DEF Entered, ItemsInv
<1>9. \A k : Is(k) => Rec(k).item \in Nat /\ Rec(k).item >= nextId.item /\ Rec(k).item < nextId'.item
                      /\ Rec(k).product \in DOMAIN products /\ Rec(k).count = c /\ Rec(k).count < nextId'.count
  BY <1>2, <1>3, <1>4 DEF FreshItem
<1>10. \A j, k : Is(j) /\ Is(k) /\ (Rec(j).item = Rec(k).item \/ Rec(j).product = Rec(k).product) => Rec(j) = Rec(k)
  BY DEF CountBegun
<1>11. ASSUME NEW x \in Entered, x.count = c, c \notin raced' PROVE x \in Saved
  <2>1. SUFFICES ASSUME NEW v \in Workers, x \in Unsaved(v) PROVE FALSE
    BY DEF Entered
  <2>2. PICK k \in DOMAIN task[v] : task[v][k].do = "saveItem" /\ task[v][k].count = c
    BY <1>11, <2>1 DEF Unsaved
  <2>3. task[v][k] \in Jobs
    BY LenProperties DEF StockTypes
  <2>4. Concerns(v, c)
    BY <2>2, <2>3, JobKinds DEF Concerns
  <2> QED BY <1>11, <2>4 DEF CountBegun
<1>12. ASSUME NEW x \in Saved, x.count = c, NEW k, Is(k) PROVE x.product # Rec(k).product
  BY <1>12 DEF Saved, FreshItem, ItemsOf
<1> HIDE DEF Rec, Is
<1>13. \A x \in Entered' : x.item < nextId'.item /\ x.count < nextId'.count /\ x.product \in DOMAIN products'
  BY <1>2, <1>3, <1>7, <1>8, <1>9
<1>14. ASSUME NEW x \in Entered', NEW y \in Entered', x.item = y.item PROVE x = y
  <2>1. CASE x \in Entered /\ y \in Entered
    BY <1>14, <2>1 DEF ItemsInv
  <2>2. CASE \E k : Is(k) /\ x = Rec(k)
    BY <1>3, <1>7, <1>8, <1>9, <1>10, <1>14, <2>2
  <2>3. CASE \E k : Is(k) /\ y = Rec(k)
    BY <1>3, <1>7, <1>8, <1>9, <1>10, <1>14, <2>3
  <2> QED BY <1>7, <2>1, <2>2, <2>3
<1>15. ASSUME NEW x \in Entered', NEW y \in Entered', x.count = y.count, x.product = y.product, x.count \notin raced'
       PROVE  x = y
  <2>1. CASE x \in Entered /\ y \in Entered
    BY <1>2, <1>15, <2>1 DEF ItemsInv
  <2>2. CASE x \in Entered /\ \E k : Is(k) /\ y = Rec(k)
    BY <1>9, <1>11, <1>12, <1>15, <2>2
  <2>3. CASE y \in Entered /\ \E k : Is(k) /\ x = Rec(k)
    BY <1>9, <1>11, <1>12, <1>15, <2>3
  <2>4. CASE (\E k : Is(k) /\ x = Rec(k)) /\ \E k : Is(k) /\ y = Rec(k)
    BY <1>10, <1>15, <2>4
  <2> QED BY <1>7, <2>1, <2>2, <2>3, <2>4
<1>16. \A d \in DOMAIN counts' : d < nextId'.count
  BY <1>2, <1>3 DEF ItemsInv, StockTypes
<1>17. ASSUME NEW v \in Workers, NEW d \in CountIds, Concerns(v, d)' PROVE d < nextId'.count
  <2>1. CASE v = w
    BY <1>1, <1>2, <1>17, <2>1 DEF Concerns, CountBegun
  <2>2. CASE v # w
    BY <1>1, <1>2, <1>3, <1>17, <2>2 DEF Concerns, ItemsInv
  <2> QED BY <2>1, <2>2
<1>18. \A v \in Workers : \A k \in DOMAIN task'[v] : task'[v][k].do = "saveItem" => task'[v][k].row.count = task'[v][k].count
  BY <1>1, <1>4 DEF ItemsInv
<1> QED BY <1>13, <1>14, <1>15, <1>16, <1>17, <1>18 DEF ItemsInv

(* and the invariant: a completion that begins finds nothing booked but what was cut off.  *)
LEMMA CountBegunKeeps ==
  ASSUME StockInv, NEW w \in Workers, NEW c, NEW t, CountBegun(w, c, t)
  PROVE  StockInv'
<1>1. StockTypes /\ ProductsInv /\ ItemsInv /\ PlansInv /\ CountsInv
  BY DEF StockInv
<1>2. StockTypes' /\ ProductsInv'
  BY <1>1, CountBegunTypes, CountBegunProducts
<1>3. ItemsInv'
  BY <1>1, <1>2, CountBegunItems
<1>4. task[w] = <<>> /\ task'[w] = t /\ (\A v \in Workers \ {w} : task'[v] = task[v])
      /\ UNCHANGED <<products, movements, counts, items, cut, removed>> /\ c \in CountIds /\ ~ IsCompleted(c) /\ raced \subseteq raced'
  BY DEF CountBegun, Turn
<1>5. PlansInv'
  BY <1>1, <1>4 DEF PlansInv, CountBegun
<1>6. \A v \in Workers : \A d : IsCompletion(task[v], d) => Concerns(v, d)
  BY <1>1, CompletionConcerns DEF StockTypes, Concerns
<1>7. \A v \in Workers : \A d : IsCompletion(task'[v], d) => Concerns(v, d)'
  BY <1>2, CompletionConcerns DEF StockTypes, Concerns
<1>8. \A d, p : Booked(d, p)' = Booked(d, p)
  BY <1>4 DEF Booked
<1>9. \A d : ItemsOf(d)' = ItemsOf(d)
  BY <1>4 DEF ItemsOf
<1>10. \A d : Concerns(w, d)' => d = c
  BY <1>4 DEF Concerns, CountBegun
<1>11. \A v \in Workers \ {w} : \A d : Concerns(v, d)' <=> Concerns(v, d)
  BY <1>4 DEF Concerns
<1>12. CountsInv'
  <2>1. SUFFICES ASSUME NEW d \in CountIds \ raced' PROVE CountSound(d)'
    BY DEF CountsInv
  <2>2. CountSound(d)
    BY <1>1, <1>4, <2>1 DEF CountsInv
  <2>3. CASE d # c
    <3>1. \A v \in Workers : Concerns(v, d)' => Concerns(v, d)
      BY <1>10, <1>11, <2>3
    <3>2. \A v \in Workers : IsCompletion(task[v], d) \/ IsCompletion(task'[v], d) => task'[v] = task[v]
      BY <1>4, <1>7, <1>10, <2>3, EmptyPlan
    <3>3. cut[d] <= cut'[d]
      BY <1>1, <1>4 DEF StockTypes
    <3> QED BY <1>1, <1>2, <1>4, <1>8, <1>9, <2>2, <3>1, <3>2, <3>3, Untouched
  <2>4. CASE d = c
    <3>1. \A o \in Workers : ~ Concerns(o, c)
      BY <2>1, <2>4 DEF CountBegun
    <3>2. \A v \in Workers : ~ IsCompletion(task[v], c)
      BY <1>6, <3>1
    <3>3. \A p \in ProductIds : Cardinality(Booked(c, p)) \in Nat /\ Cardinality(Booked(c, p)) <= cut[c] /\ cut[c] \in Nat
      BY <1>1, <1>4, <2>2, <2>4, <3>2, BookedCounts DEF CountSound, StockTypes
    <3>4. \A v \in Workers : Concerns(v, c)' => v = w
      BY <1>11, <3>1
    <3>5. ASSUME NEW v \in Workers, IsCompletion(task'[v], c) PROVE Underway(v, c)'
      <4>1. v = w /\ IsCompletion(t, c)
        BY <1>4, <1>7, <3>4, <3>5
      <4>2. ~ IsOther(t)
        BY <4>1, OfCountsAre, CompletionConcerns DEF CountBegun
      <4>3. /\ c \in DOMAIN counts /\ ItemsOf(c) \subseteq t[Len(t)].with /\ Distinct(t, c)
            /\ \A i \in ItemsOf(c) : Difference(items[i]) = 0 \/ items[i].product \in Due(t, c)
        BY <2>1, <2>4, <4>2 DEF CountBegun
      <4>4. counts[c] # "completed"
        BY <1>4, <4>3 DEF IsCompleted
      <4>5. \A i \in ItemsOf(c)' : Covered(i)' \/ items'[i].product \in Due(task'[v], c)
        BY <1>4, <1>9, <4>1, <4>3 DEF Covered, Difference
      <4>6. \A p \in ProductIds : Cardinality(Booked(c, p))' <= IF p \in Due(task'[v], c) THEN cut'[c] ELSE 1 + cut'[c]
        BY <1>4, <1>8, <3>3
      <4>7. c \in DOMAIN counts' /\ counts'[c] # "completed" /\ ItemsOf(c)' \subseteq task'[v][Len(task'[v])].with
            /\ Distinct(task'[v], c)
        BY <1>4, <1>9, <4>1, <4>3, <4>4
      <4> QED BY <4>5, <4>6, <4>7 DEF Underway
    <3>6. ~ IsCompleted(c)'
      BY <1>4 DEF IsCompleted
    <3>7. \A p \in ProductIds : Cardinality(Booked(c, p))' <= cut'[c]
      BY <1>4, <1>8, <3>3
    <3> QED BY <2>4, <3>4, <3>5, <3>6, <3>7 DEF CountSound
  <2> QED BY <2>3, <2>4
<1> QED BY <1>2, <1>3, <1>5, <1>12 DEF StockInv

-----------------------------------------------------------------------------
(* The requests about a count.  *)
LEMMA BeginsOneOfCount ==
  ASSUME StockTypes, NEW w \in Workers, NEW c \in CountIds, ~ IsCompleted(c), NEW s \in CountSaves \cup CountRemovals,
         s.count = c, s.do = "saveCount" => s.status # "completed", CountRequest(w, c, <<s>>),
         c < nextId'.count, nextId' \in Ids,
         nextId'.product = nextId.product, nextId.count <= nextId'.count, nextId.item <= nextId'.item
  PROVE  CountBegun(w, c, <<s>>)
<1> DEFINE t == <<s>>
<1>1. s \in OfCounts /\ s.do \in {"saveCount", "removeCount"}
  BY DEF OfCounts, CountSaves, CountRemovals
<1>2. t \in Seq(OfCounts) /\ DOMAIN t = {1} /\ t[1] = s
  BY <1>1
<1>3. task[w] = <<>> /\ Turn(w, t)
  BY StartTurns DEF CountRequest
<1> HIDE DEF t
<1>4. IsOther(t)
  BY <1>1, <1>2 DEF IsOther
<1>5. CountBegun(w, c, t)
  BY <1>1, <1>2, <1>3, <1>4 DEF CountBegun, CountRequest
<1> QED BY <1>5 DEF t

(* Changes of the status and deletion.  *)
LEMMA OneOfCountBegins ==
  ASSUME StockInv, NEW w \in Workers, NEW c \in DOMAIN counts
  PROVE  UpdateCount(w, c) \/ DeleteCount(w, c) \/ StartCount(w, c) \/ CancelCount(w, c) => \E d, t : CountBegun(w, d, t)
<1>1. c \in CountIds /\ c < nextId.count /\ counts[c] \in Statuses /\ ItemsOf(c) \subseteq ItemIds
      /\ nextId \in Ids /\ nextId.count \in Nat /\ nextId.item \in Nat
  BY IdsAre DEF StockInv, StockTypes, ItemsInv, ItemsOf
<1>2. ASSUME counts[c] # "completed", NEW s \in CountSaves \cup CountRemovals, s.count = c,
             s.do = "saveCount" => s.status # "completed", CountRequest(w, c, <<s>>), UNCHANGED nextId
      PROVE  \E d, t : CountBegun(w, d, t)
  <2>1. ~ IsCompleted(c)
    BY <1>2 DEF IsCompleted
  <2>2. c < nextId'.count /\ nextId' \in Ids /\ nextId'.product = nextId.product /\ nextId.count <= nextId'.count
        /\ nextId.item <= nextId'.item
    BY <1>1, <1>2
  <2>3. CountBegun(w, c, <<s>>)
    BY <1>1, <1>2, <2>1, <2>2, BeginsOneOfCount DEF StockInv
  <2> QED BY <2>3
<1>3. \A status \in Statuses : SaveCount(c, status) \in CountSaves /\ SaveCount(c, status).count = c
                               /\ SaveCount(c, status).status = status /\ SaveCount(c, status).do = "saveCount"
  BY <1>1 DEF SaveCount, CountSaves
<1>4. CASE UpdateCount(w, c)
  BY <1>1, <1>2, <1>3, <1>4 DEF UpdateCount
<1>5. CASE DeleteCount(w, c)
  <2> DEFINE s == [do |-> "removeCount", count |-> c]
  <2>1. s \in CountRemovals /\ s.count = c /\ s.do = "removeCount"
    BY <1>1 DEF CountRemovals
  <2>2. counts[c] # "completed" /\ CountRequest(w, c, <<s>>) /\ UNCHANGED nextId
    BY <1>5 DEF DeleteCount
  <2> HIDE DEF s
  <2> QED BY <1>2, <2>1, <2>2
<1>6. CASE StartCount(w, c)
  <2>1. "in_progress" \in Statuses /\ counts[c] # "completed"
    BY <1>6 DEF Statuses, StartCount
  <2> QED BY <1>2, <1>3, <1>6, <2>1 DEF StartCount
<1>7. CASE CancelCount(w, c)
  <2>1. "cancelled" \in Statuses
    BY DEF Statuses
  <2> QED BY <1>2, <1>3, <1>7, <2>1 DEF CancelCount
<1> QED BY <1>4, <1>5, <1>6, <1>7

(* A new count has an id of its own.  *)
LEMMA CreateCountBegins ==
  ASSUME StockInv, NEW w \in Workers, CreateCount(w)
  PROVE  \E d, t : CountBegun(w, d, t)
<1> DEFINE c == nextId.count
           s == SaveCount(c, "draft")
<1>1. nextId \in Ids /\ c \in Nat /\ c >= 1 /\ nextId.item \in Nat /\ c <= MaxCounts /\ MaxCounts \in Nat
  BY IdsAre, StockAssumption DEF StockInv, StockTypes, CreateCount
<1>2. c \in CountIds
  BY <1>1 DEF CountIds
<1>3. ~ IsCompleted(c)
  BY <1>1 DEF StockInv, ItemsInv, IsCompleted
<1>4. s \in CountSaves /\ s.count = c /\ s.status = "draft"
  <2>1. ItemsOf(c) \subseteq ItemIds
    BY DEF StockInv, StockTypes, ItemsOf
  <2> QED BY <1>2, <2>1 DEF SaveCount, CountSaves, Statuses
<1>5. CountRequest(w, c, <<s>>) /\ nextId' = [nextId EXCEPT !.count = c + 1]
  BY DEF CreateCount
<1> HIDE DEF c
<1>6. c + 1 <= MaxCounts + 1
  BY <1>1
<1>7. nextId' \in Ids
  BY <1>1, <1>5, <1>6, IdsMove DEF c
<1>8. nextId'.count = c + 1 /\ nextId'.product = nextId.product /\ nextId'.item = nextId.item
  BY <1>1, <1>5, IdsThen
<1>9. c < nextId'.count /\ nextId.count <= nextId'.count /\ nextId.item <= nextId'.item
  BY <1>1, <1>8 DEF c
<1> HIDE DEF s
<1>10. CountBegun(w, c, <<s>>)
  BY <1>2, <1>3, <1>4, <1>5, <1>7, <1>8, <1>9, BeginsOneOfCount DEF StockInv
<1> QED BY <1>10

(* A counted quantity leaves the item its count and its product.  *)
LEMMA UpdateItemBegins ==
  ASSUME StockInv, NEW w \in Workers, NEW i \in DOMAIN items, NEW quantity \in Nat, UpdateItem(w, i, quantity)
  PROVE  \E d, t : CountBegun(w, d, t)
<1> DEFINE c == items[i].count
           row == [items[i] EXCEPT !.counted = quantity]
           s == SaveItem(i, row)
           t == <<s>>
<1>1. items[i] \in ItemRow /\ i \in ItemIds /\ c \in CountIds
  BY DEF StockInv, StockTypes, ItemRow
<1>2. row \in ItemRow /\ row.count = c /\ row.product = items[i].product
  BY <1>1 DEF ItemRow
<1>3. s \in ItemSaves /\ s.do = "saveItem" /\ s.item = i /\ s.count = c /\ s.row = row
  BY <1>1, <1>2 DEF ItemSaves, SaveItem
<1>4. counts[c] = "in_progress" /\ CountRequest(w, c, t) /\ UNCHANGED nextId
  BY DEF UpdateItem
<1> HIDE DEF s, row
<1>5. t \in Seq(OfCounts) /\ DOMAIN t = {1} /\ t[1] = s
  <2>1. s \in OfCounts
    BY <1>3 DEF OfCounts
  <2> QED BY <2>1
<1>6. task[w] = <<>> /\ Turn(w, t)
  BY <1>4, StartTurns DEF CountRequest, StockInv
<1> HIDE DEF t
<1>7. IsOther(t) /\ KnownItem(s, c)
  BY <1>2, <1>3, <1>5 DEF IsOther, KnownItem
<1>8. c < nextId.count /\ nextId \in Ids /\ nextId.count \in Nat /\ nextId.item \in Nat
  <2>1. [item |-> i, count |-> c, product |-> items[i].product] \in Entered
    BY DEF Entered, Saved
  <2> QED BY <2>1, IdsAre DEF StockInv, StockTypes, ItemsInv
<1>9. c < nextId'.count /\ nextId' \in Ids /\ nextId'.product = nextId.product /\ nextId.count <= nextId'.count
      /\ nextId.item <= nextId'.item /\ ~ IsCompleted(c)
  BY <1>4, <1>8 DEF IsCompleted
<1>10. CountBegun(w, c, t)
  BY <1>1, <1>2, <1>3, <1>4, <1>5, <1>6, <1>7, <1>9 DEF CountBegun, CountRequest
<1> QED BY <1>10

(* Items are added: each gets an id of its own.  *)
LEMMA AddItemsBegins ==
  ASSUME StockInv, NEW w \in Workers, NEW c \in DOMAIN counts, NEW chosen \in SUBSET Live, AddItems(w, c, chosen)
  PROVE  \E d, t : CountBegun(w, d, t)
<1> DEFINE n == Cardinality(chosen)
           already == {items[i].product : i \in ItemsOf(c)}
<1>1. /\ c \in CountIds /\ c < nextId.count /\ Live \subseteq DOMAIN products /\ Live \subseteq ProductIds
      /\ nextId \in Ids /\ nextId.count \in Nat /\ nextId.item \in Nat /\ nextId.item >= 1 /\ MaxItems \in Nat
      /\ \A p \in Live : products[p].stock \in Nat
  BY IdsAre, StockAssumption DEF StockInv, StockTypes, ItemsInv, Live, ProductRow
<1>2. IsFiniteSet(chosen) /\ n \in Nat
  <2>1. chosen \subseteq ProductIds
    BY <1>1
  <2>2. IsFiniteSet(ProductIds)
    BY CatalogueAssumption, FS_Interval DEF ProductIds
  <2> QED BY <2>1, <2>2, FS_Subset, FS_CardinalityType
<1>3. counts[c] = "draft" /\ chosen \cap already = {} /\ nextId.item + n <= MaxItems + 1
      /\ nextId' = [nextId EXCEPT !.item = nextId.item + n]
  BY DEF AddItems
<1>4. PICK order \in SetToSeqs(chosen) : CountRequest(w, c, [k \in DOMAIN order |-> NewItem(nextId.item + k - 1, c, order[k])])
  BY DEF AddItems
<1> DEFINE t == [k \in DOMAIN order |-> NewItem(nextId.item + k - 1, c, order[k])]
<1>5. /\ DOMAIN order = 1..n /\ \A k \in 1..n : order[k] \in chosen
      /\ \A j, k \in 1..n : order[j] = order[k] => j = k
  <2>1. order \in [1..n -> chosen] /\ DOMAIN order = 1..n /\ \A j, k \in DOMAIN order : order[j] = order[k] => j = k
    BY <1>2, OrdersOf
  <2> QED BY <2>1
<1>6. nextId' \in Ids /\ nextId'.item = nextId.item + n /\ nextId'.count = nextId.count /\ nextId'.product = nextId.product
  <2> HIDE DEF n, t
  <2>1. nextId' \in Ids
    BY <1>1, <1>2, <1>3, IdsMove
  <2>2. nextId'.item = nextId.item + n /\ nextId'.count = nextId.count /\ nextId'.product = nextId.product
    BY <1>1, <1>3, IdsThen
  <2> QED BY <2>1, <2>2
<1>7. DOMAIN t = 1..n /\ \A k \in 1..n : t[k] = NewItem(nextId.item + k - 1, c, order[k])
  BY <1>5
<1>8. ASSUME NEW k \in 1..n
      PROVE  /\ t[k] \in ItemSaves /\ t[k].do = "saveItem" /\ t[k].count = c /\ t[k].row.count = c
             /\ t[k].item = nextId.item + k - 1 /\ t[k].row.product = order[k]
  <2> DEFINE i == nextId.item + k - 1
             row == [count |-> c, product |-> order[k], expected |-> products[order[k]].stock, counted |-> Uncounted]
  <2>1. i \in ItemIds
    BY <1>1, <1>2, <1>3 DEF ItemIds
  <2>2. row \in ItemRow /\ row.count = c /\ row.product = order[k]
    BY <1>1, <1>5 DEF ItemRow
  <2>3. t[k] = SaveItem(i, row)
    BY <1>7 DEF NewItem
  <2> HIDE DEF i, row
  <2>4. t[k] \in ItemSaves /\ t[k].do = "saveItem" /\ t[k].count = c /\ t[k].row = row /\ t[k].item = i
    BY <1>1, <2>1, <2>2, <2>3 DEF ItemSaves, SaveItem
  <2> QED BY <2>2, <2>4 DEF i
<1> HIDE DEF t
<1>9. t \in Seq(OfCounts)
  <2>1. t \in [1..n -> OfCounts]
    <3>1. \A k \in 1..n : t[k] \in OfCounts
      BY <1>8 DEF OfCounts
    <3>2. t = [k \in DOMAIN order |-> t[k]]
      BY DEF t
    <3> QED BY <1>5, <3>1, <3>2
  <2> QED BY <1>2, <2>1
<1>10. task[w] = <<>> /\ Turn(w, t)
  BY <1>4, StartTurns DEF CountRequest, StockInv, t
<1>11. ASSUME NEW k \in 1..n PROVE FreshItem(t[k], c)
  <2>1. order[k] \in DOMAIN products /\ order[k] \notin already
    BY <1>1, <1>3, <1>5
  <2>2. nextId.item <= t[k].item /\ t[k].item < nextId'.item
    BY <1>1, <1>2, <1>6, <1>8
  <2> QED BY <1>8, <2>1, <2>2 DEF FreshItem
<1>12. \A j, k \in 1..n : t[j].item = t[k].item \/ t[j].row.product = t[k].row.product => j = k
  <2>1. SUFFICES ASSUME NEW j \in 1..n, NEW k \in 1..n, t[j].item = t[k].item \/ t[j].row.product = t[k].row.product PROVE j = k
    OBVIOUS
  <2>2. CASE t[j].item = t[k].item
    <3>1. nextId.item + j - 1 = nextId.item + k - 1 /\ j \in Nat /\ k \in Nat
      BY <1>8, <2>2
    <3> QED BY <1>1, <3>1
  <2>3. CASE t[j].row.product = t[k].row.product
    BY <1>5, <1>8, <2>3
  <2> QED BY <2>1, <2>2, <2>3
<1>13. IsOther(t)
  BY <1>7, <1>8 DEF IsOther
<1>14. ~ IsCompleted(c) /\ c < nextId'.count /\ nextId.count <= nextId'.count /\ nextId.item <= nextId'.item
  BY <1>1, <1>2, <1>3, <1>6 DEF IsCompleted
<1>15. CountRequest(w, c, t)
  BY <1>4 DEF t
<1>16. CountBegun(w, c, t)
  <2>1. \A k \in DOMAIN t : t[k].count = c /\ t[k].do # "adjust" /\ t[k].row.count = c /\ FreshItem(t[k], c)
    BY <1>7, <1>8, <1>11
  <2>2. \A j, k \in DOMAIN t : t[j].item = t[k].item \/ t[j].row.product = t[k].row.product => j = k
    BY <1>7, <1>12
  <2> QED BY <1>1, <1>6, <1>9, <1>10, <1>13, <1>14, <1>15, <2>1, <2>2 DEF CountBegun, CountRequest
<1> QED BY <1>16

(* Adding one product, and many.  *)
LEMMA ItemsBegin ==
  ASSUME StockInv, NEW w \in Workers, NEW c \in DOMAIN counts
  PROVE  (\E p \in Live : AddItem(w, c, p)) \/ BulkAddItems(w, c) => \E d, t : CountBegun(w, d, t)
<1>1. ASSUME NEW p \in Live, AddItem(w, c, p) PROVE \E d, t : CountBegun(w, d, t)
  <2>1. {p} \in SUBSET Live /\ AddItems(w, c, {p})
    BY <1>1 DEF AddItem
  <2> QED BY <2>1, AddItemsBegins
<1>2. ASSUME BulkAddItems(w, c) PROVE \E d, t : CountBegun(w, d, t)
  <2> DEFINE already == {items[i].product : i \in ItemsOf(c)}
  <2>1. PICK wanted : AddItems(w, c, {p \in wanted \cap Live : products[p].tracked} \ already)
    BY <1>2 DEF BulkAddItems
  <2> DEFINE chosen == {p \in wanted \cap Live : products[p].tracked} \ already
  <2>2. chosen \in SUBSET Live
    OBVIOUS
  <2> HIDE DEF already
  <2> QED BY <2>1, <2>2, AddItemsBegins
<1> QED BY <1>1, <1>2

(* A count is completed: what differs is adjusted, product by product.  *)
LEMMA CompleteCountBegins ==
  ASSUME StockInv, NEW w \in Workers, NEW c \in DOMAIN counts, CompleteCount(w, c)
  PROVE  \E d, t : CountBegun(w, d, t)
<1> DEFINE mine == {i \in ItemsOf(c) : items[i].counted # Uncounted /\ Difference(items[i]) # 0}
           n == Cardinality(mine)
           Job(i) == Adjust(c, items[i].product, Difference(items[i]))
           s == SaveCount(c, "completed")
<1>1. /\ c \in CountIds /\ c < nextId.count /\ mine \subseteq ItemsOf(c) /\ ItemsOf(c) \subseteq ItemIds
      /\ nextId \in Ids /\ nextId.count \in Nat /\ nextId.item \in Nat /\ MaxItems \in Nat
      /\ \A i \in ItemsOf(c) : items[i] \in ItemRow /\ items[i].count = c
  BY IdsAre, StockAssumption DEF StockInv, StockTypes, ItemsInv, ItemsOf
<1>2. IsFiniteSet(mine) /\ n \in Nat
  <2>1. mine \subseteq ItemIds
    BY <1>1
  <2>2. IsFiniteSet(ItemIds)
    BY <1>1, FS_Interval DEF ItemIds
  <2> QED BY <2>1, <2>2, FS_Subset, FS_CardinalityType
<1>3. counts[c] = "in_progress" /\ UNCHANGED nextId /\ \A i \in ItemsOf(c) : items[i].counted # Uncounted
  BY DEF CompleteCount
<1>4. PICK order \in SetToSeqs(mine) : CountRequest(w, c, [k \in DOMAIN order |-> Job(order[k])] \o <<s>>)
  BY DEF CompleteCount
<1> DEFINE a == [k \in DOMAIN order |-> Job(order[k])]
           t == a \o <<s>>
<1>5. /\ DOMAIN order = 1..n /\ \A k \in 1..n : order[k] \in mine
      /\ \A j, k \in 1..n : order[j] = order[k] => j = k
      /\ \A i \in mine : \E k \in 1..n : order[k] = i
  <2>1. /\ order \in [1..n -> mine] /\ DOMAIN order = 1..n /\ \A j, k \in DOMAIN order : order[j] = order[k] => j = k
        /\ \A i \in mine : \E k \in DOMAIN order : order[k] = i
    BY <1>2, OrdersOf
  <2> QED BY <2>1
<1>6. \A i \in mine : /\ Job(i) \in Adjustments /\ Job(i).do = "adjust" /\ Job(i).count = c
                      /\ Job(i).product = items[i].product
  <2>1. SUFFICES ASSUME NEW i \in mine PROVE Job(i) \in Adjustments /\ Job(i).do = "adjust" /\ Job(i).count = c
                                             /\ Job(i).product = items[i].product
    OBVIOUS
  <2>2. items[i].product \in ProductIds /\ items[i].expected \in Nat /\ items[i].counted \in Nat
    BY <1>1, <2>1 DEF ItemRow
  <2>3. Difference(items[i]) \in Int
    BY <2>2 DEF Difference
  <2> HIDE DEF mine
  <2> QED BY <1>1, <2>2, <2>3 DEF Adjust, Adjustments
<1>7. s \in CountSaves /\ s.do = "saveCount" /\ s.count = c /\ s.status = "completed" /\ s.with = ItemsOf(c)
  BY <1>1 DEF SaveCount, CountSaves, Statuses
<1> HIDE DEF mine, Job, s
<1>8. a \in Seq(OfCounts) /\ Len(a) = n
  <2>1. \A k \in 1..n : a[k] \in OfCounts
    BY <1>5, <1>6 DEF OfCounts
  <2>2. a \in [1..n -> OfCounts]
    BY <1>5, <2>1
  <2> QED BY <1>2, <2>2
<1>9. <<s>> \in Seq(OfCounts) /\ Len(<<s>>) = 1 /\ <<s>>[1] = s
  BY <1>7 DEF OfCounts
<1>10. \A k \in 1..n : a[k] = Job(order[k])
  BY <1>5
<1> HIDE DEF a
<1>11. /\ t \in Seq(OfCounts) /\ Len(t) = n + 1 /\ DOMAIN t = 1 .. n + 1 /\ t # <<>>
       /\ t[n + 1] = s /\ \A k \in 1..n : t[k] = Job(order[k])
  <2>1. t \in Seq(OfCounts) /\ Len(t) = n + 1
    BY <1>8, <1>9, ConcatProperties
  <2>2. \A k \in 1 .. n + 1 : t[k] = IF k <= n THEN a[k] ELSE <<s>>[k - n]
    BY <1>8, <1>9, ConcatProperties
  <2> HIDE DEF n, t
  <2>3. t[n + 1] = s /\ \A k \in 1..n : t[k] = Job(order[k])
    <3>1. n + 1 \in 1 .. n + 1 /\ ~ (n + 1 <= n) /\ (n + 1) - n = 1
      BY <1>2
    <3>2. t[n + 1] = s
      BY <1>9, <2>2, <3>1
    <3>3. \A k \in 1..n : k \in 1 .. n + 1 /\ k <= n
      BY <1>2
    <3>4. \A k \in 1..n : t[k] = a[k]
      BY <2>2, <3>3
    <3> QED BY <1>10, <3>2, <3>4
  <2>4. DOMAIN t = 1 .. n + 1 /\ t # <<>>
    BY <1>2, <2>1, EmptySeq, LenProperties
  <2> QED BY <2>1, <2>3, <2>4
<1>12. task[w] = <<>> /\ Turn(w, t) /\ CountRequest(w, c, t)
  <2>1. CountRequest(w, c, t)
    BY <1>4 DEF a
  <2> QED BY <2>1, StartTurns DEF CountRequest, StockInv
<1> HIDE DEF t
<1>13. \A k \in DOMAIN t : k = n + 1 \/ k \in 1..n
  BY <1>2, <1>11
<1>14. \A k \in 1..n : /\ t[k].do = "adjust" /\ t[k].count = c /\ order[k] \in ItemsOf(c) /\ order[k] \in DOMAIN items
                       /\ t[k].product = items[order[k]].product
  BY <1>1, <1>5, <1>6, <1>11 DEF ItemsOf
<1>15. \A i \in ItemsOf(c) : items[i].product \in DOMAIN products
  <2>1. \A i \in ItemsOf(c) : [item |-> i, count |-> items[i].count, product |-> items[i].product] \in Entered
    BY DEF Entered, Saved, ItemsOf
  <2> QED BY <2>1 DEF StockInv, ItemsInv
<1>16. \A k \in DOMAIN t : t[k].count = c /\ t[k].do # "saveItem" /\ (t[k].do = "adjust" => t[k].product \in DOMAIN products)
  BY <1>7, <1>11, <1>13, <1>14, <1>15
<1>17. \A k \in 1..n : \A p \in ProductIds : Books(t[k], c, p) <=> p = items[order[k]].product
  BY <1>14 DEF Books
<1>18. IsCompletion(t, c)
  <2>1. ASSUME NEW k \in 1 .. Len(t) - 1 PROVE \E p \in ProductIds : Books(t[k], c, p)
    <3>1. k \in 1..n
      BY <1>2, <1>11
    <3>2. items[order[k]].product \in ProductIds
      BY <1>1, <1>14, <3>1 DEF ItemRow
    <3> QED BY <1>17, <3>1, <3>2
  <2> QED BY <1>7, <1>11, <2>1 DEF IsCompletion
<1>19. ASSUME c \notin raced' PROVE Distinct(t, c)
  <2>1. c \notin raced
    BY <1>12, <1>19 DEF CountRequest
  <2>2. SUFFICES ASSUME NEW j \in DOMAIN t, NEW k \in DOMAIN t, NEW p \in ProductIds, Books(t[j], c, p), Books(t[k], c, p)
                 PROVE  j = k
    BY DEF Distinct
  <2>3. \A p2 \in ProductIds : ~ Books(t[n + 1], c, p2)
    BY <1>7, <1>11 DEF Books
  <2>4. j \in 1..n /\ k \in 1..n
    BY <1>13, <2>2, <2>3
  <2>5. items[order[j]].product = items[order[k]].product
    BY <1>17, <2>2, <2>4
  <2> DEFINE x == [item |-> order[j], count |-> items[order[j]].count, product |-> items[order[j]].product]
             y == [item |-> order[k], count |-> items[order[k]].count, product |-> items[order[k]].product]
  <2>6. x \in Entered /\ y \in Entered /\ x.count = c /\ y.count = c /\ x.product = y.product
    BY <1>1, <1>14, <2>4, <2>5 DEF Entered, Saved
  <2>7. x = y
    BY <2>1, <2>6 DEF StockInv, ItemsInv
  <2> QED BY <1>5, <2>4, <2>7
<1>20. ASSUME NEW i \in ItemsOf(c), Difference(items[i]) # 0 PROVE items[i].product \in Due(t, c)
  <2>1. i \in mine
    BY <1>3, <1>20 DEF mine
  <2>2. PICK k \in 1..n : order[k] = i
    BY <1>5, <2>1
  <2>3. k \in DOMAIN t /\ items[i].product \in ProductIds /\ Books(t[k], c, items[i].product)
    BY <1>1, <1>2, <1>11, <1>17, <1>20, <2>2 DEF ItemRow
  <2> QED BY <2>3 DEF Due
<1>21. ItemsOf(c) \subseteq t[Len(t)].with
  BY <1>7, <1>11
<1>22. ~ IsCompleted(c) /\ c < nextId'.count /\ nextId' \in Ids /\ nextId'.product = nextId.product
       /\ nextId.count <= nextId'.count /\ nextId.item <= nextId'.item
  BY <1>1, <1>3 DEF IsCompleted
<1>23. CountBegun(w, c, t)
  BY <1>1, <1>11, <1>12, <1>16, <1>18, <1>19, <1>20, <1>21, <1>22 DEF CountBegun, CountRequest
<1> QED BY <1>23

(* Every handler of a count begins so.  *)
LEMMA InventoryBegins ==
  ASSUME StockInv, NEW w \in Workers, InventoryRequest(w)
  PROVE  \E c, t : CountBegun(w, c, t)
<1>1. \A n \in 0..MaxStock : n \in Nat
  BY CatalogueAssumption
<1> QED BY <1>1, CreateCountBegins, OneOfCountBegins, ItemsBegin, CompleteCountBegins, UpdateItemBegins DEF InventoryRequest

-----------------------------------------------------------------------------
(* A statement of request w is run: what is left to do then, t, was to be done
   before, or is what the save of a product and its movement are made of.      *)
Proceeds(w, t) ==
  /\ task[w] # <<>> /\ Turn(w, t) /\ t \in Seq(Jobs) /\ MovesInTurn(t)
  /\ IsOther(t) \/ \E c \in CountIds : IsCompletion(t, c)
  /\ \A c : IsCompletion(t, c) => IsCompletion(task[w], c)
  /\ \A c : (\E i \in DOMAIN t : "count" \in DOMAIN t[i] /\ t[i].count = c) => Concerns(w, c)
  /\ \A k \in DOMAIN t :
       /\ t[k].do = "newProduct" => k + 1 \in DOMAIN task[w] /\ task[w][k + 1] = t[k]
       /\ t[k].do = "saveItem" => \E j \in DOMAIN task[w] : task[w][j] = t[k]
       /\ t[k].do \in {"saveProduct", "softRemove", "adjust"} => t[k].product \in DOMAIN products

(* What is to be done first, and then.  *)
LEMMA JobsAre ==
  ASSUME StockTypes, NEW w \in Workers, task[w] # <<>>
  PROVE  /\ task[w] \in Seq(Jobs) /\ Tail(task[w]) \in Seq(Jobs) /\ Len(task[w]) \in Nat /\ Len(task[w]) >= 1
         /\ DOMAIN task[w] = 1..Len(task[w]) /\ 1 \in DOMAIN task[w] /\ Now(w) = task[w][1] /\ Now(w) \in Jobs
         /\ DOMAIN Tail(task[w]) = 1 .. Len(task[w]) - 1 /\ Len(Tail(task[w])) = Len(task[w]) - 1
         /\ \A k \in DOMAIN Tail(task[w]) : k \in Nat /\ k >= 1 /\ k + 1 \in DOMAIN task[w] /\ Tail(task[w])[k] = task[w][k + 1]
<1>1. task[w] \in Seq(Jobs)
  BY DEF StockTypes
<1> DEFINE s == task[w]
<1> HIDE DEF s
<1>2. s \in Seq(Jobs) /\ s # <<>>
  BY <1>1 DEF s
<1>3. /\ Tail(s) \in Seq(Jobs) /\ Len(Tail(s)) = Len(s) - 1 /\ Len(s) \in Nat /\ Len(s) >= 1
      /\ DOMAIN s = 1..Len(s) /\ DOMAIN Tail(s) = 1..(Len(s) - 1) /\ Head(s) = s[1]
      /\ \A i \in 1 .. Len(s) - 1 : Tail(s)[i] = s[i + 1]
  BY <1>2, NextFirst
<1>4. 1 \in DOMAIN s /\ s[1] \in Jobs
  BY <1>2, <1>3, LenProperties
<1>5. \A k \in DOMAIN Tail(s) : k \in Nat /\ k >= 1 /\ k + 1 \in DOMAIN s
  BY <1>3
<1> QED BY <1>2, <1>3, <1>4, <1>5 DEF s, Now

(* The rest of a task, and nothing, are what is left of it.  *)
LEMMA TailProceeds ==
  ASSUME StockInv, NEW w \in Workers, task[w] # <<>>, NEW t, t = Tail(task[w]) \/ t = <<>>, Turn(w, t)
  PROVE  Proceeds(w, t)
<1>1. StockTypes /\ ProductsInv /\ PlansInv
  BY DEF StockInv
<1> DEFINE s == task[w]
<1>2. /\ s \in Seq(Jobs) /\ t \in Seq(Jobs) /\ Len(s) \in Nat /\ DOMAIN s = 1..Len(s)
      /\ \A k \in DOMAIN t : k \in Nat /\ k >= 1 /\ k + 1 \in DOMAIN s /\ t[k] = s[k + 1]
      /\ t # <<>> => DOMAIN t = 1..Len(t) /\ Len(t) = Len(s) - 1
  BY <1>1, JobsAre, EmptyPlan
<1> HIDE DEF s
<1>3. MovesInTurn(t)
  <2>1. SUFFICES ASSUME NEW k \in DOMAIN t, t[k].do = "movement", k > 1 PROVE TellsOf(t[k - 1], t[k].row)
    BY DEF MovesInTurn
  <2>2. DOMAIN t = 1..Len(t) /\ Len(t) \in Nat /\ k \in Nat
    <3>1. t \in Seq(Jobs) /\ k \in Nat
      BY <1>2
    <3> QED BY <3>1, LenProperties
  <2>3. k - 1 \in DOMAIN t /\ (k - 1) + 1 = k /\ k + 1 > 1 /\ (k + 1) - 1 = k
    BY <2>1, <2>2
  <2>4. t[k - 1] = s[(k - 1) + 1]
    BY <1>2, <2>3
  <2>5. t[k - 1] = s[k] /\ t[k] = s[k + 1] /\ k + 1 \in DOMAIN s
    BY <1>2, <2>3, <2>4
  <2>6. MovesInTurn(s)
    BY <1>1 DEF ProductsInv, s
  <2> QED BY <2>1, <2>3, <2>5, <2>6 DEF MovesInTurn
<1>4. IsOther(s) => IsOther(t)
  BY <1>2 DEF IsOther
<1>5. ASSUME NEW c, IsCompletion(s, c), t # <<>> PROVE IsCompletion(t, c)
  <2>1. Len(t) \in DOMAIN t /\ Len(t) = Len(s) - 1 /\ Len(t) \in Nat
    BY <1>2, <1>5, EmptySeq, LenProperties
  <2>2. t[Len(t)] = s[Len(s)]
    BY <1>2, <2>1
  <2>3. \A k \in 1 .. Len(t) - 1 : k \in DOMAIN t /\ k + 1 \in 1 .. Len(s) - 1
    BY <1>2, <1>5, <2>1
  <2> QED BY <1>2, <1>5, <2>2, <2>3 DEF IsCompletion
<1>6. IsOther(t) \/ \E c \in CountIds : IsCompletion(t, c)
  BY <1>1, <1>4, <1>5, EmptyPlan DEF PlansInv, s
<1>7. ASSUME NEW c, IsCompletion(t, c) PROVE IsCompletion(s, c)
  <2>1. ~ IsOther(s) /\ t # <<>>
    BY <1>2, <1>4, <1>7, CompletionConcerns, EmptyPlan
  <2>2. PICK d \in CountIds : IsCompletion(s, d)
    BY <1>1, <2>1 DEF PlansInv, s
  <2>3. d = c
    BY <1>2, <1>5, <1>7, <2>1, <2>2, CompletionConcerns
  <2> QED BY <2>2, <2>3
<1>8. \A c : (\E i \in DOMAIN t : "count" \in DOMAIN t[i] /\ t[i].count = c) => Concerns(w, c)
  BY <1>2 DEF Concerns, s
<1>9. \A k \in DOMAIN t :
       /\ t[k].do = "newProduct" => k + 1 \in DOMAIN s /\ s[k + 1] = t[k]
       /\ t[k].do = "saveItem" => \E j \in DOMAIN s : s[j] = t[k]
       /\ t[k].do \in {"saveProduct", "softRemove", "adjust"} => t[k].product \in DOMAIN products
  BY <1>1, <1>2 DEF ProductsInv, s
<1> QED BY <1>2, <1>3, <1>6, <1>7, <1>8, <1>9 DEF Proceeds, s

(* A statement keeps what is said of the products.  *)
LEMMA ProductsGoOn ==
  ASSUME StockTypes, ProductsInv, NEW w \in Workers, NEW t, Proceeds(w, t), nextId'.product = nextId.product,
         DOMAIN products \subseteq DOMAIN products',
         \A p \in DOMAIN products' : p \in DOMAIN products \/ (IsNew(w, 1) /\ p = task[w][1].product),
         \A p \in DOMAIN products' : products'[p].deleted => p \in removed'
  PROVE  ProductsInv'
<1>1. task'[w] = t /\ \A v \in Workers \ {w} : task'[v] = task[v]
  BY DEF Proceeds, Turn
<1>2. \A v \in Workers : MovesInTurn(task'[v])
  BY <1>1 DEF Proceeds, ProductsInv
<1>3. t \in Seq(Jobs) /\ \A k \in DOMAIN t : k \in Nat /\ k >= 1
  BY LenProperties DEF Proceeds
<1> DEFINE Before1(v, k) == IF v = w THEN k + 1 ELSE k
<1>4. ASSUME NEW v \in Workers, NEW k \in Nat, IsNew(v, k)'
      PROVE  Before1(v, k) \in Nat /\ IsNew(v, Before1(v, k)) /\ task[v][Before1(v, k)] = task'[v][k] /\ k >= 1
  <2>1. CASE v = w
    BY <1>1, <1>3, <1>4, <2>1 DEF IsNew, Proceeds
  <2>2. CASE v # w
    <3>1. IsNew(v, k) /\ task'[v] = task[v]
      BY <1>1, <1>4, <2>2 DEF IsNew
    <3>2. k >= 1
      BY <3>1, LenProperties DEF IsNew, StockTypes
    <3> QED BY <2>2, <3>1, <3>2
  <2> QED BY <2>1, <2>2
<1>5. \A v \in Workers, k, j \in Nat : Before1(v, k) = Before1(v, j) => k = j
  OBVIOUS
<1>6. \A v \in Workers, k \in Nat : v = w /\ Before1(v, k) = 1 => k = 0
  OBVIOUS
<1> HIDE DEF Before1
<1>7. ASSUME NEW v \in Workers, NEW k \in Nat, IsNew(v, k)'
      PROVE  task'[v][k].product \notin DOMAIN products' /\ task'[v][k].product < nextId'.product
  <2>1. task'[v][k].product \notin DOMAIN products /\ task'[v][k].product < nextId'.product
    BY <1>4, <1>7 DEF ProductsInv
  <2>2. ASSUME IsNew(w, 1), task'[v][k].product = task[w][1].product PROVE FALSE
    <3>1. v = w /\ Before1(v, k) = 1
      BY <1>4, <1>7, <2>2 DEF ProductsInv
    <3> QED BY <1>4, <1>6, <1>7, <3>1
  <2> QED BY <2>1, <2>2
<1>8. ASSUME NEW v \in Workers, NEW k \in Nat, IsNew(v, k)', NEW u \in Workers, NEW j \in Nat, IsNew(u, j)',
             task'[u][j].product = task'[v][k].product
      PROVE  u = v /\ j = k
  <2>1. u = v /\ Before1(u, j) = Before1(v, k)
    BY <1>4, <1>8 DEF ProductsInv
  <2> QED BY <1>5, <2>1
<1>9. \A v \in Workers : \A k \in DOMAIN task'[v] :
         task'[v][k].do \in {"saveProduct", "softRemove", "adjust"} => task'[v][k].product \in DOMAIN products'
  BY <1>1 DEF ProductsInv, Proceeds
<1>10. \A p \in DOMAIN products' : p < nextId'.product
  BY DEF ProductsInv
<1> QED BY <1>2, <1>7, <1>8, <1>9, <1>10 DEF ProductsInv

(* What is still to be done gets less.  *)
LEMMA LessToDo ==
  ASSUME NEW w \in Workers, NEW t, Proceeds(w, t)
  PROVE  /\ \A v \in Workers : \A c : Concerns(v, c)' => Concerns(v, c)
         /\ \A v \in Workers : Unsaved(v)' \subseteq Unsaved(v)
<1>1. task'[w] = t /\ \A v \in Workers \ {w} : task'[v] = task[v]
  BY DEF Proceeds, Turn
<1>2. \A c : Concerns(w, c)' => Concerns(w, c)
  BY <1>1 DEF Proceeds, Concerns
<1>3. Unsaved(w)' \subseteq Unsaved(w)
  BY <1>1 DEF Proceeds, Unsaved
<1>4. \A v \in Workers \ {w} : (\A c : Concerns(v, c)' => Concerns(v, c)) /\ Unsaved(v)' = Unsaved(v)
  BY <1>1 DEF Concerns, Unsaved
<1> QED BY <1>2, <1>3, <1>4

(* A statement keeps what is said of the items,  *)
LEMMA ItemsGoOn ==
  ASSUME ItemsInv, NEW w \in Workers, NEW t, Proceeds(w, t), Saved' \subseteq Entered,
         DOMAIN products \subseteq DOMAIN products', UNCHANGED <<nextId, raced>>,
         \A c \in DOMAIN counts' : c < nextId.count
  PROVE  ItemsInv'
<1>1. Entered' \subseteq Entered
  BY LessToDo DEF Entered
<1>2. \A v \in Workers : \A k \in DOMAIN task'[v] : task'[v][k].do = "saveItem" => task'[v][k].row.count = task'[v][k].count
  <2>1. task'[w] = t /\ \A v \in Workers \ {w} : task'[v] = task[v]
    BY DEF Proceeds, Turn
  <2> QED BY <2>1 DEF Proceeds, ItemsInv
<1>3. \A v \in Workers, c \in CountIds : Concerns(v, c)' => c < nextId'.count
  BY LessToDo DEF ItemsInv
<1> QED BY <1>1, <1>2, <1>3 DEF ItemsInv

(* and of the plans.  *)
LEMMA PlansGoOn ==
  ASSUME PlansInv, NEW w \in Workers, NEW t, Proceeds(w, t)
  PROVE  PlansInv'
BY DEF PlansInv, Proceeds, Turn

(* A count that request w does not complete, and that the step leaves alone.  *)
LEMMA OtherCounts ==
  ASSUME StockTypes, StockTypes', NEW w \in Workers, NEW t, Proceeds(w, t), NEW c \in CountIds, CountSound(c),
         ~ IsCompletion(task[w], c),
         c \in DOMAIN counts' <=> c \in DOMAIN counts, c \in DOMAIN counts => counts'[c] = counts[c],
         ItemsOf(c)' \subseteq ItemsOf(c), \A i \in ItemsOf(c)' : items'[i] = items[i],
         \A p \in ProductIds : Booked(c, p)' = Booked(c, p),
         cut[c] <= cut'[c], removed \subseteq removed'
  PROVE  CountSound(c)'
<1>1. \A v \in Workers : Concerns(v, c)' => Concerns(v, c)
  BY LessToDo
<1>2. \A v \in Workers : IsCompletion(task[v], c) \/ IsCompletion(task'[v], c) => task'[v] = task[v]
  BY DEF Proceeds, Turn
<1> QED BY <1>1, <1>2, Untouched

(* A count that request w does not complete, but changes: nobody else works on it,
   and it is not completed.                                                        *)
LEMMA ChangedCount ==
  ASSUME StockTypes, StockTypes', NEW w \in Workers, NEW t, Proceeds(w, t), NEW c \in CountIds, CountSound(c),
         ~ IsCompletion(task[w], c), Concerns(w, c), ~ IsCompleted(c)',
         \A p \in ProductIds : Booked(c, p)' = Booked(c, p), cut[c] <= cut'[c]
  PROVE  CountSound(c)'
<1>1. \A v \in Workers : IsCompletion(task[v], c) => Concerns(v, c)
  BY CompletionConcerns DEF StockTypes, Concerns
<1>2. ~ IsCompleted(c) /\ \A v \in Workers : ~ IsCompletion(task[v], c)
  BY <1>1 DEF CountSound, Finished
<1>3. \A v \in Workers : ~ IsCompletion(task'[v], c)
  BY <1>2 DEF Proceeds, Turn
<1>4. \A p \in ProductIds : Cardinality(Booked(c, p))' <= cut'[c]
  <2>1. cut[c] \in Nat /\ cut'[c] \in Nat /\ \A p \in ProductIds : Cardinality(Booked(c, p)) \in Nat
    BY BookedCounts DEF StockTypes
  <2>2. \A p \in ProductIds : Cardinality(Booked(c, p)) <= cut[c]
    BY <1>2 DEF CountSound
  <2> QED BY <2>1, <2>2
<1>5. \A v, u \in Workers : Concerns(v, c)' /\ Concerns(u, c)' => v = u
  BY LessToDo DEF CountSound
<1> QED BY <1>2, <1>3, <1>4, <1>5 DEF CountSound

-----------------------------------------------------------------------------
(* Statements of the catalogue.  *)
LEMMA DoneTurns ==
  ASSUME StockTypes, NEW w \in Workers
  PROVE  /\ \A t : task' = [task EXCEPT ![w] = t] => Turn(w, t)
         /\ Done(w) => Turn(w, Tail(task[w]))
         /\ Fail(w) => Turn(w, <<>>)
<1>1. ASSUME NEW t, task' = [task EXCEPT ![w] = t] PROVE Turn(w, t)
  BY <1>1 DEF StockTypes, Turn
<1> QED BY <1>1 DEF Done, Fail, Idle

(* What a completion has to do next: its last statement saves the count.  *)
LEMMA CompletionHead ==
  ASSUME StockTypes, NEW w \in Workers, NEW c, IsCompletion(task[w], c)
  PROVE  /\ task[w] # <<>> /\ Now(w).do \in {"saveCount", "saveProduct", "adjust", "movement"}
         /\ Now(w).do = "saveCount" => Len(task[w]) = 1 /\ Now(w).count = c /\ Now(w).status = "completed"
         /\ Now(w).do = "adjust" => Now(w).count = c /\ Now(w).product \in ProductIds
         /\ Now(w).do = "movement" => Now(w).row.count = c /\ Now(w).row.product \in ProductIds
         /\ Now(w).do # "saveCount" =>
              /\ Len(task[w]) > 1 /\ Tail(task[w]) # <<>>
              /\ Tail(task[w])[Len(Tail(task[w]))] = task[w][Len(task[w])]
<1> DEFINE s == task[w]
<1>1. s # <<>>
  BY DEF IsCompletion
<1>2. /\ Len(s) \in Nat /\ Len(s) >= 1 /\ DOMAIN s = 1..Len(s) /\ Now(w) = s[1]
      /\ Tail(s) \in Seq(Jobs) /\ Len(Tail(s)) = Len(s) - 1 /\ \A k \in 1 .. Len(s) - 1 : Tail(s)[k] = s[k + 1]
  BY <1>1, JobsAre
<1>3. IsCompletion(s, c)
  OBVIOUS
<1> HIDE DEF s
<1>4. CASE Len(s) = 1
  <2>1. s[1].do = "saveCount" /\ s[1].count = c /\ s[1].status = "completed"
    BY <1>3, <1>4 DEF IsCompletion
  <2> QED BY <1>1, <1>2, <1>4, <2>1 DEF s
<1>5. CASE Len(s) > 1
  <2>1. s[1].do = "saveProduct" \/ \E p \in ProductIds : Books(s[1], c, p)
    <3>1. 1 \in 1 .. Len(s) - 1
      BY <1>2, <1>5
    <3> QED BY <1>3, <3>1 DEF IsCompletion
  <2>2. /\ s[1].do \in {"saveProduct", "adjust", "movement"}
        /\ s[1].do = "adjust" => s[1].count = c /\ s[1].product \in ProductIds
        /\ s[1].do = "movement" => s[1].row.count = c /\ s[1].row.product \in ProductIds
    BY <2>1 DEF Books
  <2>3. Len(Tail(s)) = Len(s) - 1 /\ Len(s) - 1 \in 1 .. Len(s) - 1 /\ (Len(s) - 1) + 1 = Len(s)
    BY <1>2, <1>5
  <2>4. Tail(s)[Len(Tail(s))] = s[Len(s)]
    BY <1>2, <2>3
  <2>5. Tail(s) # <<>>
    <3>1. Len(Tail(s)) # 0
      BY <1>2, <1>5
    <3> QED BY <3>1, EmptySeq
  <2> QED BY <1>1, <1>2, <1>5, <2>2, <2>4, <2>5 DEF s
<1>6. Len(s) = 1 \/ Len(s) > 1
  BY <1>2
<1> QED BY <1>1, <1>2, <1>4, <1>5, <1>6 DEF s

(* A statement of the catalogue that leaves the completions of counts sound keeps the invariant.  *)
LEMMA CatalogueKeeps ==
  ASSUME StockInv, NEW w \in Workers, NEW t, Proceeds(w, t), Noted, nextId' = nextId,
         DOMAIN categories' \subseteq CategoryIds, \A c \in DOMAIN categories' : categories'[c] \in Names,
         DOMAIN products' \subseteq ProductIds, \A p \in DOMAIN products' : products'[p] \in ProductRow,
         DOMAIN products \subseteq DOMAIN products',
         \A p \in DOMAIN products' : p \in DOMAIN products \/ (IsNew(w, 1) /\ p = task[w][1].product),
         movements' \in Seq(Movement), drifted' \subseteq ProductIds,
         \A c \in CountIds : ~ IsCompletion(task[w], c) => \A p \in ProductIds : Booked(c, p)' = Booked(c, p),
         \A c \in CountIds \ raced : IsCompletion(task[w], c) /\ CountSound(c) /\ StockTypes' => CountSound(c)'
  PROVE  StockInv'
<1>1. StockTypes /\ ProductsInv /\ ItemsInv /\ PlansInv /\ CountsInv
  BY DEF StockInv
<1>2. /\ cut' \in [CountIds -> Nat] /\ removed' \subseteq ProductIds /\ removed \subseteq removed'
      /\ \A c \in CountIds : cut[c] <= cut'[c]
      /\ \A p \in DOMAIN products' : products'[p].deleted => p \in removed'
  BY <1>1, NotesGrow
<1>3. UNCHANGED <<counts, items, raced>>
  BY DEF Noted
<1>4. StockTypes'
  <2>1. DOMAIN task' = Workers /\ \A v \in Workers : task'[v] \in Seq(Jobs)
    BY <1>1 DEF Proceeds, Turn, StockTypes
  <2>2. nextId' \in Ids
    BY <1>1 DEF StockTypes
  <2> QED BY <1>1, <1>2, <1>3, <2>1, <2>2 DEF StockTypes
<1>5. ProductsInv'
  BY <1>1, <1>2, ProductsGoOn
<1>6. ItemsInv'
  <2>1. Saved' \subseteq Entered
    BY <1>3 DEF Entered, Saved
  <2>2. \A c \in DOMAIN counts' : c < nextId.count
    BY <1>1, <1>3 DEF ItemsInv
  <2> QED BY <1>1, <1>3, <2>1, <2>2, ItemsGoOn
<1>7. PlansInv'
  BY <1>1, PlansGoOn
<1>8. CountsInv'
  <2>1. SUFFICES ASSUME NEW c \in CountIds \ raced, CountSound(c) PROVE CountSound(c)'
    BY <1>1, <1>3 DEF CountsInv
  <2>2. CASE IsCompletion(task[w], c)
    BY <1>4, <2>1, <2>2
  <2>3. CASE ~ IsCompletion(task[w], c)
    <3>1. ItemsOf(c)' = ItemsOf(c) /\ \A i \in ItemsOf(c)' : items'[i] = items[i]
      BY <1>3 DEF ItemsOf
    <3>2. cut[c] <= cut'[c] /\ \A p \in ProductIds : Booked(c, p)' = Booked(c, p)
      BY <1>2, <2>3
    <3> QED BY <1>1, <1>2, <1>3, <1>4, <2>1, <2>3, <3>1, <3>2, OtherCounts
  <2> QED BY <2>2, <2>3
<1> QED BY <1>4, <1>5, <1>6, <1>7, <1>8 DEF StockInv

(* A category is saved with its products, or refused.  *)
LEMMA StoreCategoryKeeps == ASSUME StockInv, NEW w \in Workers, StoreCategory(w), Noted PROVE StockInv'
<1>1. StockTypes /\ task[w] # <<>> /\ Now(w).do = "saveCategory"
  BY DEF StockInv, StoreCategory, At, Idle
<1> DEFINE c == Now(w).category
<1>2. c \in CategoryIds /\ Now(w).name \in Names
  <2>1. Now(w) \in CategorySaves
    BY <1>1, JobsAre, JobKinds
  <2> QED BY <2>1 DEF CategorySaves
<1>3. UNCHANGED <<movements, nextId, drifted>>
  BY DEF StoreCategory
<1>4. \A d \in CountIds : ~ IsCompletion(task[w], d) /\ \A p \in ProductIds : Booked(d, p)' = Booked(d, p)
  BY <1>1, <1>3, CompletionHead DEF Booked
<1>5. movements' \in Seq(Movement) /\ drifted' \subseteq ProductIds
  BY <1>1, <1>3 DEF StockTypes
<1>6. CASE Fail(w) /\ UNCHANGED <<categories, products>>
  <2>1. Proceeds(w, <<>>)
    BY <1>1, <1>6, DoneTurns, TailProceeds
  <2> QED BY <1>1, <1>3, <1>4, <1>5, <1>6, <2>1, CatalogueKeeps DEF StockTypes
<1>7. CASE /\ Done(w)
           /\ categories' = With(categories, c, Now(w).name)
           /\ products' = [p \in DOMAIN products |->
                IF p \in Now(w).with THEN [products[p] EXCEPT !.category = c] ELSE products[p]]
  <2>1. Proceeds(w, Tail(task[w]))
    BY <1>1, <1>7, DoneTurns, TailProceeds
  <2>2. DOMAIN categories' \subseteq CategoryIds /\ \A k \in DOMAIN categories' : categories'[k] \in Names
    <3> HIDE DEF c
    <3> QED BY <1>1, <1>2, <1>7 DEF With, StockTypes
  <2>3. DOMAIN products' = DOMAIN products /\ \A p \in DOMAIN products' : products'[p] \in ProductRow
    <3>1. DOMAIN products' = DOMAIN products
      BY <1>7
    <3> HIDE DEF c
    <3>2. \A p \in DOMAIN products : products[p] \in ProductRow /\ [products[p] EXCEPT !.category = c] \in ProductRow
      BY <1>1, <1>2 DEF StockTypes, ProductRow
    <3> QED BY <1>7, <3>1, <3>2
  <2> QED BY <1>1, <1>3, <1>4, <1>5, <2>1, <2>2, <2>3, CatalogueKeeps DEF StockTypes
<1> QED BY <1>6, <1>7 DEF StoreCategory

(* A category is deleted, or refused.  *)
LEMMA DropCategoryKeeps == ASSUME StockInv, NEW w \in Workers, DropCategory(w), Noted PROVE StockInv'
<1>1. StockTypes /\ task[w] # <<>> /\ Now(w).do = "removeCategory"
  BY DEF StockInv, DropCategory, At, Idle
<1>2. UNCHANGED <<products, movements, nextId, drifted>>
  BY DEF DropCategory
<1>3. \A d \in CountIds : ~ IsCompletion(task[w], d) /\ \A p \in ProductIds : Booked(d, p)' = Booked(d, p)
  BY <1>1, <1>2, CompletionHead DEF Booked
<1>4. PICK t : Proceeds(w, t)
  BY <1>1, DoneTurns, TailProceeds DEF DropCategory
<1>5. DOMAIN categories' \subseteq DOMAIN categories /\ \A c \in DOMAIN categories' : categories'[c] = categories[c]
  BY DEF DropCategory, Without
<1> QED BY <1>1, <1>2, <1>3, <1>4, <1>5, CatalogueKeeps DEF StockTypes

(* A new product is inserted, or refused.  *)
LEMMA InsertProductKeeps == ASSUME StockInv, NEW w \in Workers, InsertProduct(w), Noted PROVE StockInv'
<1>1. StockTypes /\ task[w] # <<>> /\ Now(w).do = "newProduct"
  BY DEF StockInv, InsertProduct, At, Idle
<1>2. UNCHANGED <<categories, movements, nextId, drifted>>
  BY DEF InsertProduct
<1>3. \A d \in CountIds : ~ IsCompletion(task[w], d) /\ \A p \in ProductIds : Booked(d, p)' = Booked(d, p)
  BY <1>1, <1>2, CompletionHead DEF Booked
<1>4. PICK t : Proceeds(w, t)
  BY <1>1, DoneTurns, TailProceeds DEF InsertProduct
<1>5. Now(w).product \in ProductIds /\ Now(w).row \in ProductRow /\ IsNew(w, 1) /\ Now(w).product = task[w][1].product
  <2>1. Now(w) \in ProductInserts /\ Now(w) = task[w][1] /\ 1 \in DOMAIN task[w]
    BY <1>1, JobsAre, JobKinds
  <2> QED BY <1>1, <2>1 DEF ProductInserts, IsNew
<1>6. /\ DOMAIN products' \subseteq ProductIds /\ DOMAIN products \subseteq DOMAIN products'
      /\ \A p \in DOMAIN products' : products'[p] \in ProductRow /\ (p \in DOMAIN products \/ p = Now(w).product)
  <2>1. CASE products' = products
    BY <1>1, <2>1 DEF StockTypes
  <2>2. CASE products' = With(products, Now(w).product, Now(w).row)
    BY <1>1, <1>5, <2>2 DEF StockTypes, With
  <2> QED BY <2>1, <2>2 DEF InsertProduct
<1> QED BY <1>1, <1>2, <1>3, <1>4, <1>5, <1>6, CatalogueKeeps DEF StockTypes

(* A product is deleted, and noted as deleted.  *)
LEMMA SoftRemoveKeeps == ASSUME StockInv, NEW w \in Workers, SoftRemove(w), Noted PROVE StockInv'
<1>1. StockTypes /\ task[w] # <<>> /\ Now(w).do = "softRemove"
  BY DEF StockInv, SoftRemove, At, Idle
<1>2. UNCHANGED <<categories, movements, nextId, drifted>>
  BY DEF SoftRemove
<1>3. \A d \in CountIds : ~ IsCompletion(task[w], d) /\ \A p \in ProductIds : Booked(d, p)' = Booked(d, p)
  BY <1>1, <1>2, CompletionHead DEF Booked
<1>4. PICK t : Proceeds(w, t)
  BY <1>1, DoneTurns, TailProceeds DEF SoftRemove
<1>5. DOMAIN products' = DOMAIN products /\ \A p \in DOMAIN products' : products'[p] \in ProductRow
  <2>1. products' = [products EXCEPT ![Now(w).product].deleted = TRUE]
    BY DEF SoftRemove
  <2>2. \A p \in DOMAIN products : products[p] \in ProductRow /\ [products[p] EXCEPT !.deleted = TRUE] \in ProductRow
    BY <1>1 DEF StockTypes, ProductRow
  <2> QED BY <2>1, <2>2
<1> QED BY <1>1, <1>2, <1>3, <1>4, <1>5, CatalogueKeeps DEF StockTypes

-----------------------------------------------------------------------------
(* The completion of a count goes on, or is cut off.  *)
LEMMA DueAre ==
  ASSUME StockTypes, NEW w \in Workers, task[w] # <<>>, NEW c
  PROVE  /\ Due(task[w], c) = Due(Tail(task[w]), c) \cup {p \in ProductIds : Books(Now(w), c, p)}
         /\ Distinct(task[w], c) =>
              Distinct(Tail(task[w]), c) /\ \A p \in ProductIds : Books(Now(w), c, p) => p \notin Due(Tail(task[w]), c)
<1> DEFINE s == task[w]
           t == Tail(task[w])
<1>1. /\ DOMAIN s = 1..Len(s) /\ Len(s) \in Nat /\ 1 \in DOMAIN s /\ Now(w) = s[1] /\ DOMAIN t = 1 .. Len(s) - 1
      /\ \A k \in DOMAIN t : k \in Nat /\ k >= 1 /\ k + 1 \in DOMAIN s /\ t[k] = s[k + 1]
  BY JobsAre
<1> HIDE DEF s, t
<1>2. \A k \in DOMAIN s : k = 1 \/ \E j \in DOMAIN t : k = j + 1
  <2>1. SUFFICES ASSUME NEW k \in DOMAIN s, k # 1 PROVE \E j \in DOMAIN t : k = j + 1
    OBVIOUS
  <2>2. k - 1 \in DOMAIN t /\ k = (k - 1) + 1
    BY <1>1, <2>1
  <2> QED BY <2>2
<1>3. Due(s, c) = Due(t, c) \cup {p \in ProductIds : Books(Now(w), c, p)}
  <2>1. \A p \in ProductIds : p \in Due(s, c) => p \in Due(t, c) \/ Books(Now(w), c, p)
    BY <1>1, <1>2 DEF Due
  <2>2. \A p \in ProductIds : p \in Due(t, c) \/ Books(Now(w), c, p) => p \in Due(s, c)
    BY <1>1 DEF Due
  <2> QED BY <2>1, <2>2 DEF Due
<1>4. ASSUME Distinct(s, c) PROVE Distinct(t, c) /\ \A p \in ProductIds : Books(Now(w), c, p) => p \notin Due(t, c)
  <2>1. Distinct(t, c)
    <3>1. SUFFICES ASSUME NEW j \in DOMAIN t, NEW k \in DOMAIN t, NEW p \in ProductIds, Books(t[j], c, p), Books(t[k], c, p)
                   PROVE  j = k
      BY DEF Distinct
    <3>2. j + 1 = k + 1 /\ j \in Nat /\ k \in Nat
      BY <1>1, <1>4, <3>1 DEF Distinct
    <3> QED BY <3>2
  <2>2. ASSUME NEW p \in ProductIds, Books(Now(w), c, p), NEW k \in DOMAIN t, Books(t[k], c, p) PROVE FALSE
    <3>1. 1 = k + 1 /\ k \in Nat /\ k >= 1
      BY <1>1, <1>4, <2>2 DEF Distinct
    <3> QED BY <3>1
  <2> QED BY <2>1, <2>2 DEF Due
<1> QED BY <1>3, <1>4 DEF s, t

(* A completion that has more to do: what it does not owe any more is covered.  *)
LEMMA CompletionGoesOn ==
  ASSUME StockTypes, StockTypes', NEW w \in Workers, NEW t, Proceeds(w, t), NEW c \in CountIds, CountSound(c),
         IsCompletion(task[w], c), IsCompletion(t, c), Distinct(task[w], c) => Distinct(t, c),
         t[Len(t)] = task[w][Len(task[w])], UNCHANGED <<counts, items>>,
         \A i \in ItemsOf(c) : Covered(i) => Covered(i)',
         \A i \in ItemsOf(c) : items[i].product \in Due(task[w], c) => Covered(i)' \/ items[i].product \in Due(t, c),
         \A p \in ProductIds : (Cardinality(Booked(c, p)) <= IF p \in Due(task[w], c) THEN cut[c] ELSE 1 + cut[c]) =>
           Cardinality(Booked(c, p))' <= IF p \in Due(t, c) THEN cut'[c] ELSE 1 + cut'[c]
  PROVE  CountSound(c)'
<1>1. Underway(w, c) /\ Concerns(w, c)
  BY CompletionConcerns DEF CountSound, StockTypes, Concerns
<1>2. \A v, u \in Workers : Concerns(v, c)' /\ Concerns(u, c)' => v = u
  BY LessToDo DEF CountSound
<1>3. ASSUME NEW v \in Workers, IsCompletion(task'[v], c) PROVE v = w
  <2>1. Concerns(v, c)'
    BY <1>3, CompletionConcerns DEF StockTypes, Concerns
  <2> QED BY <1>1, <2>1, LessToDo DEF CountSound
<1>4. task'[w] = t /\ ItemsOf(c)' = ItemsOf(c)
  BY DEF Proceeds, Turn, ItemsOf
<1>5. Underway(w, c)'
  <2>1. c \in DOMAIN counts' /\ counts'[c] # "completed" /\ Distinct(task'[w], c) /\ ItemsOf(c)' \subseteq task'[w][Len(task'[w])].with
    BY <1>1, <1>4 DEF Underway
  <2>2. \A i \in ItemsOf(c)' : Covered(i)' \/ items'[i].product \in Due(task'[w], c)
    BY <1>1, <1>4 DEF Underway
  <2>3. \A p \in ProductIds : Cardinality(Booked(c, p))' <= IF p \in Due(task'[w], c) THEN cut'[c] ELSE 1 + cut'[c]
    BY <1>1, <1>4 DEF Underway
  <2> QED BY <2>1, <2>2, <2>3 DEF Underway
<1>6. ~ IsCompleted(c)'
  BY <1>1 DEF Underway, IsCompleted
<1>7. \E v \in Workers : IsCompletion(task'[v], c)
  BY <1>4
<1> QED BY <1>2, <1>3, <1>5, <1>6, <1>7 DEF CountSound

(* A completion that failed: what it booked is booked once more at the next try.  *)
LEMMA CompletionCutOff ==
  ASSUME StockTypes, StockTypes', NEW w \in Workers, Proceeds(w, <<>>), NEW c \in CountIds, CountSound(c),
         IsCompletion(task[w], c), UNCHANGED <<counts, movements>>, cut'[c] = cut[c] + 1
  PROVE  CountSound(c)'
<1>1. Underway(w, c) /\ Concerns(w, c)
  BY CompletionConcerns DEF CountSound, StockTypes, Concerns
<1>2. \A v \in Workers : ~ Concerns(v, c)'
  <2>1. \A v \in Workers : Concerns(v, c)' => v = w
    BY <1>1, LessToDo DEF CountSound
  <2>2. ~ Concerns(w, c)'
    BY EmptyPlan DEF Proceeds, Turn, Concerns
  <2> QED BY <2>1, <2>2
<1>3. \A v \in Workers : ~ IsCompletion(task'[v], c)
  BY <1>2, CompletionConcerns DEF StockTypes, Concerns
<1>4. ~ IsCompleted(c)'
  BY <1>1 DEF Underway, IsCompleted
<1>5. \A p \in ProductIds : Cardinality(Booked(c, p))' <= cut'[c]
  <2>1. cut[c] \in Nat /\ \A p \in ProductIds : Cardinality(Booked(c, p)) \in Nat
    BY BookedCounts DEF StockTypes
  <2>3. \A p \in ProductIds : Booked(c, p)' = Booked(c, p)
    BY DEF Booked
  <2>2. \A p \in ProductIds : Cardinality(Booked(c, p)) <= IF p \in Due(task[w], c) THEN cut[c] ELSE 1 + cut[c]
    BY <1>1 DEF Underway
  <2> QED BY <2>1, <2>2, <2>3
<1> QED BY <1>2, <1>3, <1>4, <1>5 DEF CountSound

(* A completion that ends with nothing done is noted as cut off.  *)
LEMMA IsCutOff ==
  ASSUME StockTypes, NEW w \in Workers, NEW c, IsCompletion(task[w], c), task'[w] = Idle
  PROVE  CutOff(c)
<1>1. Len(task[w]) \in DOMAIN task[w]
  BY CompletionConcerns DEF StockTypes
<1>2. Completes(w, c)
  BY <1>1 DEF Completes, IsCompletion
<1> QED BY <1>2 DEF CutOff

(* A completion ends with the save of its count.  *)
LEMMA TailCompletes ==
  ASSUME StockTypes, NEW w \in Workers, NEW c, IsCompletion(task[w], c), Now(w).do # "saveCount",
         Proceeds(w, Tail(task[w]))
  PROVE  IsCompletion(Tail(task[w]), c) /\ Tail(task[w])[Len(Tail(task[w]))] = task[w][Len(task[w])]
<1> DEFINE t == Tail(task[w])
<1>1. t # <<>> /\ t[Len(t)] = task[w][Len(task[w])]
  BY CompletionHead
<1>2. Proceeds(w, t)
  OBVIOUS
<1> HIDE DEF t
<1>3. t \in Seq(Jobs) /\ Len(t) \in DOMAIN t
  BY <1>1, <1>2, EmptySeq, LenProperties DEF Proceeds
<1>4. ~ IsOther(t)
  BY <1>1, <1>3 DEF IsOther, IsCompletion
<1>5. PICK d \in CountIds : IsCompletion(t, d)
  BY <1>2, <1>4 DEF Proceeds
<1>6. d = c
  BY <1>1, <1>5 DEF IsCompletion
<1> QED BY <1>1, <1>5, <1>6 DEF t

(* The movement of a count is told once more.  *)
LEMMA OneMoreBooked ==
  ASSUME StockTypes, NEW row \in Movement, movements' = Append(movements, row)
  PROVE  /\ movements' \in Seq(Movement)
         /\ \A c, p : ~ (row.count = c /\ row.product = p) => Booked(c, p)' = Booked(c, p)
         /\ \A c, p : row.count = c /\ row.product = p =>
              Booked(c, p)' # {} /\ Cardinality(Booked(c, p))' = Cardinality(Booked(c, p)) + 1
<1> DEFINE n == Len(movements)
<1>1. /\ movements \in Seq(Movement) /\ n \in Nat /\ DOMAIN movements = 1..n
      /\ movements' \in Seq(Movement) /\ DOMAIN movements' = 1 .. n + 1
      /\ movements'[n + 1] = row /\ \A k \in 1..n : movements'[k] = movements[k]
  BY AppendProperties, LenProperties DEF StockTypes
<1> HIDE DEF n
<1>2. \A k : k \in 1 .. n + 1 <=> k \in 1..n \/ k = n + 1
  BY <1>1
<1>3. ASSUME NEW c, NEW p, ~ (row.count = c /\ row.product = p) PROVE Booked(c, p)' = Booked(c, p)
  BY <1>1, <1>2, <1>3 DEF Booked
<1>4. ASSUME NEW c, NEW p, row.count = c, row.product = p
      PROVE  Booked(c, p)' # {} /\ Cardinality(Booked(c, p))' = Cardinality(Booked(c, p)) + 1
  <2>1. Booked(c, p)' = Booked(c, p) \cup {n + 1} /\ n + 1 \notin Booked(c, p)
    <3>1. n + 1 \notin 1..n
      BY <1>1
    <3> QED BY <1>1, <1>2, <1>4, <3>1 DEF Booked
  <2>2. IsFiniteSet(Booked(c, p))
    BY BookedCounts
  <2> QED BY <2>1, <2>2, FS_AddElement
<1> QED BY <1>1, <1>3, <1>4

(* A movement of a completion books a product that was due, and is not due again.  *)
LEMMA InsertMovementKeeps == ASSUME StockInv, NEW w \in Workers, InsertMovement(w), Noted PROVE StockInv'
<1>1. StockTypes /\ task[w] # <<>> /\ Now(w).do = "movement"
  BY DEF StockInv, InsertMovement, At, Idle
<1> DEFINE row == Now(w).row
           t == Tail(task[w])
<1>2. UNCHANGED <<categories, products, nextId, drifted>> /\ movements' = Append(movements, row) /\ Done(w)
  BY DEF InsertMovement
<1>3. row \in Movement /\ Now(w) = task[w][1] /\ 1 \in DOMAIN task[w]
  <2>1. Now(w) \in MovementInserts /\ Now(w) = task[w][1] /\ 1 \in DOMAIN task[w]
    BY <1>1, JobsAre, JobKinds
  <2> QED BY <2>1 DEF MovementInserts
<1>4. Proceeds(w, t)
  BY <1>1, <1>2, DoneTurns, TailProceeds
<1> HIDE DEF row, t
<1>5. ASSUME NEW c \in CountIds, ~ IsCompletion(task[w], c) PROVE \A p \in ProductIds : Booked(c, p)' = Booked(c, p)
  <2>1. row.count # c
    <3>1. CASE IsOther(task[w])
      <4>1. row.count = NoCount
        BY <1>1, <1>3, <3>1 DEF IsOther, row
      <4> QED BY <4>1 DEF NoCount, CountIds
    <3>2. CASE ~ IsOther(task[w])
      <4>1. PICK d \in CountIds : IsCompletion(task[w], d)
        BY <3>2 DEF StockInv, PlansInv
      <4>2. row.count = d
        BY <1>1, <4>1, CompletionHead DEF row
      <4> QED BY <1>5, <4>1, <4>2
    <3> QED BY <3>1, <3>2
  <2> QED BY <1>1, <1>2, <1>3, <2>1, OneMoreBooked
<1>6. ASSUME NEW c \in CountIds \ raced, IsCompletion(task[w], c), CountSound(c), StockTypes' PROVE CountSound(c)'
  <2>13. PICK p : p = row.product
    OBVIOUS
  <2>1. /\ row.count = c /\ p \in ProductIds /\ t # <<>> /\ t[Len(t)] = task[w][Len(task[w])]
    BY <1>1, <1>6, <2>13, CompletionHead DEF row, t
  <2>2. \A q \in ProductIds : Books(Now(w), c, q) <=> q = p
    BY <1>1, <2>1, <2>13 DEF Books, row
  <2>3. /\ Due(task[w], c) = Due(t, c) \cup {p}
        /\ Distinct(task[w], c) => Distinct(t, c) /\ p \notin Due(t, c)
    <3>1. {q \in ProductIds : Books(Now(w), c, q)} = {p} /\ Books(Now(w), c, p)
      BY <2>1, <2>2
    <3>2. /\ Due(task[w], c) = Due(t, c) \cup {q \in ProductIds : Books(Now(w), c, q)}
          /\ Distinct(task[w], c) => Distinct(t, c) /\ \A q \in ProductIds : Books(Now(w), c, q) => q \notin Due(t, c)
      BY <1>1, DueAre DEF t
    <3> QED BY <2>1, <3>1, <3>2
  <2>4. IsCompletion(t, c)
    BY <1>1, <1>4, <1>6, TailCompletes DEF t
  <2>5. UNCHANGED <<counts, items>> /\ removed \subseteq removed' /\ cut[c] \in Nat /\ cut'[c] \in Nat /\ cut[c] <= cut'[c]
    BY <1>1, <1>2, NotesGrow DEF Noted, StockTypes
  <2>6. \A q \in ProductIds : q # p => Booked(c, q)' = Booked(c, q)
    BY <1>1, <1>2, <1>3, <2>13, OneMoreBooked
  <2>7. Booked(c, p)' # {} /\ Cardinality(Booked(c, p))' = Cardinality(Booked(c, p)) + 1
    BY <1>1, <1>2, <1>3, <2>1, <2>13, OneMoreBooked
  <2>8. \A i \in ItemsOf(c) : items[i].product \in ProductIds /\ items[i].count = c
    BY <1>1 DEF StockTypes, ItemsOf, ItemRow
  <2>9. \A i \in ItemsOf(c) : Covered(i) => Covered(i)'
    <3>1. SUFFICES ASSUME NEW i \in ItemsOf(c), Covered(i) PROVE Covered(i)'
      OBVIOUS
    <3>2. PICK q \in ProductIds : items[i].product = q
      BY <2>8
    <3>3. Booked(c, q) # {} => Booked(c, q)' # {}
      BY <2>6, <2>7
    <3> QED BY <2>5, <2>8, <3>1, <3>2, <3>3 DEF Covered, Difference
  <2>10. \A i \in ItemsOf(c) : items[i].product \in Due(task[w], c) => Covered(i)' \/ items[i].product \in Due(t, c)
    <3>1. SUFFICES ASSUME NEW i \in ItemsOf(c), items[i].product = p PROVE Covered(i)'
      BY <2>3
    <3> QED BY <2>5, <2>7, <2>8, <3>1 DEF Covered
  <2>11. Distinct(task[w], c)
    BY <1>6 DEF CountSound, Underway
  <2>12. ASSUME NEW q \in ProductIds, Cardinality(Booked(c, q)) <= IF q \in Due(task[w], c) THEN cut[c] ELSE 1 + cut[c]
         PROVE  Cardinality(Booked(c, q))' <= IF q \in Due(t, c) THEN cut'[c] ELSE 1 + cut'[c]
    <3>1. Cardinality(Booked(c, q)) \in Nat
      BY <1>1, BookedCounts
    <3>2. CASE q = p
      <4>1. q \notin Due(t, c) /\ q \in Due(task[w], c)
        BY <2>3, <2>11, <3>2
      <4>2. Cardinality(Booked(c, q)) <= cut[c]
        BY <2>12, <4>1
      <4>3. Cardinality(Booked(c, q))' = Cardinality(Booked(c, q)) + 1
        BY <2>7, <3>2
      <4> QED BY <2>5, <3>1, <4>1, <4>2, <4>3
    <3>3. CASE q # p
      <4>1. Cardinality(Booked(c, q))' = Cardinality(Booked(c, q)) /\ (q \in Due(t, c) <=> q \in Due(task[w], c))
        BY <2>3, <2>6, <3>3
      <4> QED BY <2>5, <2>12, <3>1, <4>1
    <3> QED BY <3>2, <3>3
  <2> QED BY <1>1, <1>4, <1>6, <2>1, <2>3, <2>4, <2>5, <2>9, <2>10, <2>12, CompletionGoesOn
<1>7. movements' \in Seq(Movement)
  BY <1>1, <1>2, <1>3, OneMoreBooked
<1> QED BY <1>1, <1>2, <1>4, <1>5, <1>6, <1>7, CatalogueKeeps DEF StockTypes

(* A product is saved, or refused, and then the completion is cut off.  *)
LEMMA StoreProductKeeps == ASSUME StockInv, NEW w \in Workers, StoreProduct(w), Noted PROVE StockInv'
<1>1. StockTypes /\ task[w] # <<>> /\ Now(w).do = "saveProduct"
  BY DEF StockInv, StoreProduct, At, Idle
<1>2. UNCHANGED <<categories, movements, nextId>>
  BY DEF StoreProduct
<1>3. Now(w).product \in DOMAIN products /\ Now(w).product \in ProductIds /\ Now(w).row \in ProductRow
  <2>1. Now(w) \in ProductSaves /\ Now(w) = task[w][1] /\ 1 \in DOMAIN task[w]
    BY <1>1, JobsAre, JobKinds
  <2> QED BY <1>1, <2>1 DEF ProductSaves, StockInv, ProductsInv
<1>4. /\ DOMAIN products' = DOMAIN products /\ drifted' \subseteq ProductIds
      /\ \A p \in DOMAIN products' : products'[p] \in ProductRow
  <2>1. CASE UNCHANGED <<products, drifted>>
    BY <1>1, <2>1 DEF StockTypes
  <2>2. CASE products' = With(products, Now(w).product, Now(w).row) /\ drifted' \in {drifted, drifted \cup {Now(w).product}}
    BY <1>1, <1>3, <2>2 DEF StockTypes, With
  <2> QED BY <2>1, <2>2 DEF StoreProduct
<1>5. \A c, p : Booked(c, p)' = Booked(c, p)
  BY <1>2 DEF Booked
<1>6. UNCHANGED <<counts, items>> /\ removed \subseteq removed' /\ (\A c \in CountIds : cut[c] \in Nat /\ cut'[c] \in Nat /\ cut[c] <= cut'[c])
      /\ \A c \in CountIds : CutOff(c) => cut'[c] = cut[c] + 1
  BY <1>1, <1>4, NotesGrow DEF Noted, StockTypes
<1>7. movements' \in Seq(Movement) /\ DOMAIN categories' \subseteq CategoryIds /\ \A c \in DOMAIN categories' : categories'[c] \in Names
  BY <1>1, <1>2 DEF StockTypes
<1>8. CASE Fail(w)
  <2>1. Proceeds(w, <<>>) /\ task'[w] = Idle
    BY <1>1, <1>8, DoneTurns, TailProceeds DEF Turn, Idle
  <2>2. ASSUME NEW c \in CountIds \ raced, IsCompletion(task[w], c), CountSound(c), StockTypes' PROVE CountSound(c)'
    <3>1. cut'[c] = cut[c] + 1
      BY <1>1, <1>6, <2>1, <2>2, IsCutOff
    <3> QED BY <1>1, <1>2, <1>6, <2>1, <2>2, <3>1, CompletionCutOff
  <2> QED BY <1>1, <1>2, <1>4, <1>5, <1>7, <2>1, <2>2, CatalogueKeeps DEF StockTypes
<1>9. CASE Done(w)
  <2> DEFINE t == Tail(task[w])
  <2>1. Proceeds(w, t)
    BY <1>1, <1>9, DoneTurns, TailProceeds
  <2>2. ASSUME NEW c \in CountIds \ raced, IsCompletion(task[w], c), CountSound(c), StockTypes' PROVE CountSound(c)'
    <3>1. \A p \in ProductIds : ~ Books(Now(w), c, p)
      BY <1>1 DEF Books
    <3>2. Due(task[w], c) = Due(t, c) /\ (Distinct(task[w], c) => Distinct(t, c))
      BY <1>1, <3>1, DueAre
    <3>3. IsCompletion(t, c) /\ t[Len(t)] = task[w][Len(task[w])]
      BY <1>1, <2>1, <2>2, TailCompletes
    <3> HIDE DEF t
    <3>4. \A i \in ItemsOf(c) : Covered(i) => Covered(i)'
      <4>1. SUFFICES ASSUME NEW i \in ItemsOf(c), Covered(i) PROVE Covered(i)'
        OBVIOUS
      <4>2. PICK d, q : items[i].count = d /\ items[i].product = q
        OBVIOUS
      <4>3. Booked(d, q)' = Booked(d, q)
        BY <1>5
      <4> QED BY <1>6, <4>1, <4>2, <4>3 DEF Covered, Difference
    <3>5. ASSUME NEW q \in ProductIds, Cardinality(Booked(c, q)) <= IF q \in Due(task[w], c) THEN cut[c] ELSE 1 + cut[c]
          PROVE  Cardinality(Booked(c, q))' <= IF q \in Due(t, c) THEN cut'[c] ELSE 1 + cut'[c]
      <4>1. Cardinality(Booked(c, q)) \in Nat /\ Cardinality(Booked(c, q))' = Cardinality(Booked(c, q))
        BY <1>1, <1>5, BookedCounts
      <4>2. cut[c] \in Nat /\ cut'[c] \in Nat /\ cut[c] <= cut'[c]
        BY <1>6
      <4> QED BY <3>2, <3>5, <4>1, <4>2
    <3> QED BY <1>1, <1>6, <2>1, <2>2, <3>2, <3>3, <3>4, <3>5, CompletionGoesOn
  <2> HIDE DEF t
  <2> QED BY <1>1, <1>2, <1>4, <1>5, <1>7, <2>1, <2>2, CatalogueKeeps DEF StockTypes
<1> QED BY <1>8, <1>9 DEF StoreProduct

(* The process stops: what was to be done will not be.  *)
LEMMA CrashKeeps == ASSUME StockInv, CrashCatalogue, Noted PROVE StockInv'
<1>1. StockTypes /\ ProductsInv /\ ItemsInv /\ PlansInv /\ CountsInv
  BY DEF StockInv
<1>2. UNCHANGED <<categories, products, movements, nextId>> /\ task' = [v \in Workers |-> <<>>]
      /\ drifted' = drifted \cup {Now(v).row.product : v \in Pending}
  BY DEF CrashCatalogue, Crash, Idle
<1>3. drifted' \subseteq ProductIds
  <2>1. SUFFICES ASSUME NEW v \in Pending PROVE Now(v).row.product \in ProductIds
    BY <1>1, <1>2 DEF StockTypes
  <2>2. v \in Workers /\ task[v] # <<>> /\ Now(v).do = "movement"
    BY DEF Pending, At, Idle
  <2>3. Now(v) \in MovementInserts
    BY <1>1, <2>2, JobsAre, JobKinds
  <2> QED BY <2>3 DEF MovementInserts, Movement
<1>4. /\ cut' \in [CountIds -> Nat] /\ removed' \subseteq ProductIds /\ removed \subseteq removed'
      /\ \A c \in CountIds : cut[c] \in Nat /\ cut'[c] \in Nat /\ cut[c] <= cut'[c] /\ (CutOff(c) => cut'[c] = cut[c] + 1)
      /\ \A p \in DOMAIN products' : products'[p].deleted => p \in removed'
  <2>1. DOMAIN products' \subseteq ProductIds
    BY <1>1, <1>2 DEF StockTypes
  <2> QED BY <1>1, <2>1, NotesGrow
<1>5. UNCHANGED <<counts, items, raced>>
  BY DEF Noted
<1>6. \A v \in Workers : task'[v] = <<>> /\ DOMAIN task'[v] = {}
  BY <1>2, EmptyPlan
<1>7. StockTypes'
  <2>1. DOMAIN task' = Workers /\ \A v \in Workers : task'[v] \in Seq(Jobs)
    BY <1>2, EmptyPlan
  <2> QED BY <1>1, <1>2, <1>3, <1>4, <1>5, <2>1 DEF StockTypes
<1>8. ProductsInv'
  <2>1. \A v \in Workers, k \in Nat : ~ IsNew(v, k)'
    BY <1>6 DEF IsNew
  <2>2. \A v \in Workers : MovesInTurn(task'[v])
    BY <1>6, EmptyPlan
  <2> QED BY <1>1, <1>2, <1>4, <1>6, <2>1, <2>2 DEF ProductsInv
<1>9. \A v \in Workers : (\A c : ~ Concerns(v, c)') /\ Unsaved(v)' = {}
  BY <1>6 DEF Concerns, Unsaved
<1>10. ItemsInv'
  <2>1. Saved' = Saved
    BY <1>5 DEF Saved
  <2>2. Entered' \subseteq Entered
    BY <1>9, <2>1 DEF Entered
  <2> QED BY <1>1, <1>2, <1>5, <1>6, <1>9, <2>2 DEF ItemsInv
<1>11. PlansInv'
  BY <1>6, EmptyPlan DEF PlansInv
<1>12. CountsInv'
  <2>1. SUFFICES ASSUME NEW c \in CountIds \ raced, CountSound(c) PROVE CountSound(c)'
    BY <1>1, <1>5 DEF CountsInv
  <2>2. \A p \in ProductIds : Booked(c, p)' = Booked(c, p) /\ Cardinality(Booked(c, p)) \in Nat
    BY <1>1, <1>2, BookedCounts DEF Booked
  <2>3. \A v \in Workers : ~ IsCompletion(task'[v], c)
    BY <1>6, EmptyPlan
  <2>4. ASSUME NEW w \in Workers, IsCompletion(task[w], c)
        PROVE  ~ IsCompleted(c)' /\ \A p \in ProductIds : Cardinality(Booked(c, p))' <= cut'[c]
    <3>1. Underway(w, c)
      BY <2>1, <2>4 DEF CountSound
    <3>2. cut'[c] = cut[c] + 1
      BY <1>1, <1>4, <1>6, <2>4, IsCutOff DEF Idle
    <3>3. \A p \in ProductIds : Cardinality(Booked(c, p)) <= 1 + cut[c]
      BY <1>4, <2>2, <3>1 DEF Underway
    <3> QED BY <1>4, <1>5, <2>2, <3>1, <3>2, <3>3 DEF Underway, IsCompleted
  <2>5. ASSUME \A v \in Workers : ~ IsCompletion(task[v], c)
        PROVE  /\ IsCompleted(c)' => Finished(c)'
               /\ ~ IsCompleted(c)' => \A p \in ProductIds : Cardinality(Booked(c, p))' <= cut'[c]
    <3>1. IsCompleted(c)' <=> IsCompleted(c)
      BY <1>5 DEF IsCompleted
    <3>2. ASSUME Finished(c) PROVE Finished(c)'
      <4>1. \A i \in ItemsOf(c)' : i \in ItemsOf(c) /\ items[i].product \in ProductIds /\ items[i].count = c
        BY <1>1, <1>5 DEF ItemsOf, StockTypes, ItemRow
      <4>2. \A i \in ItemsOf(c)' : Covered(i)'
        BY <1>4, <1>5, <2>2, <3>2, <4>1 DEF Finished, Covered, Difference
      <4> QED BY <1>4, <1>9, <2>2, <3>2, <4>2 DEF Finished
    <3> QED BY <1>4, <2>1, <2>2, <2>5, <3>1, <3>2 DEF CountSound
  <2> QED BY <1>9, <2>3, <2>4, <2>5 DEF CountSound
<1> QED BY <1>7, <1>8, <1>10, <1>11, <1>12 DEF StockInv

-----------------------------------------------------------------------------
(* Statements about a count.  *)
LEMMA CountsKeep ==
  ASSUME StockInv, NEW w \in Workers, NEW t, Proceeds(w, t), UNCHANGED <<catalogue, raced, cut, removed>>,
         DOMAIN counts' \subseteq CountIds, \A c \in DOMAIN counts' : counts'[c] \in Statuses /\ c < nextId.count,
         DOMAIN items' \subseteq ItemIds, \A i \in DOMAIN items' : items'[i] \in ItemRow,
         Saved' \subseteq Entered,
         \A c \in CountIds \ raced : CountSound(c) /\ StockTypes' => CountSound(c)'
  PROVE  StockInv'
<1>1. StockTypes /\ ProductsInv /\ ItemsInv /\ PlansInv /\ CountsInv
  BY DEF StockInv
<1>2. UNCHANGED <<categories, products, movements, nextId, drifted, raced, cut, removed>>
  BY DEF catalogue
<1>3. StockTypes'
  <2>1. DOMAIN task' = Workers /\ \A v \in Workers : task'[v] \in Seq(Jobs)
    BY <1>1 DEF Proceeds, Turn, StockTypes
  <2> QED BY <1>1, <1>2, <2>1 DEF StockTypes
<1>4. ProductsInv'
  <2>1. \A p \in DOMAIN products' : products'[p].deleted => p \in removed'
    BY <1>1, <1>2 DEF ProductsInv
  <2> QED BY <1>1, <1>2, <2>1, ProductsGoOn
<1>5. ItemsInv'
  BY <1>1, <1>2, ItemsGoOn
<1>6. PlansInv'
  BY <1>1, PlansGoOn
<1>7. CountsInv'
  BY <1>1, <1>2, <1>3 DEF CountsInv
<1> QED BY <1>3, <1>4, <1>5, <1>6, <1>7 DEF StockInv

(* A count is saved: completed when everything is booked.  *)
LEMMA StoreCountKeeps == ASSUME StockInv, NEW w \in Workers, StoreCount(w) PROVE StockInv'
<1>1. StockTypes /\ ItemsInv /\ PlansInv /\ task[w] # <<>> /\ Now(w).do = "saveCount"
  BY DEF StockInv, StoreCount, At, Idle
<1>2. UNCHANGED <<catalogue, items, raced, cut, removed>> /\ UNCHANGED <<products, movements, nextId, raced, cut, removed>>
  BY DEF StoreCount, catalogue
<1>3. PICK c : c = Now(w).count
  OBVIOUS
<1>4. c \in CountIds /\ Now(w).status \in Statuses /\ Concerns(w, c) /\ Now(w) = task[w][1] /\ 1 \in DOMAIN task[w]
  <2>1. Now(w) \in CountSaves /\ "count" \in DOMAIN Now(w) /\ Now(w) = task[w][1] /\ 1 \in DOMAIN task[w]
    BY <1>1, JobsAre, JobKinds
  <2> QED BY <1>3, <2>1 DEF CountSaves, Concerns
<1>5. /\ ItemsOf(c) \ Now(w).with # {} => Fail(w) /\ UNCHANGED counts
      /\ ItemsOf(c) \ Now(w).with = {} => Done(w) /\ counts' = With(counts, c, Now(w).status)
  BY <1>3 DEF StoreCount
<1>6. PICK t : Proceeds(w, t) /\ (Done(w) => t = Tail(task[w]))
  <2>1. CASE Done(w)
    BY <1>1, <2>1, DoneTurns, TailProceeds
  <2>2. CASE ~ Done(w)
    BY <1>1, <1>5, <2>2, DoneTurns, TailProceeds
  <2> QED BY <2>1, <2>2
<1>7. DOMAIN counts' \subseteq CountIds /\ \A d \in DOMAIN counts' : counts'[d] \in Statuses /\ d < nextId.count
  <2>1. c < nextId.count
    BY <1>1, <1>4 DEF ItemsInv
  <2> QED BY <1>1, <1>4, <1>5, <2>1 DEF StockTypes, ItemsInv, With
<1>8. \A d : ItemsOf(d)' = ItemsOf(d) /\ \A p : Booked(d, p)' = Booked(d, p)
  BY <1>2 DEF ItemsOf, Booked
<1>9. ASSUME NEW d \in CountIds \ raced, CountSound(d), StockTypes', d # c PROVE CountSound(d)'
  <2>1. ~ IsCompletion(task[w], d)
    BY <1>1, <1>3, <1>9, CompletionHead
  <2>2. (d \in DOMAIN counts' <=> d \in DOMAIN counts) /\ (d \in DOMAIN counts => counts'[d] = counts[d])
    BY <1>5, <1>9 DEF With
  <2>3. cut[d] <= cut'[d] /\ removed \subseteq removed'
    BY <1>1, <1>2 DEF StockTypes
  <2> QED BY <1>1, <1>2, <1>6, <1>8, <1>9, <2>1, <2>2, <2>3, OtherCounts
<1>10. ASSUME c \in CountIds \ raced, CountSound(c), StockTypes', ~ IsCompletion(task[w], c) PROVE CountSound(c)'
  <2>1. IsOther(task[w])
    BY <1>1, <1>3, <1>10, CompletionHead DEF PlansInv
  <2>2. Now(w).status # "completed"
    BY <1>1, <1>4, <2>1 DEF IsOther
  <2>3. ~ IsCompleted(c)
    BY <1>4, <1>10 DEF CountSound, Finished
  <2>4. ~ IsCompleted(c)'
    BY <1>5, <2>2, <2>3 DEF IsCompleted, With
  <2>5. cut[c] <= cut'[c]
    BY <1>1, <1>2, <1>4 DEF StockTypes
  <2> QED BY <1>1, <1>4, <1>6, <1>8, <1>10, <2>4, <2>5, ChangedCount
<1>11. ASSUME c \in CountIds \ raced, CountSound(c), StockTypes', IsCompletion(task[w], c) PROVE CountSound(c)'
  <2>1. Underway(w, c)
    BY <1>11 DEF CountSound
  <2>2. Len(task[w]) = 1 /\ Now(w).status = "completed"
    BY <1>1, <1>11, CompletionHead
  <2>3. ItemsOf(c) \subseteq Now(w).with
    BY <1>4, <2>1, <2>2 DEF Underway
  <2>4. Done(w) /\ counts' = With(counts, c, "completed")
    BY <1>5, <2>2, <2>3
  <2>5. t = <<>>
    <3>1. t = Tail(task[w]) /\ Len(t) = 0 /\ t \in Seq(Jobs)
      BY <1>1, <1>6, <2>2, <2>4, JobsAre
    <3> QED BY <3>1, EmptySeq
  <2>6. \A v \in Workers : ~ Concerns(v, c)'
    <3>1. \A v \in Workers : Concerns(v, c)' => v = w
      BY <1>4, <1>6, <1>11, LessToDo DEF CountSound
    <3>2. ~ Concerns(w, c)'
      BY <1>6, <2>5, EmptyPlan DEF Proceeds, Turn, Concerns
    <3> QED BY <3>1, <3>2
  <2>7. \A v \in Workers : ~ IsCompletion(task'[v], c)
    BY <1>11, <2>6, CompletionConcerns DEF StockTypes, Concerns
  <2>8. IsCompleted(c)'
    BY <2>4 DEF IsCompleted, With
  <2>9. Due(task[w], c) = {}
    <3>1. DOMAIN task[w] = {1}
      BY <1>1, <2>2, JobsAre
    <3> QED BY <1>1, <1>4, <3>1 DEF Due, Books
  <2>10. \A i \in ItemsOf(c)' : Covered(i)'
    <3>1. SUFFICES ASSUME NEW i \in ItemsOf(c) PROVE Covered(i)'
      BY <1>8
    <3>2. Covered(i)
      BY <2>1, <2>9 DEF Underway
    <3>3. PICK q : items[i].product = q
      OBVIOUS
    <3>4. items[i].count = c /\ Booked(c, q)' = Booked(c, q)
      BY <1>8 DEF ItemsOf
    <3> QED BY <1>2, <3>2, <3>3, <3>4 DEF Covered, Difference
  <2>11. \A p \in ProductIds : Cardinality(Booked(c, p))' <= 1 + cut'[c]
    BY <1>2, <1>8, <2>1, <2>9 DEF Underway
  <2>12. Finished(c)'
    BY <2>6, <2>10, <2>11 DEF Finished
  <2> QED BY <2>6, <2>7, <2>8, <2>12 DEF CountSound
<1>12. Saved' \subseteq Entered
  BY <1>2 DEF Saved, Entered
<1>13. \A d \in CountIds \ raced : CountSound(d) /\ StockTypes' => CountSound(d)'
  BY <1>9, <1>10, <1>11
<1> QED BY <1>1, <1>2, <1>6, <1>7, <1>12, <1>13, CountsKeep DEF StockTypes

(* A count is deleted with its items; nobody was completing it.  *)
LEMMA DropCountKeeps == ASSUME StockInv, NEW w \in Workers, DropCount(w) PROVE StockInv'
<1>1. StockTypes /\ ItemsInv /\ PlansInv /\ task[w] # <<>> /\ Now(w).do = "removeCount"
  BY DEF StockInv, DropCount, At, Idle
<1>2. UNCHANGED <<catalogue, raced, cut, removed>> /\ UNCHANGED <<products, movements, nextId, raced, cut, removed>> /\ Done(w)
  BY DEF DropCount, catalogue
<1>3. PICK c : c = Now(w).count
  OBVIOUS
<1>4. c \in CountIds /\ Concerns(w, c)
  <2>1. Now(w) \in CountRemovals /\ "count" \in DOMAIN Now(w) /\ Now(w) = task[w][1] /\ 1 \in DOMAIN task[w]
    BY <1>1, JobsAre, JobKinds
  <2> QED BY <1>3, <2>1 DEF CountRemovals, Concerns
<1>5. counts' = Without(counts, c) /\ items' = [i \in DOMAIN items \ ItemsOf(c) |-> items[i]]
  BY <1>3 DEF DropCount
<1>6. Proceeds(w, Tail(task[w]))
  BY <1>1, <1>2, DoneTurns, TailProceeds
<1>7. /\ DOMAIN counts' = DOMAIN counts \ {c} /\ \A d \in DOMAIN counts' : counts'[d] = counts[d]
      /\ DOMAIN items' = DOMAIN items \ ItemsOf(c) /\ \A i \in DOMAIN items' : items'[i] = items[i]
  BY <1>5 DEF Without
<1>8. \A d : ItemsOf(d)' \subseteq ItemsOf(d) /\ (\A i \in ItemsOf(d)' : items'[i] = items[i]) /\ \A p : Booked(d, p)' = Booked(d, p)
  BY <1>2, <1>7 DEF ItemsOf, Booked
<1>9. ASSUME NEW d \in CountIds \ raced, CountSound(d), StockTypes' PROVE CountSound(d)'
  <2>1. ~ IsCompletion(task[w], d)
    BY <1>1, CompletionHead
  <2>2. cut[d] <= cut'[d] /\ removed \subseteq removed'
    BY <1>1, <1>2 DEF StockTypes
  <2>3. CASE d = c
    <3>1. ~ IsCompleted(d)'
      BY <1>7, <2>3 DEF IsCompleted
    <3> QED BY <1>1, <1>4, <1>6, <1>8, <1>9, <2>1, <2>2, <2>3, <3>1, ChangedCount
  <2>4. CASE d # c
    BY <1>1, <1>6, <1>7, <1>8, <1>9, <2>1, <2>2, <2>4, OtherCounts
  <2> QED BY <2>3, <2>4
<1>10. Saved' \subseteq Entered
  BY <1>7 DEF Saved, Entered
<1>11. /\ DOMAIN counts' \subseteq CountIds /\ \A d \in DOMAIN counts' : counts'[d] \in Statuses /\ d < nextId.count
       /\ DOMAIN items' \subseteq ItemIds /\ \A i \in DOMAIN items' : items'[i] \in ItemRow
  BY <1>1, <1>7 DEF StockTypes, ItemsInv
<1> QED BY <1>2, <1>6, <1>9, <1>10, <1>11, CountsKeep

(* An item is saved to a count that nobody completes.  *)
LEMMA StoreItemKeeps == ASSUME StockInv, NEW w \in Workers, StoreItem(w) PROVE StockInv'
<1>1. StockTypes /\ ItemsInv /\ PlansInv /\ task[w] # <<>> /\ Now(w).do = "saveItem"
  BY DEF StockInv, StoreItem, At, Idle
<1>2. UNCHANGED <<catalogue, raced, cut, removed>> /\ UNCHANGED <<products, movements, nextId, counts, raced, cut, removed>>
  BY DEF StoreItem, catalogue
<1>3. PICK c, i, row : c = Now(w).count /\ i = Now(w).item /\ row = Now(w).row
  OBVIOUS
<1>4. /\ c \in CountIds /\ i \in ItemIds /\ row \in ItemRow /\ row.count = c /\ Concerns(w, c)
      /\ [item |-> i, count |-> c, product |-> row.product] \in Entered
  <2>1. Now(w) \in ItemSaves /\ "count" \in DOMAIN Now(w) /\ Now(w) = task[w][1] /\ 1 \in DOMAIN task[w]
    BY <1>1, JobsAre, JobKinds
  <2>2. row.count = c
    BY <1>1, <1>3, <2>1 DEF ItemsInv
  <2>3. [item |-> i, count |-> c, product |-> row.product] \in Unsaved(w)
    BY <1>1, <1>3, <2>1 DEF Unsaved
  <2> QED BY <1>3, <2>1, <2>2, <2>3 DEF ItemSaves, Concerns, Entered
<1>5. PICK t : Proceeds(w, t)
  BY <1>1, DoneTurns, TailProceeds DEF StoreItem
<1>6. items' = items \/ items' = With(items, i, row)
  BY <1>3 DEF StoreItem
<1>7. /\ DOMAIN items' \subseteq DOMAIN items \cup {i}
      /\ \A j \in DOMAIN items' : items'[j] = IF j = i /\ items' # items THEN row ELSE items[j]
      /\ \A j \in DOMAIN items' : (j = i /\ items' # items) \/ j \in DOMAIN items
  BY <1>6 DEF With
<1>8. \A d : d # c => ItemsOf(d)' \subseteq ItemsOf(d) /\ \A j \in ItemsOf(d)' : items'[j] = items[j]
  BY <1>4, <1>7 DEF ItemsOf
<1>9. \A d, p : Booked(d, p)' = Booked(d, p)
  BY <1>2 DEF Booked
<1>10. ASSUME NEW d \in CountIds \ raced, CountSound(d), StockTypes' PROVE CountSound(d)'
  <2>1. ~ IsCompletion(task[w], d)
    BY <1>1, CompletionHead
  <2>2. cut[d] <= cut'[d] /\ removed \subseteq removed'
    BY <1>1, <1>2 DEF StockTypes
  <2>3. CASE d = c
    <3>1. ~ IsCompleted(d)'
      BY <1>2, <1>4, <1>10, <2>3 DEF IsCompleted, CountSound, Finished
    <3> QED BY <1>1, <1>4, <1>5, <1>9, <1>10, <2>1, <2>2, <2>3, <3>1, ChangedCount
  <2>4. CASE d # c
    BY <1>1, <1>2, <1>5, <1>8, <1>9, <1>10, <2>1, <2>2, <2>4, OtherCounts
  <2> QED BY <2>3, <2>4
<1>11. Saved' \subseteq Entered
  <2>1. SUFFICES ASSUME NEW j \in DOMAIN items'
                 PROVE  [item |-> j, count |-> items'[j].count, product |-> items'[j].product] \in Entered
    BY DEF Saved
  <2>2. CASE j = i /\ items' # items
    BY <1>4, <1>7, <2>2
  <2>3. CASE ~ (j = i /\ items' # items)
    <3>1. items'[j] = items[j] /\ j \in DOMAIN items
      BY <1>7, <2>1, <2>3
    <3> QED BY <3>1 DEF Entered, Saved
  <2> QED BY <2>2, <2>3
<1>12. DOMAIN items' \subseteq ItemIds /\ \A j \in DOMAIN items' : items'[j] \in ItemRow
  BY <1>1, <1>4, <1>7 DEF StockTypes
<1>13. DOMAIN counts' \subseteq CountIds /\ \A d \in DOMAIN counts' : counts'[d] \in Statuses /\ d < nextId.count
  BY <1>1, <1>2 DEF StockTypes, ItemsInv
<1> QED BY <1>2, <1>5, <1>10, <1>11, <1>12, <1>13, CountsKeep

(* The adjustment of a product that is there: its save and its movement come
   before the rest.                                                           *)
LEMMA SaveAndMove ==
  ASSUME StockTypes, NEW w \in Workers, task[w] # <<>>, NEW s \in Jobs, NEW m \in Jobs
  PROVE  LET t == <<s, m>> \o Tail(task[w])
         IN  /\ t \in Seq(Jobs) /\ t # <<>> /\ Len(t) = Len(task[w]) + 1 /\ DOMAIN t = 1 .. Len(task[w]) + 1
             /\ t[1] = s /\ t[2] = m
             /\ \A k \in DOMAIN t : k = 1 \/ k = 2 \/ (k > 2 /\ k - 1 \in DOMAIN task[w] /\ k - 1 > 1 /\ t[k] = task[w][k - 1])
<1> DEFINE b == Tail(task[w])
           n == Len(task[w])
           a == <<s, m>>
           t == a \o b
<1>1. /\ n \in Nat /\ n >= 1 /\ DOMAIN task[w] = 1..n /\ b \in Seq(Jobs) /\ Len(b) = n - 1 /\ DOMAIN b = 1 .. n - 1
      /\ \A k \in DOMAIN b : b[k] = task[w][k + 1]
  BY JobsAre
<1>2. a \in Seq(Jobs) /\ Len(a) = 2 /\ a[1] = s /\ a[2] = m
  OBVIOUS
<1> HIDE DEF a, b, n
<1>3. t \in Seq(Jobs) /\ Len(t) = 2 + (n - 1) /\ \A k \in 1 .. 2 + (n - 1) : t[k] = IF k <= 2 THEN a[k] ELSE b[k - 2]
  <2>1. Len(t) = Len(a) + Len(b) /\ \A k \in 1 .. Len(a) + Len(b) : t[k] = IF k <= Len(a) THEN a[k] ELSE b[k - Len(a)]
    BY <1>1, <1>2, ConcatProperties
  <2>2. t \in Seq(Jobs)
    BY <1>1, <1>2, ConcatProperties
  <2> QED BY <1>1, <1>2, <2>1, <2>2
<1> HIDE DEF t
<1>4. 2 + (n - 1) = n + 1 /\ DOMAIN t = 1 .. n + 1 /\ t # <<>>
  <2>1. 2 + (n - 1) = n + 1 /\ n + 1 # 0
    BY <1>1
  <2> QED BY <1>3, <2>1, EmptySeq, LenProperties
<1>5. t[1] = s /\ t[2] = m
  <2>1. 1 \in 1 .. 2 + (n - 1) /\ 2 \in 1 .. 2 + (n - 1)
    BY <1>1
  <2> QED BY <1>2, <1>3, <2>1
<1>6. ASSUME NEW k \in DOMAIN t, k # 1, k # 2
      PROVE  k > 2 /\ k - 1 \in DOMAIN task[w] /\ k - 1 > 1 /\ t[k] = task[w][k - 1]
  <2>1. k \in Nat /\ k > 2 /\ k \in 1 .. 2 + (n - 1) /\ k - 2 \in 1 .. n - 1 /\ (k - 2) + 1 = k - 1
    BY <1>1, <1>4, <1>6
  <2>2. ~ (k <= 2)
    BY <2>1
  <2>3. t[k] = b[k - 2]
    BY <1>3, <2>1, <2>2
  <2>4. b[k - 2] = task[w][k - 1]
    BY <1>1, <2>1
  <2> QED BY <1>1, <2>1, <2>3, <2>4
<1>7. t \in Seq(Jobs) /\ t # <<>> /\ Len(t) = n + 1 /\ DOMAIN t = 1 .. n + 1
  BY <1>3, <1>4
<1> QED BY <1>5, <1>6, <1>7 DEF t, a, b, n

Adjusted(w, s, m) == <<s, m>> \o Tail(task[w])

(* An adjustment that turns into a save and a movement is due as before.  *)
LEMMA AdjustmentProceeds ==
  ASSUME StockInv, NEW w \in Workers, task[w] # <<>>, NEW c \in CountIds, IsCompletion(task[w], c),
         NEW s \in ProductSaves, NEW m \in MovementInserts, NEW p \in DOMAIN products,
         Now(w).do = "adjust", Now(w).product = p,
         s.do = "saveProduct", s.product = p, m.do = "movement",
         m.row.count = c, m.row.product = p, TellsOf(s, m.row),
         NEW t, t = Adjusted(w, s, m), Turn(w, t)
  PROVE  /\ Proceeds(w, t) /\ IsCompletion(t, c) /\ t[Len(t)] = task[w][Len(task[w])]
         /\ Due(t, c) = Due(task[w], c) /\ (Distinct(task[w], c) => Distinct(t, c))
<1> DEFINE o == task[w]
           n == Len(task[w])
<1>1. StockTypes /\ ProductsInv
  BY DEF StockInv
<1>2. s \in Jobs /\ m \in Jobs /\ s \notin OfCounts /\ m \notin OfCounts /\ "count" \notin DOMAIN s /\ "count" \notin DOMAIN m
  <2>1. s \in Jobs /\ m \in Jobs
    BY DEF Jobs, OfProducts
  <2> QED BY <2>1, JobKinds
<1>3. /\ o \in Seq(Jobs) /\ n \in Nat /\ DOMAIN o = 1..n /\ o[1] = Now(w) /\ 1 \in DOMAIN o /\ n > 1
      /\ p \in ProductIds /\ Now(w).count = c
  BY <1>1, JobsAre, CompletionHead
<1>4. /\ t \in Seq(Jobs) /\ t # <<>> /\ Len(t) = n + 1 /\ DOMAIN t = 1 .. n + 1 /\ t[1] = s /\ t[2] = m
      /\ \A k \in DOMAIN t : k = 1 \/ k = 2 \/ (k > 2 /\ k - 1 \in DOMAIN o /\ k - 1 > 1 /\ t[k] = o[k - 1])
  BY <1>1, <1>2, SaveAndMove DEF Adjusted
<1>5. IsCompletion(o, c)
  OBVIOUS
<1> HIDE DEF o, n
<1>6. t[n + 1] = o[n]
  <2>1. n + 1 \in DOMAIN t /\ n + 1 # 1 /\ n + 1 # 2 /\ (n + 1) - 1 = n
    BY <1>3, <1>4
  <2> QED BY <1>4, <2>1
<1>7. \A k \in DOMAIN o : k < n => o[k].do = "saveProduct" \/ \E q \in ProductIds : Books(o[k], c, q)
  <2>1. n = Len(o)
    BY DEF n, o
  <2>2. \A k \in DOMAIN o : k < n => k \in 1 .. n - 1
    BY <1>3
  <2> QED BY <1>5, <2>1, <2>2 DEF IsCompletion
<1>8. IsCompletion(t, c)
  <2>1. ASSUME NEW k \in 1 .. Len(t) - 1 PROVE t[k].do = "saveProduct" \/ \E q \in ProductIds : Books(t[k], c, q)
    <3>1. k \in DOMAIN t /\ k - 1 < n
      BY <1>3, <1>4
    <3>2. CASE k = 1
      BY <1>4, <3>2
    <3>3. CASE k = 2
      BY <1>3, <1>4, <3>3 DEF Books
    <3>4. CASE k # 1 /\ k # 2
      BY <1>4, <1>7, <3>1, <3>4
    <3> QED BY <3>2, <3>3, <3>4
  <2>2. o[n].do = "saveCount" /\ o[n].count = c /\ o[n].status = "completed"
    BY <1>5 DEF IsCompletion, n, o
  <2> QED BY <1>4, <1>6, <2>1, <2>2 DEF IsCompletion
<1>9. \A q : ~ Books(s, c, q) /\ (Books(m, c, q) <=> q = p) /\ (Books(o[1], c, q) <=> q = p)
  BY <1>3 DEF Books
<1>10. \A k \in DOMAIN t : \A q : Books(t[k], c, q) <=> k > 1 /\ k - 1 \in DOMAIN o /\ Books(o[k - 1], c, q)
  <2>1. SUFFICES ASSUME NEW k \in DOMAIN t, NEW q PROVE Books(t[k], c, q) <=> k > 1 /\ k - 1 \in DOMAIN o /\ Books(o[k - 1], c, q)
    OBVIOUS
  <2>2. CASE k = 1
    BY <1>4, <1>9, <2>2
  <2>3. CASE k = 2
    <3>1. k - 1 = 1 /\ k > 1
      BY <2>3
    <3> QED BY <1>3, <1>4, <1>9, <2>3, <3>1
  <2>4. CASE k # 1 /\ k # 2
    BY <1>4, <2>4
  <2> QED BY <2>2, <2>3, <2>4
<1>11. Due(t, c) = Due(o, c)
  <2>1. \A q : (\E k \in DOMAIN t : Books(t[k], c, q)) => \E k \in DOMAIN o : Books(o[k], c, q)
    BY <1>10
  <2>2. ASSUME NEW q, NEW k \in DOMAIN o, Books(o[k], c, q) PROVE \E j \in DOMAIN t : Books(t[j], c, q)
    <3>1. k + 1 \in DOMAIN t /\ k + 1 > 1 /\ (k + 1) - 1 = k
      BY <1>3, <1>4
    <3>2. Books(t[k + 1], c, q)
      BY <1>10, <2>2, <3>1
    <3> QED BY <3>1, <3>2
  <2> QED BY <2>1, <2>2 DEF Due
<1>12. ASSUME Distinct(o, c) PROVE Distinct(t, c)
  <2>1. SUFFICES ASSUME NEW j \in DOMAIN t, NEW k \in DOMAIN t, NEW q \in ProductIds, Books(t[j], c, q), Books(t[k], c, q)
                 PROVE  j = k
    BY DEF Distinct
  <2>2. j - 1 = k - 1
    BY <1>10, <1>12, <2>1 DEF Distinct
  <2>3. j \in Nat /\ k \in Nat
    BY <1>4
  <2> QED BY <2>2, <2>3
<1>13. MovesInTurn(t)
  <2>1. SUFFICES ASSUME NEW k \in DOMAIN t, t[k].do = "movement", k > 1 PROVE TellsOf(t[k - 1], t[k].row)
    BY DEF MovesInTurn
  <2>2. CASE k = 2
    <3>1. k - 1 = 1
      BY <2>2
    <3> QED BY <1>4, <2>2, <3>1
  <2>3. CASE k > 2
    <3>1. k \in Nat /\ k - 1 \in DOMAIN o /\ k - 1 > 1 /\ t[k] = o[k - 1] /\ k - 1 \in DOMAIN t /\ (k - 1) - 1 = k - 2
      BY <1>4, <2>3
    <3>2. TellsOf(o[k - 2], t[k].row)
      <4>1. MovesInTurn(o)
        BY <1>1 DEF ProductsInv, o
      <4> QED BY <2>1, <3>1, <4>1 DEF MovesInTurn
    <3>3. CASE k = 3
      <4>1. k - 2 = 1
        BY <3>3
      <4>2. o[1].do = "saveProduct"
        BY <3>2, <4>1 DEF TellsOf
      <4> QED BY <1>3, <4>2
    <3>4. CASE k # 3
      <4>1. k - 1 # 1 /\ k - 1 # 2
        BY <2>3, <3>1, <3>4
      <4>2. t[k - 1] = o[(k - 1) - 1]
        BY <1>4, <3>1, <4>1
      <4> QED BY <3>1, <3>2, <4>2
    <3> QED BY <3>3, <3>4
  <2> QED BY <1>4, <2>1, <2>2, <2>3
<1>14. \A d : (\E i \in DOMAIN t : "count" \in DOMAIN t[i] /\ t[i].count = d) => Concerns(w, d)
  BY <1>2, <1>4 DEF Concerns, o
<1>15. \A k \in DOMAIN o : o[k].do # "newProduct"
  <2>1. o[n].do = "saveCount"
    BY <1>5 DEF IsCompletion, n, o
  <2>2. \A k \in DOMAIN o : k = n \/ k < n
    BY <1>3
  <2> QED BY <1>7, <2>1, <2>2 DEF Books
<1>16. \A k \in DOMAIN t :
         /\ t[k].do # "newProduct"
         /\ t[k].do = "saveItem" => \E j \in DOMAIN o : o[j] = t[k]
         /\ t[k].do \in {"saveProduct", "softRemove", "adjust"} => t[k].product \in DOMAIN products
  BY <1>1, <1>4, <1>15 DEF ProductsInv, o
<1>17. \A d : IsCompletion(t, d) => IsCompletion(o, d)
  BY <1>4, <1>5, <1>8, CompletionConcerns
<1>18. Proceeds(w, t)
  BY <1>4, <1>8, <1>13, <1>14, <1>16, <1>17 DEF Proceeds, o
<1> QED BY <1>4, <1>6, <1>8, <1>11, <1>12, <1>18 DEF o, n

(* An adjustment turns into a save and a movement, or into nothing when the product was deleted.  *)
LEMMA AdjustmentKeeps == ASSUME StockInv, NEW w \in Workers, ApplyStockAdjustment(w) PROVE StockInv'
<1>1. StockTypes /\ ProductsInv /\ ItemsInv /\ PlansInv /\ task[w] # <<>> /\ Now(w).do = "adjust"
  BY DEF StockInv, ApplyStockAdjustment, At, Idle
<1>2. /\ UNCHANGED <<catalogue, raced, cut, removed>>
      /\ UNCHANGED <<products, movements, nextId, counts, items, raced, cut, removed>>
  BY DEF ApplyStockAdjustment, catalogue
<1>3. PICK c \in CountIds : IsCompletion(task[w], c)
  <2>1. Now(w) = task[w][1] /\ 1 \in DOMAIN task[w]
    BY <1>1, JobsAre
  <2>2. ~ IsOther(task[w])
    BY <1>1, <2>1 DEF IsOther
  <2> QED BY <1>1, <2>2 DEF PlansInv
<1>4. PICK p, quantity : p = Now(w).product /\ quantity = Now(w).quantity
  OBVIOUS
<1>5. Now(w).count = c /\ p \in DOMAIN products /\ p \in ProductIds /\ quantity \in Int
  <2>1. Now(w) \in Adjustments /\ Now(w) = task[w][1] /\ 1 \in DOMAIN task[w]
    BY <1>1, JobsAre, JobKinds
  <2>2. quantity \in Int
    BY <1>4, <2>1 DEF Adjustments
  <2>3. Now(w).count = c /\ p \in ProductIds
    BY <1>1, <1>3, <1>4, CompletionHead
  <2>4. p \in DOMAIN products
    BY <1>1, <1>4, <2>1 DEF ProductsInv
  <2> QED BY <2>2, <2>3, <2>4
<1>6. \A d, q : Booked(d, q)' = Booked(d, q)
  BY <1>2 DEF Booked
<1>7. \A d : ItemsOf(d)' = ItemsOf(d)
  BY <1>2 DEF ItemsOf
<1>8. \A i \in DOMAIN items : Covered(i) => Covered(i)'
  <2>1. SUFFICES ASSUME NEW i \in DOMAIN items, Covered(i) PROVE Covered(i)'
    OBVIOUS
  <2>2. PICK d, q : items[i].count = d /\ items[i].product = q
    OBVIOUS
  <2>3. Booked(d, q)' = Booked(d, q)
    BY <1>6
  <2> QED BY <1>2, <2>1, <2>2, <2>3 DEF Covered, Difference
<1>9. Saved' \subseteq Entered
  BY <1>2 DEF Saved, Entered
<1>10. /\ DOMAIN counts' \subseteq CountIds /\ \A d \in DOMAIN counts' : counts'[d] \in Statuses /\ d < nextId.count
       /\ DOMAIN items' \subseteq ItemIds /\ \A i \in DOMAIN items' : items'[i] \in ItemRow
  BY <1>1, <1>2 DEF StockTypes, ItemsInv
<1>11. ASSUME NEW t, Proceeds(w, t), IsCompletion(t, c), t[Len(t)] = task[w][Len(task[w])],
              Distinct(task[w], c) => Distinct(t, c),
              \A q \in ProductIds : q \in Due(t, c) => q \in Due(task[w], c),
              \A i \in ItemsOf(c) : items[i].product \in Due(task[w], c) => Covered(i)' \/ items[i].product \in Due(t, c)
       PROVE  StockInv'
  <2>1. ASSUME NEW d \in CountIds \ raced, CountSound(d), StockTypes' PROVE CountSound(d)'
    <3>1. CASE d # c
      <4>1. ~ IsCompletion(task[w], d)
        BY <1>1, <1>3, <3>1, CompletionConcerns DEF StockTypes
      <4>2. cut[d] <= cut'[d] /\ removed \subseteq removed'
        BY <1>1, <1>2 DEF StockTypes
      <4> QED BY <1>1, <1>2, <1>6, <1>7, <1>11, <2>1, <4>1, <4>2, OtherCounts
    <3>2. CASE d = c
      <4>1. ASSUME NEW q \in ProductIds, Cardinality(Booked(c, q)) <= IF q \in Due(task[w], c) THEN cut[c] ELSE 1 + cut[c]
            PROVE  Cardinality(Booked(c, q))' <= IF q \in Due(t, c) THEN cut'[c] ELSE 1 + cut'[c]
        <5>1. Cardinality(Booked(c, q)) \in Nat /\ Cardinality(Booked(c, q))' = Cardinality(Booked(c, q)) /\ cut[c] \in Nat
          BY <1>1, <1>6, BookedCounts DEF StockTypes
        <5> QED BY <1>2, <1>11, <4>1, <5>1
      <4>2. \A i \in ItemsOf(c) : Covered(i) => Covered(i)'
        BY <1>8 DEF ItemsOf
      <4> QED BY <1>1, <1>2, <1>3, <1>11, <2>1, <3>2, <4>1, <4>2, CompletionGoesOn
    <3> QED BY <3>1, <3>2
  <2> QED BY <1>2, <1>9, <1>10, <1>11, <2>1, CountsKeep
<1>12. CASE p \notin Live
  <2> DEFINE t == Tail(task[w])
  <2>1. Done(w)
    BY <1>4, <1>12 DEF ApplyStockAdjustment
  <2>2. Proceeds(w, t)
    BY <1>1, <2>1, DoneTurns, TailProceeds
  <2>3. IsCompletion(t, c) /\ t[Len(t)] = task[w][Len(task[w])]
    BY <1>1, <1>3, <2>2, TailCompletes
  <2>4. Due(task[w], c) = Due(t, c) \cup {q \in ProductIds : Books(Now(w), c, q)} /\ (Distinct(task[w], c) => Distinct(t, c))
    BY <1>1, DueAre
  <2>5. \A q \in ProductIds : Books(Now(w), c, q) => q = p
    BY <1>1, <1>4 DEF Books
  <2>6. p \in removed'
    BY <1>1, <1>2, <1>5, <1>12 DEF Live, ProductsInv
  <2> HIDE DEF t
  <2>7. \A i \in ItemsOf(c) : items[i].product \in Due(task[w], c) => Covered(i)' \/ items[i].product \in Due(t, c)
    BY <1>2, <2>4, <2>5, <2>6 DEF Covered
  <2> QED BY <1>11, <2>2, <2>3, <2>4, <2>7
<1>13. CASE p \in Live
  <2>1. PICK before, after, row : /\ before = products[p].stock /\ after = AtLeastZero(before + quantity)
                                  /\ row = [products[p] EXCEPT !.stock = after]
    OBVIOUS
  <2>2. products[p] \in ProductRow /\ before \in Nat /\ after \in Nat /\ row \in ProductRow /\ row.stock = after
    <3>1. products[p] \in ProductRow /\ before \in Nat
      BY <1>1, <1>5, <2>1 DEF StockTypes, ProductRow
    <3>2. after \in Nat
      BY <1>5, <2>1, <3>1 DEF AtLeastZero
    <3> QED BY <2>1, <3>1, <3>2 DEF ProductRow
  <2>3. PICK s, m : s = SaveProduct(p, row) /\ m = Move(p, c, quantity, before, after)
    OBVIOUS
  <2>4. s \in ProductSaves /\ s.do = "saveProduct" /\ s.product = p /\ s.read = before /\ s.row = row
    BY <1>5, <2>1, <2>2, <2>3 DEF SaveProduct, ProductSaves
  <2>5. m \in MovementInserts /\ m.do = "movement" /\ m.row.count = c /\ m.row.product = p /\ m.row.before = before /\ m.row.after = after
    BY <1>5, <2>2, <2>3 DEF Move, MovementInserts, Movement, CountIds
  <2>6. TellsOf(s, m.row)
    BY <2>2, <2>4, <2>5 DEF TellsOf
  <2>7. PICK t : t = Adjusted(w, s, m)
    OBVIOUS
  <2>8. Turn(w, t)
    <3>1. Then(w, <<s, m>>)
      BY <1>4, <1>5, <1>13, <2>1, <2>3 DEF ApplyStockAdjustment
    <3>2. task' = [task EXCEPT ![w] = t]
      BY <2>7, <3>1 DEF Then, Adjusted
    <3> QED BY <1>1, <3>2, DoneTurns
  <2>9. /\ Proceeds(w, t) /\ IsCompletion(t, c) /\ t[Len(t)] = task[w][Len(task[w])]
        /\ Due(t, c) = Due(task[w], c) /\ (Distinct(task[w], c) => Distinct(t, c))
    <3>1. task[w] # <<>> /\ Now(w).do = "adjust" /\ Now(w).product = p /\ p \in DOMAIN products
      BY <1>1, <1>4, <1>5
    <3>2. /\ s \in ProductSaves /\ s.do = "saveProduct" /\ s.product = p
          /\ m \in MovementInserts /\ m.do = "movement" /\ m.row.count = c /\ m.row.product = p
      BY <2>4, <2>5
    <3> QED BY <1>3, <2>6, <2>7, <2>8, <3>1, <3>2, AdjustmentProceeds
  <2> QED BY <1>11, <2>9
<1> QED BY <1>12, <1>13

-----------------------------------------------------------------------------
(* The invariant holds at first, and every step keeps it.  *)
LEMMA FirstItems ==
  ASSUME StockInit
  PROVE  /\ DOMAIN products = FirstList /\ \A p \in FirstList : products[p] \in ProductRow /\ ~ products[p].deleted
         /\ IsFiniteSet(FirstList) /\ Cardinality(FirstList) \in Nat /\ FirstList \subseteq ProductIds \cap ItemIds
         /\ FirstList = 1..Cardinality(FirstList) /\ nextId.product = Cardinality(FirstList) + 1
         /\ DOMAIN counts \in SUBSET {1} /\ (\A c \in DOMAIN counts : counts[c] \in {"draft", "in_progress"})
         /\ nextId.count = Cardinality(DOMAIN counts) + 1 /\ nextId.item = Cardinality(DOMAIN items) + 1
         /\ \/ DOMAIN counts = {} /\ DOMAIN items = {}
            \/ /\ DOMAIN counts = {1} /\ DOMAIN items = FirstList
               /\ \A i \in FirstList : items[i] \in ItemRow /\ items[i].count = 1 /\ items[i].product = i
<1>1. /\ FirstList = 1..Cardinality(FirstList) /\ FirstList \subseteq ProductIds \cap ItemIds /\ FirstName \in Names
      /\ MaxCounts \in Nat /\ MaxItems \in Nat /\ MaxCounts >= 1 /\ MaxCategories >= 1 /\ MaxProducts \in Nat /\ MaxStock \in Nat
      /\ MaxCategories \in Nat
  BY StockAssumption, CatalogueAssumption
<1>2. IsFiniteSet(FirstList) /\ Cardinality(FirstList) \in Nat
  <2>1. IsFiniteSet(1..MaxProducts)
    BY <1>1, FS_Interval
  <2>2. FirstList \subseteq 1..MaxProducts
    BY <1>1 DEF ProductIds
  <2> QED BY <2>1, <2>2, FS_Subset, FS_CardinalityType
<1>3. PICK stock \in 0..MaxStock :
        products = [p \in FirstList |-> [name |-> FirstName, category |-> 1, available |-> TRUE,
                      tracked |-> TRUE, stock |-> stock, deleted |-> FALSE]]
  BY DEF StockInit
<1>4. DOMAIN products = FirstList /\ \A p \in FirstList : products[p] \in ProductRow /\ ~ products[p].deleted /\ products[p].stock \in Nat
  <2>1. 1 \in CategoryIds /\ stock \in Nat
    BY <1>1 DEF CategoryIds
  <2> QED BY <1>1, <1>3, <2>1 DEF ProductRow
<1>5. nextId.product = Cardinality(FirstList) + 1
      /\ nextId.count = Cardinality(DOMAIN counts) + 1 /\ nextId.item = Cardinality(DOMAIN items) + 1
  BY DEF StockInit
<1>6. CASE counts = [c \in {} |-> Blank] /\ items = [i \in {} |-> Blank]
  <2>1. DOMAIN counts = {} /\ DOMAIN items = {}
    BY <1>6
  <2> QED BY <1>1, <1>2, <1>4, <1>5, <2>1
<1>7. CASE /\ counts \in [{1} -> {"draft", "in_progress"}]
           /\ \E quantity \in [FirstList -> 0..MaxStock \cup {Uncounted}] :
                items = [i \in FirstList |-> [count |-> 1, product |-> i,
                          expected |-> products[i].stock, counted |-> quantity[i]]]
  <2>1. PICK quantity \in [FirstList -> 0..MaxStock \cup {Uncounted}] :
          items = [i \in FirstList |-> [count |-> 1, product |-> i,
                          expected |-> products[i].stock, counted |-> quantity[i]]]
    BY <1>7
  <2>2. ASSUME NEW i \in FirstList PROVE items[i] \in ItemRow /\ items[i].count = 1 /\ items[i].product = i
    <3>1. quantity[i] \in Nat \cup {Uncounted} /\ products[i].stock \in Nat /\ 1 \in CountIds /\ i \in ProductIds
      BY <1>1, <1>4 DEF CountIds
    <3> QED BY <2>1, <3>1 DEF ItemRow
  <2>3. DOMAIN counts = {1} /\ DOMAIN items = FirstList /\ \A c \in DOMAIN counts : counts[c] \in {"draft", "in_progress"}
    BY <1>7, <2>1
  <2> QED BY <1>1, <1>2, <1>4, <1>5, <2>2, <2>3
<1> QED BY <1>6, <1>7 DEF StockInit

(* The invariant holds at first,  *)
LEMMA StockStarts == ASSUME StockInit PROVE StockInv
<1>1. /\ DOMAIN task = Workers /\ (\A w \in Workers : task[w] = <<>>)
      /\ categories = [c \in {1} |-> FirstName] /\ movements = <<>> /\ drifted = {} /\ raced = {} /\ removed = {}
      /\ cut = [c \in CountIds |-> 0]
      /\ nextId = [category |-> 2, product |-> Cardinality(FirstList) + 1,
                   count |-> Cardinality(DOMAIN counts) + 1, item |-> Cardinality(DOMAIN items) + 1]
  BY DEF StockInit, RequestsInit, Idle
<1>2. /\ MaxCounts \in Nat /\ MaxItems \in Nat /\ MaxCounts >= 1 /\ MaxCategories >= 1 /\ MaxProducts \in Nat
      /\ MaxCategories \in Nat /\ FirstName \in Names /\ 1 \in CategoryIds /\ 1 \in CountIds
  BY StockAssumption, CatalogueAssumption DEF CategoryIds, CountIds
<1> DEFINE n == Cardinality(FirstList)
<1>3. /\ n \in Nat /\ FirstList = 1..n /\ n <= MaxProducts /\ n <= MaxItems
  <2>1. n \in Nat /\ FirstList = 1..n /\ FirstList \subseteq ProductIds \cap ItemIds
    BY FirstItems
  <2> HIDE DEF n
  <2>2. n > 0 => n \in FirstList
    BY <2>1
  <2>3. n > 0 => n \in 1..MaxProducts /\ n \in 1..MaxItems
    BY <2>1, <2>2 DEF ProductIds, ItemIds
  <2> QED BY <1>2, <2>1, <2>3
<1>4. /\ Cardinality(DOMAIN counts) \in 0..1 /\ (DOMAIN counts = {1} => Cardinality(DOMAIN counts) = 1)
      /\ Cardinality(DOMAIN items) \in {0, n} /\ (DOMAIN items = FirstList => Cardinality(DOMAIN items) = n)
  <2>1. Cardinality({}) = 0 /\ Cardinality({1}) = 1
    BY FS_EmptySet, FS_Singleton
  <2> QED BY <2>1, FirstItems
<1> HIDE DEF n
<1>5. nextId \in Ids
  <2>1. /\ 2 \in 1..MaxCategories + 1 /\ n + 1 \in 1..MaxProducts + 1
        /\ Cardinality(DOMAIN counts) + 1 \in 1..MaxCounts + 1 /\ Cardinality(DOMAIN items) + 1 \in 1..MaxItems + 1
    BY <1>2, <1>3, <1>4
  <2> QED BY <1>1, <2>1 DEF Ids, n
<1>6. StockTypes
  <2>1. DOMAIN categories \subseteq CategoryIds /\ \A c \in DOMAIN categories : categories[c] \in Names
    BY <1>1, <1>2
  <2>2. \A w \in Workers : task[w] \in Seq(Jobs)
    BY <1>1, EmptyPlan
  <2>3. movements \in Seq(Movement)
    BY <1>1
  <2>4. DOMAIN counts \subseteq CountIds /\ \A c \in DOMAIN counts : counts[c] \in Statuses
    BY <1>2, FirstItems DEF Statuses
  <2>5. DOMAIN items \subseteq ItemIds /\ \A i \in DOMAIN items : items[i] \in ItemRow
    BY FirstItems
  <2>6. raced \subseteq CountIds /\ cut \in [CountIds -> Nat] /\ removed \subseteq ProductIds /\ drifted \subseteq ProductIds
    BY <1>1
  <2>7. DOMAIN products \subseteq ProductIds /\ \A p \in DOMAIN products : products[p] \in ProductRow
    BY FirstItems
  <2> QED BY <1>1, <1>5, <2>1, <2>2, <2>3, <2>4, <2>5, <2>6, <2>7 DEF StockTypes
<1>7. \A w \in Workers : DOMAIN task[w] = {}
  BY <1>1, EmptyPlan
<1>8. ProductsInv
  <2>1. \A p \in DOMAIN products : p < nextId.product /\ (products[p].deleted => p \in removed)
    BY <1>3, FirstItems DEF n
  <2>2. \A w \in Workers : MovesInTurn(task[w])
    BY <1>1, EmptyPlan
  <2> QED BY <1>7, <2>1, <2>2 DEF ProductsInv, IsNew
<1>9. ItemsInv
  <2>1. \A w \in Workers : Unsaved(w) = {}
    BY <1>7 DEF Unsaved
  <2>2. Entered = Saved
    BY <2>1 DEF Entered
  <2>3. \A i \in DOMAIN items : /\ DOMAIN items = FirstList /\ DOMAIN counts = {1}
                                /\ items[i].count = 1 /\ items[i].product = i
    BY FirstItems
  <2>4. \A x \in Entered : /\ x.item \in FirstList /\ x = [item |-> x.item, count |-> 1, product |-> x.item]
                           /\ DOMAIN items = FirstList /\ DOMAIN counts = {1}
    BY <2>2, <2>3 DEF Saved
  <2>5. ASSUME NEW x \in Entered PROVE x.item < nextId.item /\ x.count < nextId.count /\ x.product \in DOMAIN products
    <3>1. nextId.item = n + 1 /\ nextId.count = 2
      BY <1>4, <2>4, FirstItems
    <3>2. x.item \in 1..n /\ x.count = 1 /\ x.product = x.item
      BY <1>3, <2>4
    <3> QED BY <1>3, <2>4, <3>1, <3>2, FirstItems
  <2>6. \A x, y \in Entered : x.item = y.item \/ x.product = y.product => x = y
    BY <2>4
  <2>7. \A c \in DOMAIN counts : c < nextId.count
    <3>1. \A c \in DOMAIN counts : c = 1 /\ DOMAIN counts = {1}
      BY FirstItems
    <3> QED BY <1>4, <3>1, FirstItems
  <2>8. \A w \in Workers, c \in CountIds : ~ Concerns(w, c)
    BY <1>7 DEF Concerns
  <2> QED BY <1>7, <2>5, <2>6, <2>7, <2>8 DEF ItemsInv
<1>10. PlansInv
  BY <1>1, EmptyPlan DEF PlansInv
<1>11. CountsInv
  <2>1. \A c, p : Booked(c, p) = {}
    BY <1>1, EmptySeq, LenProperties DEF Booked
  <2>2. \A c, p : Cardinality(Booked(c, p)) = 0
    BY <2>1, FS_EmptySet
  <2>3. \A c \in CountIds : /\ \A w \in Workers : ~ Concerns(w, c) /\ ~ IsCompletion(task[w], c)
                            /\ ~ IsCompleted(c) /\ cut[c] = 0
    BY <1>1, <1>7, EmptyPlan, FirstItems DEF Concerns, IsCompleted
  <2> QED BY <2>2, <2>3 DEF CountsInv, CountSound
<1> QED BY <1>6, <1>8, <1>9, <1>10, <1>11 DEF StockInv

(* when nothing happens,  *)
LEMMA StockStands == ASSUME StockInv, UNCHANGED stockVars PROVE StockInv'
<1>1. UNCHANGED <<task, categories, products, movements, nextId, drifted, counts, items, raced, cut, removed>>
  BY DEF stockVars, requests, catalogue
<1>2. StockTypes'
  BY <1>1 DEF StockInv, StockTypes
<1>3. ProductsInv'
  BY <1>1 DEF StockInv, ProductsInv, IsNew
<1>4. ItemsInv'
  <2>1. Entered' = Entered
    BY <1>1 DEF Entered, Saved, Unsaved
  <2> QED BY <1>1, <2>1 DEF StockInv, ItemsInv, Concerns
<1>5. PlansInv'
  BY <1>1 DEF StockInv, PlansInv
<1>6. CountsInv'
  <2>1. SUFFICES ASSUME NEW c \in CountIds \ raced PROVE CountSound(c)'
    BY <1>1 DEF CountsInv
  <2>2. CountSound(c)
    BY DEF StockInv, CountsInv
  <2>3. \A v \in Workers : Concerns(v, c)' => Concerns(v, c)
    BY <1>1 DEF Concerns
  <2>4. ItemsOf(c)' = ItemsOf(c) /\ \A p \in ProductIds : Booked(c, p)' = Booked(c, p)
    BY <1>1 DEF ItemsOf, Booked
  <2>5. cut[c] <= cut'[c]
    BY <1>1 DEF StockInv, StockTypes
  <2> QED BY <1>1, <1>2, <2>2, <2>3, <2>4, <2>5, Untouched DEF StockInv
<1> QED BY <1>2, <1>3, <1>4, <1>5, <1>6 DEF StockInv

(* and after every step.  *)
LEMMA StockKeeps == ASSUME StockInv, [StockNext]_stockVars PROVE StockInv'
<1>1. CASE \E w \in Workers : InventoryRequest(w)
  BY <1>1, InventoryBegins, CountBegunKeeps
<1>2. CASE \E w \in Workers : CountStatement(w)
  BY <1>2, StoreCountKeeps, DropCountKeeps, StoreItemKeeps, AdjustmentKeeps DEF CountStatement
<1>3. CASE OfCatalogue /\ Noted
  <2>1. CASE CrashCatalogue
    BY <1>3, <2>1, CrashKeeps
  <2>2. CASE \E w \in Workers : CatalogueRequest(w)
    <3>1. PICK w \in Workers : CatalogueRequest(w)
      BY <2>2
    <3>2. PICK t : CatalogueBegun(w, t)
      BY <3>1, CatalogueBegins DEF StockInv
    <3> QED BY <1>3, <3>2, BegunKeeps
  <2>3. CASE \E w \in Workers : CatalogueStatement(w)
    BY <1>3, <2>3, StoreCategoryKeeps, DropCategoryKeeps, StoreProductKeeps, InsertProductKeeps,
       SoftRemoveKeeps, InsertMovementKeeps DEF CatalogueStatement
  <2> QED BY <1>3, <2>1, <2>2, <2>3 DEF OfCatalogue
<1>4. CASE UNCHANGED stockVars
  BY <1>4, StockStands
<1> QED BY <1>1, <1>2, <1>3, <1>4 DEF StockNext, Noted

(* A sound count is booked once.  *)
LEMMA SoundIsBookedOnce == ASSUME StockInv PROVE BookedOnce
<1>1. SUFFICES ASSUME NEW c \in CountIds \ raced
               PROVE  /\ \A p \in ProductIds : Cardinality(Booked(c, p)) <= 1 + cut[c]
                      /\ c \in DOMAIN counts /\ counts[c] = "completed" =>
                           \A i \in ItemsOf(c) :
                             items[i].product \in removed \/ Difference(items[i]) = 0 \/ Booked(c, items[i].product) # {}
  BY DEF BookedOnce
<1>2. StockTypes /\ CountSound(c)
  BY DEF StockInv, CountsInv
<1>3. cut[c] \in Nat /\ \A p \in ProductIds : Cardinality(Booked(c, p)) \in Nat
  BY <1>2, BookedCounts DEF StockTypes
<1>4. ASSUME NEW p \in ProductIds PROVE Cardinality(Booked(c, p)) <= 1 + cut[c]
  <2>1. CASE IsCompleted(c)
    BY <1>2, <2>1 DEF CountSound, Finished
  <2>2. CASE \E w \in Workers : IsCompletion(task[w], c)
    <3>1. PICK w \in Workers : Underway(w, c)
      BY <1>2, <2>2 DEF CountSound
    <3>2. Cardinality(Booked(c, p)) <= IF p \in Due(task[w], c) THEN cut[c] ELSE 1 + cut[c]
      BY <3>1 DEF Underway
    <3> QED BY <1>3, <3>2
  <2>3. CASE ~ IsCompleted(c) /\ \A w \in Workers : ~ IsCompletion(task[w], c)
    <3>1. Cardinality(Booked(c, p)) <= cut[c]
      BY <1>2, <2>3 DEF CountSound
    <3> QED BY <1>3, <3>1
  <2> QED BY <2>1, <2>2, <2>3
<1>5. ASSUME IsCompleted(c), NEW i \in ItemsOf(c)
      PROVE  items[i].product \in removed \/ Difference(items[i]) = 0 \/ Booked(c, items[i].product) # {}
  <2>1. Covered(i) /\ items[i].count = c
    BY <1>2, <1>5 DEF CountSound, Finished, ItemsOf
  <2> QED BY <2>1 DEF Covered
<1> QED BY <1>4, <1>5 DEF IsCompleted

(* A count is booked once, except once more for every completion that was cut off,
   and a completed count has changed the stock of every product whose count differs
   (completeCount, applyStockAdjustment).                                          *)
THEOREM CountsBookedOnce == StockSpec => []BookedOnce
<1>1. StockInit => StockInv
  BY StockStarts
<1>2. StockInv /\ [StockNext]_stockVars => StockInv'
  BY StockKeeps
<1>3. StockInv => BookedOnce
  BY SoundIsBookedOnce
<1> QED BY <1>1, <1>2, <1>3, PTL DEF StockSpec

-----------------------------------------------------------------------------
(* What the movement at the head of a task tells of product p.  *)
Tells(t, p) == IF t # <<>> /\ t[1].do = "movement" /\ t[1].row.product = p THEN Change(t[1].row) ELSE 0
TellsOne(row, p) == IF row.product = p THEN Change(row) ELSE 0

(* What a movement tells is a number.  *)
LEMMA ChangesAre == ASSUME NEW row \in Movement, NEW p PROVE Change(row) \in Int /\ TellsOne(row, p) \in Int
BY DEF Movement, Change, TellsOne

(* The head of a task is its first statement.  *)
LEMMA FirstTells ==
  ASSUME NEW t \in Seq(Jobs), NEW p
  PROVE  /\ Tells(t, p) \in Int
         /\ Tells(t, p) = IF t # <<>> /\ Head(t).do = "movement" /\ Head(t).row.product = p THEN Change(Head(t).row) ELSE 0
<1>1. CASE t = <<>>
  BY <1>1 DEF Tells
<1>2. CASE t # <<>>
  <2>1. Head(t) = t[1] /\ t[1] \in Jobs
    BY <1>2, HeadTailProperties, NextFirst, LenProperties
  <2>2. t[1].do = "movement" => Change(t[1].row) \in Int
    <3>1. t[1].do = "movement" => t[1].row \in Movement
      BY <2>1, JobKinds DEF MovementInserts
    <3> QED BY <3>1, ChangesAre
  <2>3. Tells(t, p) \in Int
    BY <2>2 DEF Tells
  <2> QED BY <1>2, <2>1, <2>3 DEF Tells
<1> QED BY <1>1, <1>2

(* What a request has still to tell, before a step  *)
LEMMA TellingIs ==
  ASSUME StockTypes, NEW w \in Workers, NEW p
  PROVE  Tells(task[w], p) \in Int /\ Untold(p)[w] = Tells(task[w], p)
<1>1. task[w] \in Seq(Jobs)
  BY DEF StockTypes
<1>2. Untold(p)[w] = IF task[w] # <<>> /\ Head(task[w]).do = "movement" /\ Head(task[w]).row.product = p
                     THEN Change(Head(task[w]).row) ELSE 0
  BY DEF Untold, Pending, At, Idle, Now
<1> QED BY <1>1, <1>2, FirstTells

(* and after it.  *)
LEMMA TellingThen ==
  ASSUME StockTypes', NEW w \in Workers, NEW p
  PROVE  Tells(task'[w], p) \in Int /\ Untold(p)'[w] = Tells(task'[w], p)
<1>1. task'[w] \in Seq(Jobs)
  BY DEF StockTypes
<1>2. Untold(p)'[w] = IF task'[w] # <<>> /\ Head(task'[w]).do = "movement" /\ Head(task'[w]).row.product = p
                      THEN Change(Head(task'[w]).row) ELSE 0
  BY DEF Untold, Pending, At, Idle, Now, Change
<1> QED BY <1>1, <1>2, FirstTells

(* The sum over the requests moves as the one does that takes its turn.  *)
LEMMA UntoldMoves ==
  ASSUME StockTypes, StockTypes', NEW w \in Workers, NEW t, Turn(w, t), NEW p
  PROVE  /\ SumFunction(Untold(p)) \in Int /\ SumFunction(Untold(p))' \in Int
         /\ Tells(task[w], p) \in Int /\ Tells(t, p) \in Int
         /\ SumFunction(Untold(p))' = SumFunction(Untold(p)) - Tells(task[w], p) + Tells(t, p)
<1> DEFINE f == Untold(p)
           e == Untold(p)'
<1>1. IsFiniteSet(Workers) /\ DOMAIN f = Workers /\ DOMAIN e = Workers
  BY StockAssumption DEF Untold
<1>2. \A v \in Workers : f[v] = Tells(task[v], p) /\ f[v] \in Int
  BY TellingIs
<1>3. \A v \in Workers : e[v] = Tells(task'[v], p) /\ e[v] \in Int
  BY TellingThen
<1>4. SumFunction(Untold(p)) = SumFunctionOnSet(f, Workers) /\ SumFunction(Untold(p))' = SumFunctionOnSet(e, Workers)
  BY <1>1 DEF SumFunction
<1>5. task'[w] = t /\ \A v \in Workers \ {w} : task'[v] = task[v]
  BY DEF Turn
<1> HIDE DEF f, e
<1>6. /\ SumFunctionOnSet(f, Workers) \in Int /\ SumFunctionOnSet(e, Workers) \in Int
      /\ SumFunctionOnSet(f, Workers) = f[w] + SumFunctionOnSet(f, Workers \ {w})
      /\ SumFunctionOnSet(e, Workers) = e[w] + SumFunctionOnSet(e, Workers \ {w})
  BY <1>1, <1>2, <1>3, SumOfMore
<1>7. SumFunctionOnSet(f, Workers \ {w}) = SumFunctionOnSet(e, Workers \ {w}) /\ SumFunctionOnSet(f, Workers \ {w}) \in Int
  <2>1. IsFiniteSet(Workers \ {w}) /\ \A v \in Workers \ {w} : f[v] \in Int /\ f[v] = e[v]
    BY <1>1, <1>2, <1>3, <1>5, FS_Subset
  <2> QED BY <2>1, SumOfSame, SumOfMore
<1>8. f[w] = Tells(task[w], p) /\ e[w] = Tells(t, p) /\ f[w] \in Int /\ e[w] \in Int
  BY <1>2, <1>3, <1>5
<1> QED BY <1>4, <1>6, <1>7, <1>8

(* What the movements tell adds up to a number.  *)
LEMMA ToldAre ==
  ASSUME StockTypes, NEW p
  PROVE  /\ IsFiniteSet(DOMAIN movements) /\ DOMAIN Told(p) = DOMAIN movements
         /\ \A m \in DOMAIN movements : Told(p)[m] = TellsOne(movements[m], p) /\ Told(p)[m] \in Int
         /\ SumFunction(Told(p)) \in Int
<1>1. DOMAIN movements = 1..Len(movements) /\ Len(movements) \in Nat /\ \A m \in DOMAIN movements : movements[m] \in Movement
  BY LenProperties DEF StockTypes
<1>2. IsFiniteSet(DOMAIN movements)
  BY <1>1, FS_Interval
<1>3. \A m \in DOMAIN movements : Told(p)[m] = TellsOne(movements[m], p) /\ Told(p)[m] \in Int
  BY <1>1, ChangesAre DEF Told, TellsOne
<1>4. SumFunction(Told(p)) \in Int
  <2> DEFINE f == Told(p)
  <2>1. DOMAIN f = DOMAIN movements
    BY DEF Told
  <2>2. \A m \in DOMAIN f : f[m] \in Int
    BY <1>3, <2>1
  <2> HIDE DEF f
  <2>3. SumFunctionOnSet(f, DOMAIN f) \in Int
    BY <1>2, <2>1, <2>2, SumOfMore
  <2> QED BY <2>3 DEF SumFunction, f
<1> QED BY <1>2, <1>3, <1>4 DEF Told

(* A movement more.  *)
LEMMA ToldGrows ==
  ASSUME StockTypes, StockTypes', NEW row \in Movement, movements' = Append(movements, row), NEW p
  PROVE  /\ SumFunction(Told(p)) \in Int /\ SumFunction(Told(p))' \in Int /\ TellsOne(row, p) \in Int
         /\ SumFunction(Told(p))' = SumFunction(Told(p)) + TellsOne(row, p)
<1> DEFINE f == Told(p)
           e == Told(p)'
           n == Len(movements)
<1>1. /\ n \in Nat /\ DOMAIN movements = 1..n /\ DOMAIN movements' = 1 .. n + 1
      /\ movements'[n + 1] = row /\ \A m \in 1..n : movements'[m] = movements[m]
  BY AppendProperties, LenProperties DEF StockTypes
<1>2. /\ IsFiniteSet(1..n) /\ DOMAIN f = 1..n /\ SumFunction(Told(p)) \in Int
      /\ \A m \in 1..n : f[m] = TellsOne(movements[m], p) /\ f[m] \in Int
  BY <1>1, ToldAre
<1>3. /\ DOMAIN e = 1 .. n + 1 /\ \A m \in 1 .. n + 1 : e[m] = TellsOne(movements'[m], p)
  BY <1>1 DEF Told, TellsOne, Change
<1>4. TellsOne(row, p) \in Int
  BY ChangesAre
<1>5. SumFunction(Told(p)) = SumFunctionOnSet(f, 1..n) /\ SumFunction(Told(p))' = SumFunctionOnSet(e, 1 .. n + 1)
  BY <1>2, <1>3 DEF SumFunction
<1> HIDE DEF f, e, n
<1>6. e[n + 1] = TellsOne(row, p) /\ \A m \in 1..n : e[m] = f[m] /\ e[m] \in Int
  BY <1>1, <1>2, <1>3
<1>7. IsFiniteSet(1 .. n + 1) /\ n + 1 \in 1 .. n + 1 /\ (1 .. n + 1) \ {n + 1} = 1..n /\ \A m \in 1 .. n + 1 : m = n + 1 \/ m \in 1..n
  <2>1. IsFiniteSet(1 .. n + 1)
    BY <1>1, FS_Interval
  <2>2. n + 1 \in 1 .. n + 1 /\ \A m \in 1 .. n + 1 : m = n + 1 \/ m \in 1..n
    BY <1>1
  <2>3. \A m \in 1..n : m \in 1 .. n + 1 /\ m # n + 1
    BY <1>1
  <2> QED BY <2>1, <2>2, <2>3
<1>8. /\ SumFunctionOnSet(e, 1 .. n + 1) \in Int
      /\ SumFunctionOnSet(e, 1 .. n + 1) = e[n + 1] + SumFunctionOnSet(e, 1..n)
  <2>1. \A m \in 1 .. n + 1 : e[m] \in Int
    BY <1>4, <1>6, <1>7
  <2>2. \A y \in 1 .. n + 1 : SumFunctionOnSet(e, 1 .. n + 1) = e[y] + SumFunctionOnSet(e, (1 .. n + 1) \ {y})
    BY <1>7, <2>1, SumOfMore
  <2>3. SumFunctionOnSet(e, 1 .. n + 1) = e[n + 1] + SumFunctionOnSet(e, (1 .. n + 1) \ {n + 1})
    BY <1>7, <2>2
  <2> QED BY <1>7, <2>1, <2>3, SumOfMore
<1>9. SumFunctionOnSet(e, 1..n) = SumFunctionOnSet(f, 1..n)
  BY <1>2, <1>6, SumOfSame
<1> QED BY <1>2, <1>4, <1>5, <1>6, <1>8, <1>9

(* A stock is a number.  *)
LEMMA StocksAre ==
  ASSUME StockTypes, NEW p \in DOMAIN products
  PROVE  products[p] \in ProductRow /\ products[p].stock \in Nat /\ products[p].stock \in Int
<1>1. products[p] \in ProductRow
  BY DEF StockTypes
<1> QED BY <1>1 DEF ProductRow

(* A step of one request that writes no movement explains the stock of p.  *)
LEMMA SameTold ==
  ASSUME StockTypes, StockTypes', NEW w \in Workers, NEW t, Turn(w, t), movements' = movements,
         NEW p \in DOMAIN products, p \in DOMAIN products',
         products'[p].stock - Tells(t, p) = products[p].stock - Tells(task[w], p)
  PROVE  Unexplained(p)' = Unexplained(p)
<1>1. products[p].stock \in Int /\ products'[p].stock \in Int
  <2>1. products'[p] \in ProductRow
    BY DEF StockTypes
  <2> QED BY <2>1, StocksAre DEF ProductRow
<1>2. SumFunction(Told(p)) \in Int
  BY ToldAre
<1>3. SumFunction(Told(p))' = SumFunction(Told(p))
  BY DEF Told, SumFunction, Change
<1>4. /\ SumFunction(Untold(p)) \in Int /\ SumFunction(Untold(p))' \in Int
      /\ Tells(task[w], p) \in Int /\ Tells(t, p) \in Int
      /\ SumFunction(Untold(p))' = SumFunction(Untold(p)) - Tells(task[w], p) + Tells(t, p)
  BY UntoldMoves
<1>5. Unexplained(p)' = products'[p].stock - SumFunction(Told(p))' - SumFunction(Untold(p))'
  BY DEF Unexplained
<1>6. Unexplained(p) = products[p].stock - SumFunction(Told(p)) - SumFunction(Untold(p))
  BY DEF Unexplained
<1>7. PICK a, b, c, d, x, y :
        /\ a = SumFunction(Told(p)) /\ b = SumFunction(Untold(p)) /\ c = SumFunction(Untold(p))'
        /\ d = products[p].stock /\ x = Tells(task[w], p) /\ y = Tells(t, p)
  OBVIOUS
<1>8. PICK z : z = products'[p].stock
  OBVIOUS
<1>9. a \in Int /\ b \in Int /\ c \in Int /\ d \in Int /\ x \in Int /\ y \in Int /\ z \in Int /\ c = b - x + y /\ z - y = d - x
  BY <1>1, <1>2, <1>4, <1>7, <1>8
<1>10. z - a - c = d - a - b
  BY <1>9
<1> QED BY <1>3, <1>5, <1>6, <1>7, <1>8, <1>10

-----------------------------------------------------------------------------
(* Every step explains the stock, but of the products it declares drifted.  *)
Explains == \A p \in DOMAIN products \ drifted' : Unexplained(p)' = Unexplained(p)

(* A step that moves no stock and starts or ends no movement.  *)
LEMMA NothingTold ==
  ASSUME StockTypes, StockTypes', NEW w \in Workers, NEW t, Turn(w, t), movements' = movements,
         \A p : Tells(task[w], p) = 0 /\ Tells(t, p) = 0,
         \A p \in DOMAIN products : p \in DOMAIN products' /\ products'[p].stock = products[p].stock
  PROVE  Explains
<1>1. SUFFICES ASSUME NEW p \in DOMAIN products PROVE Unexplained(p)' = Unexplained(p)
  BY DEF Explains
<1>2. products'[p].stock - Tells(t, p) = products[p].stock - Tells(task[w], p)
  OBVIOUS
<1> QED BY <1>2, SameTold

(* A movement comes after the save of its product.  *)
LEMMA TailTells ==
  ASSUME StockInv, NEW w \in Workers, task[w] # <<>>
  PROVE  /\ \A p : Tells(<<>>, p) = 0
         /\ Now(w).do # "movement" => \A p : Tells(task[w], p) = 0
         /\ Now(w).do # "saveProduct" => \A p : Tells(Tail(task[w]), p) = 0
         /\ Now(w).do = "saveProduct" =>
              \A p : Tells(Tail(task[w]), p) =
                IF Len(task[w]) > 1 /\ task[w][2].do = "movement" /\ Now(w).product = p
                THEN Now(w).row.stock - Now(w).read ELSE 0
<1>1. StockTypes /\ MovesInTurn(task[w])
  BY DEF StockInv, ProductsInv
<1> DEFINE s == task[w]
           t == Tail(task[w])
<1>2. /\ s \in Seq(Jobs) /\ t \in Seq(Jobs) /\ Len(s) \in Nat /\ Len(s) >= 1 /\ DOMAIN s = 1..Len(s) /\ Now(w) = s[1]
      /\ DOMAIN t = 1 .. Len(s) - 1 /\ Len(t) = Len(s) - 1
      /\ \A k \in DOMAIN t : t[k] = s[k + 1]
  BY <1>1, JobsAre
<1>3. Now(w).do # "movement" => \A p : Tells(s, p) = 0
  BY <1>2 DEF Tells
<1> HIDE DEF s, t
<1>4. t # <<>> <=> Len(s) > 1
  <2>1. t # <<>> <=> Len(t) # 0
    BY <1>2, EmptySeq
  <2> QED BY <1>2, <2>1
<1>5. ASSUME t # <<>> PROVE t[1] = s[2] /\ 2 \in DOMAIN s /\ (s[2].do = "movement" => TellsOf(s[1], s[2].row))
  <2>1. 1 \in DOMAIN t /\ 1 + 1 = 2 /\ 2 \in DOMAIN s /\ 2 > 1 /\ 2 - 1 = 1
    BY <1>2, <1>4, <1>5
  <2>2. t[1] = s[2]
    BY <1>2, <2>1
  <2> QED BY <1>1, <2>1, <2>2 DEF MovesInTurn, s
<1>6. ASSUME Now(w).do # "saveProduct", NEW p PROVE Tells(t, p) = 0
  BY <1>2, <1>5, <1>6 DEF Tells, TellsOf
<1>7. ASSUME Now(w).do = "saveProduct", NEW p
      PROVE  Tells(t, p) = IF Len(s) > 1 /\ s[2].do = "movement" /\ Now(w).product = p
                           THEN Now(w).row.stock - Now(w).read ELSE 0
  <2>1. CASE t = <<>>
    BY <1>4, <2>1 DEF Tells
  <2>2. CASE t # <<>> /\ s[2].do # "movement"
    BY <1>5, <2>2 DEF Tells
  <2>3. CASE t # <<>> /\ s[2].do = "movement"
    <3>1. TellsOf(s[1], s[2].row) /\ t[1] = s[2] /\ Len(s) > 1
      BY <1>4, <1>5, <2>3
    <3> QED BY <1>2, <2>3, <3>1 DEF Tells, TellsOf, Change
  <2> QED BY <2>1, <2>2, <2>3
<1>8. \A p : Tells(<<>>, p) = 0
  BY DEF Tells
<1> QED BY <1>3, <1>6, <1>7, <1>8 DEF s, t

(* No handler begins with a movement.  *)
LEMMA BeginningExplains ==
  ASSUME StockInv, StockInv', NEW w \in Workers
  PROVE  /\ \A t : CatalogueBegun(w, t) => Explains
         /\ \A c, t : CountBegun(w, c, t) => Explains
<1>1. StockTypes /\ StockTypes'
  BY DEF StockInv
<1>2. ASSUME NEW t, Turn(w, t), task[w] = <<>>, t # <<>> => t[1].do # "movement", UNCHANGED <<products, movements>>
      PROVE  Explains
  <2>1. \A p : Tells(task[w], p) = 0 /\ Tells(t, p) = 0
    BY <1>2 DEF Tells
  <2> QED BY <1>1, <1>2, <2>1, NothingTold
<1>3. ASSUME NEW t, CatalogueBegun(w, t) PROVE Explains
  <2>1. t \in Seq(OfProducts) /\ \A k \in DOMAIN t : t[k].do = "movement" => k > 1
    BY <1>3 DEF CatalogueBegun
  <2>2. t # <<>> => 1 \in DOMAIN t
    <3>1. t # <<>> => Len(t) # 0
      BY <2>1, EmptySeq
    <3> QED BY <2>1, <3>1, LenProperties
  <2>3. t # <<>> => t[1].do # "movement"
    BY <2>1, <2>2
  <2> QED BY <1>2, <1>3, <2>3 DEF CatalogueBegun
<1>4. ASSUME NEW c, NEW t, CountBegun(w, c, t) PROVE Explains
  <2>1. t \in Seq(OfCounts) /\ \A k \in DOMAIN t : t[k].do # "movement"
    BY <1>4, OfCountsAre DEF CountBegun
  <2>2. t # <<>> => 1 \in DOMAIN t
    <3>1. t # <<>> => Len(t) # 0
      BY <2>1, EmptySeq
    <3> QED BY <2>1, <3>1, LenProperties
  <2> QED BY <1>2, <1>4, <2>1, <2>2 DEF CountBegun
<1> QED BY <1>3, <1>4

(* The statements about a count change no stock.  *)
LEMMA CountStatementExplains == ASSUME StockInv, StockInv', NEW w \in Workers, CountStatement(w) PROVE Explains
<1>1. StockTypes /\ StockTypes'
  BY DEF StockInv
<1>2. task[w] # <<>> /\ Now(w).do \notin {"movement", "saveProduct"} /\ UNCHANGED <<products, movements>>
  BY DEF CountStatement, StoreCount, DropCount, StoreItem, ApplyStockAdjustment, At, Idle, catalogue
<1>3. \A p : Tells(task[w], p) = 0 /\ Tells(<<>>, p) = 0 /\ Tells(Tail(task[w]), p) = 0
  BY <1>2, TailTells
<1>4. CASE Done(w) \/ Fail(w)
  BY <1>1, <1>2, <1>3, <1>4, DoneTurns, NothingTold
<1>5. CASE ApplyStockAdjustment(w) /\ ~ Done(w)
  <2>1. PICK s, m : Then(w, <<s, m>>) /\ s.do = "saveProduct"
    <3>1. \E q, c, quantity, before, after :
            Then(w, <<SaveProduct(q, [products[q] EXCEPT !.stock = after]), Move(q, c, quantity, before, after)>>)
      BY <1>5 DEF ApplyStockAdjustment
    <3>2. \A q, row : SaveProduct(q, row).do = "saveProduct"
      BY DEF SaveProduct
    <3> QED BY <3>1, <3>2
  <2> DEFINE t == <<s, m>> \o Tail(task[w])
  <2>2. Turn(w, t)
    BY <1>1, <2>1, DoneTurns DEF Then
  <2>3. t[1] = s
    <3>1. task'[w] \in Seq(Jobs) /\ task'[w] = t
      BY <1>1, <2>2 DEF StockTypes, Turn
    <3>2. Tail(task[w]) \in Seq(Jobs) /\ Len(Tail(task[w])) \in Nat
      BY <1>1, <1>2, JobsAre, LenProperties
    <3> DEFINE b == Tail(task[w])
    <3> HIDE DEF b
    <3>3. b \in Seq(Jobs) /\ Len(b) \in Nat
      BY <3>2 DEF b
    <3>4. (<<s, m>> \o b)[1] = s
      BY <3>3
    <3> QED BY <3>4 DEF b
  <2> HIDE DEF t
  <2>4. \A p : Tells(t, p) = 0
    BY <2>1, <2>3 DEF Tells
  <2> QED BY <1>1, <1>2, <1>3, <2>2, <2>4, NothingTold
<1> QED BY <1>4, <1>5 DEF CountStatement, StoreCount, DropCount, StoreItem

(* These statements of the catalogue keep the stock of the products there are.  *)
LEMMA OtherStatementExplains ==
  ASSUME StockInv, StockInv', NEW w \in Workers,
         StoreCategory(w) \/ DropCategory(w) \/ InsertProduct(w) \/ SoftRemove(w)
  PROVE  Explains
<1>1. StockTypes /\ StockTypes'
  BY DEF StockInv
<1>2. task[w] # <<>> /\ Now(w).do \in {"saveCategory", "removeCategory", "newProduct", "softRemove"} /\ movements' = movements
  BY DEF StoreCategory, DropCategory, InsertProduct, SoftRemove, At, Idle
<1>3. \A p : Tells(task[w], p) = 0 /\ Tells(<<>>, p) = 0 /\ Tells(Tail(task[w]), p) = 0
  BY <1>2, TailTells
<1>4. \A p \in DOMAIN products : p \in DOMAIN products' /\ products'[p].stock = products[p].stock
  <2>1. CASE UNCHANGED products
    BY <2>1
  <2>2. CASE StoreCategory(w) /\ ~ UNCHANGED products
    <3> DEFINE c == Now(w).category
    <3>1. products' = [p \in DOMAIN products |->
                         IF p \in Now(w).with THEN [products[p] EXCEPT !.category = c] ELSE products[p]]
      BY <2>2 DEF StoreCategory
    <3> HIDE DEF c
    <3>2. ASSUME NEW p \in DOMAIN products PROVE [products[p] EXCEPT !.category = c].stock = products[p].stock
      BY <1>1, StocksAre DEF ProductRow
    <3> QED BY <3>1, <3>2
  <2>3. CASE InsertProduct(w) /\ ~ UNCHANGED products
    <3>1. products' = With(products, Now(w).product, Now(w).row)
      BY <2>3 DEF InsertProduct
    <3>2. Now(w).product \notin DOMAIN products
      <4>1. Now(w) = task[w][1] /\ 1 \in DOMAIN task[w]
        BY <1>1, <1>2, JobsAre
      <4>2. IsNew(w, 1) /\ 1 \in Nat
        BY <2>3, <4>1 DEF IsNew, InsertProduct, At
      <4> QED BY <4>1, <4>2 DEF StockInv, ProductsInv
    <3> QED BY <3>1, <3>2 DEF With
  <2>4. CASE SoftRemove(w)
    <3>1. products' = [products EXCEPT ![Now(w).product].deleted = TRUE]
      BY <2>4 DEF SoftRemove
    <3>2. ASSUME NEW p \in DOMAIN products PROVE [products[p] EXCEPT !.deleted = TRUE].stock = products[p].stock
      BY <1>1, StocksAre DEF ProductRow
    <3> QED BY <3>1, <3>2
  <2> QED BY <2>1, <2>2, <2>3, <2>4 DEF DropCategory
<1>5. Done(w) \/ Fail(w)
  BY DEF StoreCategory, DropCategory, InsertProduct, SoftRemove
<1> QED BY <1>1, <1>2, <1>3, <1>4, <1>5, DoneTurns, NothingTold

(* The save of a product changes its stock by what the movement after it tells.  *)
LEMMA StoreProductExplains == ASSUME StockInv, StockInv', NEW w \in Workers, StoreProduct(w) PROVE Explains
<1>1. StockTypes /\ StockTypes'
  BY DEF StockInv
<1>2. task[w] # <<>> /\ Now(w).do = "saveProduct" /\ movements' = movements
  BY DEF StoreProduct, At, Idle
<1>3. \A p : Tells(task[w], p) = 0 /\ Tells(<<>>, p) = 0
  BY <1>2, TailTells
<1>4. CASE Fail(w) /\ UNCHANGED <<products, drifted>>
  BY <1>1, <1>2, <1>3, <1>4, DoneTurns, NothingTold
<1> DEFINE q == Now(w).product
           row == Now(w).row
           told == Len(task[w]) > 1 /\ task[w][2].do = "movement"
<1>5. CASE /\ Done(w) /\ products' = With(products, q, row)
           /\ drifted' = IF (row.stock = Now(w).read \/ told) /\ products[q].stock = Now(w).read
                         THEN drifted ELSE drifted \cup {q}
  <2>1. SUFFICES ASSUME NEW p \in DOMAIN products, p \notin drifted' PROVE Unexplained(p)' = Unexplained(p)
    BY DEF Explains
  <2>2. p \in DOMAIN products' /\ products'[p] = IF p = q THEN row ELSE products[p]
    BY <1>5 DEF With
  <2>3. Tells(Tail(task[w]), p) = IF told /\ q = p THEN row.stock - Now(w).read ELSE 0
    BY <1>2, TailTells
  <2>4. products[p].stock \in Int /\ row.stock \in Int /\ Now(w).read \in Int
    <3>1. Now(w) \in ProductSaves
      BY <1>1, <1>2, JobsAre, JobKinds
    <3>2. row.stock \in Int /\ Now(w).read \in Int
      BY <3>1 DEF ProductSaves, ProductRow
    <3> QED BY <1>1, <3>2, StocksAre
  <2>5. p = q => (row.stock = Now(w).read \/ told) /\ products[q].stock = Now(w).read
    BY <1>5, <2>1
  <2>6. Tells(task[w], p) = 0
    BY <1>3
  <2> HIDE DEF q, row, told
  <2>7. products'[p].stock - Tells(Tail(task[w]), p) = products[p].stock - Tells(task[w], p)
    <3>1. CASE p # q
      BY <2>2, <2>3, <2>4, <2>6, <3>1
    <3>2. CASE p = q /\ told
      <4>1. products'[p].stock = row.stock /\ Tells(Tail(task[w]), p) = row.stock - Now(w).read /\ products[p].stock = Now(w).read
        BY <2>2, <2>3, <2>5, <3>2
      <4> QED BY <2>4, <2>6, <4>1
    <3>3. CASE p = q /\ ~ told
      <4>1. products'[p].stock = row.stock /\ Tells(Tail(task[w]), p) = 0 /\ products[p].stock = Now(w).read /\ row.stock = Now(w).read
        BY <2>2, <2>3, <2>5, <3>3
      <4> QED BY <2>4, <2>6, <4>1
    <3> QED BY <3>1, <3>2, <3>3
  <2>8. Turn(w, Tail(task[w]))
    BY <1>1, <1>5, DoneTurns
  <2> QED BY <1>1, <1>2, <2>2, <2>7, <2>8, SameTold
<1> QED BY <1>4, <1>5 DEF StoreProduct

(* A movement that is written is told, and no longer to be told.  *)
LEMMA InsertMovementExplains == ASSUME StockInv, StockInv', NEW w \in Workers, InsertMovement(w) PROVE Explains
<1>1. StockTypes /\ StockTypes'
  BY DEF StockInv
<1>2. task[w] # <<>> /\ Now(w).do = "movement" /\ products' = products /\ movements' = Append(movements, Now(w).row) /\ Done(w)
  BY DEF InsertMovement, At, Idle
<1> DEFINE row == Now(w).row
<1>3. row \in Movement /\ Now(w) = task[w][1]
  <2>1. Now(w) \in MovementInserts /\ Now(w) = task[w][1]
    BY <1>1, <1>2, JobsAre, JobKinds
  <2> QED BY <2>1 DEF MovementInserts
<1>4. Turn(w, Tail(task[w])) /\ \A p : Tells(Tail(task[w]), p) = 0
  BY <1>1, <1>2, DoneTurns, TailTells
<1>5. SUFFICES ASSUME NEW p \in DOMAIN products PROVE Unexplained(p)' = Unexplained(p)
  BY DEF Explains
<1>6. Tells(task[w], p) = TellsOne(row, p)
  BY <1>2, <1>3 DEF Tells, TellsOne
<1> HIDE DEF row
<1>7. PICK a, b, c, e, x :
        a = SumFunction(Told(p)) /\ b = SumFunction(Untold(p)) /\ c = SumFunction(Untold(p))' /\ e = SumFunction(Told(p))'
        /\ x = TellsOne(row, p)
  OBVIOUS
<1>8. a \in Int /\ e \in Int /\ x \in Int /\ e = a + x
  BY <1>1, <1>2, <1>3, <1>7, ToldGrows DEF row
<1>9. b \in Int /\ c \in Int /\ c = b - x + 0
  BY <1>1, <1>4, <1>6, <1>7, UntoldMoves
<1>10. products[p].stock \in Int /\ products'[p].stock = products[p].stock
  BY <1>1, <1>2, StocksAre
<1>11. Unexplained(p) = products[p].stock - a - b /\ Unexplained(p)' = products[p].stock - e - c
  BY <1>7, <1>10 DEF Unexplained
<1> QED BY <1>8, <1>9, <1>10, <1>11

(* A stop of the process loses only movements of products that it declares drifted.  *)
LEMMA CrashExplains == ASSUME StockInv, StockInv', CrashCatalogue PROVE Explains
<1>1. /\ task' = [v \in Workers |-> <<>>] /\ UNCHANGED <<products, movements>>
      /\ drifted' = drifted \cup {Now(w).row.product : w \in Pending}
  BY DEF CrashCatalogue, Crash, Idle
<1>2. SUFFICES ASSUME NEW p \in DOMAIN products, p \notin drifted' PROVE Unexplained(p)' = Unexplained(p)
  BY DEF Explains
<1>3. \A v \in Workers : ~ (v \in Pending /\ Now(v).row.product = p)
  BY <1>1, <1>2
<1>4. Untold(p) = [v \in Workers |-> 0]
  BY <1>3 DEF Untold
<1>5. Untold(p)' = [v \in Workers |-> 0]
  BY <1>1 DEF Untold, Pending, At, Idle
<1>6. Told(p)' = Told(p)
  BY <1>1 DEF Told, Change
<1>7. Unexplained(p)' = products[p].stock - SumFunction(Told(p)) - SumFunction([v \in Workers |-> 0])
  BY <1>1, <1>5, <1>6 DEF Unexplained
<1>8. Unexplained(p) = products[p].stock - SumFunction(Told(p)) - SumFunction([v \in Workers |-> 0])
  BY <1>4 DEF Unexplained
<1> QED BY <1>7, <1>8

(* Every step explains the stock.  *)
LEMMA StepExplains == ASSUME StockInv, StockInv', [StockNext]_stockVars PROVE [Explains]_stockVars
<1>1. CASE \E w \in Workers : InventoryRequest(w)
  <2>1. PICK w \in Workers : InventoryRequest(w)
    BY <1>1
  <2> QED BY <2>1, InventoryBegins, BeginningExplains
<1>2. CASE \E w \in Workers : CountStatement(w)
  BY <1>2, CountStatementExplains
<1>3. CASE OfCatalogue
  <2>1. CASE CrashCatalogue
    BY <2>1, CrashExplains
  <2>2. CASE \E w \in Workers : CatalogueRequest(w)
    <3>1. PICK w \in Workers : CatalogueRequest(w)
      BY <2>2
    <3> QED BY <3>1, CatalogueBegins, BeginningExplains DEF StockInv
  <2>3. CASE \E w \in Workers : CatalogueStatement(w)
    BY <2>3, OtherStatementExplains, StoreProductExplains, InsertMovementExplains DEF CatalogueStatement
  <2> QED BY <1>3, <2>1, <2>2, <2>3 DEF OfCatalogue
<1> QED BY <1>1, <1>2, <1>3 DEF StockNext

(* The stock of a product changes with the movement that tells how, and by as much
   (adjustStock, applyStockAdjustment, addItemToOrder), unless it was set by hand,
   two writes overlapped or the process stopped in between.                         *)
THEOREM StockExplained == StockSpec => StockIsExplained
<1>1. StockInit => StockInv
  BY StockStarts
<1>2. StockInv /\ [StockNext]_stockVars => StockInv'
  BY StockKeeps
<1>3. StockInv /\ StockInv' /\ [StockNext]_stockVars =>
        [\A p \in DOMAIN products \ drifted' : Unexplained(p)' = Unexplained(p)]_stockVars
  BY StepExplains DEF Explains
<1> QED BY <1>1, <1>2, <1>3, PTL DEF StockSpec, StockIsExplained
=============================================================================
