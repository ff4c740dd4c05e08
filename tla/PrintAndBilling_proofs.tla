----------------------- MODULE PrintAndBilling_proofs -----------------------
(* What two components keep that share no row, each under a specification of its
   own: the print jobs (PrintDelivery) and the billing of events (EventBilling).

   PrintDelivery, for any number of printers, stations, agents, lines and jobs.  The
   tickets of an order are a recursive function of its lines: the first part proves
   what they list by induction over the lines, the second that no step of the
   delivery loses a job or prints a line twice.

   EventBilling, for every set of events, any number of requests in progress, of
   sessions at Stripe and of restarts.  No handler keeps the rows it read up to date,
   so a row is right when it is written only if it was right when it was read.  The
   invariant says this of every row in the table and of every row a handler is about
   to write, and holds because sessions at Stripe only ever become paid.            *)
EXTENDS PrintDelivery, EventBilling, FiniteSetTheorems, SequenceTheorems, TLAPS

-----------------------------------------------------------------------------
(* Induction and recursion over the naturals, said of sets and functions.    *)

(* A set of numbers that has 0 and the successor of each of its members has them all:
   were n missing, the members below n would fit into those but 0.               *)
LEMMA Induction ==
  ASSUME NEW T, 0 \in T, \A n \in Nat : n \in T => n + 1 \in T
  PROVE  Nat \subseteq T
<1>1. SUFFICES ASSUME NEW n \in Nat, n \notin T PROVE FALSE
  OBVIOUS
<1> DEFINE A == {i \in 0 .. n : i \in T}
           B == A \ {0}
           f == [i \in A |-> i + 1]
<1>2. IsFiniteSet(A) /\ IsFiniteSet(B) /\ Cardinality(A) \in Nat /\ Cardinality(B) = Cardinality(A) - 1
  <2>1. IsFiniteSet(0 .. n)
    BY FS_Interval
  <2>2. IsFiniteSet(A)
    BY <2>1, FS_Subset
  <2>3. 0 \in A
    OBVIOUS
  <2> HIDE DEF A
  <2> QED BY <2>2, <2>3, FS_CardinalityType, FS_RemoveElement
<1>3. f \in Injection(A, B)
  <2>1. ASSUME NEW i \in A PROVE i + 1 \in B
    <3>1. i \in 0 .. n /\ i \in T /\ i # n
      BY <1>1
    <3> QED BY <3>1
  <2>2. \A i, j \in A : i + 1 = j + 1 => i = j
    OBVIOUS
  <2> QED BY <2>1, <2>2 DEF Injection, IsInjective
<1> HIDE DEF f, A
<1>4. Cardinality(A) <= Cardinality(B)
  BY <1>2, <1>3, FS_Injection
<1> QED BY <1>2, <1>4

(* g starts with a first value and goes on by Step, up to N.  *)
Unrolls(g, N, A, first, Step) ==
  g \in [0 .. N -> A] /\ g[0] = first /\ \A n \in 1 .. N : g[n] = Step[<<g[n - 1], n>>]

(* A first value and a step from each value to the next make a function.  *)
LEMMA Recursion ==
  ASSUME NEW N, NEW A, NEW first, NEW Step,
         N \in Nat, first \in A, Step \in [A \X (1 .. N) -> A]
  PROVE  \E g : Unrolls(g, N, A, first, Step)
<1> DEFINE Good(g, k) == g \in [0 .. k -> A] /\ g[0] = first /\ \A n \in 1 .. k : g[n] = Step[<<g[n - 1], n>>]
           T == {k \in Nat : k <= N => \E g : Good(g, k)}
<1>1. 0 \in T
  <2>1. Good([i \in 0 .. 0 |-> first], 0)
    OBVIOUS
  <2> QED BY <2>1
<1>2. ASSUME NEW k \in Nat, k \in T PROVE k + 1 \in T
  <2>1. SUFFICES ASSUME k + 1 <= N PROVE \E g : Good(g, k + 1)
    OBVIOUS
  <2>2. PICK g : Good(g, k)
    BY <1>2, <2>1
  <2> DEFINE h == [i \in 0 .. k + 1 |-> IF i = k + 1 THEN Step[<<g[k], k + 1>>] ELSE g[i]]
  <2>3. g[k] \in A /\ k + 1 \in 1 .. N
    BY <2>1, <2>2
  <2>4. Step[<<g[k], k + 1>>] \in A
    BY <2>3
  <2>5. h \in [0 .. k + 1 -> A]
    BY <2>2, <2>4
  <2>6. h[0] = first
    BY <2>2
  <2>7. ASSUME NEW n \in 1 .. k + 1 PROVE h[n] = Step[<<h[n - 1], n>>]
    <3>1. CASE n = k + 1
      <4>1. h[n] = Step[<<g[k], k + 1>>] /\ h[n - 1] = g[k]
        BY <3>1
      <4> QED BY <3>1, <4>1
    <3>2. CASE n # k + 1
      <4>1. n \in 1 .. k /\ h[n] = g[n] /\ h[n - 1] = g[n - 1]
        BY <3>2
      <4> QED BY <2>2, <4>1
    <3> QED BY <3>1, <3>2
  <2> HIDE DEF h
  <2>8. Good(h, k + 1)
    BY <2>5, <2>6, <2>7
  <2> QED BY <2>8
<1>3. N \in T
  <2> HIDE DEF T
  <2> QED BY <1>1, <1>2, Induction
<1> QED BY <1>3 DEF Unrolls

-----------------------------------------------------------------------------
(* Kitchen tickets.                                                          *)

(* A configuration whose lines have a place on the tickets.  *)
Routable(f) == f \in Flow /\ Lines(f) \subseteq LineIds

(* What a kitchen ticket of configuration f shows when it is split: the lines of one
   station, at the printer of that station.  *)
Stationed(f, t) ==
  f.mode # "per_order" =>
    /\ Cardinality({f.lines[i] : i \in t.lines}) = 1
    /\ \A i \in t.lines : StationPrinter(f, i) # None => t.printer = StationPrinter(f, i)

(* Two kitchen tickets of a sequence list different lines.  *)
Apart(t, u) == t.kind = "kitchen" /\ u.kind = "kitchen" => t.lines \cap u.lines = {}
AllApart(s) == \A k, l \in DOMAIN s : k # l => Apart(s[k], s[l])

(* No printer is the missing one, and every line goes to a printer or to none.  *)
LEMMA LinePrinters ==
  ASSUME NEW f, Routable(f), NEW i \in Lines(f)
  PROVE  /\ StationPrinter(f, i) \in Printers \cup {None}
         /\ ItemPrinter(f, i) \in Printers \cup {None}
         /\ StationPrinter(f, i) # None => ItemPrinter(f, i) = StationPrinter(f, i)
         /\ f.lines[i] \in Stations \cup {None}
<1>1. f.lines \in Seq(Stations \cup {None}) /\ f.stationPrinter \in [Stations -> Printers \cup {None}]
      /\ f.defaultPrinter \in Printers \cup {None} /\ f.kitchenPrinter \in Printers \cup {None}
  BY DEF Routable, Flow
<1>2. f.lines[i] \in Stations \cup {None}
  BY <1>1 DEF Lines
<1> QED BY <1>1, <1>2 DEF StationPrinter, ItemPrinter, OrElse

(* The group of a line that opens a ticket: what is on it, whose it is, and no other
   opening line's group meets it.  *)
LEMMA GroupOf ==
  ASSUME NEW f, Routable(f), f.mode # "per_order", NEW i \in Lines(f), OpensTicket(f, i)
  PROVE  KitchenTicket(f, i) \in Ticket /\ Stationed(f, KitchenTicket(f, i))
<1> DEFINE t == KitchenTicket(f, i)
<1>1. i \in SharesTicket(f, i) /\ SharesTicket(f, i) \subseteq Lines(f)
  BY DEF SharesTicket
<1>2. \A j \in SharesTicket(f, i) : ItemPrinter(f, j) = ItemPrinter(f, i) /\ f.lines[j] = f.lines[i]
  BY DEF SharesTicket, Bucket
<1>3. t \in Ticket
  BY <1>1, LinePrinters DEF Ticket, KitchenTicket, OpensTicket, Routable
<1>4. {f.lines[j] : j \in t.lines} = {f.lines[i]}
  BY <1>1, <1>2 DEF KitchenTicket
<1>5. Cardinality({f.lines[j] : j \in t.lines}) = 1
  BY <1>4, FS_Singleton
<1>6. \A j \in t.lines : StationPrinter(f, j) # None => t.printer = StationPrinter(f, j)
  BY <1>1, <1>2, LinePrinters DEF KitchenTicket
<1> QED BY <1>3, <1>5, <1>6 DEF Stationed

(* Two lines that open a ticket each are of different groups.  *)
LEMMA GroupsApart ==
  ASSUME NEW f, Routable(f), f.mode # "per_order", NEW i \in Lines(f), NEW j \in Lines(f),
         OpensTicket(f, i), OpensTicket(f, j), i # j
  PROVE  Apart(KitchenTicket(f, i), KitchenTicket(f, j))
<1>1. SUFFICES ASSUME NEW k \in SharesTicket(f, i), k \in SharesTicket(f, j) PROVE FALSE
  BY DEF Apart, KitchenTicket
<1>2. CASE f.mode = "per_item"
  BY <1>1, <1>2 DEF SharesTicket
<1>3. CASE f.mode # "per_item"
  <2>1. Bucket(f, i) = Bucket(f, j)
    BY <1>1, <1>3 DEF SharesTicket
  <2>2. i \in SharesTicket(f, j) /\ j \in SharesTicket(f, i)
    BY <2>1, <1>3 DEF SharesTicket
  <2>3. i <= j /\ j <= i /\ i \in Nat /\ j \in Nat
    BY <2>2 DEF OpensTicket, Routable, Flow, Lines
  <2> QED BY <2>3
<1> QED BY <1>2, <1>3

(* The recursion over the lines has the value its definition gives.  *)
LEMMA TicketsUpToLines ==
  ASSUME NEW f, Routable(f), f.mode # "per_order"
  PROVE  /\ TicketsUpTo(f) \in [0 .. Len(f.lines) -> Seq(Ticket)]
         /\ TicketsUpTo(f)[0] = <<>>
         /\ \A n \in 1 .. Len(f.lines) :
              TicketsUpTo(f)[n] = IF OpensTicket(f, n) THEN Append(TicketsUpTo(f)[n - 1], KitchenTicket(f, n))
                                  ELSE TicketsUpTo(f)[n - 1]
<1> DEFINE N == Len(f.lines)
           S == Seq(Ticket)
           Step == [x \in S \X (1 .. N) |->
                      IF OpensTicket(f, x[2]) THEN Append(x[1], KitchenTicket(f, x[2])) ELSE x[1]]
           After(g, n) == IF OpensTicket(f, n) THEN Append(g[n - 1], KitchenTicket(f, n)) ELSE g[n - 1]
           Value(g, n) == IF n = 0 THEN <<>> ELSE After(g, n)
           Is(g) == g = [n \in 0 .. N |-> Value(g, n)]
           none == <<>>
<1>1. N \in Nat /\ Lines(f) = 1 .. N
  BY DEF Routable, Flow, Lines
<1>2. ASSUME NEW x \in S \X (1 .. N) PROVE Step[x] \in S
  <2>1. x[1] \in S /\ x[2] \in Lines(f)
    BY <1>1
  <2>2. OpensTicket(f, x[2]) => KitchenTicket(f, x[2]) \in Ticket
    BY <2>1, GroupOf
  <2> QED BY <2>1, <2>2
<1>3. Step \in [S \X (1 .. N) -> S]
  BY <1>2
<1>4. none \in S
  OBVIOUS
<1>5. PICK g : Unrolls(g, N, S, none, Step)
  <2> HIDE DEF Step, N, S, none
  <2> QED BY <1>1, <1>3, <1>4, Recursion
<1>6. ASSUME NEW n \in 1 .. N PROVE g[n] = After(g, n)
  <2>1. <<g[n - 1], n>> \in S \X (1 .. N)
    <3> HIDE DEF S, N
    <3> QED BY <1>1, <1>5 DEF Unrolls
  <2> QED BY <1>5, <2>1 DEF Unrolls
<1>7. Is(g)
  <2>1. \A n \in 0 .. N : g[n] = Value(g, n)
    <3> HIDE DEF N, After, S
    <3> QED BY <1>1, <1>5, <1>6 DEF Unrolls
  <2> HIDE DEF Value, N, S
  <2> QED BY <1>5, <2>1 DEF Unrolls
<1>8. TicketsUpTo(f) = CHOOSE h : Is(h)
  BY DEF TicketsUpTo
<1>9. Is(TicketsUpTo(f))
  <2> HIDE DEF Is
  <2> QED BY <1>7, <1>8
<1> DEFINE U == TicketsUpTo(f)
<1>10. U[0] = <<>> /\ \A n \in 1 .. N : U[n] = After(U, n)
  <2> HIDE DEF U
  <2>1. \A n \in 0 .. N : U[n] = Value(U, n)
    <3>1. U = [n \in 0 .. N |-> Value(U, n)]
      BY <1>9 DEF U
    <3> HIDE DEF Value, N
    <3> QED BY <3>1
  <2> HIDE DEF N, After
  <2> QED BY <1>1, <2>1
<1>11. \A n \in 0 .. N : U[n] \in S
  <2> DEFINE T == {n \in Nat : n <= N => U[n] \in S}
  <2>1. 0 \in T
    BY <1>4, <1>10
  <2>2. ASSUME NEW n \in Nat, n \in T PROVE n + 1 \in T
    <3>1. SUFFICES ASSUME n + 1 <= N PROVE U[n + 1] \in S
      OBVIOUS
    <3>2. U[n] \in S /\ n + 1 \in 1 .. N /\ (n + 1) - 1 = n
      BY <1>1, <2>2, <3>1
    <3>3. OpensTicket(f, n + 1) => KitchenTicket(f, n + 1) \in Ticket
      BY <1>1, <3>2, GroupOf
    <3>4. U[n + 1] = After(U, n + 1)
      <4> HIDE DEF U, N, After
      <4> QED BY <1>10, <3>2
    <3>5. After(U, n + 1) = IF OpensTicket(f, n + 1) THEN Append(U[n], KitchenTicket(f, n + 1)) ELSE U[n]
      <4> HIDE DEF U
      <4> QED BY <3>2
    <3> DEFINE t == KitchenTicket(f, n + 1)
               u == U[n]
    <3>6. u \in Seq(Ticket) /\ (OpensTicket(f, n + 1) => t \in Ticket)
      BY <3>2, <3>3
    <3>7. U[n + 1] = IF OpensTicket(f, n + 1) THEN Append(u, t) ELSE u
      BY <3>4, <3>5
    <3> HIDE DEF U, N, After, t, u
    <3> QED BY <3>6, <3>7
  <2> HIDE DEF T
  <2>3. Nat \subseteq T
    BY <2>1, <2>2, Induction
  <2> QED BY <1>1, <2>3 DEF T
<1>12. U \in [0 .. N -> S]
  <2>1. U = [n \in 0 .. N |-> Value(U, n)]
    BY <1>9
  <2> HIDE DEF U, Value, N, S
  <2> QED BY <1>11, <2>1
<1> QED BY <1>10, <1>12

(* Split tickets show each line at most once, at its station.  *)
LEMMA SplitTickets ==
  ASSUME NEW f, Routable(f), f.mode # "per_order"
  PROVE  LET s == TicketsUpTo(f)[Len(f.lines)]
         IN  /\ s \in Seq(Ticket) /\ AllApart(s)
             /\ \A k \in DOMAIN s : s[k].kind = "kitchen" /\ Stationed(f, s[k])
<1> DEFINE N == Len(f.lines)
           U == TicketsUpTo(f)
           From(t, n) == \E i \in 1 .. n : OpensTicket(f, i) /\ t = KitchenTicket(f, i)
           Listed(n) == AllApart(U[n]) /\ \A k \in DOMAIN U[n] : From(U[n][k], n)
           T == {n \in Nat : n <= N => Listed(n)}
<1>1. N \in Nat /\ Lines(f) = 1 .. N
  BY DEF Routable, Flow, Lines
<1>2. 0 \in T
  <2>1. U[0] = <<>>
    BY TicketsUpToLines
  <2> QED BY <2>1 DEF AllApart
<1>3. ASSUME NEW n \in Nat, n \in T PROVE n + 1 \in T
  <2>1. SUFFICES ASSUME n + 1 <= N PROVE Listed(n + 1)
    OBVIOUS
  <2> DEFINE t == KitchenTicket(f, n + 1)
             u == U[n]
  <2>2. Listed(n) /\ n + 1 \in 1 .. N /\ n + 1 \in Lines(f) /\ u \in Seq(Ticket)
    BY <1>1, <1>3, <2>1, TicketsUpToLines
  <2>3. U[n + 1] = IF OpensTicket(f, n + 1) THEN Append(u, t) ELSE u
    <3>1. (n + 1) - 1 = n
      OBVIOUS
    <3> QED BY <2>2, <3>1, TicketsUpToLines
  <2>4. ASSUME NEW x, From(x, n) PROVE From(x, n + 1)
    BY <2>4
  <2>5. CASE ~OpensTicket(f, n + 1)
    <3>1. U[n + 1] = u
      BY <2>3, <2>5
    <3> QED BY <2>2, <2>4, <3>1
  <2>6. CASE OpensTicket(f, n + 1)
    <3>1. t \in Ticket /\ t.kind = "kitchen"
      BY <2>2, <2>6, GroupOf DEF KitchenTicket
    <3>2. U[n + 1] = Append(u, t)
      BY <2>3, <2>6
    <3>3. ASSUME NEW x, From(x, n) PROVE Apart(x, t) /\ Apart(t, x)
      <4>1. PICK i \in 1 .. n : OpensTicket(f, i) /\ x = KitchenTicket(f, i)
        BY <3>3
      <4>2. i \in Lines(f) /\ i # n + 1
        BY <1>1, <2>1
      <4> QED BY <2>2, <2>6, <4>1, <4>2, GroupsApart
    <3>4. From(t, n + 1)
      <4>1. n + 1 \in 1 .. n + 1
        OBVIOUS
      <4> QED BY <2>6, <4>1
    <3> HIDE DEF t, u, From
    <3>5. DOMAIN Append(u, t) = 1 .. Len(u) + 1 /\ Len(u) \in Nat /\ DOMAIN u = 1 .. Len(u)
      BY <2>2, <3>1
    <3>6. \A k \in 1 .. Len(u) : Append(u, t)[k] = u[k]
      BY <2>2, <3>1
    <3>7. Append(u, t)[Len(u) + 1] = t
      BY <2>2, <3>1
    <3>8. \A k \in DOMAIN u : From(u[k], n)
      BY <2>2 DEF u
    <3>9. \A k \in DOMAIN Append(u, t) : From(Append(u, t)[k], n + 1)
      BY <2>4, <3>4, <3>5, <3>6, <3>7, <3>8
    <3>10. AllApart(u)
      BY <2>2 DEF u
    <3>11. AllApart(Append(u, t))
      <4>1. SUFFICES ASSUME NEW k \in 1 .. Len(u) + 1, NEW l \in 1 .. Len(u) + 1, k # l
                     PROVE  Apart(Append(u, t)[k], Append(u, t)[l])
        BY <3>5 DEF AllApart
      <4>2. CASE k \in 1 .. Len(u) /\ l \in 1 .. Len(u)
        BY <3>5, <3>6, <3>10, <4>1, <4>2 DEF AllApart
      <4>3. CASE k = Len(u) + 1 /\ l \in 1 .. Len(u)
        BY <3>3, <3>5, <3>6, <3>7, <3>8, <4>3
      <4>4. CASE l = Len(u) + 1 /\ k \in 1 .. Len(u)
        BY <3>3, <3>5, <3>6, <3>7, <3>8, <4>4
      <4> QED BY <3>5, <4>1, <4>2, <4>3, <4>4
    <3> QED BY <3>2, <3>9, <3>11
  <2> QED BY <2>5, <2>6
<1>4. Listed(N)
  <2> HIDE DEF Listed
  <2>1. Nat \subseteq T
    <3> HIDE DEF T
    <3> QED BY <1>2, <1>3, Induction
  <2> QED BY <1>1, <2>1
<1>5. ASSUME NEW k \in DOMAIN U[N] PROVE U[N][k].kind = "kitchen" /\ Stationed(f, U[N][k])
  <2>1. PICK i \in 1 .. N : OpensTicket(f, i) /\ U[N][k] = KitchenTicket(f, i)
    BY <1>4
  <2>2. Stationed(f, KitchenTicket(f, i))
    BY <1>1, <2>1, GroupOf
  <2>3. KitchenTicket(f, i).kind = "kitchen"
    BY DEF KitchenTicket
  <2> QED BY <2>1, <2>2, <2>3
<1>6. U[N] \in Seq(Ticket)
  BY <1>1, TicketsUpToLines
<1> QED BY <1>4, <1>5, <1>6

(* What both handlers print: tickets that list no line twice, each at its station; a
   receipt is no kitchen ticket.  *)
LEMMA KitchenTicketsSplit ==
  ASSUME NEW f, Routable(f)
  PROVE  /\ KitchenTickets(f) \in Seq(Ticket) /\ AllApart(KitchenTickets(f))
         /\ \A k \in DOMAIN KitchenTickets(f) : Stationed(f, KitchenTickets(f)[k])
<1>1. CASE f.mode # "per_order"
  BY <1>1, SplitTickets DEF KitchenTickets
<1>2. CASE f.mode = "per_order"
  <2> DEFINE p == KitchenPrinter(f)
             t == [kind |-> "kitchen", printer |-> p, lines |-> Lines(f)]
  <2>1. p \in Printers \cup {None} /\ Lines(f) \subseteq LineIds
    BY DEF Routable, Flow, KitchenPrinter, OrElse
  <2>2. KitchenTickets(f) = IF p = None THEN <<>> ELSE <<t>>
    BY <1>2 DEF KitchenTickets, TicketFor
  <2>3. p # None => t \in Ticket
    BY <2>1 DEF Ticket
  <2>4. Stationed(f, t)
    BY <1>2 DEF Stationed
  <2> HIDE DEF p, t
  <2> QED BY <2>2, <2>3, <2>4 DEF AllApart
<1> QED BY <1>1, <1>2

(* What the handlers set out to print: no line twice, each at its station, and kitchen
   tickets from the handler of the order only.  *)
LEMMA HandlerTickets ==
  ASSUME NEW f, Routable(f)
  PROVE  /\ CreatedTickets(f) \in Seq(Ticket) /\ AllApart(CreatedTickets(f))
         /\ \A k \in DOMAIN CreatedTickets(f) :
              CreatedTickets(f)[k].kind = "kitchen" => Stationed(f, CreatedTickets(f)[k])
         /\ PaidTickets(f) \in Seq(Ticket)
         /\ \A k \in DOMAIN PaidTickets(f) : PaidTickets(f)[k].kind # "kitchen"
<1> DEFINE s == IF f.kitchen \/ f.defaultPrinter # None THEN KitchenTickets(f) ELSE <<>>
           o == [kind |-> "order", printer |-> f.orderPrinter, lines |-> {}]
           t == IF f.orderTicket THEN TicketFor("order", f.orderPrinter, {}) ELSE <<>>
           r == [kind |-> "receipt", printer |-> ReceiptPrinter(f), lines |-> {}]
<1>1. f.orderPrinter \in Printers \cup {None} /\ ReceiptPrinter(f) \in Printers \cup {None}
  BY DEF Routable, Flow, ReceiptPrinter, OrElse
<1>2. s \in Seq(Ticket) /\ AllApart(s) /\ \A k \in DOMAIN s : Stationed(f, s[k])
  BY KitchenTicketsSplit DEF AllApart
<1>3. t = <<>> \/ (t = <<o>> /\ o \in Ticket)
  BY <1>1 DEF TicketFor, Ticket
<1>4. o.kind # "kitchen" /\ r.kind # "kitchen"
  OBVIOUS
<1>5. PaidTickets(f) = <<>> \/ (PaidTickets(f) = <<r>> /\ r \in Ticket)
  BY <1>1 DEF PaidTickets, TicketFor, Ticket
<1>6. CreatedTickets(f) = s \o t
  BY DEF CreatedTickets
<1> HIDE DEF s, o, t, r
<1> DEFINE c == s \o t
           Fine(x) == x \in Seq(Ticket) /\ AllApart(x)
                      /\ \A k \in DOMAIN x : x[k].kind = "kitchen" => Stationed(f, x[k])
<1>7. ASSUME t = <<>> PROVE Fine(c)
  <2>1. s \o t = s
    BY <1>2, <1>7
  <2> QED BY <1>2, <2>1
<1>8. ASSUME t = <<o>>, o \in Ticket PROVE Fine(c)
  <2>1. s \o t \in Seq(Ticket) /\ DOMAIN (s \o t) = 1 .. Len(s) + 1 /\ Len(s) \in Nat /\ DOMAIN s = 1 .. Len(s)
        /\ (\A k \in 1 .. Len(s) : (s \o t)[k] = s[k]) /\ (s \o t)[Len(s) + 1] = o
    BY <1>2, <1>8
  <2>2. ASSUME NEW k \in DOMAIN (s \o t), (s \o t)[k].kind = "kitchen"
        PROVE  k \in 1 .. Len(s) /\ (s \o t)[k] = s[k]
    BY <1>4, <2>1, <2>2
  <2>3. AllApart(s \o t)
    <3>1. ASSUME NEW k \in DOMAIN (s \o t), NEW l \in DOMAIN (s \o t), k # l,
                 (s \o t)[k].kind = "kitchen", (s \o t)[l].kind = "kitchen"
          PROVE  Apart((s \o t)[k], (s \o t)[l])
      BY <1>2, <2>1, <2>2, <3>1 DEF AllApart
    <3> QED BY <3>1 DEF AllApart, Apart
  <2>4. \A k \in DOMAIN (s \o t) : (s \o t)[k].kind = "kitchen" => Stationed(f, (s \o t)[k])
    BY <1>2, <2>1, <2>2
  <2> QED BY <2>1, <2>3, <2>4
<1>9. Fine(CreatedTickets(f))
  <2> HIDE DEF Fine
  <2> QED BY <1>3, <1>6, <1>7, <1>8
<1>10. PaidTickets(f) \in Seq(Ticket) /\ \A k \in DOMAIN PaidTickets(f) : PaidTickets(f)[k].kind # "kitchen"
  <2>1. CASE PaidTickets(f) = <<>>
    BY <2>1
  <2>2. CASE PaidTickets(f) = <<r>> /\ r \in Ticket
    <3>1. <<r>> \in Seq(Ticket) /\ DOMAIN <<r>> = {1} /\ <<r>>[1] = r
      BY <2>2
    <3> QED BY <1>4, <2>2, <3>1
  <2> QED BY <1>5, <2>1, <2>2
<1> QED BY <1>9, <1>10

-----------------------------------------------------------------------------
(* What the tables, the handlers and the messages hold.                       *)

(* Every ticket that is saved or still to be saved fits into the bound, and what may
   be tried again has attempts left.  *)
RoomForAll == Len(jobs) + TicketsLeft <= MaxJobs
AttemptsLeft == admin.op = "retry" => admin.attempts < MaxAttempts

DeliveryInv == TypeOK /\ RoomForAll /\ AttemptsLeft

HandlerRows(n) == [left : Seq(Ticket), saved : (1 .. n) \cup {NoJob}]
Left(hs) == Len(hs["created"].left) + Len(hs["paid"].left) + Len(hs["manual"].left)

(* What comes of the tickets that are left when handler h turns into x.  *)
MovesOn(hs, h, x, n) ==
  LET after == [hs EXCEPT ![h] = x]
  IN  /\ after \in [Handlers -> HandlerRows(n)]
      /\ Left(after) = Left(hs) - Len(hs[h].left) + Len(x.left)
      /\ Left(hs) \in Nat /\ Len(hs[h].left) \in 0 .. Left(hs) /\ Len(x.left) \in Nat

(* A handler that moves changes the tickets that are left by its own.  *)
LEMMA OneHandlerMoves ==
  ASSUME NEW n, NEW hs, NEW h, NEW x,
         n \in Nat, hs \in [Handlers -> HandlerRows(n)], h \in Handlers, x \in HandlerRows(n)
  PROVE  MovesOn(hs, h, x, n)
<1>1. hs["created"] \in HandlerRows(n) /\ hs["paid"] \in HandlerRows(n) /\ hs["manual"] \in HandlerRows(n)
  BY DEF Handlers
<1>2. \A y \in HandlerRows(n) : Len(y.left) \in Nat
  BY DEF HandlerRows
<1> DEFINE e == [hs EXCEPT ![h] = x]
           L(k) == Len(hs[k].left)
           M(k) == Len(e[k].left)
<1>3. e \in [Handlers -> HandlerRows(n)]
  OBVIOUS
<1>4. \A k \in Handlers : M(k) = IF k = h THEN Len(x.left) ELSE L(k)
  OBVIOUS
<1>5. Left(hs) = L("created") + L("paid") + L("manual") /\ Left(e) = M("created") + M("paid") + M("manual")
  BY DEF Left
<1>6. L("created") \in Nat /\ L("paid") \in Nat /\ L("manual") \in Nat /\ Len(x.left) \in Nat
  BY <1>1, <1>2
<1> HIDE DEF e
<1>7. Left(e) = Left(hs) - L(h) + Len(x.left) /\ Left(hs) \in Nat /\ L(h) \in 0 .. Left(hs)
  <2> HIDE DEF L, M
  <2>1. CASE h = "created"
    BY <1>4, <1>5, <1>6, <2>1 DEF Handlers
  <2>2. CASE h = "paid"
    BY <1>4, <1>5, <1>6, <2>2 DEF Handlers
  <2>3. CASE h = "manual"
    BY <1>4, <1>5, <1>6, <2>3 DEF Handlers
  <2> QED BY <2>1, <2>2, <2>3 DEF Handlers
<1> QED BY <1>3, <1>6, <1>7 DEF e, MovesOn

(* A configuration in force has tickets.  *)
LEMMA FlowsAreRoutable ==
  ASSUME NEW f \in Flows
  PROVE  Routable(f)
BY PrintAssumption DEF Routable

(* The handlers that begin: which tickets each of them is given.  *)
LEMMA WhoBegins ==
  ASSUME flow \in Flows, OrderCreated \/ PaymentReceived \/ CreateManually
  PROVE  \E h \in Handlers, tickets \in Seq(Ticket) :
           /\ Begin(h, tickets)
           /\ h = "created" => tickets = CreatedTickets(flow)
           /\ h # "created" => \A k \in DOMAIN tickets : tickets[k].kind # "kitchen"
<1>1. Routable(flow)
  BY FlowsAreRoutable
<1>2. CASE OrderCreated
  BY <1>1, <1>2, HandlerTickets DEF OrderCreated, Handlers
<1>3. CASE PaymentReceived
  BY <1>1, <1>3, HandlerTickets DEF PaymentReceived, Handlers
<1>4. CASE CreateManually
  <2>1. PICK p \in ManualUse : Begin("manual", <<[kind |-> "manual", printer |-> p, lines |-> {}]>>)
    BY <1>4 DEF CreateManually
  <2> DEFINE t == [kind |-> "manual", printer |-> p, lines |-> {}]
  <2>2. t \in Ticket /\ t.kind # "kitchen"
    BY PrintAssumption DEF Ticket
  <2>3. Begin("manual", <<t>>)
    BY <2>1
  <2> HIDE DEF t
  <2>4. <<t>> \in Seq(Ticket) /\ \A k \in DOMAIN <<t>> : <<t>>[k].kind # "kitchen"
    BY <2>2
  <2> QED BY <2>3, <2>4 DEF Handlers
<1> QED BY <1>2, <1>3, <1>4

(* Statements about jobs change a status or the attempts, never a ticket.  *)
Touched(j) ==
  \E status \in JobStatus, attempts \in 0 .. MaxAttempts :
    \/ jobs' = [jobs EXCEPT ![j].status = status]
    \/ jobs' = [jobs EXCEPT ![j].status = status, ![j].attempts = attempts]

(* No job comes, goes or changes its ticket when a status is written.  *)
LEMMA TicketsStay ==
  ASSUME jobs \in Seq(Job), NEW j, Touched(j)
  PROVE  /\ jobs' \in Seq(Job) /\ Len(jobs') = Len(jobs) /\ DOMAIN jobs' = DOMAIN jobs
         /\ \A i \in DOMAIN jobs : jobs'[i].ticket = jobs[i].ticket
         /\ \A i \in DOMAIN jobs : i # j => jobs'[i] = jobs[i]
<1>1. PICK status \in JobStatus, attempts \in 0 .. MaxAttempts :
        \/ jobs' = [jobs EXCEPT ![j].status = status]
        \/ jobs' = [jobs EXCEPT ![j].status = status, ![j].attempts = attempts]
  BY DEF Touched
<1>2. DOMAIN jobs = 1 .. Len(jobs) /\ Len(jobs) \in Nat /\ \A i \in DOMAIN jobs : jobs[i] \in Job
  OBVIOUS
<1>3. DOMAIN jobs' = 1 .. Len(jobs) /\ \A i \in DOMAIN jobs : i # j => jobs'[i] = jobs[i]
  BY <1>1, <1>2
<1>4. ASSUME NEW i \in DOMAIN jobs PROVE jobs'[i] \in Job /\ jobs'[i].ticket = jobs[i].ticket
  <2>1. CASE i # j
    BY <1>2, <1>3, <2>1
  <2>2. CASE i = j
    <3>1. jobs[i] \in Job
      BY <1>2
    <3>2. \/ jobs'[i] = [jobs[i] EXCEPT !.status = status]
          \/ jobs'[i] = [[jobs[i] EXCEPT !.status = status] EXCEPT !.attempts = attempts]
      BY <1>1, <2>2
    <3> QED BY <3>1, <3>2 DEF Job
  <2> QED BY <2>1, <2>2
<1>5. jobs' \in Seq(Job)
  <2>1. jobs' = [i \in 1 .. Len(jobs) |-> jobs'[i]]
    BY <1>1, <1>2, <1>3
  <2>2. \A i \in 1 .. Len(jobs) : jobs'[i] \in Job
    BY <1>2, <1>4
  <2> QED BY <1>2, <2>1, <2>2
<1> QED BY <1>2, <1>3, <1>4, <1>5

(* The bounds are numbers.  *)
LEMMA Bounds == MaxJobs \in Nat /\ MaxAttempts \in Nat /\ MaxUpsets \in Nat /\ ReplayLimit \in Nat
BY PrintAssumption

(* Types of the tables, of the messages and of the rest, apart.  *)
TablesOK ==
  /\ flow \in Flows /\ jobs \in Seq(Job)
  /\ handlers \in [Handlers -> HandlerRows(Len(jobs))]
  /\ RoomForAll
AdminRows(n) ==
  {Idle} \cup {r \in [op : {"retry", "cancel"}, job : 1 .. n, attempts : 0 .. MaxAttempts] :
                 r.op = "retry" => r.attempts < MaxAttempts}
  \cup [op : {"resend"}, job : 1 .. n]
RestOK ==
  /\ begun \subseteq Handlers /\ admin \in AdminRows(Len(jobs))
  /\ link \in [Agents -> {"off", "joined", "on"}]
  /\ wire \subseteq Message
  /\ shelf \in [Agents -> [JobIds -> {"unknown", "waiting", "printed", "failed"}]]
  /\ upsets \in 0 .. MaxUpsets

(* The invariant is its two parts.  *)
LEMMA InParts == DeliveryInv <=> TablesOK /\ RestOK
<1>1. ASSUME NEW n \in Nat, DOMAIN jobs = 1 .. n
      PROVE  admin \in AdminRows(n) <=>
               /\ admin \in {Idle} \cup [op : {"retry", "cancel"}, job : DOMAIN jobs, attempts : 0 .. MaxAttempts]
                                \cup [op : {"resend"}, job : DOMAIN jobs]
               /\ AttemptsLeft
  BY <1>1 DEF AdminRows, Idle, AttemptsLeft
<1>2. jobs \in Seq(Job) => Len(jobs) \in Nat /\ DOMAIN jobs = 1 .. Len(jobs)
  OBVIOUS
<1> QED BY <1>1, <1>2 DEF DeliveryInv, TypeOK, TablesOK, RestOK, HandlerRows, RoomForAll

(* Nothing is printed yet at the start.  *)
LEMMA DeliveryInit == Init => TablesOK /\ RestOK
<1> SUFFICES ASSUME Init PROVE TablesOK /\ RestOK
  OBVIOUS
<1>1. jobs \in Seq(Job) /\ Len(jobs) = 0
  BY DEF Init
<1>2. Quiet \in HandlerRows(0) /\ Len(Quiet.left) = 0
  BY DEF Quiet, HandlerRows
<1>3. handlers \in [Handlers -> HandlerRows(0)] /\ \A h \in Handlers : Len(handlers[h].left) = 0
  BY <1>2 DEF Init
<1>4. RoomForAll
  <2>1. Len(handlers["created"].left) = 0 /\ Len(handlers["paid"].left) = 0 /\ Len(handlers["manual"].left) = 0
    BY <1>3 DEF Handlers
  <2>2. TicketsLeft = 0
    BY <2>1 DEF TicketsLeft
  <2> QED BY <1>1, <2>2, Bounds DEF RoomForAll
<1>5. TablesOK
  BY <1>1, <1>3, <1>4 DEF Init, TablesOK
<1>6. RestOK
  BY <1>1, PrintAssumption DEF Init, RestOK, AdminRows
<1> QED BY <1>5, <1>6

(* Steps that touch no job and no handler, or a job's status only.  *)
LEMMA TablesStay ==
  ASSUME TablesOK, UNCHANGED <<flow, handlers>>, UNCHANGED jobs \/ \E j : Touched(j)
  PROVE  TablesOK' /\ Len(jobs') = Len(jobs)
<1>1. jobs' \in Seq(Job) /\ Len(jobs') = Len(jobs)
  BY TicketsStay DEF TablesOK
<1> QED BY <1>1 DEF TablesOK, RoomForAll, TicketsLeft

(* A handler moves; it may have saved the job of its next ticket.  *)
LEMMA HandlerMoves ==
  ASSUME TablesOK, NEW h \in Handlers, NEW x, handlers' = [handlers EXCEPT ![h] = x], flow' = flow,
         \/ UNCHANGED jobs /\ x \in HandlerRows(Len(jobs))
                 /\ Len(jobs) + TicketsLeft + Len(x.left) - Len(handlers[h].left) <= MaxJobs
         \/ \E job \in Job : /\ jobs' = Append(jobs, job)
                             /\ x \in HandlerRows(Len(jobs) + 1)
                             /\ Len(x.left) = Len(handlers[h].left) - 1
  PROVE  TablesOK'
<1>1. Len(jobs) \in Nat /\ TicketsLeft = Left(handlers) /\ TicketsLeft' = Left(handlers')
  BY DEF TablesOK, TicketsLeft, Left
<1>2. CASE UNCHANGED jobs /\ x \in HandlerRows(Len(jobs))
           /\ Len(jobs) + TicketsLeft + Len(x.left) - Len(handlers[h].left) <= MaxJobs
  <2> DEFINE n == Len(jobs)
  <2>1. handlers \in [Handlers -> HandlerRows(n)] /\ n \in Nat /\ x \in HandlerRows(n)
    BY <1>1, <1>2 DEF TablesOK
  <2> HIDE DEF n
  <2> DEFINE e == [handlers EXCEPT ![h] = x]
             old == Len(handlers[h].left)
             new == Len(x.left)
  <2>2. e \in [Handlers -> HandlerRows(n)] /\ Left(e) = Left(handlers) - old + new
        /\ Left(handlers) \in Nat /\ old \in 0 .. Left(handlers) /\ new \in Nat
    <3>1. MovesOn(handlers, h, x, n)
      BY <2>1, OneHandlerMoves
    <3> QED BY <3>1 DEF MovesOn
  <2>3. RoomForAll'
    <3>1. Len(jobs') = n /\ n + Left(handlers) + new - old <= MaxJobs /\ TicketsLeft' = Left(e)
      BY <1>1, <1>2 DEF n
    <3> HIDE DEF e, old, new
    <3> QED BY <2>1, <2>2, <3>1, Bounds DEF RoomForAll
  <2> QED BY <1>2, <2>2, <2>3 DEF TablesOK, n
<1>3. CASE \E job \in Job : /\ jobs' = Append(jobs, job)
                            /\ x \in HandlerRows(Len(jobs) + 1)
                            /\ Len(x.left) = Len(handlers[h].left) - 1
  <2> DEFINE n == Len(jobs) + 1
  <2>1. jobs' \in Seq(Job) /\ Len(jobs') = n /\ n \in Nat
    BY <1>1, <1>3 DEF TablesOK
  <2>2. HandlerRows(Len(jobs)) \subseteq HandlerRows(n)
    BY <1>1 DEF HandlerRows
  <2>3. handlers \in [Handlers -> HandlerRows(n)] /\ x \in HandlerRows(n)
    BY <1>3, <2>2 DEF TablesOK
  <2>4. n + Left(handlers) - 1 <= MaxJobs /\ Len(x.left) = Len(handlers[h].left) - 1
    <3>1. Len(jobs) + Left(handlers) <= MaxJobs /\ Left(handlers) \in Nat
      <4>1. Left(handlers) \in Nat
        <5> HIDE DEF n
        <5> QED BY <2>1, <2>3, OneHandlerMoves DEF MovesOn
      <4> QED BY <1>1, <4>1 DEF TablesOK, RoomForAll
    <3> QED BY <1>1, <1>3, <3>1, Bounds
  <2> HIDE DEF n
  <2> DEFINE e == [handlers EXCEPT ![h] = x]
             old == Len(handlers[h].left)
             new == Len(x.left)
  <2>5. e \in [Handlers -> HandlerRows(n)] /\ Left(e) = Left(handlers) - old + new
        /\ Left(handlers) \in Nat /\ old \in 0 .. Left(handlers) /\ new \in Nat
    <3>1. MovesOn(handlers, h, x, n)
      BY <2>1, <2>3, OneHandlerMoves
    <3> QED BY <3>1 DEF MovesOn
  <2>6. RoomForAll'
    <3>1. TicketsLeft' = Left(e) /\ n + Left(handlers) - 1 <= MaxJobs /\ new = old - 1
      BY <1>1, <2>4
    <3> HIDE DEF e, old, new
    <3> QED BY <2>1, <2>5, <3>1, Bounds DEF RoomForAll
  <2> QED BY <2>1, <2>5, <2>6 DEF TablesOK
<1> QED BY <1>2, <1>3

(* Whoever counts up to a job counts up to a later one.  *)
LEMMA JobsGrow ==
  ASSUME NEW n \in Nat
  PROVE  AdminRows(n) \subseteq AdminRows(n + 1) /\ HandlerRows(n) \subseteq HandlerRows(n + 1)
BY DEF AdminRows, HandlerRows

(* The tickets that are left are counted, and every job has a number.  *)
LEMMA JobsHaveNumbers ==
  ASSUME TablesOK
  PROVE  TicketsLeft \in Nat /\ Len(jobs) \in Nat /\ DOMAIN jobs = 1 .. Len(jobs) /\ DOMAIN jobs \subseteq JobIds
<1> DEFINE n == Len(jobs)
<1>1. n \in Nat /\ DOMAIN jobs = 1 .. n
  BY DEF TablesOK
<1>2. \A h \in Handlers : handlers[h] \in HandlerRows(n)
  BY DEF TablesOK
<1>3. \A h \in Handlers : Len(handlers[h].left) \in Nat
  <2> HIDE DEF n
  <2> QED BY <1>2 DEF HandlerRows
<1> DEFINE c == Len(handlers["created"].left)
           p == Len(handlers["paid"].left)
           m == Len(handlers["manual"].left)
<1>4. c \in Nat /\ p \in Nat /\ m \in Nat /\ TicketsLeft = c + p + m
  BY <1>3 DEF Handlers, TicketsLeft
<1>5. TicketsLeft \in Nat
  <2> HIDE DEF c, p, m
  <2> QED BY <1>4
<1>6. DOMAIN jobs \subseteq JobIds
  BY <1>1, <1>5, Bounds DEF TablesOK, RoomForAll, JobIds
<1> QED BY <1>1, <1>5, <1>6

(* The messages about a job go to agents.  *)
LEMMA DeliveryIsOfMessages ==
  ASSUME TablesOK, NEW j \in DOMAIN jobs
  PROVE  Delivery(j) \subseteq Message
<1>1. j \in JobIds
  BY JobsHaveNumbers
<1>2. AgentFor(j) \in Agents \cup {None}
  <2>1. jobs[j] \in Job
    BY DEF TablesOK
  <2> QED BY <2>1, PrintAssumption DEF AgentFor, Job, Ticket
<1> QED BY <1>1, <1>2 DEF Delivery, Msg, Message

(* The handlers that make jobs keep the types, and room for the jobs still to come.  *)
LEMMA HandlersKeepOrder ==
  ASSUME TablesOK, RestOK, OrderCreated \/ PaymentReceived \/ CreateManually \/ Printing
  PROVE  TablesOK' /\ RestOK'
<1>1. Len(jobs) \in Nat /\ DOMAIN jobs = 1 .. Len(jobs)
  BY DEF TablesOK
<1>2. ASSUME NEW h \in Handlers PROVE handlers[h] \in HandlerRows(Len(jobs)) /\ Len(handlers[h].left) \in Nat
  <2>1. handlers[h] \in HandlerRows(Len(jobs))
    BY DEF TablesOK
  <2> QED BY <2>1 DEF HandlerRows
<1>3. TicketsLeft \in Int
  BY JobsHaveNumbers
<1>4. CASE OrderCreated \/ PaymentReceived \/ CreateManually
  <2>1. PICK h \in Handlers, tickets \in Seq(Ticket) : Begin(h, tickets)
    BY <1>4, WhoBegins DEF TablesOK
  <2> DEFINE x == [handlers[h] EXCEPT !.left = tickets]
  <2>2. x \in HandlerRows(Len(jobs)) /\ x.left = tickets
    BY <1>2 DEF HandlerRows
  <2>3. handlers' = [handlers EXCEPT ![h] = x]
    BY <2>1 DEF Begin
  <2>4. Len(jobs) + TicketsLeft + Len(x.left) - Len(handlers[h].left) <= MaxJobs
    <3>1. Len(jobs) + TicketsLeft + Len(tickets) <= MaxJobs /\ Len(tickets) \in Nat
      BY <2>1 DEF Begin
    <3> QED BY <1>1, <1>2, <1>3, <2>2, <3>1, Bounds
  <2>5. UNCHANGED <<flow, jobs, admin, link, wire, shelf, upsets>> /\ begun' \subseteq Handlers
    BY <2>1 DEF Begin, RestOK
  <2> HIDE DEF x
  <2>6. TablesOK'
    BY <2>2, <2>3, <2>4, <2>5, HandlerMoves
  <2> QED BY <2>5, <2>6 DEF RestOK
<1>5. ASSUME NEW h \in Handlers, SaveJob(h) PROVE TablesOK' /\ RestOK'
  <2> DEFINE ticket == Head(handlers[h].left)
             job == [ticket |-> ticket, status |-> "queued", attempts |-> 0]
             x == [left |-> Tail(handlers[h].left), saved |-> Len(jobs) + 1]
  <2>1. handlers[h].left \in Seq(Ticket) /\ handlers[h].left # <<>>
    BY <1>2, <1>5 DEF SaveJob, Creating, HandlerRows
  <2>2. ticket \in Ticket /\ Tail(handlers[h].left) \in Seq(Ticket)
        /\ Len(Tail(handlers[h].left)) = Len(handlers[h].left) - 1
    BY <2>1
  <2>3. job \in Job
    BY <2>2, Bounds DEF Job, JobStatus
  <2>4. x \in HandlerRows(Len(jobs) + 1) /\ Len(x.left) = Len(handlers[h].left) - 1
    BY <1>1, <2>2 DEF HandlerRows
  <2>5. jobs' = Append(jobs, job) /\ handlers' = [handlers EXCEPT ![h] = x]
        /\ UNCHANGED <<flow, begun, admin, link, wire, shelf, upsets>>
    BY <1>5 DEF SaveJob
  <2> HIDE DEF job, x
  <2>6. TablesOK'
    BY <2>3, <2>4, <2>5, HandlerMoves
  <2>7. Len(jobs') = Len(jobs) + 1
    BY <2>3, <2>5 DEF TablesOK
  <2>8. admin' \in AdminRows(Len(jobs'))
    BY <1>1, <2>5, <2>7, JobsGrow DEF RestOK
  <2> QED BY <2>5, <2>6, <2>8 DEF RestOK
<1>6. ASSUME NEW h \in Handlers, AbortPrinting(h) PROVE TablesOK' /\ RestOK'
  <2>1. Quiet \in HandlerRows(Len(jobs)) /\ Len(Quiet.left) = 0
    BY <1>1 DEF Quiet, HandlerRows
  <2>2. handlers' = [handlers EXCEPT ![h] = Quiet] /\ UNCHANGED <<flow, jobs, begun, admin, link, wire, shelf, upsets>>
    BY <1>6 DEF AbortPrinting
  <2>3. Len(jobs) + TicketsLeft + Len(Quiet.left) - Len(handlers[h].left) <= MaxJobs
    <3> DEFINE old == Len(handlers[h].left)
               n == Len(jobs)
    <3>1. old \in Nat /\ n + TicketsLeft <= MaxJobs /\ n \in Nat
      BY <1>1, <1>2 DEF TablesOK, RoomForAll
    <3> HIDE DEF old, n
    <3>2. n + TicketsLeft + 0 - old <= MaxJobs
      BY <1>3, <3>1, Bounds
    <3> QED BY <2>1, <3>2 DEF old, n
  <2>4. TablesOK'
    BY <2>1, <2>2, <2>3, HandlerMoves
  <2> QED BY <2>2, <2>4 DEF RestOK
<1>7. ASSUME NEW h \in Handlers, Dispatch(h) PROVE TablesOK' /\ RestOK'
  <2> DEFINE x == [handlers[h] EXCEPT !.saved = NoJob]
  <2>1. x \in HandlerRows(Len(jobs)) /\ x.left = handlers[h].left
    BY <1>2 DEF HandlerRows
  <2>2. handlers' = [handlers EXCEPT ![h] = x] /\ UNCHANGED <<flow, jobs, begun, admin, link, shelf, upsets>>
        /\ wire' = wire \cup Delivery(handlers[h].saved) /\ handlers[h].saved # NoJob
    BY <1>7 DEF Dispatch
  <2>3. handlers[h].saved \in DOMAIN jobs
    BY <1>1, <1>2, <2>2 DEF HandlerRows
  <2>4. Len(jobs) + TicketsLeft + Len(x.left) - Len(handlers[h].left) <= MaxJobs
    BY <1>1, <1>2, <1>3, <2>1, Bounds DEF TablesOK, RoomForAll
  <2> HIDE DEF x
  <2>5. TablesOK'
    BY <2>1, <2>2, <2>4, HandlerMoves
  <2>6. wire' \subseteq Message
    BY <2>2, <2>3, DeliveryIsOfMessages DEF RestOK
  <2> QED BY <2>2, <2>5, <2>6 DEF RestOK
<1> QED BY <1>4, <1>5, <1>6, <1>7 DEF Printing

(* The rest of the steps.  *)
LEMMA OthersKeepOrder ==
  ASSUME TablesOK, RestOK,
         \/ Administration \/ Answers \/ Faults
         \/ \E j \in DOMAIN jobs, op \in {"retry", "cancel"} : ReadJob(op, j)
         \/ \E a \in Agents : Agent(a) \/ \E j \in JobIds : PrintJob(a, j)
  PROVE  TablesOK' /\ RestOK'
<1>1. Len(jobs) \in Nat /\ DOMAIN jobs = 1 .. Len(jobs) /\ \A j \in DOMAIN jobs : jobs[j] \in Job
  BY DEF TablesOK
<1>2. ASSUME UNCHANGED <<flow, jobs, handlers>> PROVE TablesOK' /\ Len(jobs') = Len(jobs)
  BY <1>2, TablesStay
<1>3. ASSUME UNCHANGED <<flow, jobs, handlers, begun, link, shelf, upsets>>, wire' \subseteq Message,
             admin' \in AdminRows(Len(jobs))
      PROVE  TablesOK' /\ RestOK'
  BY <1>2, <1>3 DEF RestOK
<1>4. ASSUME NEW j, Touched(j), UNCHANGED <<flow, handlers, begun, link, shelf, upsets>>, wire' \subseteq wire,
             admin' \in AdminRows(Len(jobs))
      PROVE  TablesOK' /\ RestOK'
  <2>1. TablesOK' /\ Len(jobs') = Len(jobs)
    BY <1>4, TablesStay
  <2> QED BY <1>4, <2>1 DEF RestOK
<1>5. admin \in AdminRows(Len(jobs)) /\ Idle \in AdminRows(Len(jobs))
  BY DEF RestOK, AdminRows
<1>6. CASE SaveRetry
  <2>1. admin.op = "retry" /\ admin.job \in 1 .. Len(jobs) /\ admin.attempts \in 0 .. MaxAttempts
        /\ admin.attempts < MaxAttempts
    BY <1>5, <1>6 DEF SaveRetry, AdminRows, Idle
  <2>2. Touched(admin.job)
    <3>1. admin.attempts + 1 \in 0 .. MaxAttempts /\ "queued" \in JobStatus
      BY <2>1, Bounds DEF JobStatus
    <3> QED BY <1>6, <3>1 DEF SaveRetry, SaveEntity, Touched
  <2>3. admin' \in AdminRows(Len(jobs))
    BY <1>6, <2>1 DEF SaveRetry, AdminRows
  <2> QED BY <1>4, <1>6, <2>2, <2>3 DEF SaveRetry
<1>7. CASE Resend
  <2>1. admin.job \in DOMAIN jobs
    BY <1>1, <1>5, <1>7 DEF Resend, AdminRows, Idle
  <2>2. wire' \subseteq Message
    BY <1>7, <2>1, DeliveryIsOfMessages DEF Resend, RestOK
  <2> QED BY <1>3, <1>5, <1>7, <2>2 DEF Resend
<1>8. CASE SaveCancel
  <2>1. admin.attempts \in 0 .. MaxAttempts
    BY <1>5, <1>8 DEF SaveCancel, AdminRows, Idle
  <2>2. Touched(admin.job)
    BY <1>8, <2>1 DEF SaveCancel, SaveEntity, Touched, JobStatus
  <2> QED BY <1>4, <1>5, <1>8, <2>2 DEF SaveCancel
<1>9. ASSUME NEW m \in wire, ReceiveAck(m) PROVE TablesOK' /\ RestOK'
  <2>1. CASE m.job \in DOMAIN jobs /\ jobs[m.job].status = "queued"
    <3>1. jobs' = [jobs EXCEPT ![m.job].status = "printing"]
      BY <1>9, <2>1 DEF ReceiveAck, MarkedPrinting
    <3>2. Touched(m.job)
      BY <3>1, Bounds DEF Touched, JobStatus
    <3> QED BY <1>4, <1>5, <1>9, <3>2 DEF ReceiveAck
  <2>2. CASE ~(m.job \in DOMAIN jobs /\ jobs[m.job].status = "queued")
    <3>1. jobs' = jobs
      <4>1. jobs' = [jobs EXCEPT ![m.job] = MarkedPrinting(jobs[m.job])]
        BY <1>9 DEF ReceiveAck
      <4>2. m.job \in DOMAIN jobs => MarkedPrinting(jobs[m.job]) = jobs[m.job]
        BY <2>2 DEF MarkedPrinting
      <4>3. jobs' = [i \in DOMAIN jobs |-> IF i = m.job THEN MarkedPrinting(jobs[m.job]) ELSE jobs[i]]
        BY <4>1
      <4>4. jobs = [i \in DOMAIN jobs |-> jobs[i]]
        BY <1>1 DEF TablesOK
      <4> QED BY <4>2, <4>3, <4>4
    <3> QED BY <1>3, <1>5, <1>9, <3>1 DEF ReceiveAck, RestOK
  <2> QED BY <2>1, <2>2
<1>10. ASSUME NEW m \in wire, ReceiveOutcome(m) PROVE TablesOK' /\ RestOK'
  <2>1. Touched(m.job)
    <3>1. m.is \in JobStatus /\ jobs' = [jobs EXCEPT ![m.job].status = m.is]
      BY <1>10 DEF ReceiveOutcome, SetStatus, JobStatus
    <3>2. 0 \in 0 .. MaxAttempts
      BY Bounds
    <3> QED BY <3>1, <3>2 DEF Touched
  <2> QED BY <1>4, <1>5, <1>10, <2>1 DEF ReceiveOutcome
<1>11. ASSUME NEW j \in DOMAIN jobs, NEW op \in {"retry", "cancel"}, ReadJob(op, j) PROVE TablesOK' /\ RestOK'
  <2>1. jobs[j].attempts \in 0 .. MaxAttempts /\ (op = "retry" => jobs[j].attempts < MaxAttempts)
    BY <1>1, <1>11 DEF ReadJob, Retryable, Job
  <2>2. admin' \in AdminRows(Len(jobs)) /\ upsets' \in 0 .. MaxUpsets
    BY <1>1, <1>11, <2>1, Bounds DEF ReadJob, AdminRows, Upset, RestOK
  <2> QED BY <1>2, <1>11, <2>2 DEF ReadJob, RestOK
<1>12. CASE Faults
  <2>1. upsets' \in 0 .. MaxUpsets
    BY <1>12, Bounds DEF Faults, Disconnect, AckTooLate, Restart, Upset, RestOK
  <2>2. ASSUME NEW a \in Agents, Disconnect(a) PROVE TablesOK' /\ RestOK'
    BY <1>2, <2>1, <2>2 DEF Disconnect, RestOK
  <2>3. ASSUME NEW m \in wire, AckTooLate(m) PROVE TablesOK' /\ RestOK'
    BY <1>2, <2>1, <2>3 DEF AckTooLate, RestOK
  <2>4. CASE Restart
    <3>1. Quiet \in HandlerRows(Len(jobs)) /\ Len(Quiet.left) = 0
      BY <1>1 DEF Quiet, HandlerRows
    <3>2. handlers' \in [Handlers -> HandlerRows(Len(jobs))] /\ \A h \in Handlers : handlers'[h] = Quiet
      BY <2>4, <3>1 DEF Restart
    <3>3. TicketsLeft' = 0
      <4>1. Len(handlers'["created"].left) = 0 /\ Len(handlers'["paid"].left) = 0
            /\ Len(handlers'["manual"].left) = 0
        BY <3>1, <3>2 DEF Handlers
      <4> QED BY <4>1 DEF TicketsLeft
    <3>4. TicketsLeft \in Nat
      BY JobsHaveNumbers
    <3>5. RoomForAll'
      BY <1>1, <2>4, <3>3, <3>4, Bounds DEF RoomForAll, Restart, TablesOK
    <3> QED BY <1>5, <2>1, <2>4, <3>2, <3>5 DEF Restart, TablesOK, RestOK
  <2> QED BY <1>12, <2>2, <2>3, <2>4 DEF Faults
<1>13. ASSUME NEW a \in Agents, Join(a) PROVE TablesOK' /\ RestOK'
  BY <1>2, <1>13 DEF Join, RestOK
<1>14. \A j \in DOMAIN jobs : j \in JobIds
  BY JobsHaveNumbers
<1>15. ASSUME NEW a \in Agents, Replay(a) PROVE TablesOK' /\ RestOK'
  <2>1. PICK stale \in SUBSET JobsOf(a, "printing") :
          wire' = wire \cup {Msg(a, j, "job") : j \in Oldest(JobsOf(a, "queued") \cup stale)}
    BY <1>15 DEF Replay
  <2>2. \A j \in Oldest(JobsOf(a, "queued") \cup stale) : j \in JobIds
    BY <1>14 DEF Oldest, JobsOf
  <2>3. ASSUME NEW j \in JobIds PROVE Msg(a, j, "job") \in Message
    BY DEF Msg, Message
  <2>4. wire' \subseteq Message
    BY <2>1, <2>2, <2>3 DEF RestOK
  <2> QED BY <1>2, <1>15, <2>4 DEF Replay, RestOK
<1>16. ASSUME NEW a \in Agents, NEW j \in JobIds, Queue(a, j)
       PROVE  shelf' \in [Agents -> [JobIds -> {"unknown", "waiting", "printed", "failed"}]]
  BY <1>16 DEF Queue, RestOK
<1>17. ASSUME NEW m \in wire, Accept(m) PROVE TablesOK' /\ RestOK'
  <2>1. m.agent \in Agents /\ m.job \in JobIds
    BY DEF RestOK, Message
  <2>2. wire' \subseteq Message
    BY <1>17, <2>1 DEF Accept, Msg, Message, AgentMessages, RestOK
  <2> QED BY <1>2, <1>16, <1>17, <2>1, <2>2 DEF Accept, RestOK
<1>18. ASSUME NEW m \in wire, AcceptBroadcast(m) PROVE TablesOK' /\ RestOK'
  <2>1. m.agent \in Agents /\ m.job \in JobIds
    BY DEF RestOK, Message
  <2>2. shelf' \in [Agents -> [JobIds -> {"unknown", "waiting", "printed", "failed"}]]
    BY <1>16, <1>18, <2>1 DEF AcceptBroadcast, RestOK
  <2> QED BY <1>2, <1>18, <2>2 DEF AcceptBroadcast, RestOK
<1>19. ASSUME NEW a \in Agents, NEW j \in JobIds, PrintJob(a, j) PROVE TablesOK' /\ RestOK'
  <2>1. wire' \subseteq Message /\ shelf' \in [Agents -> [JobIds -> {"unknown", "waiting", "printed", "failed"}]]
    BY <1>19 DEF PrintJob, Msg, Message, AgentMessages, RestOK
  <2> QED BY <1>2, <1>19, <2>1 DEF PrintJob, RestOK
<1> QED BY <1>6, <1>7, <1>8, <1>9, <1>10, <1>11, <1>12, <1>13, <1>15, <1>17, <1>18, <1>19
        DEF Administration, Answers, Agent

(* Types hold all the time.  *)
LEMMA DeliveryStep == DeliveryInv /\ [Next]_vars => DeliveryInv'
<1> SUFFICES ASSUME DeliveryInv, [Next]_vars PROVE TablesOK' /\ RestOK'
  <2>1. DeliveryInv' <=> TablesOK' /\ RestOK'
    BY InParts, PTL
  <2> QED BY <2>1
<1>1. TablesOK /\ RestOK
  BY InParts
<1>2. CASE UNCHANGED vars
  BY <1>1, <1>2, TablesStay DEF vars, RestOK
<1>3. CASE Next
  BY <1>1, <1>3, HandlersKeepOrder, OthersKeepOrder DEF Next, Requests
<1> QED BY <1>2, <1>3

(* The types of the delivery with what makes them inductive: a handler that runs has
   saved the job it sends, the jobs still to be made have numbers left, and a retry is
   of a job that has attempts left (handleOrderCreated, retryJob).                   *)
THEOREM DeliveryInOrder == Spec => []DeliveryInv
<1>1. Init => DeliveryInv
  BY DeliveryInit, InParts
<1> QED BY <1>1, DeliveryStep, PTL DEF Spec

(* Every job, message, connection and handler has the values its type names.  *)
THEOREM TypeCorrect == Spec => []TypeOK
<1>1. DeliveryInv => TypeOK
  BY DEF DeliveryInv
<1> QED BY <1>1, DeliveryInOrder, PTL

-----------------------------------------------------------------------------
(* Nothing is forgotten.                                                      *)

(* Job j is queued for an agent that got its replay, and what then keeps it in mind.  *)
Due(j) == jobs[j].status = "queued" /\ AgentFor(j) # None /\ link[AgentFor(j)] = "on"
InMind(j) ==
  \/ Pending(j)
  \/ Msg(AgentFor(j), j, "job") \in wire
  \/ shelf[AgentFor(j)][j] \in {"waiting", "printed"}
  \/ Msg(AgentFor(j), j, "failed") \in wire

(* NothingForgotten, job by job.  *)
LEMMA ForgottenByJob == NothingForgotten <=> \A j \in DOMAIN jobs : Due(j) => InMind(j)
BY DEF NothingForgotten, Due, InMind

(* What goes to the agent of a job that is due is on the wire.  *)
LEMMA DeliveryReaches ==
  ASSUME RestOK, NEW j, AgentFor(j) \in Agents, AgentFor(j) # None, link[AgentFor(j)] = "on"
  PROVE  Msg(AgentFor(j), j, "job") \in Delivery(j)
BY DEF Delivery, InRoom

(* A job has an agent or none.  *)
LEMMA AgentsOfJobs ==
  ASSUME TablesOK, NEW j \in DOMAIN jobs
  PROVE  AgentFor(j) \in Agents \cup {None}
<1>1. jobs[j] \in Job
  BY DEF TablesOK
<1> QED BY <1>1, PrintAssumption DEF AgentFor, Job, Ticket

(* The handlers: who saves a job sends it, and who sends it reaches a connected
   agent.  *)
LEMMA HandlersForgetNothing ==
  ASSUME TablesOK, RestOK, OrderCreated \/ PaymentReceived \/ CreateManually \/ Printing,
         NEW j \in DOMAIN jobs', j \in DOMAIN jobs => (Due(j) => InMind(j)), Due(j)'
  PROVE  InMind(j)'
<1>1. handlers \in [Handlers -> HandlerRows(Len(jobs))] /\ Len(jobs) \in Nat /\ DOMAIN jobs = 1 .. Len(jobs)
  BY DEF TablesOK
<1>2. ASSUME UNCHANGED <<jobs, link>> PROVE AgentFor(j)' = AgentFor(j) /\ j \in DOMAIN jobs /\ Due(j) /\ InMind(j)
  BY <1>2 DEF Due, AgentFor
<1>3. CASE OrderCreated \/ PaymentReceived \/ CreateManually
  <2>1. PICK h \in Handlers, tickets \in Seq(Ticket) : Begin(h, tickets)
    BY <1>3, WhoBegins DEF TablesOK
  <2>2. UNCHANGED <<jobs, link, wire, shelf, admin>>
    BY <2>1 DEF Begin
  <2>3. \A g \in Handlers : handlers'[g].saved = handlers[g].saved
    BY <1>1, <2>1 DEF Begin, HandlerRows
  <2> QED BY <1>2, <2>2, <2>3 DEF InMind, Pending
<1>4. ASSUME NEW h \in Handlers, SaveJob(h) PROVE InMind(j)'
  <2> DEFINE x == [left |-> Tail(handlers[h].left), saved |-> Len(jobs) + 1]
             ticket == Head(handlers[h].left)
             job == [ticket |-> ticket, status |-> "queued", attempts |-> 0]
  <2>1. handlers' = [handlers EXCEPT ![h] = x] /\ jobs' = Append(jobs, job) /\ handlers[h].saved = NoJob
        /\ UNCHANGED <<link, wire, shelf, admin>>
    BY <1>4 DEF SaveJob, Creating
  <2>2. jobs \in Seq(Job)
    BY DEF TablesOK
  <2>3. handlers'[h].saved = Len(jobs) + 1 /\ \A g \in Handlers \ {h} : handlers'[g] = handlers[g]
    BY <1>1, <2>1
  <2> HIDE DEF job
  <2>4. CASE j = Len(jobs) + 1
    BY <2>3, <2>4 DEF InMind, Pending
  <2>5. CASE j # Len(jobs) + 1
    <3>1. j \in DOMAIN jobs /\ jobs'[j] = jobs[j]
      BY <1>1, <2>1, <2>2, <2>5
    <3>2. AgentFor(j)' = AgentFor(j) /\ Due(j) /\ InMind(j)
      BY <2>1, <3>1 DEF Due, AgentFor
    <3>3. j # NoJob
      BY <1>1, <3>1 DEF NoJob
    <3>4. Pending(j) => Pending(j)'
      BY <2>1, <2>3, <3>3 DEF Pending
    <3> QED BY <2>1, <3>2, <3>4 DEF InMind
  <2> QED BY <2>4, <2>5
<1>5. ASSUME NEW h \in Handlers, AbortPrinting(h) PROVE InMind(j)'
  <2>1. UNCHANGED <<jobs, link, wire, shelf, admin>> /\ handlers[h].saved = NoJob
        /\ handlers' = [handlers EXCEPT ![h] = Quiet]
    BY <1>5 DEF AbortPrinting, Creating
  <2>2. AgentFor(j)' = AgentFor(j) /\ j \in DOMAIN jobs /\ InMind(j)
    BY <1>2, <2>1
  <2>3. j # NoJob
    BY <1>1, <2>2 DEF NoJob
  <2>4. Pending(j) => Pending(j)'
    BY <1>1, <2>1, <2>3 DEF Pending
  <2> QED BY <2>1, <2>2, <2>4 DEF InMind
<1>6. ASSUME NEW h \in Handlers, Dispatch(h) PROVE InMind(j)'
  <2>1. UNCHANGED <<jobs, link, shelf, admin>> /\ wire' = wire \cup Delivery(handlers[h].saved)
        /\ handlers' = [handlers EXCEPT ![h].saved = NoJob]
    BY <1>6 DEF Dispatch
  <2>2. AgentFor(j)' = AgentFor(j) /\ j \in DOMAIN jobs /\ InMind(j) /\ Due(j)
    BY <1>2, <2>1
  <2>3. CASE handlers[h].saved = j
    <3>1. Msg(AgentFor(j), j, "job") \in Delivery(j)
      BY <2>2, AgentsOfJobs, DeliveryReaches DEF Due
    <3> QED BY <2>1, <2>2, <2>3, <3>1 DEF InMind, Msg
  <2>4. CASE handlers[h].saved # j
    <3>1. Pending(j) => Pending(j)'
      BY <1>1, <2>1, <2>4 DEF Pending
    <3> QED BY <2>1, <2>2, <3>1 DEF InMind, Msg
  <2> QED BY <2>3, <2>4
<1> QED BY <1>3, <1>4, <1>5, <1>6 DEF Printing

(* An administrator's retry is sent, and a job whose message, failure or place on the
   agent's shelf goes away is no longer queued, or has another of them.  *)
LEMMA OthersForgetNothing ==
  ASSUME TablesOK, RestOK, MaxJobs <= ReplayLimit,
         \/ Administration \/ Answers \/ Faults
         \/ \E i \in DOMAIN jobs, op \in {"retry", "cancel"} : ReadJob(op, i)
         \/ \E a \in Agents : Agent(a) \/ \E i \in JobIds : PrintJob(a, i),
         NEW j \in DOMAIN jobs, Due(j) => InMind(j), Due(j)'
  PROVE  InMind(j)'
<1>1. Len(jobs) \in Nat /\ DOMAIN jobs = 1 .. Len(jobs) /\ (\A i \in DOMAIN jobs : jobs[i] \in Job) /\ j \in JobIds
  BY JobsHaveNumbers DEF TablesOK
<1>2. AgentFor(j) \in Agents \cup {None}
  BY AgentsOfJobs
<1>3. ASSUME UNCHANGED <<jobs, link>> PROVE AgentFor(j)' = AgentFor(j) /\ Due(j) /\ InMind(j)
  BY <1>3 DEF Due, AgentFor
<1>4. ASSUME NEW i, Touched(i), UNCHANGED link, i # j
      PROVE  AgentFor(j)' = AgentFor(j) /\ Due(j) /\ InMind(j)
  <2>1. jobs'[j] = jobs[j]
    BY <1>4, TicketsStay DEF TablesOK
  <2> QED BY <1>4, <2>1 DEF Due, AgentFor
<1>5. admin \in AdminRows(Len(jobs))
  BY DEF RestOK
<1>6. CASE SaveRetry
  <2>1. admin.op = "retry" /\ admin' = [op |-> "resend", job |-> admin.job]
        /\ UNCHANGED <<handlers, link, wire, shelf>>
    BY <1>6 DEF SaveRetry
  <2>2. CASE admin.job = j
    BY <2>1, <2>2 DEF InMind, Pending
  <2>3. CASE admin.job # j
    <3>1. jobs'[j] = jobs[j]
      BY <1>6, <2>3 DEF SaveRetry, SaveEntity
    <3>2. AgentFor(j)' = AgentFor(j) /\ Due(j) /\ InMind(j)
      BY <2>1, <3>1 DEF Due, AgentFor
    <3>3. Pending(j) => Pending(j)'
      BY <2>1 DEF Pending
    <3> QED BY <2>1, <3>2, <3>3 DEF InMind
  <2> QED BY <2>2, <2>3
<1>7. CASE Resend
  <2>1. wire' = wire \cup Delivery(admin.job) /\ UNCHANGED <<jobs, handlers, link, shelf>>
    BY <1>7 DEF Resend
  <2>2. AgentFor(j)' = AgentFor(j) /\ Due(j) /\ InMind(j)
    BY <1>3, <2>1
  <2>3. CASE admin.job = j
    <3>1. Msg(AgentFor(j), j, "job") \in Delivery(j)
      BY <1>2, <2>2, DeliveryReaches DEF Due
    <3> QED BY <2>1, <2>2, <2>3, <3>1 DEF InMind, Msg
  <2>4. CASE admin.job # j
    <3>1. Pending(j) => Pending(j)'
      BY <2>1, <2>4 DEF Pending
    <3> QED BY <2>1, <2>2, <3>1 DEF InMind, Msg
  <2> QED BY <2>3, <2>4
<1>8. CASE SaveCancel
  <2>1. admin.op = "cancel" /\ UNCHANGED <<handlers, link, wire, shelf>>
    BY <1>8 DEF SaveCancel
  <2>2. admin.job # j
    <3>1. admin.job = j => jobs'[j].status = "failed"
      BY <1>1, <1>8 DEF SaveCancel, SaveEntity, Job
    <3> QED BY <3>1 DEF Due
  <2>3. jobs'[j] = jobs[j]
    BY <1>8, <2>2 DEF SaveCancel, SaveEntity
  <2>4. AgentFor(j)' = AgentFor(j) /\ Due(j) /\ InMind(j)
    BY <2>1, <2>3 DEF Due, AgentFor
  <2>5. Pending(j) => Pending(j)'
    BY <2>1 DEF Pending
  <2> QED BY <2>1, <2>4, <2>5 DEF InMind
<1>9. ASSUME NEW m \in wire, ReceiveAck(m) \/ ReceiveOutcome(m) PROVE InMind(j)'
  <2>1. UNCHANGED <<handlers, admin, link, shelf>> /\ wire' = wire \ {m} /\ m.is \in AgentMessages
    BY <1>9 DEF ReceiveAck, ReceiveOutcome, AgentMessages
  <2>2. jobs'[j] = jobs[j] /\ (m.job = j => m.is = "ack")
    <3>1. CASE m.job = j
      <4>1. ReceiveAck(m) => jobs'[j] = MarkedPrinting(jobs[j])
        BY <3>1 DEF ReceiveAck
      <4>2. MarkedPrinting(jobs[j]).status # "queued" \/ MarkedPrinting(jobs[j]) = jobs[j]
        BY <1>1 DEF MarkedPrinting, Job
      <4>3. ReceiveOutcome(m) => jobs'[j].status # "queued"
        BY <1>1, <3>1 DEF ReceiveOutcome, SetStatus, Job
      <4> QED BY <1>9, <4>1, <4>2, <4>3 DEF Due, ReceiveAck
    <3>2. CASE m.job # j
      BY <1>9, <3>2 DEF ReceiveAck, ReceiveOutcome, SetStatus
    <3> QED BY <3>1, <3>2
  <2>3. AgentFor(j)' = AgentFor(j) /\ Due(j) /\ InMind(j)
    BY <2>1, <2>2 DEF Due, AgentFor
  <2>4. Msg(AgentFor(j), j, "job") # m /\ Msg(AgentFor(j), j, "failed") # m
    BY <2>1, <2>2 DEF Msg, AgentMessages
  <2> QED BY <2>1, <2>3, <2>4 DEF InMind, Pending, Msg
<1>10. ASSUME NEW i \in DOMAIN jobs, NEW op \in {"retry", "cancel"}, ReadJob(op, i) PROVE InMind(j)'
  <2>1. UNCHANGED <<jobs, handlers, link, wire, shelf>> /\ admin = Idle
    BY <1>10 DEF ReadJob
  <2>2. Pending(j) => Pending(j)'
    BY <2>1 DEF Pending, Idle
  <2> QED BY <1>3, <2>1, <2>2 DEF InMind
<1>11. ASSUME NEW a \in Agents, Disconnect(a) PROVE InMind(j)'
  <2>1. UNCHANGED <<jobs, handlers, admin, shelf>> /\ link' = [link EXCEPT ![a] = "off"]
        /\ {m \in wire : m.agent # a} \subseteq wire'
    BY <1>11 DEF Disconnect
  <2>2. AgentFor(j)' = AgentFor(j)
    BY <2>1 DEF AgentFor
  <2>3. AgentFor(j) # a /\ link[AgentFor(j)] = "on"
    BY <1>2, <2>1, <2>2 DEF Due, RestOK
  <2>4. InMind(j)
    BY <2>1, <2>2, <2>3 DEF Due
  <2> QED BY <2>1, <2>2, <2>3, <2>4 DEF InMind, Pending, Msg
<1>12. ASSUME NEW m \in wire, AckTooLate(m) PROVE InMind(j)'
  <2>1. UNCHANGED <<jobs, handlers, admin, link, shelf>> /\ wire' = wire \ {m} /\ m.is = "ack"
    BY <1>12 DEF AckTooLate
  <2> QED BY <1>3, <2>1 DEF InMind, Pending, Msg
<1>13. CASE Restart
  BY <1>2, <1>13 DEF Restart, Due, AgentFor
<1>14. ASSUME NEW a \in Agents, Join(a) PROVE InMind(j)'
  <2>1. UNCHANGED <<jobs, handlers, admin, wire, shelf>> /\ link' = [link EXCEPT ![a] = "joined"]
    BY <1>14 DEF Join
  <2>2. AgentFor(j)' = AgentFor(j) /\ AgentFor(j) # a /\ InMind(j)
    BY <1>2, <2>1 DEF Due, AgentFor, RestOK
  <2> QED BY <2>1, <2>2 DEF InMind, Pending
<1>15. ASSUME NEW a \in Agents, Replay(a) PROVE InMind(j)'
  <2>1. PICK stale \in SUBSET JobsOf(a, "printing") :
          wire' = wire \cup {Msg(a, i, "job") : i \in Oldest(JobsOf(a, "queued") \cup stale)}
    BY <1>15 DEF Replay
  <2>2. UNCHANGED <<jobs, handlers, admin, shelf>> /\ link' = [link EXCEPT ![a] = "on"]
    BY <1>15 DEF Replay
  <2>3. AgentFor(j)' = AgentFor(j)
    BY <2>2 DEF AgentFor
  <2>4. CASE AgentFor(j) = a
    <3> DEFINE due == JobsOf(a, "queued") \cup stale
               older == {i \in due : i <= j}
    <3>1. j \in due
      BY <2>2, <2>4 DEF Due, JobsOf
    <3>2. older \subseteq 1 .. Len(jobs)
      BY <1>1 DEF JobsOf
    <3>3. Cardinality(older) <= Len(jobs)
      <4>1. IsFiniteSet(1 .. Len(jobs)) /\ Cardinality(1 .. Len(jobs)) = Len(jobs)
        <5> DEFINE n == Len(jobs)
        <5>1. n \in Nat
          BY <1>1
        <5> HIDE DEF n
        <5> QED BY <5>1, FS_Interval
      <4> HIDE DEF older
      <4> QED BY <3>2, <4>1, FS_Subset
    <3>4. Cardinality(older) \in Nat
      <4>1. IsFiniteSet(1 .. Len(jobs))
        BY <1>1, FS_Interval
      <4>2. IsFiniteSet(older)
        BY <3>2, <4>1, FS_Subset
      <4> QED BY <4>2, FS_CardinalityType
    <3>5. Len(jobs) <= MaxJobs
      BY <1>1, JobsHaveNumbers, Bounds DEF TablesOK, RoomForAll
    <3>6. Cardinality(older) <= ReplayLimit
      BY <1>1, <3>3, <3>4, <3>5, Bounds
    <3>7. j \in Oldest(due)
      BY <3>1, <3>6 DEF Oldest
    <3> QED BY <2>1, <2>3, <2>4, <3>7 DEF InMind, Msg
  <2>5. CASE AgentFor(j) # a
    <3>1. InMind(j)
      BY <1>2, <2>2, <2>3, <2>5 DEF Due, RestOK
    <3> QED BY <2>1, <2>2, <2>3, <3>1 DEF InMind, Pending, Msg
  <2> QED BY <2>4, <2>5
<1>16. ASSUME NEW a \in Agents, NEW i \in JobIds, Queue(a, i), AgentFor(j) \in Agents
       PROVE  /\ shelf[AgentFor(j)][j] \in {"waiting", "printed"} => shelf'[AgentFor(j)][j] \in {"waiting", "printed"}
              /\ a = AgentFor(j) /\ i = j => shelf'[a][j] \in {"waiting", "printed"}
  BY <1>1, <1>16 DEF Queue, RestOK
<1>17. ASSUME NEW m \in wire, Accept(m) PROVE InMind(j)'
  <2>1. UNCHANGED <<jobs, handlers, admin, link>> /\ Queue(m.agent, m.job) /\ m.is = "job"
        /\ wire' = (wire \ {m}) \cup {Msg(m.agent, m.job, "ack")}
    BY <1>17 DEF Accept
  <2>2. m.agent \in Agents /\ m.job \in JobIds
    BY DEF RestOK, Message
  <2>3. AgentFor(j)' = AgentFor(j) /\ InMind(j) /\ AgentFor(j) \in Agents
    BY <1>2, <1>3, <2>1 DEF Due
  <2>4. Msg(AgentFor(j), j, "job") = m => m.agent = AgentFor(j) /\ m.job = j
    BY DEF Msg
  <2>5. Msg(AgentFor(j), j, "failed") # m
    BY <2>1 DEF Msg
  <2>6. \/ Pending(j)' \/ Msg(AgentFor(j), j, "job") \in wire' \/ Msg(AgentFor(j), j, "failed") \in wire'
        \/ shelf'[AgentFor(j)][j] \in {"waiting", "printed"}
    BY <1>16, <2>1, <2>2, <2>3, <2>4, <2>5 DEF InMind, Pending
  <2> QED BY <2>3, <2>6 DEF InMind, Msg
<1>18. ASSUME NEW m \in wire, AcceptBroadcast(m) PROVE InMind(j)'
  <2>1. UNCHANGED <<jobs, handlers, admin, link>> /\ (Queue(m.agent, m.job) \/ UNCHANGED shelf) /\ m.is = "broadcast"
        /\ wire' = wire \ {m}
    BY <1>18 DEF AcceptBroadcast
  <2>2. m.agent \in Agents /\ m.job \in JobIds
    BY DEF RestOK, Message
  <2>3. AgentFor(j)' = AgentFor(j) /\ InMind(j) /\ AgentFor(j) \in Agents
    BY <1>2, <1>3, <2>1 DEF Due
  <2>4. Msg(AgentFor(j), j, "job") # m /\ Msg(AgentFor(j), j, "failed") # m
    BY <2>1 DEF Msg
  <2>5. shelf[AgentFor(j)][j] \in {"waiting", "printed"} => shelf'[AgentFor(j)][j] \in {"waiting", "printed"}
    BY <1>16, <2>1, <2>2, <2>3
  <2> QED BY <2>1, <2>3, <2>4, <2>5 DEF InMind, Pending, Msg
<1>19. ASSUME NEW a \in Agents, NEW i \in JobIds, PrintJob(a, i) PROVE InMind(j)'
  <2>1. PICK outcome \in {"completed", "failed"} :
          /\ shelf' = [shelf EXCEPT ![a][i] = IF outcome = "completed" THEN "printed" ELSE "failed"]
          /\ wire' = IF InRoom(a) THEN wire \cup {Msg(a, i, outcome)} ELSE wire
    BY <1>19 DEF PrintJob
  <2>2. UNCHANGED <<jobs, handlers, admin, link>>
    BY <1>19 DEF PrintJob
  <2>3. AgentFor(j)' = AgentFor(j) /\ InMind(j) /\ AgentFor(j) \in Agents /\ link[AgentFor(j)] = "on"
    BY <1>2, <1>3, <2>2 DEF Due
  <2>4. CASE a = AgentFor(j) /\ i = j /\ outcome = "failed"
    <3>1. InRoom(a)
      BY <2>3, <2>4 DEF InRoom
    <3> QED BY <2>1, <2>3, <2>4, <3>1 DEF InMind, Msg
  <2>5. CASE a = AgentFor(j) /\ i = j /\ outcome = "completed"
    <3>1. shelf'[a][j] = "printed"
      BY <1>1, <2>1, <2>5 DEF RestOK
    <3> QED BY <2>3, <2>5, <3>1 DEF InMind
  <2>6. CASE ~(a = AgentFor(j) /\ i = j)
    <3>1. shelf'[AgentFor(j)][j] = shelf[AgentFor(j)][j]
      BY <1>1, <2>1, <2>3, <2>6 DEF RestOK
    <3>2. wire \subseteq wire'
      BY <2>1
    <3> QED BY <2>2, <2>3, <3>1, <3>2 DEF InMind, Pending, Msg
  <2> QED BY <2>4, <2>5, <2>6
<1> QED BY <1>6, <1>7, <1>8, <1>9, <1>10, <1>11, <1>12, <1>13, <1>14, <1>15, <1>17, <1>18, <1>19
        DEF Administration, Answers, Agent, Faults

(* As long as no more jobs are printed than a replay takes (50 in the code), a queued
   job whose agent got its replay is never forgotten: NothingForgotten is inductive
   over the types alone.  With more jobs the later ones wait for the next connection. *)
THEOREM QueuedIsInMind ==
  ASSUME MaxJobs <= ReplayLimit
  PROVE  Spec => []NothingForgotten
<1>1. Init => NothingForgotten
  BY DEF Init, NothingForgotten
<1>2. DeliveryInv /\ NothingForgotten /\ [Next]_vars => NothingForgotten'
  <2> SUFFICES ASSUME DeliveryInv, NothingForgotten, [Next]_vars PROVE NothingForgotten'
    OBVIOUS
  <2>1. TablesOK /\ RestOK /\ \A j \in DOMAIN jobs : Due(j) => InMind(j)
    BY InParts, ForgottenByJob
  <2>2. ASSUME NEW j \in DOMAIN jobs', Due(j)' PROVE InMind(j)'
    <3>1. CASE OrderCreated \/ PaymentReceived \/ CreateManually \/ Printing
      BY <2>1, <2>2, <3>1, HandlersForgetNothing
    <3>2. CASE \/ Administration \/ Answers \/ Faults
               \/ \E i \in DOMAIN jobs, op \in {"retry", "cancel"} : ReadJob(op, i)
               \/ \E a \in Agents : Agent(a) \/ \E i \in JobIds : PrintJob(a, i)
      <4>1. DOMAIN jobs' = DOMAIN jobs
        BY <3>2 DEF Administration, Answers, Faults, Agent, SaveRetry, Resend, SaveCancel, SaveEntity,
           ReceiveAck, ReceiveOutcome, SetStatus, ReadJob, Disconnect, AckTooLate, Restart, Join, Replay,
           Accept, AcceptBroadcast, PrintJob
      <4>2. j \in DOMAIN jobs /\ (Due(j) => InMind(j))
        BY <2>1, <2>2, <4>1
      <4> QED BY <2>1, <2>2, <3>2, <4>2, OthersForgetNothing
    <3>3. CASE UNCHANGED vars
      BY <2>1, <2>2, <3>3 DEF vars, Due, InMind, AgentFor, Pending, Msg
    <3> QED BY <3>1, <3>2, <3>3 DEF Next, Requests
  <2> QED BY <2>2 DEF NothingForgotten, Due, InMind
<1> QED BY <1>1, <1>2, DeliveryInOrder, PTL DEF Spec

-----------------------------------------------------------------------------
(* Acknowledgements.                                                          *)

(* An acknowledgement that comes after the outcome leaves it: markJobPrinting asks for
   a queued job, and nothing else writes "printing" (LateAckNeverRegresses).        *)
THEOREM LateAckIsHarmless == Spec => LateAckNeverRegresses
<1>1. DeliveryInv /\ [Next]_vars =>
        [\A j \in DOMAIN jobs :
           jobs[j].status \in {"completed", "failed"} => jobs'[j].status # "printing"]_vars
  <2> SUFFICES ASSUME DeliveryInv, [Next]_vars, NEW j \in DOMAIN jobs,
                      jobs[j].status \in {"completed", "failed"}
               PROVE  jobs'[j].status # "printing"
    OBVIOUS
  <2>1. TablesOK /\ RestOK /\ jobs \in Seq(Job)
    BY InParts DEF TablesOK
  <2>2. jobs[j] \in Job /\ jobs[j].status # "printing" /\ jobs[j].status # "queued"
    BY <2>1
  <2>3. ASSUME jobs' = jobs PROVE jobs'[j].status # "printing"
    BY <2>2, <2>3
  <2>4. CASE Printing
    <3>1. ASSUME NEW h \in Handlers, SaveJob(h) PROVE jobs'[j].status # "printing"
      <4>1. jobs' = Append(jobs, [ticket |-> Head(handlers[h].left), status |-> "queued", attempts |-> 0])
        BY <3>1 DEF SaveJob
      <4>2. jobs'[j] = jobs[j]
        BY <2>1, <4>1
      <4> QED BY <2>2, <4>2
    <3> QED BY <2>3, <2>4, <3>1 DEF Printing, AbortPrinting, Dispatch
  <2>5. CASE Administration
    BY <2>2, <2>3, <2>5 DEF Administration, SaveRetry, Resend, SaveCancel, SaveEntity, Job
  <2>6. CASE Answers
    <3>1. ASSUME NEW m \in wire, ReceiveAck(m) PROVE jobs'[j].status # "printing"
      <4>1. jobs'[j] = IF j = m.job THEN MarkedPrinting(jobs[j]) ELSE jobs[j]
        BY <3>1 DEF ReceiveAck
      <4> QED BY <2>2, <4>1 DEF MarkedPrinting
    <3>2. ASSUME NEW m \in wire, ReceiveOutcome(m) PROVE jobs'[j].status # "printing"
      BY <2>2, <3>2 DEF ReceiveOutcome, SetStatus, Job
    <3> QED BY <2>6, <3>1, <3>2 DEF Answers
  <2>7. CASE OrderCreated \/ PaymentReceived \/ CreateManually
    BY <2>3, <2>7 DEF OrderCreated, PaymentReceived, CreateManually, Begin
  <2>8. CASE Faults \/ (\E i \in DOMAIN jobs, op \in {"retry", "cancel"} : ReadJob(op, i))
             \/ \E a \in Agents : Agent(a) \/ \E i \in JobIds : PrintJob(a, i)
    BY <2>3, <2>8 DEF Faults, ReadJob, Agent, Disconnect, AckTooLate, Restart, Join, Replay, Accept,
       AcceptBroadcast, PrintJob
  <2>9. CASE UNCHANGED vars
    BY <2>3, <2>9 DEF vars
  <2> QED BY <2>4, <2>5, <2>6, <2>7, <2>8, <2>9 DEF Next, Requests
<1> QED BY <1>1, DeliveryInOrder, PTL DEF Spec, LateAckNeverRegresses

-----------------------------------------------------------------------------
(* Lines and stations.                                                        *)

Kitchen(t) == t.kind = "kitchen"

(* What is printed and what is still to be printed, together: no two of the tickets
   list the same line, each is at its station, and only the handler of the order, which
   begins once, has kitchen tickets.  s are the tickets that handler has left.      *)
PrintedRight(f, table) ==
  /\ \A i, j \in DOMAIN table : i # j => Apart(table[i].ticket, table[j].ticket)
  /\ \A i \in DOMAIN table : Kitchen(table[i].ticket) => Stationed(f, table[i].ticket)
LeftRight(f, table, s) ==
  /\ AllApart(s) /\ \A k \in DOMAIN s : Kitchen(s[k]) => Stationed(f, s[k])
  /\ \A i \in DOMAIN table, k \in DOMAIN s : Apart(table[i].ticket, s[k])
NoKitchen(s) == \A k \in DOMAIN s : ~Kitchen(s[k])

LinesInv ==
  /\ PrintedRight(flow, jobs)
  /\ LeftRight(flow, jobs, handlers["created"].left)
  /\ NoKitchen(handlers["paid"].left) /\ NoKitchen(handlers["manual"].left)
  /\ "created" \notin begun => (/\ NoKitchen(handlers["created"].left)
                                /\ \A i \in DOMAIN jobs : ~Kitchen(jobs[i].ticket))

(* What the run checks follows.  *)
LEMMA LinesInvIsEnough == TablesOK /\ LinesInv => LinesReachTheirStation
BY DEF LinesInv, LinesReachTheirStation, PrintedRight, Apart, Stationed, Kitchen

(* The next ticket of a sequence becomes a job.  *)
LEMMA NextTicketIsPrinted ==
  ASSUME NEW f, NEW table \in Seq(Job), NEW s \in Seq(Ticket), s # <<>>, NEW job \in Job, job.ticket = Head(s),
         PrintedRight(f, table), LeftRight(f, table, s)
  PROVE  PrintedRight(f, Append(table, job)) /\ LeftRight(f, Append(table, job), Tail(s))
<1> DEFINE n == Len(table)
           m == Len(s)
<1>1. n \in Nat /\ DOMAIN table = 1 .. n /\ DOMAIN Append(table, job) = 1 .. n + 1
      /\ (\A i \in 1 .. n : Append(table, job)[i] = table[i]) /\ Append(table, job)[n + 1] = job
  OBVIOUS
<1>2. m \in Nat /\ DOMAIN s = 1 .. m /\ 1 \in DOMAIN s /\ Head(s) = s[1]
      /\ DOMAIN Tail(s) = 1 .. m - 1 /\ \A k \in 1 .. m - 1 : Tail(s)[k] = s[k + 1]
  OBVIOUS
<1> HIDE DEF n, m
<1>3. \A k \in DOMAIN Tail(s) : k + 1 \in DOMAIN s /\ k + 1 # 1 /\ Tail(s)[k] = s[k + 1]
  BY <1>2
<1>4. \A i \in DOMAIN table : Apart(table[i].ticket, job.ticket) /\ Apart(job.ticket, table[i].ticket)
  BY <1>2 DEF LeftRight, Apart
<1>5. PrintedRight(f, Append(table, job))
  <2>1. ASSUME NEW i \in 1 .. n + 1, NEW j \in 1 .. n + 1, i # j
        PROVE  Apart(Append(table, job)[i].ticket, Append(table, job)[j].ticket)
    <3>1. CASE i \in 1 .. n /\ j \in 1 .. n
      BY <1>1, <2>1, <3>1 DEF PrintedRight
    <3>2. CASE i = n + 1 /\ j \in 1 .. n
      BY <1>1, <1>4, <3>2
    <3>3. CASE j = n + 1 /\ i \in 1 .. n
      BY <1>1, <1>4, <3>3
    <3> QED BY <1>1, <2>1, <3>1, <3>2, <3>3
  <2>2. Kitchen(job.ticket) => Stationed(f, job.ticket)
    BY <1>2 DEF LeftRight
  <2>3. ASSUME NEW i \in 1 .. n + 1, Kitchen(Append(table, job)[i].ticket)
        PROVE  Stationed(f, Append(table, job)[i].ticket)
    <3>1. CASE i \in 1 .. n
      BY <1>1, <2>3, <3>1 DEF PrintedRight
    <3>2. CASE i = n + 1
      BY <1>1, <2>2, <2>3, <3>2
    <3> QED BY <1>1, <3>1, <3>2
  <2> QED BY <1>1, <2>1, <2>3 DEF PrintedRight
<1>6. AllApart(Tail(s)) /\ \A k \in DOMAIN Tail(s) : Kitchen(Tail(s)[k]) => Stationed(f, Tail(s)[k])
  <2>1. \A k, l \in DOMAIN Tail(s) : k # l => k + 1 # l + 1
    BY <1>2
  <2> QED BY <1>3, <2>1 DEF AllApart, LeftRight
<1>7. ASSUME NEW i \in 1 .. n + 1, NEW k \in DOMAIN Tail(s) PROVE Apart(Append(table, job)[i].ticket, Tail(s)[k])
  <2>1. CASE i \in 1 .. n
    BY <1>1, <1>3, <2>1 DEF LeftRight
  <2>2. CASE i = n + 1
    BY <1>1, <1>2, <1>3, <2>2 DEF LeftRight, AllApart
  <2> QED BY <1>1, <2>1, <2>2
<1> QED BY <1>1, <1>5, <1>6, <1>7 DEF LeftRight

(* A handler that begins has tickets apart from all that was printed, since only the one
   of the order has kitchen tickets and it begins once; saving moves a ticket over.   *)
LEMMA LinesHandlers ==
  ASSUME TablesOK, RestOK, LinesInv, OrderCreated \/ PaymentReceived \/ CreateManually \/ Printing
  PROVE  LinesInv'
<1> DEFINE s == handlers["created"].left
<1>1. handlers \in [Handlers -> HandlerRows(Len(jobs))] /\ flow \in Flows /\ jobs \in Seq(Job)
  BY DEF TablesOK
<1>2. \A h \in Handlers : handlers[h].left \in Seq(Ticket)
  BY <1>1 DEF HandlerRows
<1>3. ASSUME NEW h \in Handlers, NEW tickets \in Seq(Ticket), Begin(h, tickets),
             h = "created" => tickets = CreatedTickets(flow),
             h # "created" => \A k \in DOMAIN tickets : tickets[k].kind # "kitchen"
      PROVE  LinesInv'
  <2>1. UNCHANGED <<flow, jobs>> /\ begun' = begun \cup {h} /\ h \notin begun
        /\ handlers' = [handlers EXCEPT ![h].left = tickets]
    BY <1>3 DEF Begin
  <2>2. \A g \in Handlers : handlers'[g].left = IF g = h THEN tickets ELSE handlers[g].left
    BY <1>1, <2>1 DEF HandlerRows
  <2>3. CASE h = "created"
    <3>1. \A i \in DOMAIN jobs : ~Kitchen(jobs[i].ticket)
      BY <2>1, <2>3 DEF LinesInv
    <3>2. AllApart(tickets) /\ \A k \in DOMAIN tickets : Kitchen(tickets[k]) => Stationed(flow, tickets[k])
      BY <1>1, <1>3, <2>3, FlowsAreRoutable, HandlerTickets DEF Kitchen
    <3>3. LeftRight(flow, jobs, tickets)
      BY <3>1, <3>2 DEF LeftRight, Apart, Kitchen
    <3>4. handlers'["created"].left = tickets /\ handlers'["paid"].left = handlers["paid"].left
          /\ handlers'["manual"].left = handlers["manual"].left
      BY <2>2, <2>3 DEF Handlers
    <3> QED BY <2>1, <3>1, <3>3, <3>4 DEF LinesInv
  <2>4. CASE h # "created"
    <3>1. NoKitchen(tickets)
      BY <1>3, <2>4 DEF NoKitchen, Kitchen
    <3>2. handlers'["created"].left = s /\ NoKitchen(handlers'["paid"].left) /\ NoKitchen(handlers'["manual"].left)
      BY <2>2, <2>4, <3>1 DEF Handlers, LinesInv
    <3> QED BY <2>1, <2>4, <3>2 DEF LinesInv
  <2> QED BY <2>3, <2>4
<1>4. CASE OrderCreated \/ PaymentReceived \/ CreateManually
  BY <1>1, <1>3, <1>4, WhoBegins
<1>5. ASSUME NEW h \in Handlers, SaveJob(h) PROVE LinesInv'
  <2> DEFINE left == handlers[h].left
             ticket == Head(left)
             job == [ticket |-> ticket, status |-> "queued", attempts |-> 0]
  <2>1. left \in Seq(Ticket) /\ left # <<>> /\ UNCHANGED <<flow, begun>> /\ jobs' = Append(jobs, job)
        /\ handlers' = [handlers EXCEPT ![h] = [left |-> Tail(left), saved |-> Len(jobs) + 1]]
    BY <1>2, <1>5 DEF SaveJob, Creating
  <2>2. ticket \in Ticket /\ 1 \in DOMAIN left /\ ticket = left[1]
    BY <2>1
  <2>3. job \in Job /\ job.ticket = ticket
    BY <2>2, Bounds DEF Job, JobStatus
  <2>4. \A g \in Handlers : handlers'[g].left = IF g = h THEN Tail(left) ELSE handlers[g].left
    BY <1>1, <2>1
  <2> HIDE DEF job
  <2>5. DOMAIN jobs' = 1 .. Len(jobs) + 1 /\ DOMAIN jobs = 1 .. Len(jobs) /\ Len(jobs) \in Nat
        /\ (\A i \in DOMAIN jobs : jobs'[i] = jobs[i]) /\ jobs'[Len(jobs) + 1] = job
    BY <1>1, <2>1, <2>3
  <2>6. CASE h = "created"
    <3>1. handlers'["created"].left = Tail(left) /\ handlers'["paid"].left = handlers["paid"].left
          /\ handlers'["manual"].left = handlers["manual"].left
      BY <2>4, <2>6 DEF Handlers
    <3>2. PrintedRight(flow, jobs') /\ LeftRight(flow, jobs', Tail(left))
      BY <1>1, <2>1, <2>3, <2>6, NextTicketIsPrinted DEF LinesInv
    <3>3. "created" \in begun \/ ~Kitchen(ticket)
      BY <2>2, <2>6 DEF LinesInv, NoKitchen
    <3>4. NoKitchen(handlers["created"].left) => NoKitchen(Tail(left))
      <4>1. \A k \in DOMAIN Tail(left) : k + 1 \in DOMAIN left /\ Tail(left)[k] = left[k + 1]
        BY <2>1
      <4> QED BY <2>6, <4>1 DEF NoKitchen
    <3>5. ASSUME "created" \notin begun
          PROVE  NoKitchen(Tail(left)) /\ \A i \in DOMAIN jobs' : ~Kitchen(jobs'[i].ticket)
      BY <2>3, <2>5, <3>3, <3>4, <3>5 DEF LinesInv
    <3> QED BY <2>1, <3>1, <3>2, <3>5 DEF LinesInv
  <2>7. CASE h # "created"
    <3>1. NoKitchen(left)
      BY <2>7 DEF LinesInv, Handlers
    <3>2. ~Kitchen(job.ticket)
      BY <2>2, <2>3, <3>1 DEF NoKitchen
    <3>3. NoKitchen(Tail(left))
      <4>1. \A k \in DOMAIN Tail(left) : k + 1 \in DOMAIN left /\ Tail(left)[k] = left[k + 1]
        BY <2>1
      <4> QED BY <3>1, <4>1 DEF NoKitchen
    <3>4. handlers'["created"].left = s /\ NoKitchen(handlers'["paid"].left) /\ NoKitchen(handlers'["manual"].left)
      BY <2>4, <2>7, <3>3 DEF Handlers, LinesInv
    <3>5. ASSUME NEW i \in DOMAIN jobs', Kitchen(jobs'[i].ticket) PROVE i \in DOMAIN jobs /\ jobs'[i] = jobs[i]
      BY <2>5, <3>2, <3>5
    <3>6. PrintedRight(flow, jobs') /\ LeftRight(flow, jobs', s)
      BY <3>5 DEF PrintedRight, LeftRight, LinesInv, Apart, Kitchen
    <3> QED BY <2>1, <3>4, <3>5, <3>6 DEF LinesInv
  <2> QED BY <2>6, <2>7
<1>6. ASSUME NEW h \in Handlers, AbortPrinting(h) PROVE LinesInv'
  <2>1. UNCHANGED <<flow, jobs, begun>> /\ handlers' = [handlers EXCEPT ![h] = Quiet]
    BY <1>6 DEF AbortPrinting
  <2>2. \A g \in Handlers : handlers'[g].left = <<>> \/ handlers'[g].left = handlers[g].left
    BY <1>1, <2>1 DEF Quiet
  <2>3. \A g \in Handlers : NoKitchen(handlers[g].left) => NoKitchen(handlers'[g].left)
    BY <2>2 DEF NoKitchen
  <2>4. LeftRight(flow, jobs, <<>>)
    BY DEF LeftRight, AllApart
  <2>5. LeftRight(flow, jobs, handlers'["created"].left)
    BY <2>2, <2>4 DEF LinesInv, Handlers
  <2> QED BY <2>1, <2>3, <2>5 DEF LinesInv, Handlers
<1>7. ASSUME NEW h \in Handlers, Dispatch(h) PROVE LinesInv'
  <2>1. UNCHANGED <<flow, jobs, begun>> /\ handlers' = [handlers EXCEPT ![h].saved = NoJob]
    BY <1>7 DEF Dispatch
  <2>2. \A g \in Handlers : handlers'[g].left = handlers[g].left
    BY <1>1, <2>1 DEF HandlerRows
  <2> QED BY <2>1, <2>2 DEF LinesInv, Handlers
<1> QED BY <1>4, <1>5, <1>6, <1>7 DEF Printing

(* Everything else leaves the tickets, and a restart drops those not printed yet.  *)
LEMMA LinesOthers ==
  ASSUME TablesOK, RestOK, LinesInv,
         \/ Administration \/ Answers \/ Faults
         \/ \E i \in DOMAIN jobs, op \in {"retry", "cancel"} : ReadJob(op, i)
         \/ \E a \in Agents : Agent(a) \/ \E i \in JobIds : PrintJob(a, i)
  PROVE  LinesInv'
<1>1. DOMAIN jobs' = DOMAIN jobs /\ \A i \in DOMAIN jobs : jobs'[i].ticket = jobs[i].ticket
  <2>1. \A i \in DOMAIN jobs : jobs[i] \in Job
    BY DEF TablesOK
  <2>2. CASE Administration
    BY <2>1, <2>2 DEF Administration, SaveRetry, Resend, SaveCancel, SaveEntity, Job
  <2>3. CASE Answers
    <3>1. ASSUME NEW m \in wire, ReceiveAck(m) PROVE DOMAIN jobs' = DOMAIN jobs /\ \A i \in DOMAIN jobs : jobs'[i].ticket = jobs[i].ticket
      <4>1. DOMAIN jobs' = DOMAIN jobs
            /\ \A i \in DOMAIN jobs : jobs'[i] = IF i = m.job THEN MarkedPrinting(jobs[i]) ELSE jobs[i]
        BY <3>1 DEF ReceiveAck
      <4> QED BY <2>1, <4>1 DEF MarkedPrinting, Job
    <3>2. ASSUME NEW m \in wire, ReceiveOutcome(m) PROVE DOMAIN jobs' = DOMAIN jobs /\ \A i \in DOMAIN jobs : jobs'[i].ticket = jobs[i].ticket
      BY <2>1, <3>2 DEF ReceiveOutcome, SetStatus, Job
    <3> QED BY <2>3, <3>1, <3>2 DEF Answers
  <2>4. CASE Faults \/ (\E i \in DOMAIN jobs, op \in {"retry", "cancel"} : ReadJob(op, i))
             \/ \E a \in Agents : Agent(a) \/ \E i \in JobIds : PrintJob(a, i)
    BY <2>4 DEF Faults, ReadJob, Agent, Disconnect, AckTooLate, Restart, Join, Replay, Accept,
       AcceptBroadcast, PrintJob
  <2> QED BY <2>2, <2>3, <2>4
<1>2. UNCHANGED <<flow, begun>>
  BY DEF Administration, SaveRetry, Resend, SaveCancel, Answers, ReceiveAck, ReceiveOutcome,
     Faults, ReadJob, Agent, Disconnect, AckTooLate, Restart, Join, Replay, Accept, AcceptBroadcast, PrintJob
<1>3. UNCHANGED handlers \/ handlers' = [h \in Handlers |-> Quiet]
  BY DEF Administration, SaveRetry, Resend, SaveCancel, Answers, ReceiveAck, ReceiveOutcome,
     Faults, ReadJob, Agent, Disconnect, AckTooLate, Restart, Join, Replay, Accept, AcceptBroadcast, PrintJob
<1>4. \A h \in Handlers : handlers'[h].left = handlers[h].left \/ handlers'[h].left = <<>>
  BY <1>3 DEF Quiet
<1>5. \A h \in Handlers : NoKitchen(handlers[h].left) => NoKitchen(handlers'[h].left)
  BY <1>4 DEF NoKitchen
<1>6. PrintedRight(flow, jobs')
  BY <1>1 DEF LinesInv, PrintedRight
<1>7. LeftRight(flow, jobs', handlers["created"].left)
  BY <1>1 DEF LinesInv, LeftRight
<1>8. LeftRight(flow, jobs', <<>>)
  BY DEF LeftRight, AllApart
<1>9. LeftRight(flow, jobs', handlers'["created"].left)
  BY <1>4, <1>7, <1>8 DEF Handlers
<1> QED BY <1>1, <1>2, <1>5, <1>6, <1>9 DEF LinesInv, Handlers

(* One routing of an order puts each of its lines on one kitchen ticket at most, and a
   ticket that is split comes out at the station of its lines, whatever the
   configuration, the number of lines, and the restarts and retries in between
   (LinesReachTheirStation).                                                        *)
THEOREM LinesAtTheirStation == Spec => []LinesReachTheirStation
<1>1. Init => LinesInv
  <2> SUFFICES ASSUME Init PROVE LinesInv
    OBVIOUS
  <2>1. jobs = <<>> /\ \A h \in Handlers : handlers[h].left = <<>>
    BY DEF Init, Quiet
  <2> QED BY <2>1 DEF LinesInv, PrintedRight, LeftRight, AllApart, NoKitchen, Handlers
<1>2. DeliveryInv /\ LinesInv /\ [Next]_vars => LinesInv'
  <2> SUFFICES ASSUME DeliveryInv, LinesInv, [Next]_vars PROVE LinesInv'
    OBVIOUS
  <2>1. TablesOK /\ RestOK
    BY InParts
  <2>2. CASE UNCHANGED vars
    BY <2>2 DEF vars, LinesInv
  <2>3. CASE Next
    BY <2>1, <2>3, LinesHandlers, LinesOthers DEF Next, Requests
  <2> QED BY <2>2, <2>3
<1>3. DeliveryInv /\ LinesInv => LinesReachTheirStation
  BY InParts, LinesInvIsEnough
<1> QED BY <1>1, <1>2, <1>3, DeliveryInOrder, PTL DEF Spec

-----------------------------------------------------------------------------
(* The billing of events.                                                    *)

\* What the sessions at Stripe must say for row to be one of event e.
RowRight(e, row) ==
  /\ row.status = "active" => row.billing \in Unlocked
  /\ row.billing \in {"paid", "invoice"} => row.days <= row.unlockedFor
  /\ row.session # Null => row.session \in DOMAIN sessions
  /\ row.billing = "paid" => /\ row.session \in DOMAIN sessions
                             /\ sessions[row.session].status = "paid"
                             /\ sessions[row.session].event = e
                             /\ sessions[row.session].amount = row.price

RightRows(e) == {row \in EventRow : RowRight(e, row)}

Organizations == [customer : Nat \cup {Null}, mode : {"prepaid", "invoice"}]

Session == [event : Events, amount : Nat, customer : Nat,
            status : {"open", "paid", "expired"}, shown : BOOLEAN, known : BOOLEAN]

\* A row the checkout of event e read or is about to save as pending.
Orderable(e) == {row \in RightRows(e) : row.billing \notin Unlocked}

\* The statements a handler may have still to run.
RightSave == {st \in [do : {"saveEvents"}, rows : UNION {[D -> EventRow] : D \in SUBSET Events}] :
                \A e \in DOMAIN st.rows : st.rows[e] \in RightRows(e)}
RightRemoval == [do : {"softRemove"}, event : Events]
RightOrganization == [do : {"saveOrganization"}, row : Organizations]
RightCustomer == {st \in [do : {"ensureCustomer"}, event : Events, row : EventRow,
                          price : Nat, org : Organizations] : st.row \in Orderable(st.event)}
RightOpening == {st \in [do : {"createSession"}, event : Events, row : EventRow,
                         price : Nat, customer : Nat] : st.row \in Orderable(st.event)}
RightPage == {st \in [do : {"showPage"}, session : DOMAIN sessions, row : EventRow] :
                st.row \in Orderable(sessions[st.session].event)}
RightSession == [do : {"settle", "acknowledge"}, session : DOMAIN sessions]

Right == RightSave \cup RightRemoval \cup RightOrganization \cup RightCustomer
           \cup RightOpening \cup RightPage \cup RightSession

TableRight == /\ events \in [Events -> EventRow \cup {Null}]
              /\ \A e \in Events : Exists(e) => events[e] \in RightRows(e)

StripeRight == /\ sessions \in Seq(Session) /\ DOMAIN sessions \subseteq SessionIds
               /\ notices \subseteq DOMAIN sessions

TasksRight == task \in [Workers -> Seq(Right)]

IInv == /\ TableRight /\ StripeRight /\ TasksRight
        /\ org \in Organizations
        /\ used \in [requests : Nat, customers : Nat, crashes : Nat]
-----------------------------------------------------------------------------
(* What a changed column does to a row.                                    *)

\* A row whose status changes keeps its other columns.
LEMMA StatusChanged ==
  \A r \in EventRow, x \in {"inactive", "active", "test"} :
    [r EXCEPT !.status = x] =
      [status |-> x, billing |-> r.billing, session |-> r.session, price |-> r.price,
       days |-> r.days, unlockedFor |-> r.unlockedFor]
  BY DEF EventRow

\* A row whose billing status changes keeps its other columns.
LEMMA BillingChanged ==
  \A r \in EventRow, x \in {"none", "pending", "paid", "invoice", "waived"} :
    [r EXCEPT !.billing = x] =
      [status |-> r.status, billing |-> x, session |-> r.session, price |-> r.price,
       days |-> r.days, unlockedFor |-> r.unlockedFor]
  BY DEF EventRow

\* A row that gets its session keeps its other columns.
LEMMA SessionChanged ==
  \A r \in EventRow, x \in SessionIds :
    [r EXCEPT !.session = x] =
      [status |-> r.status, billing |-> r.billing, session |-> x, price |-> r.price,
       days |-> r.days, unlockedFor |-> r.unlockedFor]
  BY DEF EventRow

\* A row that gets its price keeps its other columns.
LEMMA PriceChanged ==
  \A r \in EventRow, x \in Nat :
    [r EXCEPT !.price = x] =
      [status |-> r.status, billing |-> r.billing, session |-> r.session, price |-> x,
       days |-> r.days, unlockedFor |-> r.unlockedFor]
  BY DEF EventRow

\* A row whose days change keeps its other columns.
LEMMA DaysChanged ==
  \A r \in EventRow, x \in 1..MaxDays :
    [r EXCEPT !.days = x] =
      [status |-> r.status, billing |-> r.billing, session |-> r.session, price |-> r.price,
       days |-> x, unlockedFor |-> r.unlockedFor]
  BY DEF EventRow

\* A row that notes for how many days it was unlocked keeps its other columns.
LEMMA UnlockedForChanged ==
  \A r \in EventRow, x \in 0..MaxDays :
    [r EXCEPT !.unlockedFor = x] =
      [status |-> r.status, billing |-> r.billing, session |-> r.session, price |-> r.price,
       days |-> r.days, unlockedFor |-> x]
  BY DEF EventRow

\* The days of an event are days it can be unlocked for.
LEMMA DaysUnlockable == \A r \in EventRow : r.days \in 1..MaxDays /\ r.days \in 0..MaxDays /\ r.days \in Nat
  BY DaysAssumption DEF EventRow

\* The row a checkout saves as pending.
LEMMA PendingRow ==
  ASSUME NEW r \in EventRow, NEW s \in SessionIds
  PROVE  [r EXCEPT !.billing = "pending", !.session = s] =
           [status |-> r.status, billing |-> "pending", session |-> s, price |-> r.price,
            days |-> r.days, unlockedFor |-> r.unlockedFor]
<1> DEFINE u == [r EXCEPT !.billing = "pending"]
<1>1. /\ u \in EventRow
      /\ u = [status |-> r.status, billing |-> "pending", session |-> r.session, price |-> r.price,
              days |-> r.days, unlockedFor |-> r.unlockedFor]
  BY BillingChanged DEF EventRow
<1>2. [u EXCEPT !.session = s] =
        [status |-> u.status, billing |-> u.billing, session |-> s, price |-> u.price,
         days |-> u.days, unlockedFor |-> u.unlockedFor]
  BY <1>1, SessionChanged
<1> QED
  BY <1>1, <1>2

\* The row an order on invoice saves.
LEMMA InvoicedRow ==
  ASSUME NEW r \in EventRow, NEW p \in Nat
  PROVE  [r EXCEPT !.billing = "invoice", !.price = p, !.unlockedFor = r.days] =
           [status |-> r.status, billing |-> "invoice", session |-> r.session, price |-> p,
            days |-> r.days, unlockedFor |-> r.days]
<1> DEFINE u == [r EXCEPT !.billing = "invoice"]
           v == [u EXCEPT !.price = p]
<1>1. /\ u \in EventRow
      /\ u = [status |-> r.status, billing |-> "invoice", session |-> r.session, price |-> r.price,
              days |-> r.days, unlockedFor |-> r.unlockedFor]
  BY BillingChanged DEF EventRow
<1>2. /\ v \in EventRow
      /\ v = [status |-> r.status, billing |-> "invoice", session |-> r.session, price |-> p,
              days |-> r.days, unlockedFor |-> r.unlockedFor]
  BY <1>1, PriceChanged DEF EventRow
<1>3. [v EXCEPT !.unlockedFor = r.days] =
        [status |-> v.status, billing |-> v.billing, session |-> v.session, price |-> v.price,
         days |-> v.days, unlockedFor |-> r.days]
  BY <1>2, UnlockedForChanged, DaysUnlockable
<1> QED
  BY <1>2, <1>3

\* The row a settled payment saves.
LEMMA PaidRow ==
  ASSUME NEW r \in EventRow, NEW s \in SessionIds, sessions[s].amount \in Nat
  PROVE  Paid(r, s) =
           [status |-> r.status, billing |-> "paid", session |-> s, price |-> sessions[s].amount,
            days |-> r.days, unlockedFor |-> r.days]
<1> DEFINE u == [r EXCEPT !.billing = "paid"]
           v == [u EXCEPT !.session = s]
           x == [v EXCEPT !.price = sessions[s].amount]
<1>1. /\ u \in EventRow
      /\ u = [status |-> r.status, billing |-> "paid", session |-> r.session, price |-> r.price,
              days |-> r.days, unlockedFor |-> r.unlockedFor]
  BY BillingChanged DEF EventRow
<1>2. /\ v \in EventRow
      /\ v = [status |-> r.status, billing |-> "paid", session |-> s, price |-> r.price,
              days |-> r.days, unlockedFor |-> r.unlockedFor]
  BY <1>1, SessionChanged DEF EventRow
<1>3. /\ x \in EventRow
      /\ x = [status |-> r.status, billing |-> "paid", session |-> s, price |-> sessions[s].amount,
              days |-> r.days, unlockedFor |-> r.unlockedFor]
  BY <1>2, PriceChanged DEF EventRow
<1>4. [x EXCEPT !.unlockedFor = r.days] =
        [status |-> x.status, billing |-> x.billing, session |-> x.session, price |-> x.price,
         days |-> x.days, unlockedFor |-> r.days]
  BY <1>3, UnlockedForChanged, DaysUnlockable
<1> QED
  BY <1>3, <1>4 DEF Paid
-----------------------------------------------------------------------------
(* Tasks and statements.                                                   *)

\* A session has its type.
LEMMA SessionTyped ==
  ASSUME StripeRight, NEW s \in DOMAIN sessions
  PROVE  /\ s \in SessionIds /\ sessions[s] \in Session
         /\ sessions[s].event \in Events /\ sessions[s].amount \in Nat
         /\ sessions[s].customer \in Nat
<1>1. sessions \in Seq(Session) /\ s \in SessionIds
  BY DEF StripeRight
<1>2. sessions[s] \in Session
  BY <1>1
<1> QED
  BY <1>1, <1>2 DEF Session

\* What a short list of statements is made of.
LEMMA ListsOf ==
  ASSUME NEW S, NEW x \in S, NEW y \in S
  PROVE  <<>> \in Seq(S) /\ <<x>> \in Seq(S) /\ <<x, y>> \in Seq(S)
  OBVIOUS

\* A statement that is run is replaced by those that follow from it.
LEMMA ThenTyped ==
  ASSUME NEW S, task \in [Workers -> Seq(S)], NEW w \in Workers, task[w] # <<>>,
         NEW todo \in Seq(S), Then(w, todo)
  PROVE  task' \in [Workers -> Seq(S)]
<1>1. Tail(task[w]) \in Seq(S)
  OBVIOUS
<1>2. todo \o Tail(task[w]) \in Seq(S)
  BY <1>1
<1> QED
  BY <1>2 DEF Then

\* A failing handler runs no further statement.
LEMMA FailTyped ==
  ASSUME NEW S, task \in [Workers -> Seq(S)], NEW w \in Workers, Fail(w)
  PROVE  task' \in [Workers -> Seq(S)]
<1>1. <<>> \in Seq(S)
  OBVIOUS
<1> QED
  BY <1>1 DEF Fail

\* The statement a handler is at is right.
LEMMA NowRight ==
  ASSUME TasksRight, NEW w \in Workers, NEW kind, At(w, kind)
  PROVE  task[w] # <<>> /\ Now(w) \in Right /\ Now(w).do = kind
<1>1. task[w] \in Seq(Right) /\ task[w] # <<>>
  BY DEF TasksRight, At
<1>2. Head(task[w]) \in Right
  BY <1>1
<1> QED
  BY <1>1, <1>2 DEF At, Now

\* What is right to save is told by the kind of the statement.
LEMMA KindOf ==
  ASSUME NEW st \in Right
  PROVE  /\ st.do = "saveEvents" => st \in RightSave
         /\ st.do = "saveOrganization" => st \in RightOrganization
         /\ st.do = "ensureCustomer" => st \in RightCustomer
         /\ st.do = "createSession" => st \in RightOpening
         /\ st.do = "showPage" => st \in RightPage
         /\ st.do \in {"settle", "acknowledge"} => st \in RightSession
  BY DEF Right, RightSave, RightRemoval, RightOrganization, RightCustomer, RightOpening,
         RightPage, RightSession

\* Rows that are right may be saved together.
LEMMA SaveRight ==
  ASSUME NEW D \in SUBSET Events, NEW rows \in [D -> EventRow],
         \A e \in D : rows[e] \in RightRows(e)
  PROVE  SaveEvents(rows) \in Right
<1>1. rows \in UNION {[B -> EventRow] : B \in SUBSET Events}
  OBVIOUS
<1>2. SaveEvents(rows) \in [do : {"saveEvents"}, rows : UNION {[B -> EventRow] : B \in SUBSET Events}]
  BY <1>1 DEF SaveEvents
<1>3. SaveEvents(rows).rows = rows /\ DOMAIN rows = D
  BY DEF SaveEvents
<1>4. SaveEvents(rows) \in RightSave
  BY <1>2, <1>3 DEF RightSave
<1> QED
  BY <1>4 DEF Right

\* A right row may be saved.
LEMMA SaveOneRight ==
  ASSUME NEW e \in Events, NEW row \in RightRows(e)
  PROVE  SaveEvent(e, row) \in Right
<1> DEFINE rows == [x \in {e} |-> row]
<1>1. rows \in [{e} -> EventRow] /\ \A x \in {e} : rows[x] \in RightRows(x)
  BY DEF RightRows
<1>2. SaveEvents(rows) \in Right
  BY <1>1, SaveRight, {e} \in SUBSET Events
<1> QED
  BY <1>2 DEF SaveEvent

\* A session that is known may be settled and acknowledged.
LEMMA SettleRight ==
  ASSUME NEW s \in DOMAIN sessions
  PROVE  Settle(s) \in Right /\ [do |-> "acknowledge", session |-> s] \in Right
  BY DEF Right, RightSession, Settle

\* The organization is saved as it was read, with changes.
LEMMA OrganizationRight ==
  ASSUME NEW row \in Organizations
  PROVE  SaveOrganization(row) \in Right
  BY DEF Right, RightOrganization, SaveOrganization
-----------------------------------------------------------------------------
(* Sessions at Stripe only ever become paid.                               *)

Grow == /\ DOMAIN sessions \subseteq DOMAIN sessions'
        /\ \A s \in DOMAIN sessions :
             /\ sessions'[s].event = sessions[s].event
             /\ sessions'[s].amount = sessions[s].amount
             /\ sessions[s].status = "paid" => sessions'[s].status = "paid"

\* Nothing changes when the sessions do not.
LEMMA GrowUnchanged == UNCHANGED sessions => Grow
  BY DEF Grow

\* A right row stays right when the sessions grow.
LEMMA RowsStayRight ==
  ASSUME Grow, NEW e, NEW row \in RightRows(e)
  PROVE  row \in RightRows(e)'
<1>1. row \in EventRow /\ RowRight(e, row)
  BY DEF RightRows
<1>2. RowRight(e, row)'
  BY <1>1 DEF RowRight, Grow
<1> QED
  BY <1>1, <1>2 DEF RightRows

\* A right statement stays right when the sessions grow.
LEMMA StatementsStayRight ==
  ASSUME Grow, NEW st \in Right
  PROVE  st \in Right'
<1>1. CASE st \in RightSave
  <2>1. \A e \in DOMAIN st.rows : st.rows[e] \in RightRows(e)'
    BY <1>1, RowsStayRight DEF RightSave
  <2>2. st \in RightSave'
    BY <1>1, <2>1 DEF RightSave
  <2> QED
    BY <2>2 DEF Right
<1>2. CASE st \in RightRemoval \cup RightOrganization
  BY <1>2 DEF Right, RightRemoval, RightOrganization
<1>3. CASE st \in RightCustomer
  <2>1. st.row \in RightRows(st.event) /\ st.row.billing \notin Unlocked
    BY <1>3 DEF RightCustomer, Orderable
  <2>2. st.row \in RightRows(st.event)'
    BY <2>1, RowsStayRight
  <2>3. st \in RightCustomer'
    BY <1>3, <2>1, <2>2 DEF RightCustomer, Orderable
  <2> QED
    BY <2>3 DEF Right
<1>4. CASE st \in RightOpening
  <2>1. st.row \in RightRows(st.event) /\ st.row.billing \notin Unlocked
    BY <1>4 DEF RightOpening, Orderable
  <2>2. st.row \in RightRows(st.event)'
    BY <2>1, RowsStayRight
  <2>3. st \in RightOpening'
    BY <1>4, <2>1, <2>2 DEF RightOpening, Orderable
  <2> QED
    BY <2>3 DEF Right
<1>5. CASE st \in RightPage
  <2>1. /\ st.session \in DOMAIN sessions /\ st.session \in DOMAIN sessions'
        /\ sessions'[st.session].event = sessions[st.session].event
    BY <1>5 DEF RightPage, Grow
  <2>2. PICK e : e = sessions[st.session].event
    OBVIOUS
  <2>3. st.row \in RightRows(e) /\ st.row.billing \notin Unlocked
    BY <1>5, <2>2 DEF RightPage, Orderable
  <2>4. st.row \in RightRows(e)'
    BY <2>3, RowsStayRight
  <2>5. e = sessions'[st.session].event
    BY <2>1, <2>2
  <2>6. st.row \in Orderable(sessions[st.session].event)'
    BY <2>3, <2>4, <2>5 DEF Orderable, RightRows, RowRight
  <2>7. st \in RightPage'
    BY <1>5, <2>1, <2>6 DEF RightPage
  <2> QED
    BY <2>7 DEF Right
<1>6. CASE st \in RightSession
  BY <1>6 DEF Right, RightSession, Grow
<1> QED
  BY <1>1, <1>2, <1>3, <1>4, <1>5, <1>6 DEF Right

\* So do the tasks, whatever happens to them otherwise.
LEMMA TasksStayRight ==
  ASSUME Grow, task' \in [Workers -> Seq(Right)]
  PROVE  TasksRight'
<1>1. Right \subseteq Right'
  BY StatementsStayRight
<1>2. Seq(Right) \subseteq Seq(Right')
  BY <1>1
<1> QED
  BY <1>2 DEF TasksRight
-----------------------------------------------------------------------------
(* Rows the handlers save.                                                 *)

\* The row of an event that exists is right.
LEMMA ReadRight ==
  ASSUME TableRight, NEW e \in Events, Exists(e)
  PROVE  events[e] \in RightRows(e) /\ events[e] \in EventRow /\ RowRight(e, events[e])
  BY DEF TableRight, RightRows

\* A new event is right.
LEMMA FreshRight ==
  ASSUME NEW e \in Events, NEW days \in 1..MaxDays
  PROVE  Fresh(days) \in RightRows(e) /\ Fresh(days) \in EventRow
<1>1. 0 \in 0..MaxDays
  BY DaysAssumption
<1> QED
  BY <1>1 DEF Fresh, RightRows, RowRight, EventRow

\* A right row may change its status, to active when the event is unlocked.
LEMMA StatusRight ==
  ASSUME NEW e \in Events, NEW row \in RightRows(e),
         NEW x \in {"inactive", "active", "test"}, x = "active" => row.billing \in Unlocked
  PROVE  [row EXCEPT !.status = x] \in RightRows(e)
<1> DEFINE new == [row EXCEPT !.status = x]
<1>1. row \in EventRow /\ RowRight(e, row)
  BY DEF RightRows
<1>2. new = [status |-> x, billing |-> row.billing, session |-> row.session, price |-> row.price,
             days |-> row.days, unlockedFor |-> row.unlockedFor]
  BY <1>1, StatusChanged
<1>3. new \in EventRow
  BY <1>1, <1>2 DEF EventRow
<1>4. RowRight(e, new)
  BY <1>1, <1>2 DEF RowRight
<1> QED
  BY <1>3, <1>4 DEF RightRows

\* A right row may change its days as assertPaidDurationNotExtended allows.
LEMMA DaysRight ==
  ASSUME NEW e \in Events, NEW row \in RightRows(e),
         NEW days \in 1..MaxDays, AssertPaidDurationNotExtended(row, days)
  PROVE  [row EXCEPT !.days = days] \in RightRows(e)
<1> DEFINE new == [row EXCEPT !.days = days]
<1>1. row \in EventRow /\ RowRight(e, row)
  BY DEF RightRows
<1>2. new = [status |-> row.status, billing |-> row.billing, session |-> row.session,
             price |-> row.price, days |-> days, unlockedFor |-> row.unlockedFor]
  BY <1>1, DaysChanged
<1>3. new \in EventRow
  BY <1>1, <1>2 DEF EventRow
<1>4. row.days \in Nat /\ row.unlockedFor \in Nat /\ days \in Nat
  BY <1>1, DaysAssumption DEF EventRow
<1>5. row.billing \in {"paid", "invoice"} => days <= row.unlockedFor
  BY <1>1, <1>4 DEF RowRight, AssertPaidDurationNotExtended
<1>6. RowRight(e, new)
  BY <1>1, <1>2, <1>5 DEF RowRight
<1> QED
  BY <1>3, <1>6 DEF RightRows

\* A right row may be waived.
LEMMA WaivedRight ==
  ASSUME NEW e \in Events, NEW row \in RightRows(e)
  PROVE  [row EXCEPT !.billing = "waived"] \in RightRows(e)
<1> DEFINE new == [row EXCEPT !.billing = "waived"]
<1>1. row \in EventRow /\ RowRight(e, row)
  BY DEF RightRows
<1>2. new = [status |-> row.status, billing |-> "waived", session |-> row.session,
             price |-> row.price, days |-> row.days, unlockedFor |-> row.unlockedFor]
  BY <1>1, BillingChanged
<1>3. new \in EventRow
  BY <1>1, <1>2 DEF EventRow
<1>4. RowRight(e, new)
  BY <1>1, <1>2 DEF RowRight, Unlocked
<1> QED
  BY <1>3, <1>4 DEF RightRows

\* A right row may be ordered on invoice.
LEMMA InvoicedRight ==
  ASSUME NEW e \in Events, NEW row \in RightRows(e), NEW p \in Nat
  PROVE  [row EXCEPT !.billing = "invoice", !.price = p, !.unlockedFor = row.days] \in RightRows(e)
<1> DEFINE new == [row EXCEPT !.billing = "invoice", !.price = p, !.unlockedFor = row.days]
<1>1. row \in EventRow /\ RowRight(e, row)
  BY DEF RightRows
<1>2. new = [status |-> row.status, billing |-> "invoice", session |-> row.session, price |-> p,
             days |-> row.days, unlockedFor |-> row.days]
  BY <1>1, InvoicedRow
<1>3. row.days \in 0..MaxDays /\ row.days \in Nat
  BY <1>1, DaysUnlockable
<1>4. new \in EventRow
  BY <1>1, <1>2, <1>3 DEF EventRow
<1>5. RowRight(e, new)
  BY <1>1, <1>2, <1>3 DEF RowRight, Unlocked
<1> QED
  BY <1>4, <1>5 DEF RightRows

\* A row that is not unlocked may be saved as pending, with its session.
LEMMA PendingRight ==
  ASSUME NEW e, NEW row \in Orderable(e), NEW s \in DOMAIN sessions, s \in SessionIds
  PROVE  [row EXCEPT !.billing = "pending", !.session = s] \in Orderable(e)
<1> DEFINE new == [row EXCEPT !.billing = "pending", !.session = s]
<1>1. row \in EventRow /\ RowRight(e, row) /\ row.billing \notin Unlocked
  BY DEF Orderable, RightRows
<1>2. new = [status |-> row.status, billing |-> "pending", session |-> s, price |-> row.price,
             days |-> row.days, unlockedFor |-> row.unlockedFor]
  BY <1>1, PendingRow
<1>3. new \in EventRow
  BY <1>1, <1>2 DEF EventRow
<1>4. RowRight(e, new)
  BY <1>1, <1>2 DEF RowRight
<1>5. new.billing \notin Unlocked
  BY <1>2 DEF Unlocked
<1> QED
  BY <1>3, <1>4, <1>5 DEF Orderable, RightRows

\* A right row may be saved as paid with a session of its event that was paid.
LEMMA PaidRight ==
  ASSUME StripeRight, NEW s \in DOMAIN sessions, sessions[s].status = "paid",
         NEW row \in RightRows(sessions[s].event)
  PROVE  Paid(row, s) \in RightRows(sessions[s].event)
<1>1. row \in EventRow /\ RowRight(sessions[s].event, row)
  BY DEF RightRows
<1>2. s \in SessionIds /\ sessions[s].amount \in Nat
  BY SessionTyped
<1>3. Paid(row, s) =
        [status |-> row.status, billing |-> "paid", session |-> s, price |-> sessions[s].amount,
         days |-> row.days, unlockedFor |-> row.days]
  BY <1>1, <1>2, PaidRow
<1>4. row.days \in 0..MaxDays /\ row.days \in Nat
  BY <1>1, DaysUnlockable
<1>5. Paid(row, s) \in EventRow
  BY <1>1, <1>2, <1>3, <1>4 DEF EventRow
<1>6. RowRight(sessions[s].event, Paid(row, s))
  BY <1>1, <1>3, <1>4 DEF RowRight, Unlocked
<1> QED
  BY <1>5, <1>6 DEF RightRows

\* A price is a number.
LEMMA PriceType ==
  ASSUME TableRight, NEW e \in Events, Exists(e)
  PROVE  ResolvePrice(e) \in Nat
<1>1. events[e].days \in Nat
  BY ReadRight, DaysUnlockable
<1>2. events[e].days * 4 \in Nat /\ events[e].days * 5 \in Nat
  BY <1>1
<1>3. CASE HasBilledEventBefore(e)
  BY <1>2, <1>3 DEF ResolvePrice
<1>4. CASE ~HasBilledEventBefore(e)
  BY <1>2, <1>4 DEF ResolvePrice
<1> QED
  BY <1>3, <1>4
-----------------------------------------------------------------------------
(* The first state.                                                        *)

\* The invariant holds at first.
LEMMA InitInv == BillingInit => IInv
<1> SUFFICES ASSUME BillingInit PROVE IInv
  OBVIOUS
<1>1. sessions = <<>> /\ notices = {} /\ DOMAIN sessions = {}
  BY DEF BillingInit
<1>2. StripeRight
  BY <1>1 DEF StripeRight
<1>3. TasksRight
  <2>1. <<>> \in Seq(Right)
    OBVIOUS
  <2> QED
    BY <2>1 DEF BillingInit, TasksRight
<1>4. PICK row \in {Fresh(1), [Fresh(MaxDays) EXCEPT !.billing = "waived", !.status = "active"]} :
        events = [e \in Events |-> IF e = FirstEvent THEN row ELSE Null]
  BY DEF BillingInit
<1>5. ASSUME NEW e \in Events PROVE row \in RightRows(e)
  <2>1. CASE row = Fresh(1)
    BY <2>1, FreshRight, DaysAssumption
  <2>2. CASE row = [Fresh(MaxDays) EXCEPT !.billing = "waived", !.status = "active"]
    <3> DEFINE waived == [Fresh(MaxDays) EXCEPT !.billing = "waived"]
    <3>1. MaxDays \in 1..MaxDays
      BY DaysAssumption
    <3>2. waived \in RightRows(e)
      BY <3>1, FreshRight, WaivedRight
    <3>3. Fresh(MaxDays) \in EventRow
      BY <3>1, FreshRight
    <3>4. waived.billing \in Unlocked
      BY <3>3, BillingChanged DEF Unlocked
    <3>5. row = [waived EXCEPT !.status = "active"]
      BY <2>2
    <3> QED
      BY <3>2, <3>4, <3>5, StatusRight
  <2> QED
    BY <2>1, <2>2
<1>6. TableRight
  BY <1>4, <1>5 DEF TableRight, Exists, RightRows
<1>7. /\ org \in Organizations
      /\ used \in [requests : Nat, customers : Nat, crashes : Nat]
  BY DEF BillingInit, Organizations
<1> QED
  BY <1>2, <1>3, <1>6, <1>7 DEF IInv
-----------------------------------------------------------------------------
(* Requests read the rows and leave them as they are.                      *)

\* The table stays right when the sessions grow.
LEMMA TableStaysRight ==
  ASSUME TableRight, Grow, UNCHANGED events
  PROVE  TableRight'
<1>1. ASSUME NEW e \in Events, Exists(e)' PROVE (events[e] \in RightRows(e))'
  <2>1. PICK row : row = events[e]
    OBVIOUS
  <2>2. row \in RightRows(e)
    BY <1>1, <2>1 DEF TableRight, Exists
  <2>3. row \in RightRows(e)'
    BY <2>2, RowsStayRight
  <2> QED
    BY <2>1, <2>3
<1> QED
  BY <1>1 DEF TableRight

\* A handler starts with statements that are right.
LEMMA BeginKeeps ==
  ASSUME IInv, NEW w \in Workers, NEW todo \in Seq(Right), Handle(w, todo),
         used' \in [requests : Nat, customers : Nat, crashes : Nat]
  PROVE  IInv'
<1>1. UNCHANGED <<events, org, sessions, notices>>
  BY DEF Handle, stripe
<1>2. Grow
  BY <1>1, GrowUnchanged
<1>3. TableRight'
  BY <1>1, <1>2, TableStaysRight DEF IInv
<1>4. StripeRight'
  BY <1>1 DEF IInv, StripeRight
<1>5. task' \in [Workers -> Seq(Right)]
  BY DEF IInv, TasksRight, Handle
<1>6. TasksRight'
  BY <1>2, <1>5, TasksStayRight
<1>7. (org \in Organizations)'
  BY <1>1 DEF IInv, Organizations
<1> QED
  BY <1>3, <1>4, <1>6, <1>7 DEF IInv

\* So does a request.
LEMMA RequestKeeps ==
  ASSUME IInv, NEW w \in Workers, NEW todo \in Seq(Right), Request(w, todo)
  PROVE  IInv'
<1>1. used' \in [requests : Nat, customers : Nat, crashes : Nat]
  BY DEF IInv, Request
<1>2. Handle(w, todo)
  BY DEF Request
<1> QED
  BY <1>1, <1>2, BeginKeeps

\* A request that saves one right row keeps the invariant.
LEMMA SaveKeeps ==
  ASSUME IInv, NEW w \in Workers, NEW e \in Events, NEW row \in RightRows(e),
         Request(w, <<SaveEvent(e, row)>>)
  PROVE  IInv'
  BY SaveOneRight, ListsOf, RequestKeeps

\* An event goes live after its siblings, when its status may become that.
LEMMA GoLiveKeeps ==
  ASSUME IInv, NEW w \in Workers, NEW e \in Events, Exists(e),
         NEW x \in {"active", "test"}, x = "active" => events[e].billing \in Unlocked,
         GoLive(w, e, x)
  PROVE  IInv'
<1> DEFINE siblings == [o \in Live \ {e} |-> [events[o] EXCEPT !.status = "inactive"]]
           save == SaveEvent(e, [events[e] EXCEPT !.status = x])
<1>1. TableRight
  BY DEF IInv
<1>2. save \in Right
  BY <1>1, ReadRight, StatusRight, SaveOneRight
<1>3. ASSUME NEW o \in Live \ {e} PROVE [events[o] EXCEPT !.status = "inactive"] \in RightRows(o)
  BY <1>1, ReadRight, StatusRight DEF Live, LiveIn, Exists
<1>4. /\ siblings \in [Live \ {e} -> EventRow]
      /\ \A o \in Live \ {e} : siblings[o] \in RightRows(o)
      /\ Live \ {e} \in SUBSET Events
  BY <1>3 DEF RightRows, Live, LiveIn
<1>5. SaveEvents(siblings) \in Right
  BY <1>4, SaveRight
<1>6. <<save>> \in Seq(Right) /\ <<SaveEvents(siblings), save>> \in Seq(Right)
  BY <1>2, <1>5, ListsOf
<1>7. Request(w, IF Live \ {e} = {} THEN <<save>> ELSE <<SaveEvents(siblings), save>>)
  BY DEF GoLive
<1> QED
  BY <1>6, <1>7, RequestKeeps

\* Every request about an event keeps the invariant.
LEMMA EventRequestKeeps ==
  ASSUME IInv, NEW w \in Workers, NEW e \in Events, EventRequest(w, e)
  PROVE  IInv'
<1>1. TableRight /\ StripeRight /\ org \in Organizations
  BY DEF IInv
<1>2. Exists(e) => events[e] \in RightRows(e) /\ events[e] \in EventRow
  BY <1>1, ReadRight
<1>3. CASE Create(w, e)
  BY <1>3, FreshRight, SaveKeeps DEF Create
<1>4. CASE Update(w, e)
  BY <1>2, <1>4, DaysRight, SaveKeeps DEF Update
<1>5. CASE Remove(w, e)
  <2>1. [do |-> "softRemove", event |-> e] \in Right
    BY DEF Right, RightRemoval
  <2> QED
    BY <1>5, <2>1, ListsOf, RequestKeeps DEF Remove
<1>6. CASE CopyFromEvent(w, e) \/ MarkInvoiced(w, e) \/ UnmarkInvoiced(w, e)
  BY <1>2, <1>6, SaveKeeps DEF CopyFromEvent, MarkInvoiced, UnmarkInvoiced
<1>7. CASE Activate(w, e)
  BY <1>7, GoLiveKeeps DEF Activate
<1>8. CASE SetTestMode(w, e)
  BY <1>8, GoLiveKeeps DEF SetTestMode
<1>9. CASE Deactivate(w, e)
  BY <1>2, <1>9, StatusRight, SaveKeeps DEF Deactivate
<1>10. CASE Waive(w, e)
  BY <1>2, <1>10, WaivedRight, SaveKeeps DEF Waive
<1>11. CASE OrderInvoice(w, e)
  <2> DEFINE new == [events[e] EXCEPT !.billing = "invoice", !.price = ResolvePrice(e),
                                      !.unlockedFor = events[e].days]
  <2>1. Exists(e) /\ Request(w, <<SaveOrganization(org), SaveEvent(e, new)>>)
    BY <1>11 DEF OrderInvoice
  <2>2. new \in RightRows(e)
    BY <1>1, <1>2, <2>1, PriceType, InvoicedRight
  <2>3. <<SaveOrganization(org), SaveEvent(e, new)>> \in Seq(Right)
    BY <1>1, <2>2, SaveOneRight, OrganizationRight, ListsOf
  <2> QED
    BY <2>1, <2>3, RequestKeeps
<1>12. CASE CreateStripeCheckout(w, e)
  <2> DEFINE st == [do |-> "ensureCustomer", event |-> e, row |-> events[e],
                    price |-> ResolvePrice(e), org |-> org]
  <2>1. Exists(e) /\ events[e].billing \notin Unlocked /\ Request(w, <<st>>)
    BY <1>12 DEF CreateStripeCheckout
  <2>2. events[e] \in Orderable(e) /\ ResolvePrice(e) \in Nat
    BY <1>1, <1>2, <2>1, PriceType DEF Orderable
  <2>3. st \in Right
    BY <1>1, <1>2, <2>1, <2>2 DEF Right, RightCustomer
  <2> QED
    BY <2>1, <2>3, ListsOf, RequestKeeps
<1>13. CASE SyncStripePayment(w, e)
  <2>1. Exists(e) /\ events[e].session # Null /\ Request(w, <<Settle(events[e].session)>>)
    BY <1>13 DEF SyncStripePayment
  <2>2. events[e].session \in DOMAIN sessions
    BY <1>1, <2>1, ReadRight DEF RowRight
  <2> QED
    BY <2>1, <2>2, SettleRight, ListsOf, RequestKeeps
<1> QED
  BY <1>3, <1>4, <1>5, <1>6, <1>7, <1>8, <1>9, <1>10, <1>11, <1>12, <1>13 DEF EventRequest
-----------------------------------------------------------------------------
(* Statements.                                                             *)

\* A statement that writes no event and no session keeps the invariant.
LEMMA ThenKeeps ==
  ASSUME IInv, NEW w \in Workers, task[w] # <<>>, NEW todo \in Seq(Right), Then(w, todo),
         UNCHANGED <<events, sessions>>, notices' \subseteq notices,
         org' \in Organizations, used' \in [requests : Nat, customers : Nat, crashes : Nat]
  PROVE  IInv'
<1>1. Grow
  BY GrowUnchanged
<1>2. TableRight'
  BY <1>1, TableStaysRight DEF IInv
<1>3. StripeRight'
  BY DEF IInv, StripeRight
<1>4. TasksRight'
  BY <1>1, ThenTyped, TasksStayRight DEF IInv, TasksRight
<1> QED
  BY <1>2, <1>3, <1>4 DEF IInv, Organizations

\* A statement that is refused ends its handler and changes nothing else.
LEMMA RefusedKeeps ==
  ASSUME IInv, NEW w \in Workers, Fail(w), UNCHANGED <<events, sessions, notices, org, used>>
  PROVE  IInv'
<1>1. Grow
  BY GrowUnchanged
<1>2. TasksRight'
  BY <1>1, FailTyped, TasksStayRight DEF IInv, TasksRight
<1>3. TableRight'
  BY <1>1, TableStaysRight DEF IInv
<1>4. StripeRight'
  BY DEF IInv, StripeRight
<1> QED
  BY <1>2, <1>3, <1>4 DEF IInv, Organizations

\* A save stores right rows.
LEMMA StoredRight ==
  ASSUME IInv, NEW w \in Workers, At(w, "saveEvents"), Done(w),
         events' = [e \in Events |-> IF e \in DOMAIN Now(w).rows THEN Now(w).rows[e] ELSE events[e]],
         UNCHANGED <<org, sessions, notices, used>>
  PROVE  IInv'
<1> DEFINE rows == Now(w).rows
<1>1. task[w] # <<>> /\ Now(w) \in RightSave
  BY NowRight, KindOf DEF IInv
<1>2. /\ events' = [e \in Events |-> IF e \in DOMAIN rows THEN rows[e] ELSE events[e]]
      /\ UNCHANGED <<org, sessions, notices, used>> /\ Then(w, <<>>)
  BY DEF Done
<1>3. Grow
  BY <1>2, GrowUnchanged
<1>4. \A e \in DOMAIN rows : rows[e] \in RightRows(e)
  BY <1>1 DEF RightSave
<1>5. \A e \in Events : events'[e] # Null => events'[e] \in RightRows(e)
  BY <1>2, <1>4 DEF IInv, TableRight, Exists
<1>6. \A e \in Events : events'[e] \in EventRow \cup {Null}
  BY <1>5 DEF RightRows
<1>7. TableRight'
  <2>1. ASSUME NEW e \in Events, Exists(e)' PROVE (events[e] \in RightRows(e))'
    <3>1. PICK row : row = events'[e]
      OBVIOUS
    <3>2. row \in RightRows(e)
      BY <1>5, <2>1, <3>1 DEF Exists
    <3>3. row \in RightRows(e)'
      BY <1>3, <3>2, RowsStayRight
    <3> QED
      BY <3>1, <3>3
  <2> QED
    BY <1>2, <1>6, <2>1 DEF TableRight
<1>8. TasksRight'
  <2>1. <<>> \in Seq(Right)
    OBVIOUS
  <2> QED
    BY <1>1, <1>2, <1>3, <2>1, ThenTyped, TasksStayRight DEF IInv, TasksRight
<1>9. StripeRight'
  BY <1>2 DEF IInv, StripeRight
<1> QED
  BY <1>2, <1>7, <1>8, <1>9 DEF IInv, Organizations

\* A save that would make a second event live is refused.
LEMMA StoreEventsKeeps ==
  ASSUME IInv, NEW w \in Workers, StoreEvents(w)
  PROVE  IInv'
<1> DEFINE stored == [e \in Events |-> IF e \in DOMAIN Now(w).rows THEN Now(w).rows[e] ELSE events[e]]
<1>1. At(w, "saveEvents") /\ UNCHANGED <<org, sessions, notices, used>>
  BY DEF StoreEvents, stripe
<1>2. CASE Done(w) /\ events' = stored
  BY <1>1, <1>2, StoredRight
<1>3. CASE Fail(w) /\ UNCHANGED events
  BY <1>1, <1>3, RefusedKeeps
<1> QED
  BY <1>2, <1>3 DEF StoreEvents

\* The organization is stored as it was read.
LEMMA StoreOrganizationKeeps ==
  ASSUME IInv, NEW w \in Workers, StoreOrganization(w)
  PROVE  IInv'
<1>1. task[w] # <<>> /\ Now(w) \in RightOrganization
  BY NowRight, KindOf DEF IInv, StoreOrganization
<1>2. org' \in Organizations
  BY <1>1 DEF RightOrganization, StoreOrganization
<1>3. /\ Then(w, <<>>) /\ UNCHANGED <<events, sessions, notices, used>> /\ <<>> \in Seq(Right)
  BY DEF StoreOrganization, Done, stripe
<1> QED
  BY <1>1, <1>2, <1>3, ThenKeeps DEF IInv

\* A customer is created once the organization lacked one.
LEMMA EnsureCustomerKeeps ==
  ASSUME IInv, NEW w \in Workers, EnsureCustomer(w)
  PROVE  IInv'
<1> DEFINE now == Now(w)
<1>1. /\ task[w] # <<>> /\ now \in RightCustomer
      /\ now.org \in Organizations /\ now.event \in Events /\ now.row \in Orderable(now.event)
      /\ now.row \in EventRow /\ now.price \in Nat
  BY NowRight, KindOf DEF IInv, EnsureCustomer, RightCustomer
<1>2. ASSUME NEW customer \in Nat PROVE OpenSession(w, customer) \in Seq(Right)
  <2> DEFINE st == [do |-> "createSession", event |-> now.event, row |-> now.row,
                    price |-> now.price, customer |-> customer]
  <2>1. st \in RightOpening
    BY <1>1 DEF RightOpening
  <2>2. <<st>> \in Seq(Right)
    BY <2>1 DEF Right
  <2> QED
    BY <2>2 DEF OpenSession
<1>3. UNCHANGED <<events, sessions, notices>>
  BY DEF EnsureCustomer, stripe
<1>4. CASE now.org.customer # Null
  <2>1. Then(w, OpenSession(w, now.org.customer)) /\ UNCHANGED <<org, used>>
    BY <1>4 DEF EnsureCustomer
  <2>2. now.org.customer \in Nat
    BY <1>1, <1>4 DEF Organizations
  <2> QED
    BY <1>1, <1>2, <1>3, <2>1, <2>2, ThenKeeps DEF IInv
<1>5. CASE now.org.customer = Null
  <2> DEFINE customer == used.customers + 1
  <2>1. /\ used' = [used EXCEPT !.customers = customer]
        /\ org' = [now.org EXCEPT !.customer = customer]
        /\ Then(w, OpenSession(w, customer))
    BY <1>5 DEF EnsureCustomer
  <2>2. customer \in Nat /\ used' \in [requests : Nat, customers : Nat, crashes : Nat]
    BY <2>1 DEF IInv
  <2>3. org' \in Organizations
    BY <1>1, <2>1, <2>2 DEF Organizations
  <2> QED
    BY <1>1, <1>2, <1>3, <2>1, <2>2, <2>3, ThenKeeps
<1> QED
  BY <1>4, <1>5
\* A statement that changes sessions keeps the tasks right, when what follows
\* from it is right afterwards.
LEMMA TasksAfter ==
  ASSUME TasksRight, Grow, NEW w \in Workers, task[w] # <<>>,
         NEW todo, todo \in Seq(Right'), Then(w, todo)
  PROVE  TasksRight'
<1>1. PICK S : S = Right'
  OBVIOUS
<1>2. Seq(Right) \subseteq Seq(S)
  <2>1. Right \subseteq S
    BY <1>1, StatementsStayRight
  <2> QED
    BY <2>1
<1>3. task \in [Workers -> Seq(S)] /\ todo \in Seq(S)
  BY <1>1, <1>2 DEF TasksRight
<1>4. ASSUME NEW v \in Workers PROVE task'[v] \in Seq(S)
  <2>1. Tail(task[w]) \in Seq(S)
    BY <1>3
  <2>2. todo \o Tail(task[w]) \in Seq(S)
    BY <1>3, <2>1
  <2> QED
    BY <1>3, <2>2 DEF Then
<1>5. task' \in [Workers -> Seq(S)]
  BY <1>3, <1>4 DEF Then
<1> QED
  BY <1>1, <1>5 DEF TasksRight

\* A session that is opened or found may be shown for a row that was orderable.
LEMMA ShownRight ==
  ASSUME NEW s \in DOMAIN sessions, s \in SessionIds, NEW row \in Orderable(sessions[s].event)
  PROVE  Shown(s, row) \in Right
<1>1. /\ Shown(s, row).row = [row EXCEPT !.billing = "pending", !.session = s]
      /\ Shown(s, row).session = s
      /\ Shown(s, row) = [do |-> "showPage", session |-> s, row |-> Shown(s, row).row]
  BY DEF Shown
<1>2. Shown(s, row).row \in Orderable(sessions[s].event)
  <2>1. [row EXCEPT !.billing = "pending", !.session = s] \in Orderable(sessions[s].event)
    BY PendingRight, Zenon
  <2> QED
    BY <1>1, <2>1, Zenon
<1>3. Shown(s, row).row \in EventRow
  BY <1>2 DEF Orderable, RightRows
<1>4. Shown(s, row) \in RightPage
  BY <1>1, <1>2, <1>3 DEF RightPage
<1> QED
  BY <1>4 DEF Right

\* That is true of the next state as well.
LEMMA ShownRightNext ==
  ASSUME NEW s, NEW row
  PROVE  (s \in DOMAIN sessions /\ s \in SessionIds /\ row \in Orderable(sessions[s].event)
            => Shown(s, row) \in Right)'
<1>1. s \in DOMAIN sessions /\ s \in SessionIds /\ row \in Orderable(sessions[s].event)
        => Shown(s, row) \in Right
  BY ShownRight
<1> QED
  BY <1>1, PTL

\* Stripe opens a session, returns the one it knows, or refuses.
LEMMA CreateSessionKeeps ==
  ASSUME IInv, NEW w \in Workers, CreateSession(w)
  PROVE  IInv'
<1> DEFINE now == Now(w)
           new == Len(sessions) + 1
           session == [event |-> now.event, amount |-> now.price, customer |-> now.customer,
                       status |-> "open", shown |-> FALSE, known |-> TRUE]
<1>1. /\ task[w] # <<>> /\ now \in RightOpening
      /\ now.event \in Events /\ now.row \in Orderable(now.event)
      /\ now.price \in Nat /\ now.customer \in Nat
  BY NowRight, KindOf DEF IInv, CreateSession, RightOpening
<1>2. UNCHANGED <<events, org, notices, used>>
  BY DEF CreateSession
<1>3. TableRight /\ StripeRight /\ TasksRight
  BY DEF IInv
<1>4. CASE /\ new \in SessionIds
           /\ sessions' = Append(sessions, session)
           /\ Then(w, <<Shown(new, now.row)>>)
  <2>1. session \in Session /\ sessions \in Seq(Session)
    BY <1>1, <1>3 DEF Session, StripeRight
  <2>2. /\ sessions' \in Seq(Session)
        /\ DOMAIN sessions = 1..Len(sessions) /\ DOMAIN sessions' = 1..new
        /\ Len(sessions) \in Nat
        /\ sessions'[new] = session
        /\ \A s \in DOMAIN sessions : sessions'[s] = sessions[s]
    BY <1>4, <2>1
  <2>3. DOMAIN sessions' = DOMAIN sessions \cup {new}
    BY <2>2
  <2>4. Grow
    BY <2>2, <2>3 DEF Grow
  <2>5. StripeRight'
    BY <1>2, <1>3, <1>4, <2>2, <2>3 DEF StripeRight
  <2>6. PICK s, e, row : s = new /\ e = now.event /\ row = now.row
    OBVIOUS
  <2>7. row \in RightRows(e)' /\ row.billing \notin Unlocked
    BY <1>1, <2>4, <2>6, RowsStayRight DEF Orderable
  <2>8. s \in DOMAIN sessions' /\ s \in SessionIds /\ sessions'[s].event = e
    BY <1>4, <2>2, <2>3, <2>6
  <2>9. (row \in Orderable(sessions[s].event))'
    BY <2>7, <2>8 DEF Orderable, RightRows, RowRight
  <2>10. (Shown(s, row) \in Right)'
    BY <2>8, <2>9, ShownRightNext
  <2>11. Shown(s, row) \in Right' /\ Then(w, <<Shown(s, row)>>)
    BY <1>4, <2>6, <2>10 DEF Shown
  <2>12. <<Shown(s, row)>> \in Seq(Right')
    BY <2>11
  <2>13. TasksRight'
    BY <1>1, <1>3, <2>4, <2>11, <2>12, TasksAfter
  <2> QED
    BY <1>2, <1>3, <2>4, <2>5, <2>13, TableStaysRight DEF IInv, Organizations
<1>5. CASE UNCHANGED sessions /\ \E s \in SameKey(now.event, now.price) : Then(w, <<Shown(s, now.row)>>)
  <2>1. PICK s \in SameKey(now.event, now.price) : Then(w, <<Shown(s, now.row)>>)
    BY <1>5
  <2>2. s \in DOMAIN sessions /\ s \in SessionIds /\ sessions[s].event = now.event
    BY <1>3, SessionTyped DEF SameKey
  <2>3. <<Shown(s, now.row)>> \in Seq(Right)
    BY <1>1, <2>2, ShownRight
  <2> QED
    BY <1>1, <1>2, <1>5, <2>1, <2>3, ThenKeeps DEF IInv
<1>6. CASE Fail(w) /\ UNCHANGED sessions
  <2>1. Grow
    BY <1>6, GrowUnchanged
  <2>2. TasksRight'
    BY <1>3, <1>6, <2>1, FailTyped, TasksStayRight DEF TasksRight
  <2>3. StripeRight'
    BY <1>2, <1>3, <1>6 DEF StripeRight
  <2> QED
    BY <1>2, <1>3, <2>1, <2>2, <2>3, TableStaysRight DEF IInv, Organizations
<1> QED
  BY <1>4, <1>5, <1>6 DEF CreateSession

\* The page is handed out once the event is pending.
LEMMA PageKeeps ==
  ASSUME IInv, NEW w \in Workers, At(w, "showPage"), Done(w),
         events' = [x \in Events |-> IF x = sessions[Now(w).session].event THEN Now(w).row ELSE events[x]],
         sessions' = [sessions EXCEPT ![Now(w).session].shown = TRUE],
         UNCHANGED <<org, notices, used>>
  PROVE  IInv'
<1>1. TableRight /\ StripeRight /\ TasksRight
  BY DEF IInv
<1>2. PICK s, e, row : s = Now(w).session /\ e = sessions[s].event /\ row = Now(w).row
  OBVIOUS
<1>3. task[w] # <<>> /\ s \in DOMAIN sessions /\ row \in Orderable(e)
  BY <1>1, <1>2, NowRight, KindOf DEF RightPage
<1>4. /\ events' = [x \in Events |-> IF x = e THEN row ELSE events[x]]
      /\ sessions' = [sessions EXCEPT ![s].shown = TRUE]
      /\ Then(w, <<>>) /\ UNCHANGED <<org, notices, used>>
  BY <1>2 DEF Done
<1>5. /\ sessions \in Seq(Session)
      /\ sessions[s] \in Session /\ [sessions[s] EXCEPT !.shown = TRUE] \in Session
      /\ sessions[s].event = [sessions[s] EXCEPT !.shown = TRUE].event
      /\ sessions[s].amount = [sessions[s] EXCEPT !.shown = TRUE].amount
      /\ sessions[s].status = [sessions[s] EXCEPT !.shown = TRUE].status
  BY <1>1, <1>3, SessionTyped DEF StripeRight, Session
<1>6. /\ sessions' \in Seq(Session) /\ DOMAIN sessions' = DOMAIN sessions
      /\ \A t \in DOMAIN sessions :
           sessions'[t] = IF t = s THEN [sessions[s] EXCEPT !.shown = TRUE] ELSE sessions[t]
  BY ONLY <1>3, <1>4, <1>5
<1>7. Grow
  BY <1>5, <1>6 DEF Grow
<1>8. StripeRight'
  BY <1>1, <1>4, <1>6 DEF StripeRight
<1>9. TasksRight'
  <2>1. <<>> \in Seq(Right')
    OBVIOUS
  <2> QED
    BY <1>1, <1>3, <1>4, <1>7, <2>1, TasksAfter
<1>10. \A x \in Events : events'[x] # Null => events'[x] \in RightRows(x)
  BY <1>1, <1>3, <1>4 DEF TableRight, Exists, Orderable
<1>11. TableRight'
  <2>1. ASSUME NEW x \in Events, Exists(x)' PROVE (events[x] \in RightRows(x))'
    <3>1. PICK r : r = events'[x]
      OBVIOUS
    <3>2. r \in RightRows(x)
      BY <1>10, <2>1, <3>1 DEF Exists
    <3>3. r \in RightRows(x)'
      BY <1>7, <3>2, RowsStayRight
    <3> QED
      BY <3>1, <3>3
  <2>2. \A x \in Events : events'[x] \in EventRow \cup {Null}
    BY <1>10 DEF RightRows
  <2> QED
    BY <1>4, <2>1, <2>2 DEF TableRight
<1> QED
  BY <1>4, <1>8, <1>9, <1>11 DEF IInv, Organizations

\* A page whose event may not be saved is not handed out.
LEMMA StorePendingKeeps ==
  ASSUME IInv, NEW w \in Workers, StorePending(w)
  PROVE  IInv'
<1> DEFINE s == Now(w).session
           stored == [e \in Events |-> IF e = sessions[s].event THEN Now(w).row ELSE events[e]]
<1>1. At(w, "showPage") /\ UNCHANGED <<org, notices, used>>
  BY DEF StorePending
<1>2. CASE Done(w) /\ events' = stored /\ sessions' = [sessions EXCEPT ![s].shown = TRUE]
  BY <1>1, <1>2, PageKeeps
<1>3. CASE Fail(w) /\ UNCHANGED <<events, sessions>>
  BY <1>1, <1>3, RefusedKeeps
<1> QED
  BY <1>2, <1>3 DEF StorePending

\* An event is settled with a session of its own that Stripe says was paid.
LEMMA SettleKeeps ==
  ASSUME IInv, NEW w \in Workers, SettleStripePayment(w)
  PROVE  IInv'
<1>1. TableRight /\ StripeRight /\ TasksRight
  BY DEF IInv
<1> DEFINE s == Now(w).session
           e == sessions[s].event
<1>2. task[w] # <<>> /\ s \in DOMAIN sessions
  BY <1>1, NowRight, KindOf DEF SettleStripePayment, RightSession
<1>3. e \in Events
  BY <1>1, <1>2, SessionTyped
<1>4. UNCHANGED <<events, org, sessions, notices, used>>
  BY DEF SettleStripePayment, stripe
<1>5. CASE /\ sessions[s].status = "paid" /\ Exists(e)
           /\ Then(w, <<SaveEvent(e, Paid(events[e], s))>>)
  <2>1. Paid(events[e], s) \in RightRows(e)
    BY <1>1, <1>2, <1>3, <1>5, ReadRight, PaidRight
  <2>2. <<SaveEvent(e, Paid(events[e], s))>> \in Seq(Right)
    BY <1>3, <2>1, SaveOneRight
  <2> QED
    BY <1>2, <1>4, <1>5, <2>2, ThenKeeps DEF IInv
<1>6. CASE Then(w, <<>>)
  BY <1>2, <1>4, <1>6, <<>> \in Seq(Right), ThenKeeps DEF IInv
<1> QED
  BY <1>5, <1>6 DEF SettleStripePayment, Done
\* A notification is acknowledged, a removal refused.
LEMMA AcknowledgeKeeps ==
  ASSUME IInv, NEW w \in Workers, Acknowledge(w) \/ RefuseSoftRemove(w)
  PROVE  IInv'
<1>1. TasksRight /\ <<>> \in Seq(Right)
  BY DEF IInv
<1>2. CASE Acknowledge(w)
  <2>1. /\ task[w] # <<>> /\ Then(w, <<>>) /\ notices' \subseteq notices
        /\ UNCHANGED <<events, sessions, org, used>>
    BY <1>2 DEF Acknowledge, At, Done
  <2> QED
    BY <1>1, <2>1, ThenKeeps DEF IInv
<1>3. CASE RefuseSoftRemove(w)
  <2>1. Fail(w) /\ UNCHANGED <<events, sessions, notices, org, used>>
    BY <1>3 DEF RefuseSoftRemove, stripe
  <2>2. Grow
    BY <2>1, GrowUnchanged
  <2>3. TasksRight'
    BY <1>1, <2>1, <2>2, FailTyped, TasksStayRight DEF TasksRight
  <2>4. TableRight'
    BY <2>1, <2>2, TableStaysRight DEF IInv
  <2> QED
    BY <2>1, <2>3, <2>4 DEF IInv, StripeRight, Organizations
<1> QED
  BY <1>2, <1>3

\* Every statement keeps the invariant.
LEMMA StatementKeeps ==
  ASSUME IInv, NEW w \in Workers, Statement(w)
  PROVE  IInv'
  BY StoreEventsKeeps, StoreOrganizationKeeps, EnsureCustomerKeeps, CreateSessionKeeps,
     StorePendingKeeps, SettleKeeps, AcknowledgeKeeps DEF Statement
-----------------------------------------------------------------------------
(* Stripe, a restart, and the theorems.                                    *)

\* A session that changes keeps its event and its amount, and stays paid.
LEMMA SessionStepKeeps ==
  ASSUME IInv, NEW s \in DOMAIN sessions, NEW x \in Session,
         sessions' = [sessions EXCEPT ![s] = x],
         x.event = sessions[s].event, x.amount = sessions[s].amount,
         sessions[s].status = "paid" => x.status = "paid",
         notices' \subseteq notices \cup {s}, UNCHANGED <<events, org, task, used>>
  PROVE  IInv'
<1>1. StripeRight /\ TasksRight /\ TableRight
  BY DEF IInv
<1>2. sessions \in Seq(Session)
  BY <1>1 DEF StripeRight
<1>3. /\ sessions' \in Seq(Session) /\ DOMAIN sessions' = DOMAIN sessions
      /\ \A t \in DOMAIN sessions : sessions'[t] = IF t = s THEN x ELSE sessions[t]
  BY <1>2
<1>4. Grow
  BY <1>3 DEF Grow
<1>5. StripeRight'
  BY <1>1, <1>3 DEF StripeRight
<1>6. TasksRight'
  BY <1>1, <1>4, TasksStayRight DEF TasksRight
<1>7. TableRight'
  BY <1>1, <1>4, TableStaysRight
<1> QED
  BY <1>5, <1>6, <1>7 DEF IInv, Organizations

\* A customer pays, or a day passes.
LEMMA StripeKeeps ==
  ASSUME IInv, NEW s \in DOMAIN sessions, CustomerPays(s) \/ SessionAges(s)
  PROVE  IInv'
<1>1. sessions[s] \in Session
  BY SessionTyped DEF IInv
<1>2. CASE CustomerPays(s)
  <2> DEFINE x == [sessions[s] EXCEPT !.status = "paid"]
  <2>1. /\ x \in Session /\ x.event = sessions[s].event /\ x.amount = sessions[s].amount
        /\ x.status = "paid"
    BY <1>1 DEF Session
  <2>2. /\ sessions' = [sessions EXCEPT ![s] = x]
        /\ notices' \subseteq notices \cup {s} /\ UNCHANGED <<events, org, task, used>>
    BY <1>2 DEF CustomerPays
  <2> QED
    BY <2>1, <2>2, SessionStepKeeps
<1>3. CASE SessionAges(s)
  <2> DEFINE u == [sessions[s] EXCEPT !.known = FALSE]
             x == [u EXCEPT !.status = IF u.status = "open" THEN "expired" ELSE u.status]
  <2>1. /\ u \in Session /\ u.event = sessions[s].event /\ u.amount = sessions[s].amount
        /\ u.status = sessions[s].status
    BY <1>1 DEF Session
  <2>2. /\ x \in Session /\ x.event = u.event /\ x.amount = u.amount
        /\ u.status = "paid" => x.status = "paid"
    BY <2>1 DEF Session
  <2>3. sessions' = [sessions EXCEPT ![s] = x]
    BY <1>1, <1>3 DEF SessionAges
  <2>4. UNCHANGED <<notices, events, org, task, used>>
    BY <1>3 DEF SessionAges
  <2> QED
    BY <2>1, <2>2, <2>3, <2>4, SessionStepKeeps
<1> QED
  BY <1>2, <1>3

\* A restart drops the tasks.
LEMMA CrashKeeps ==
  ASSUME IInv, Crash
  PROVE  IInv'
<1>1. UNCHANGED <<events, org, sessions, notices>>
  BY DEF Crash, stripe
<1>2. Grow
  BY <1>1, GrowUnchanged
<1>3. <<>> \in Seq(Right)
  OBVIOUS
<1>4. TasksRight'
  BY <1>2, <1>3, TasksStayRight DEF Crash
<1>5. TableRight'
  BY <1>1, <1>2, TableStaysRight DEF IInv
<1>6. used' \in [requests : Nat, customers : Nat, crashes : Nat]
  BY DEF IInv, Crash
<1> QED
  BY <1>1, <1>4, <1>5, <1>6 DEF IInv, StripeRight, Organizations

\* Every step keeps the invariant.
LEMMA NextInv ==
  ASSUME IInv, [BillingNext]_billingVars
  PROVE  IInv'
<1>1. CASE \E w \in Workers, e \in Events : EventRequest(w, e)
  BY <1>1, EventRequestKeeps
<1>2. CASE \E w \in Workers : UpdateOrganization(w)
  <2>1. PICK w \in Workers : UpdateOrganization(w)
    BY <1>2
  <2>2. PICK mode \in {"prepaid", "invoice"} :
          Request(w, <<SaveOrganization([org EXCEPT !.mode = mode])>>)
    BY <2>1 DEF UpdateOrganization
  <2>3. [org EXCEPT !.mode = mode] \in Organizations
    BY DEF IInv, Organizations
  <2>4. <<SaveOrganization([org EXCEPT !.mode = mode])>> \in Seq(Right)
    BY <2>3, OrganizationRight, ListsOf
  <2> QED
    BY <2>2, <2>4, RequestKeeps
<1>3. CASE \E w \in Workers : Webhook(w)
  <2>1. PICK w \in Workers, s \in notices : HandleWebhook(w, s)
    BY <1>3 DEF Webhook
  <2>2. s \in DOMAIN sessions
    BY DEF IInv, StripeRight
  <2>3. <<Settle(s), [do |-> "acknowledge", session |-> s]>> \in Seq(Right)
    BY <2>2, SettleRight, ListsOf
  <2> QED
    BY <2>1, <2>3, BeginKeeps DEF HandleWebhook, IInv
<1>4. CASE \E w \in Workers : Statement(w)
  BY <1>4, StatementKeeps
<1>5. CASE \E s \in DOMAIN sessions : CustomerPays(s) \/ SessionAges(s)
  BY <1>5, StripeKeeps
<1>6. CASE Crash
  BY <1>6, CrashKeeps
<1>7. CASE UNCHANGED billingVars
  <2>1. /\ UNCHANGED <<events, org, sessions, notices, task, used>> /\ Grow
    BY <1>7, GrowUnchanged DEF billingVars
  <2>2. TasksRight'
    BY <2>1, TasksStayRight DEF IInv, TasksRight
  <2>3. TableRight'
    BY <2>1, TableStaysRight DEF IInv
  <2> QED
    BY <2>1, <2>2, <2>3 DEF IInv, StripeRight, Organizations
<1> QED
  BY <1>1, <1>2, <1>3, <1>4, <1>5, <1>6, <1>7 DEF BillingNext

\* The invariant holds in every state, restarts included.
LEMMA Invariance == BillingSpec => []IInv
  BY InitInv, NextInv, PTL DEF BillingSpec

\* However requests overlap, only an unlocked event is ever live for real.
THEOREM ActiveEventsUnlocked == BillingSpec => []ActiveIsUnlocked
<1>1. IInv => ActiveIsUnlocked
  BY DEF IInv, TableRight, RightRows, RowRight, ActiveIsUnlocked, Live, LiveIn, Exists
<1> QED
  BY Invariance, <1>1, PTL

\* A paid event names a session of its own that was paid, at that price.
THEOREM PaymentsProven == BillingSpec => []PaidHasProof
<1>1. IInv => PaidHasProof
  BY DEF IInv, TableRight, RightRows, RowRight, PaidHasProof
<1> QED
  BY Invariance, <1>1, PTL

\* An event that is paid or invoiced is never longer than when it was unlocked.
THEOREM PaidEventsNotExtended == BillingSpec => []PaidNotExtended
<1>1. IInv => PaidNotExtended
  BY DEF IInv, TableRight, RightRows, RowRight, PaidNotExtended
<1> QED
  BY Invariance, <1>1, PTL
=============================================================================
