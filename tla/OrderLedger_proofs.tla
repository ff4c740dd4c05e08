------------------------- MODULE OrderLedger_proofs -------------------------
(***************************************************************************)
(* What the ledger of the orders keeps, for any number of orders, products,*)
(* requests in progress and interruptions.                                 *)
(***************************************************************************)
EXTENDS OrderLedger, FiniteSetTheorems, SequenceTheorems, TLAPS

-----------------------------------------------------------------------------
(* Sums.  SumOver counts the units <<x, 1>> .. <<x, f[x]>> of all x in S.    *)

Units(S, f) == UNION {{x} \X (1 .. f[x]) : x \in S}

\* What a unit is.
LEMMA UnitsMember ==
  ASSUME NEW S, NEW f
  PROVE  \A u : u \in Units(S, f) <=> \E x \in S : \E n \in 1 .. f[x] : u = <<x, n>>
BY DEF Units

\* One x has f[x] units.
LEMMA UnitsOfOne ==
  ASSUME NEW x, NEW n \in Nat
  PROVE  IsFiniteSet({x} \X (1 .. n)) /\ Cardinality({x} \X (1 .. n)) = n
<1> DEFINE g == [i \in 1 .. n |-> <<x, i>>]
<1>1. g \in [1 .. n -> {x} \X (1 .. n)] OBVIOUS
<1>2. \A i, j \in 1 .. n : g[i] = g[j] => i = j OBVIOUS
<1>3. \A u \in {x} \X (1 .. n) : \E i \in 1 .. n : g[i] = u OBVIOUS
<1>4. g \in Bijection(1 .. n, {x} \X (1 .. n))
  <2> HIDE DEF g
  <2> QED BY <1>1, <1>2, <1>3 DEF Bijection, Injection, Surjection, IsInjective
<1>5. ExistsBijection(1 .. n, {x} \X (1 .. n)) BY <1>4 DEF ExistsBijection
<1>6. IsFiniteSet(1 .. n) /\ Cardinality(1 .. n) = n BY FS_Interval
<1> QED BY <1>5, <1>6, FS_Bijection

\* A finite set has finitely many units.
LEMMA UnitsFinite ==
  ASSUME NEW S, IsFiniteSet(S), NEW f, \A x \in S : f[x] \in Nat
  PROVE  IsFiniteSet(Units(S, f))
<1> DEFINE g == [x \in S |-> {x} \X (1 .. f[x])]
           C == {{x} \X (1 .. f[x]) : x \in S}
<1>1. g \in Surjection(S, C)
  <2>1. g \in [S -> C] OBVIOUS
  <2>2. \A c \in C : \E x \in S : g[x] = c OBVIOUS
  <2> HIDE DEF g, C
  <2> QED BY <2>1, <2>2 DEF Surjection
<1>2. ASSUME NEW c \in C PROVE IsFiniteSet(c)
  <2>1. PICK x \in S : c = {x} \X (1 .. f[x]) OBVIOUS
  <2>2. f[x] \in Nat OBVIOUS
  <2> QED BY <2>1, <2>2, UnitsOfOne
<1>3. IsFiniteSet(C) BY <1>1, FS_Surjection
<1>4. IsFiniteSet(UNION C)
  <2> HIDE DEF C
  <2> QED BY <1>2, <1>3, FS_UNION
<1> QED BY <1>4 DEF Units

\* A sum of natural numbers is one.
LEMMA SumType ==
  ASSUME NEW S, IsFiniteSet(S), NEW f, \A x \in S : f[x] \in Nat
  PROVE  SumOver(S, f) \in Nat
<1>1. SumOver(S, f) = Cardinality(Units(S, f)) BY DEF SumOver, Units
<1> QED BY <1>1, UnitsFinite, FS_CardinalityType

\* The empty sum.
LEMMA SumEmpty == ASSUME NEW f PROVE SumOver({}, f) = 0
<1>1. UNION {{x} \X (1 .. f[x]) : x \in {}} = {} OBVIOUS
<1> QED BY <1>1, FS_EmptySet DEF SumOver

\* Only the summands count.
LEMMA SumSame ==
  ASSUME NEW S, NEW f, NEW g, \A x \in S : f[x] = g[x]
  PROVE  SumOver(S, f) = SumOver(S, g)
<1>1. \A u : u \in Units(S, f) <=> u \in Units(S, g) BY UnitsMember
<1>2. Units(S, f) = Units(S, g) BY <1>1
<1> QED BY <1>2 DEF SumOver, Units

\* One more summand.
LEMMA SumAdd ==
  ASSUME NEW S, IsFiniteSet(S), NEW x, x \notin S, NEW f, \A y \in S \cup {x} : f[y] \in Nat
  PROVE  SumOver(S \cup {x}, f) = SumOver(S, f) + f[x]
<1> DEFINE A == Units(S, f)
           B == {x} \X (1 .. f[x])
<1>1. Units(S \cup {x}, f) = A \cup B
  <2>1. \A u : u \in B <=> \E n \in 1 .. f[x] : u = <<x, n>> OBVIOUS
  <2>2. \A u : u \in Units(S \cup {x}, f) <=> u \in A \/ u \in B
    <3> HIDE DEF B
    <3> QED BY <2>1, UnitsMember
  <2> QED BY <2>2
<1>2. A \cap B = {}
  <2>1. \A u \in A : u[1] # x BY UnitsMember
  <2>2. \A u \in B : u[1] = x OBVIOUS
  <2> QED BY <2>1, <2>2
<1>3. IsFiniteSet(A) /\ Cardinality(A) \in Nat BY UnitsFinite, FS_CardinalityType
<1>4. IsFiniteSet(B) /\ Cardinality(B) = f[x] BY UnitsOfOne
<1>5. f[x] \in Nat /\ Cardinality(A \cap B) = 0 BY <1>2, FS_EmptySet
<1>6. SumOver(S \cup {x}, f) = Cardinality(A \cup B) BY <1>1 DEF SumOver, Units
<1>7. SumOver(S, f) = Cardinality(A) BY DEF SumOver, Units
<1> HIDE DEF A, B
<1>8. Cardinality(A \cup B) = Cardinality(A) + Cardinality(B) - Cardinality(A \cap B)
  BY <1>3, <1>4, FS_Union
<1> QED BY <1>3, <1>4, <1>5, <1>6, <1>7, <1>8

\* A part of the summands, none of them larger, does not sum up to more.
LEMMA SumGrows ==
  ASSUME NEW S, IsFiniteSet(S), NEW T \in SUBSET S, NEW f, NEW g,
         \A x \in S : f[x] \in Nat, \A x \in T : g[x] \in Nat /\ g[x] <= f[x]
  PROVE  SumOver(T, g) <= SumOver(S, f)
<1>1. Units(T, g) \subseteq Units(S, f)
  <2>1. \A x \in T : \A n \in 1 .. g[x] : n \in 1 .. f[x] OBVIOUS
  <2> QED BY <2>1, UnitsMember
<1>2. IsFiniteSet(Units(S, f)) BY UnitsFinite
<1>3. Cardinality(Units(T, g)) <= Cardinality(Units(S, f)) BY <1>1, <1>2, FS_Subset
<1> QED BY <1>3 DEF SumOver, Units

-----------------------------------------------------------------------------
(* The rules of OrderRows keep the types of the rows.                        *)

\* The rows of an order are among those that are there.
LEMMA ItemsOfDomain ==
  ASSUME NEW its \in Seq(ItemRow), NEW o
  PROVE  /\ ItemsOf(its, o) \subseteq 1 .. Len(its)
         /\ ActiveItems(its, o) \subseteq ItemsOf(its, o)
         /\ IsFiniteSet(ItemsOf(its, o)) /\ IsFiniteSet(ActiveItems(its, o))
<1>1. /\ ItemsOf(its, o) \subseteq 1 .. Len(its)
      /\ ActiveItems(its, o) \subseteq ItemsOf(its, o)
  BY DEF ItemsOf, ActiveItems
<1>2. Len(its) \in Nat OBVIOUS
<1>3. IsFiniteSet(1 .. Len(its)) BY <1>2, FS_Interval
<1> QED BY <1>1, <1>3, FS_Subset

\* The prices and deposits of an order's items add up.
LEMMA TotalsType ==
  ASSUME NEW its \in Seq(ItemRow), NEW o
  PROVE  Subtotal(its, o) \in Nat /\ PfandTotal(its, o) \in Nat
<1> DEFINE A == ActiveItems(its, o)
           f == [i \in A |-> Price[its[i].product] * its[i].quantity]
           g == [i \in A |-> Deposit[its[i].product] * its[i].quantity]
<1>1. \A i \in A : its[i].product \in Products /\ its[i].quantity \in Nat
  <2>1. A \subseteq 1 .. Len(its) BY ItemsOfDomain
  <2>2. \A i \in 1 .. Len(its) : its[i] \in ItemRow OBVIOUS
  <2> HIDE DEF A
  <2> QED BY <2>1, <2>2 DEF ItemRow
<1>2. \A p \in Products : Price[p] \in Nat /\ Deposit[p] \in Nat BY ProductAssumption
<1>3. \A m, n \in Nat : m * n \in Nat OBVIOUS
<1>4. \A i \in A : f[i] \in Nat /\ g[i] \in Nat BY <1>1, <1>2, <1>3
<1>5. IsFiniteSet(A) BY ItemsOfDomain
<1> HIDE DEF f, g
<1>6. SumOver(A, f) \in Nat /\ SumOver(A, g) \in Nat BY <1>4, <1>5, SumType
<1> QED BY <1>6 DEF Subtotal, PfandTotal, f, g

\* recalculateOrderTotals, updateOrderPaymentStatus, updateOrderStatus and the
\* floor of a refund return orders.
LEMMA RulesType ==
  ASSUME NEW row \in OrderRow, NEW its \in Seq(ItemRow), NEW o, NEW amount \in Int
  PROVE  /\ Recalculated(row, its, o) \in OrderRow
         /\ WithPaymentStatus(row) \in OrderRow
         /\ WithOrderStatus(row, its, o) \in OrderRow
         /\ Repaid(row, amount) \in OrderRow
<1>1. Recalculated(row, its, o) \in OrderRow
  <2> DEFINE sub == Subtotal(its, o)
             pfand == PfandTotal(its, o)
             disc == Lesser(row.discount, sub)
  <2>1. sub \in Nat /\ pfand \in Nat BY TotalsType
  <2> HIDE DEF sub, pfand
  <2>2. disc \in Nat /\ disc <= sub BY <2>1 DEF Lesser, OrderRow
  <2> HIDE DEF disc
  <2>3. sub - disc + pfand \in Nat BY <2>1, <2>2
  <2>4. Recalculated(row, its, o) = [row EXCEPT !.discount = disc, !.total = sub - disc + pfand]
    BY DEF Recalculated, sub, disc, pfand
  <2> QED BY <2>2, <2>3, <2>4 DEF OrderRow
<1>2. WithPaymentStatus(row) \in OrderRow BY DEF WithPaymentStatus, OrderRow, PaymentStatus
<1>3. WithOrderStatus(row, its, o) \in OrderRow BY DEF WithOrderStatus, OrderRow, OrderStatus
<1>4. Repaid(row, amount) \in OrderRow BY DEF Repaid, OrderRow
<1> QED BY <1>1, <1>2, <1>3, <1>4

\* A sequence that keeps its length and its type is one.
LEMMA SeqOfLength ==
  ASSUME NEW n \in Nat, NEW S, NEW f \in [1 .. n -> S]
  PROVE  f \in Seq(S) /\ Len(f) = n
BY SeqDef

\* The cascade of TypeORM's save replaces rows and neither adds nor removes any.
LEMMA CascadedType ==
  ASSUME NEW its \in Seq(ItemRow), NEW lines \in Seq(ItemRow), NEW o
  PROVE  /\ CascadedItems(its, lines, o) \in Seq(ItemRow)
         /\ Len(CascadedItems(its, lines, o)) = Len(its)
<1>1. Len(its) \in Nat OBVIOUS
<1>2. CascadedItems(its, lines, o) \in [1 .. Len(its) -> ItemRow]
  <2>1. \A i \in ItemsOf(lines, o) : lines[i] \in ItemRow BY ItemsOfDomain
  <2> QED BY <2>1 DEF CascadedItems
<1> QED BY <1>1, <1>2, SeqOfLength

\* The items of a full payment, and those a refund takes a part out of.
LEMMA LinesType ==
  ASSUME NEW lines \in Seq(ItemRow), NEW o, NEW part \in [item : Nat, quantity : Nat]
  PROVE  /\ PaidLines(lines, o) \in Seq(ItemRow) /\ Len(PaidLines(lines, o)) = Len(lines)
         /\ UnpaidLines(lines, o, part) \in Seq(ItemRow)
         /\ Len(UnpaidLines(lines, o, part)) = Len(lines)
<1>1. Len(lines) \in Nat OBVIOUS
<1>2. PaidLines(lines, o) \in [1 .. Len(lines) -> ItemRow]
  <2>1. \A i \in 1 .. Len(lines) : lines[i] \in ItemRow OBVIOUS
  <2>2. \A row \in ItemRow : [row EXCEPT !.paidQuantity = row.quantity] \in ItemRow BY DEF ItemRow
  <2> QED BY <2>1, <2>2 DEF PaidLines
<1>3. PaidLines(lines, o) \in Seq(ItemRow) /\ Len(PaidLines(lines, o)) = Len(lines)
  BY <1>1, <1>2, SeqOfLength
<1>4. UnpaidLines(lines, o, part) \in Seq(ItemRow) /\ Len(UnpaidLines(lines, o, part)) = Len(lines)
  <2>1. CASE part.item \in ItemsOf(lines, o)
    <3>1. part.item \in 1 .. Len(lines) BY <2>1, ItemsOfDomain
    <3>2. lines[part.item] \in ItemRow BY <3>1
    <3> DEFINE paid == lines[part.item].paidQuantity
               rest == IF paid - part.quantity < 0 THEN 0 ELSE paid - part.quantity
               line == [lines[part.item] EXCEPT !.paidQuantity = rest]
    <3>3. line \in ItemRow
      <4>1. rest \in Nat BY <3>2 DEF ItemRow
      <4> HIDE DEF rest
      <4> QED BY <3>2, <4>1 DEF ItemRow
    <3>4. UnpaidLines(lines, o, part) = [lines EXCEPT ![part.item] = line]
      BY <2>1 DEF UnpaidLines
    <3> HIDE DEF line
    <3> QED BY <3>1, <3>3, <3>4, ExceptSeq
  <2>2. CASE part.item \notin ItemsOf(lines, o) BY <2>2 DEF UnpaidLines
  <2> QED BY <2>1, <2>2
<1> QED BY <1>3, <1>4

-----------------------------------------------------------------------------
(* The type invariant.  TypeOK holds of all requests at once, so a step of   *)
(* one of them has to leave what the others need: orders are never forgotten *)
(* and no table gets shorter.  It is inductive with two more facts: no stock *)
(* is negative, and removeItem restores its own item only.                   *)

Tables ==
  /\ orders \in [Orders -> OrderRow \cup {NoRow}]
  /\ items \in Seq(ItemRow)
  /\ payments \in Seq(PaymentRow)
  /\ stock \in [Products -> Int]
  /\ journal \in [Products -> Int]
  /\ audit \subseteq AuditRow
  /\ \A p \in Products : stock[p] >= 0

RemovesOne(t) ==
  t.op = "removeItem" /\ t.at \in {"restore", "restoreWrite"} => t.todo \subseteq {t.item}

Sound(t) == t # Idle => TaskSound(t) /\ RemovesOne(t)

LedgerInv ==
  /\ Tables /\ requests \in Nat
  /\ task \in [Workers -> Task \cup {Idle}]
  /\ \A w \in Workers : Sound(task[w])

\* What a step of one request leaves to the others.
Kept ==
  /\ \A o \in Orders : Exists(o) => Exists(o)'
  /\ Len(items) <= Len(items')
  /\ Len(payments) <= Len(payments')

\* A request that has stopped is no request.
LEMMA TaskIsNotIdle == \A t \in Task : t # Idle
BY DEF Task, Idle, Operations

\* The requests that rest during a step keep all they need.
LEMMA OthersKeep ==
  ASSUME LedgerInv, Tables', Kept, NEW v \in Workers, task'[v] = task[v]
  PROVE  Sound(task[v])'
<1> SUFFICES ASSUME task[v] # Idle PROVE (TaskSound(task[v]) /\ RemovesOne(task[v]))'
  BY DEF Sound
<1>1. task[v] \in Task /\ TaskSound(task[v]) /\ RemovesOne(task[v])
  BY DEF LedgerInv, Sound
<1>2. task[v].order \in Orders /\ task[v].lines \in Seq(ItemRow) BY <1>1 DEF Task
<1>3. Len(task[v].lines) \in Nat /\ Len(items) \in Nat /\ Len(items') \in Nat
  BY <1>2 DEF LedgerInv, Tables
<1>4. DOMAIN payments \subseteq DOMAIN payments'
  <2>1. DOMAIN payments = 1 .. Len(payments) /\ Len(payments) \in Nat
    BY DEF LedgerInv, Tables
  <2>2. DOMAIN payments' = 1 .. Len(payments') /\ Len(payments') \in Nat
    BY DEF Tables
  <2> QED BY <2>1, <2>2 DEF Kept
<1> QED BY <1>1, <1>2, <1>3, <1>4 DEF TaskSound, RemovesOne, Kept

\* A step of one request keeps the invariant if the tables keep their types and
\* the request itself is sound afterwards.
LEMMA TaskStep ==
  ASSUME LedgerInv, Tables', Kept, requests' \in Nat, NEW w \in Workers,
         NEW t \in Task \cup {Idle}, task' = [task EXCEPT ![w] = t], Sound(task[w])'
  PROVE  LedgerInv'
<1>1. task' \in [Workers -> Task \cup {Idle}] BY DEF LedgerInv
<1>2. \A v \in Workers : v # w => task'[v] = task[v] BY DEF LedgerInv
<1>3. \A v \in Workers : Sound(task[v])' BY <1>2, OthersKeep
<1> QED BY <1>1, <1>3 DEF LedgerInv

\* A request that ends leaves nothing to be sound.
LEMMA DoneStep ==
  ASSUME LedgerInv, Tables', Kept, requests' \in Nat, NEW w \in Workers, Done(w)
  PROVE  LedgerInv'
<1>1. task' = [task EXCEPT ![w] = Idle] BY DEF Done, Go
<1>2. task'[w] = Idle BY <1>1 DEF LedgerInv
<1>3. Sound(task[w])' BY <1>2 DEF Sound
<1>4. Idle \in Task \cup {Idle} OBVIOUS
<1> QED BY <1>1, <1>3, <1>4, TaskStep

\* Tables that stay as they are.
LEMMA TablesStay ==
  ASSUME LedgerInv, UNCHANGED tables
  PROVE  Tables' /\ Kept
BY DEF LedgerInv, Tables, Kept, tables, Exists

-----------------------------------------------------------------------------
(* Requests.                                                                 *)

\* The order, its items and its payments in memory are a task.
LEMMA BeginType ==
  ASSUME LedgerInv, NEW op \in Operations, NEW at \in Steps, NEW o \in Orders, Exists(o)
  PROVE  Begin(op, at, o) \in Task
<1>1. Known(op, o) \in SUBSET Nat
  BY LedgerAssumption DEF Known, LedgerInv, Tables
<1>2. orders[o] \in OrderRow BY DEF LedgerInv, Tables, Exists
<1>3. NoPart \in [item : Nat, quantity : Nat] BY DEF NoPart
<1>4. items \in Seq(ItemRow) /\ <<>> \in Seq(CartLine) BY DEF LedgerInv, Tables
<1> QED BY <1>1, <1>2, <1>3, <1>4 DEF Begin, Task, TseResult

\* A request that read its order and wrote nothing is sound when its own fields are.
LEMMA RequestStep ==
  ASSUME LedgerInv, UNCHANGED tables, NEW w \in Workers, NEW op, Accept(w, op),
         NEW t \in Task, Go(w, t), RemovesOne(t),
         Exists(t.order), Len(t.lines) = Len(items), t.held = 0,
         t.at \in {"addLine", "adjust", "mark", "restore", "cancelItem", "forceReverse", "charge",
                   "refundPayment", "forceRefund", "saveDiscount", "saveFinal"},
         t.at = "addLine" => t.cart # <<>>,
         t.at \in {"adjust", "mark"} => t.item \in DOMAIN items,
         t.at = "restore" /\ t.op = "removeItem" => t.item \in DOMAIN items,
         t.at \in {"restore", "cancelItem"} => t.todo \subseteq DOMAIN items,
         t.at = "forceReverse" => t.todo \subseteq DOMAIN payments,
         t.at = "charge" /\ t.op \in {"split", "posSplit"} => t.part.item \in DOMAIN items,
         t.at \in {"refundPayment", "forceRefund"} => t.item \in DOMAIN payments
  PROVE  LedgerInv'
<1>1. Tables' /\ Kept BY TablesStay
<1>2. task' = [task EXCEPT ![w] = t] BY DEF Go
<1>3. task'[w] = t BY <1>2 DEF LedgerInv
<1>4. /\ \A o : Exists(o)' = Exists(o)
      /\ items' = items /\ payments' = payments
  BY DEF tables, Exists
<1>5. Len(items) \in Nat BY DEF LedgerInv, Tables
<1>6. Sound(task[w])' BY <1>3, <1>4, <1>5 DEF Sound, TaskSound, RemovesOne
<1>7. requests' \in Nat BY DEF Accept, LedgerInv
<1> QED BY <1>1, <1>2, <1>6, <1>7, TaskStep

\* An item and a payment belong to an order, and name a number.
LEMMA RowOfOrder ==
  ASSUME LedgerInv
  PROVE  /\ \A i \in DOMAIN items : i \in Nat /\ items[i] \in ItemRow /\ items[i].order \in Orders
         /\ \A k \in DOMAIN payments :
              k \in Nat /\ payments[k] \in PaymentRow /\ payments[k].order \in Orders
<1>1. items \in Seq(ItemRow) /\ payments \in Seq(PaymentRow) BY DEF LedgerInv, Tables
<1>2. /\ \A i \in DOMAIN items : i \in Nat /\ items[i] \in ItemRow
      /\ \A k \in DOMAIN payments : k \in Nat /\ payments[k] \in PaymentRow
  BY <1>1
<1>3. /\ \A row \in ItemRow : row.order \in Orders
      /\ \A row \in PaymentRow : row.order \in Orders
  BY DEF ItemRow, PaymentRow
<1> QED BY <1>2, <1>3

\* OrdersService.update, addItem, updateItem, removeItem and remove.
LEMMA EditRequests ==
  ASSUME LedgerInv, NEW w \in Workers
  PROVE  /\ \A o \in Orders, d \in Discounts : Update(w, o, d) => LedgerInv'
         /\ \A o \in Orders, p \in Products, q \in Quantities : AddItem(w, o, p, q) => LedgerInv'
         /\ \A i \in DOMAIN items, q \in Quantities : UpdateItem(w, i, q) => LedgerInv'
         /\ \A i \in DOMAIN items : RemoveItem(w, i) => LedgerInv'
         /\ \A o \in Orders : Remove(w, o) => LedgerInv'
<1>1. ASSUME NEW o \in Orders, NEW d \in Discounts, Update(w, o, d) PROVE LedgerInv'
  <2> DEFINE b == Begin("update", "saveDiscount", o)
             t == [b EXCEPT !.row.discount = d]
  <2>1. b \in Task BY <1>1, BeginType DEF Update, Loadable, Operations, Steps
  <2>2. d \in Nat BY LedgerAssumption
  <2>3. t \in Task BY <2>1, <2>2 DEF Task, OrderRow
  <2>4. t.order = o /\ t.lines = items /\ t.held = 0 /\ t.at = "saveDiscount" /\ t.op = "update"
    BY DEF Begin
  <2>5. Exists(o) /\ Go(w, t) /\ Accept(w, "update") /\ UNCHANGED tables
    BY <1>1 DEF Update, Loadable
  <2> HIDE DEF t
  <2> QED BY <2>3, <2>4, <2>5, RequestStep DEF RemovesOne
<1>2. ASSUME NEW o \in Orders, NEW p \in Products, NEW q \in Quantities, AddItem(w, o, p, q)
      PROVE  LedgerInv'
  <2> DEFINE b == Begin("addItem", "addLine", o)
             line == [product |-> p, quantity |-> q]
             t == [b EXCEPT !.cart = <<line>>]
  <2>1. b \in Task BY <1>2, BeginType DEF AddItem, Loadable, Operations, Steps
  <2>2. line \in CartLine BY LedgerAssumption DEF CartLine
  <2>3. <<line>> \in Seq(CartLine) /\ <<line>> # <<>>
    <3> HIDE DEF line
    <3> QED BY <2>2
  <2>4. t \in Task
    <3> HIDE DEF line
    <3> QED BY <2>1, <2>3 DEF Task
  <2>5. /\ t.order = o /\ t.lines = items /\ t.held = 0 /\ t.at = "addLine" /\ t.op = "addItem"
        /\ t.cart # <<>>
    BY <2>3 DEF Begin
  <2>6. Exists(o) /\ Go(w, t) /\ Accept(w, "addItem") /\ UNCHANGED tables
    BY <1>2 DEF AddItem, Loadable
  <2> HIDE DEF t
  <2> QED BY <2>4, <2>5, <2>6, RequestStep DEF RemovesOne
<1>3. ASSUME NEW i \in DOMAIN items, NEW q \in Quantities, UpdateItem(w, i, q) PROVE LedgerInv'
  <2> DEFINE o == items[i].order
             b == Begin("updateItem", "adjust", o)
             t == [b EXCEPT !.item = i, !.amount = q]
  <2>1. i \in Nat /\ o \in Orders /\ q \in Nat BY RowOfOrder, LedgerAssumption
  <2>2. Exists(o) /\ Go(w, t) /\ Accept(w, "updateItem") /\ UNCHANGED tables
    BY <1>3 DEF UpdateItem, Loadable
  <2> HIDE DEF o
  <2>3. b \in Task BY <2>1, <2>2, BeginType DEF Operations, Steps
  <2>4. t \in Task BY <2>1, <2>3 DEF Task
  <2>5. /\ t.order = o /\ t.lines = items /\ t.held = 0 /\ t.at = "adjust" /\ t.op = "updateItem"
        /\ t.item = i
    BY DEF Begin
  <2> HIDE DEF t
  <2> QED BY <2>2, <2>4, <2>5, RequestStep DEF RemovesOne
<1>4. ASSUME NEW i \in DOMAIN items, RemoveItem(w, i) PROVE LedgerInv'
  <2> DEFINE o == items[i].order
             b == Begin("removeItem", "restore", o)
             t == [b EXCEPT !.item = i, !.todo = {i}]
  <2>1. i \in Nat /\ o \in Orders BY RowOfOrder
  <2>2. Exists(o) /\ Go(w, t) /\ Accept(w, "removeItem") /\ UNCHANGED tables
    BY <1>4 DEF RemoveItem, Loadable
  <2> HIDE DEF o
  <2>3. b \in Task BY <2>1, <2>2, BeginType DEF Operations, Steps
  <2>4. t \in Task BY <2>1, <2>3 DEF Task
  <2>5. /\ t.order = o /\ t.lines = items /\ t.held = 0 /\ t.at = "restore" /\ t.op = "removeItem"
        /\ t.item = i /\ t.todo = {i}
    BY DEF Begin
  <2> HIDE DEF t
  <2> QED BY <2>2, <2>4, <2>5, RequestStep DEF RemovesOne
<1>5. ASSUME NEW o \in Orders, Remove(w, o) PROVE LedgerInv'
  <2> DEFINE b == Begin("remove", "restore", o)
             t == [b EXCEPT !.todo = ItemsOf(items, o)]
  <2>1. b \in Task BY <1>5, BeginType DEF Remove, Loadable, Operations, Steps
  <2>2. ItemsOf(items, o) \subseteq DOMAIN items BY DEF ItemsOf
  <2>3. ItemsOf(items, o) \in SUBSET Nat BY <2>2, RowOfOrder
  <2>4. t \in Task BY <2>1, <2>3 DEF Task
  <2>5. /\ t.order = o /\ t.lines = items /\ t.held = 0 /\ t.at = "restore" /\ t.op = "remove"
        /\ t.todo = ItemsOf(items, o)
    BY DEF Begin
  <2>6. Exists(o) /\ Go(w, t) /\ Accept(w, "remove") /\ UNCHANGED tables
    BY <1>5 DEF Remove, Loadable
  <2> HIDE DEF t
  <2> QED BY <2>2, <2>4, <2>5, <2>6, RequestStep DEF RemovesOne
<1> QED BY <1>1, <1>2, <1>3, <1>4, <1>5

\* markItemReady, markItemDelivered, completeOrder and forceUpdateStatus.
LEMMA CounterRequests ==
  ASSUME LedgerInv, NEW w \in Workers
  PROVE  /\ \A i \in DOMAIN items, op \in {"ready", "deliver"} : MarkItem(w, op, i) => LedgerInv'
         /\ \A o \in Orders : CompleteOrder(w, o) => LedgerInv'
         /\ \A o \in Orders, s \in OrderStatus : ForceUpdateStatus(w, o, s) => LedgerInv'
<1>1. ASSUME NEW i \in DOMAIN items, NEW op \in {"ready", "deliver"}, MarkItem(w, op, i)
      PROVE  LedgerInv'
  <2> DEFINE o == items[i].order
             b == Begin(op, "mark", o)
             t == [b EXCEPT !.item = i]
  <2>1. i \in Nat /\ o \in Orders BY RowOfOrder
  <2>2. Exists(o) /\ Go(w, t) /\ Accept(w, op) /\ UNCHANGED tables
    BY <1>1 DEF MarkItem, Loadable
  <2> HIDE DEF o
  <2>3. b \in Task BY <2>1, <2>2, BeginType DEF Operations, Steps
  <2>4. t \in Task BY <2>1, <2>3 DEF Task
  <2>5. t.order = o /\ t.lines = items /\ t.held = 0 /\ t.at = "mark" /\ t.op = op /\ t.item = i
    BY DEF Begin
  <2> HIDE DEF t
  <2> QED BY <2>2, <2>4, <2>5, RequestStep DEF RemovesOne
<1>2. ASSUME NEW o \in Orders, NEW op \in {"complete", "forceStatus"}, NEW s \in OrderStatus,
             Loadable(o), Accept(w, op), UNCHANGED tables,
             Go(w, [Begin(op, "saveFinal", o) EXCEPT !.row.status = s])
      PROVE  LedgerInv'
  <2> DEFINE b == Begin(op, "saveFinal", o)
             t == [b EXCEPT !.row.status = s]
  <2>1. b \in Task BY <1>2, BeginType DEF Loadable, Operations, Steps
  <2>2. t \in Task BY <2>1 DEF Task, OrderRow
  <2>3. t.order = o /\ t.lines = items /\ t.held = 0 /\ t.at = "saveFinal" /\ t.op = op
    BY DEF Begin
  <2>4. Exists(o) /\ Go(w, t) BY <1>2 DEF Loadable
  <2> HIDE DEF t
  <2> QED BY <1>2, <2>2, <2>3, <2>4, RequestStep DEF RemovesOne
<1>3. "completed" \in OrderStatus BY DEF OrderStatus
<1> QED BY <1>1, <1>2, <1>3 DEF CompleteOrder, ForceUpdateStatus

\* cancelOrder, the device API's cancelOrder and forceCancelOrder.
LEMMA CancelRequests ==
  ASSUME LedgerInv, NEW w \in Workers, NEW o \in Orders,
         CancelOrder(w, o) \/ PosCancelOrder(w, o) \/ ForceCancelOrder(w, o)
  PROVE  LedgerInv'
<1>1. /\ ItemsOf(items, o) \subseteq DOMAIN items /\ ActiveItems(items, o) \subseteq DOMAIN items
      /\ CapturedOf(payments, o) \subseteq DOMAIN payments
  BY DEF ItemsOf, ActiveItems, CapturedOf
<1>2. DOMAIN items \subseteq Nat /\ DOMAIN payments \subseteq Nat BY RowOfOrder
<1>3. PICK op \in {"cancel", "posCancel", "forceCancel"},
           at \in {"cancelItem", "forceReverse"},
           todo \in SUBSET Nat :
        /\ Accept(w, op) /\ Exists(o) /\ UNCHANGED tables
        /\ Go(w, [Begin(op, at, o) EXCEPT !.todo = todo])
        /\ at = "cancelItem" => todo \subseteq DOMAIN items
        /\ at = "forceReverse" => todo \subseteq DOMAIN payments
  <2>1. CASE CancelOrder(w, o)
    <3>1. ItemsOf(items, o) \in SUBSET Nat BY <1>1, <1>2
    <3> QED BY <1>1, <2>1, <3>1 DEF CancelOrder, Loadable
  <2>2. CASE PosCancelOrder(w, o)
    <3>1. ActiveItems(items, o) \in SUBSET Nat BY <1>1, <1>2
    <3> QED BY <1>1, <2>2, <3>1 DEF PosCancelOrder, Loadable
  <2>3. CASE ForceCancelOrder(w, o)
    <3>1. CapturedOf(payments, o) \in SUBSET Nat BY <1>1, <1>2
    <3> QED BY <1>1, <2>3, <3>1 DEF ForceCancelOrder, Loadable
  <2> QED BY <2>1, <2>2, <2>3
<1> DEFINE b == Begin(op, at, o)
           t == [b EXCEPT !.todo = todo]
<1>4. b \in Task BY <1>3, BeginType DEF Operations, Steps
<1>5. t \in Task BY <1>4 DEF Task
<1>6. t.order = o /\ t.lines = items /\ t.held = 0 /\ t.at = at /\ t.op = op /\ t.todo = todo
  BY DEF Begin
<1>7. Go(w, t) BY <1>3
<1> HIDE DEF t
<1> QED BY <1>3, <1>5, <1>6, <1>7, RequestStep DEF RemovesOne

\* PaymentsService.create, createSplitPayment and their device API forms.
LEMMA PayRequests ==
  ASSUME LedgerInv, NEW w \in Workers
  PROVE  /\ \A o \in Orders, op \in {"pay", "posPay"}, a \in Amounts :
              CreatePayment(w, op, o, a) => LedgerInv'
         /\ \A i \in DOMAIN items, op \in {"split", "posSplit"}, q \in Quantities :
              CreateSplitPayment(w, op, i, q) => LedgerInv'
<1>1. ASSUME NEW o \in Orders, NEW op \in {"pay", "posPay"}, NEW a \in Amounts,
             CreatePayment(w, op, o, a)
      PROVE  LedgerInv'
  <2> DEFINE b == Begin(op, "charge", o)
             t == [b EXCEPT !.amount = a]
  <2>1. b \in Task BY <1>1, BeginType DEF CreatePayment, Loadable, Operations, Steps
  <2>2. a \in Nat BY LedgerAssumption
  <2>3. t \in Task BY <2>1, <2>2 DEF Task
  <2>4. t.order = o /\ t.lines = items /\ t.held = 0 /\ t.at = "charge" /\ t.op = op
    BY DEF Begin
  <2>5. Exists(o) /\ Go(w, t) /\ Accept(w, op) /\ UNCHANGED tables
    BY <1>1 DEF CreatePayment, Loadable
  <2> HIDE DEF t
  <2> QED BY <2>3, <2>4, <2>5, RequestStep DEF RemovesOne
<1>2. ASSUME NEW i \in DOMAIN items, NEW op \in {"split", "posSplit"}, NEW q \in Quantities,
             CreateSplitPayment(w, op, i, q)
      PROVE  LedgerInv'
  <2> DEFINE o == items[i].order
             price == Price[items[i].product] * q
             b == Begin(op, "charge", o)
             part == [item |-> i, quantity |-> q]
             t == [b EXCEPT !.amount = price, !.part = part]
  <2>1. i \in Nat /\ o \in Orders /\ q \in Nat BY RowOfOrder, LedgerAssumption
  <2>2. price \in Nat
    <3>1. items[i].product \in Products BY RowOfOrder DEF ItemRow
    <3>2. Price[items[i].product] \in Nat BY <3>1, ProductAssumption
    <3> QED BY <2>1, <3>2
  <2>3. Exists(o) /\ Go(w, t) /\ Accept(w, op) /\ UNCHANGED tables
    BY <1>2 DEF CreateSplitPayment, Loadable
  <2>4. part \in [item : Nat, quantity : Nat] /\ part.item = i BY <2>1
  <2> HIDE DEF o, price, part
  <2>5. b \in Task BY <2>1, <2>3, BeginType DEF Operations, Steps
  <2>6. t \in Task BY <2>2, <2>4, <2>5 DEF Task
  <2>7. /\ t.order = o /\ t.lines = items /\ t.held = 0 /\ t.at = "charge" /\ t.op = op
        /\ t.part = part
    BY DEF Begin
  <2> HIDE DEF t
  <2> QED BY <2>3, <2>4, <2>6, <2>7, RequestStep DEF RemovesOne
<1> QED BY <1>1, <1>2

\* PaymentsService.refund and forceRefund.
LEMMA RefundRequests ==
  ASSUME LedgerInv, NEW w \in Workers, NEW k \in DOMAIN payments, Refund(w, k) \/ ForceRefund(w, k)
  PROVE  LedgerInv'
<1> DEFINE o == payments[k].order
<1>1. /\ k \in Nat /\ payments[k] \in PaymentRow /\ o \in Orders
      /\ payments[k].amount \in Int /\ payments[k].tse \in TseResult
      /\ payments[k].part \in [item : Nat, quantity : Nat]
  BY RowOfOrder DEF PaymentRow
<1>2. Exists(o) /\ UNCHANGED tables BY DEF Refund, ForceRefund, Loadable
<1>3. orders[o] \in OrderRow /\ items \in Seq(ItemRow)
  BY <1>1, <1>2 DEF Exists, LedgerInv, Tables
<1>4. CASE Refund(w, k)
  <2> DEFINE b == Begin("refund", "refundPayment", o)
             t == [b EXCEPT !.item = k, !.tse = payments[k].tse]
  <2>1. Go(w, t) /\ Accept(w, "refund") BY <1>4 DEF Refund
  <2> HIDE DEF o
  <2>2. b \in Task BY <1>1, <1>2, BeginType DEF Operations, Steps
  <2>3. t \in Task BY <1>1, <2>2 DEF Task
  <2>4. /\ t.order = o /\ t.lines = items /\ t.held = 0 /\ t.at = "refundPayment"
        /\ t.op = "refund" /\ t.item = k
    BY DEF Begin
  <2> HIDE DEF t
  <2> QED BY <1>2, <2>1, <2>3, <2>4, RequestStep DEF RemovesOne
<1>5. CASE ForceRefund(w, k)
  <2> DEFINE b == Begin("forceRefund", "forceRefund", o)
             row == WithPaymentStatus(Repaid(orders[o], payments[k].amount))
             lines == UnpaidLines(items, o, payments[k].part)
             t == [b EXCEPT !.item = k, !.tse = payments[k].tse, !.row = row, !.lines = lines]
  <2>1. Go(w, t) /\ Accept(w, "forceRefund") BY <1>5 DEF ForceRefund
  <2>2. row \in OrderRow
    <3>1. Repaid(orders[o], payments[k].amount) \in OrderRow BY <1>1, <1>3, RulesType
    <3> QED BY <1>1, <1>3, <3>1, RulesType
  <2>3. lines \in Seq(ItemRow) /\ Len(lines) = Len(items) BY <1>1, <1>3, LinesType
  <2> HIDE DEF o, row, lines
  <2>4. b \in Task BY <1>1, <1>2, BeginType DEF Operations, Steps
  <2>5. t \in Task BY <1>1, <2>2, <2>3, <2>4 DEF Task
  <2>6. /\ t.order = o /\ t.lines = lines /\ t.held = 0 /\ t.at = "forceRefund"
        /\ t.op = "forceRefund" /\ t.item = k
    BY DEF Begin
  <2> HIDE DEF t
  <2> QED BY <1>2, <2>1, <2>3, <2>5, <2>6, RequestStep DEF RemovesOne
<1> QED BY <1>4, <1>5

\* OrdersService.create and the device API's createOrder insert an order.
LEMMA CreateRequest ==
  ASSUME LedgerInv, NEW w \in Workers, NEW op \in {"create", "posCreate"}, NEW o \in Orders,
         NEW d \in Discounts, NEW cart \in Carts, CreateOrder(w, op, o, d, cart)
  PROVE  LedgerInv'
<1> DEFINE row == NewOrder(d)
           at == IF cart = <<>> THEN "zeroTotal" ELSE "addLine"
           b == Begin(op, at, o)
           t == [b EXCEPT !.row = row, !.cart = cart]
<1>1. row \in OrderRow
  BY LedgerAssumption DEF NewOrder, OrderRow, OrderStatus, PaymentStatus
<1>2. row # NoRow BY DEF NewOrder, NoRow
<1>3. /\ orders' = [orders EXCEPT ![o] = row] /\ requests' \in Nat
      /\ UNCHANGED <<items, payments, stock, journal, audit>>
  BY DEF CreateOrder, Accept, LedgerInv
<1> HIDE DEF row
<1>4. Tables' BY <1>1, <1>3 DEF LedgerInv, Tables
<1>5. Kept
  <2>1. Len(items) \in Nat /\ Len(payments) \in Nat BY DEF LedgerInv, Tables
  <2> QED BY <1>2, <1>3, <2>1 DEF LedgerInv, Tables, Kept, Exists
<1>6. orders'[o] = row BY <1>3 DEF LedgerInv, Tables
<1>7. CASE UNCHANGED task
  <2>1. task' = [task EXCEPT ![w] = task[w]] BY <1>7 DEF LedgerInv
  <2>2. task[w] \in Task \cup {Idle} /\ Sound(task[w])'
    BY <1>4, <1>5, <1>7, OthersKeep DEF LedgerInv
  <2> QED BY <1>3, <1>4, <1>5, <2>1, <2>2, TaskStep
<1>8. CASE Go(w, t)
  <2>1. t \in Task
    <3>1. Known(op, o) \in SUBSET Nat /\ items \in Seq(ItemRow) /\ cart \in Seq(CartLine)
      BY LedgerAssumption DEF Known, LedgerInv, Tables
    <3>2. NoPart \in [item : Nat, quantity : Nat] BY DEF NoPart
    <3>3. op \in Operations /\ at \in Steps BY DEF Operations, Steps
    <3>4. orders[o] \in OrderRow \cup {NoRow} BY DEF LedgerInv, Tables
    <3>5. b \in [op : Operations, at : Steps, order : Orders, row : OrderRow \cup {NoRow},
                 lines : Seq(ItemRow), known : SUBSET Nat, item : Nat, amount : Nat,
                 part : [item : Nat, quantity : Nat], cart : Seq(CartLine), held : Int,
                 todo : SUBSET Nat, tse : TseResult]
      <4> HIDE DEF at
      <4> QED BY <3>1, <3>2, <3>3, <3>4 DEF Begin, TseResult
    <3> HIDE DEF b
    <3> QED BY <1>1, <3>1, <3>5 DEF Task
  <2>2. /\ t.order = o /\ t.lines = items /\ t.held = 0 /\ t.at = at /\ t.op = op
        /\ t.cart = cart
    BY DEF Begin
  <2> HIDE DEF t
  <2>3. task' = [task EXCEPT ![w] = t] BY <1>8 DEF Go
  <2>4. task'[w] = t BY <2>3 DEF LedgerInv
  <2>5. Len(items) \in Nat BY DEF LedgerInv, Tables
  <2>6. Sound(task[w])'
    BY <1>2, <1>3, <1>6, <2>2, <2>4, <2>5 DEF Sound, TaskSound, RemovesOne, Exists
  <2> QED BY <1>3, <1>4, <1>5, <2>1, <2>3, <2>6, TaskStep
<1>9. UNCHANGED task \/ Go(w, t) BY DEF CreateOrder, row
<1> QED BY <1>7, <1>8, <1>9

\* Every request.
LEMMA RequestKeeps ==
  ASSUME LedgerInv, NEW w \in Workers, Request(w)
  PROVE  LedgerInv'
BY EditRequests, CounterRequests, CancelRequests, PayRequests, RefundRequests, CreateRequest
DEF Request

-----------------------------------------------------------------------------
(* Steps of a request in progress.                                           *)

\* What a step may rely on.
LEMMA TaskAt ==
  ASSUME LedgerInv, NEW w \in Workers, NEW step, At(w, step)
  PROVE  /\ task[w] \in Task /\ task[w].at = step /\ TaskSound(task[w]) /\ RemovesOne(task[w])
         /\ task[w].order \in Orders /\ orders[task[w].order] \in OrderRow
         /\ task[w].row \in OrderRow /\ task[w].lines \in Seq(ItemRow)
         /\ Len(task[w].lines) \in Nat /\ Len(task[w].lines) <= Len(items)
         /\ requests' = requests /\ requests' \in Nat
<1>1. task[w] # Idle /\ task[w].at = step /\ requests' = requests BY DEF At
<1>2. task[w] \in Task /\ TaskSound(task[w]) /\ RemovesOne(task[w])
  BY <1>1 DEF LedgerInv, Sound
<1>3. /\ task[w].order \in Orders /\ task[w].row \in OrderRow /\ task[w].lines \in Seq(ItemRow)
      /\ Exists(task[w].order) /\ Len(task[w].lines) <= Len(items)
  BY <1>2 DEF Task, TaskSound
<1>4. orders[task[w].order] \in OrderRow BY <1>3 DEF LedgerInv, Tables, Exists
<1>5. Len(task[w].lines) \in Nat BY <1>3
<1> QED BY <1>1, <1>2, <1>3, <1>4, <1>5 DEF LedgerInv

\* The rest of a request, after its tables were written.
LEMMA GoOn ==
  ASSUME LedgerInv, Tables', Kept, NEW w \in Workers, NEW step, At(w, step),
         NEW t \in Task, Go(w, t), RemovesOne(t),
         t.order = task[w].order,
         Len(t.lines) <= Len(items'),
         t.held >= 0,
         t.at \in {"addLine", "takeStock"} => t.cart # <<>>,
         t.at = "takeStock" /\ Head(t.cart).product \in Tracked => t.held >= Head(t.cart).quantity,
         t.at \in {"adjust", "saveStock", "saveItem", "restoreWrite", "cancelWrite", "mark"}
           => t.item \in DOMAIN t.lines,
         t.at = "saveStock" /\ t.lines[t.item].product \in Tracked
           => t.held >= t.amount - t.lines[t.item].quantity,
         t.at = "restore" /\ t.op = "removeItem" => t.item \in DOMAIN t.lines,
         t.at = "restoreWrite" /\ t.op = "removeItem" => t.todo = {},
         t.at \in {"restore", "restoreWrite", "cancelItem", "cancelWrite"}
           => t.todo \subseteq DOMAIN t.lines,
         t.at \in {"reverse", "forceReverse"} => t.todo \subseteq DOMAIN payments',
         t.at = "charge" /\ t.op \in {"split", "posSplit"} => t.part.item \in DOMAIN t.lines,
         t.at \in {"settle", "sign", "refundPayment", "refundOrder", "saveRefund", "forceRefund"}
           => t.item \in DOMAIN payments'
  PROVE  LedgerInv'
<1>1. task' = [task EXCEPT ![w] = t] BY DEF Go
<1>2. task'[w] = t BY <1>1 DEF LedgerInv
<1>3. Exists(t.order)' BY TaskAt DEF Kept, TaskSound
<1>4. Sound(task[w])' BY <1>2, <1>3 DEF Sound, TaskSound, RemovesOne
<1>5. requests' \in Nat BY TaskAt
<1> QED BY <1>1, <1>4, <1>5, TaskStep

\* A row of a table is replaced.
LEMMA ReplaceRow ==
  ASSUME NEW S, NEW seq \in Seq(S), NEW i \in DOMAIN seq, NEW e \in S
  PROVE  [seq EXCEPT ![i] = e] \in Seq(S) /\ Len([seq EXCEPT ![i] = e]) = Len(seq)
BY ExceptSeq

\* The product in memory is saved.
LEMMA MoveStockType ==
  ASSUME LedgerInv, NEW p \in Products, NEW held \in Int, NEW q \in Int, MoveStock(p, held, q),
         p \in Tracked => held + q >= 0
  PROVE  /\ stock' \in [Products -> Int] /\ journal' \in [Products -> Int]
         /\ \A r \in Products : stock'[r] >= 0
<1>1. /\ stock \in [Products -> Int] /\ journal \in [Products -> Int]
      /\ \A r \in Products : stock[r] >= 0
  BY DEF LedgerInv, Tables
<1>2. CASE p \in Tracked
  <2>1. /\ stock' = [stock EXCEPT ![p] = held + q]
        /\ journal' = [journal EXCEPT ![p] = journal[p] + q]
    BY <1>2 DEF MoveStock
  <2>2. held + q \in Int /\ journal[p] + q \in Int /\ held + q >= 0 BY <1>1, <1>2
  <2> QED BY <1>1, <2>1, <2>2
<1>3. CASE p \notin Tracked BY <1>1, <1>3 DEF MoveStock
<1> QED BY <1>2, <1>3

\* The order in memory is saved with its items.
LEMMA SaveOrderKeeps ==
  ASSUME LedgerInv, NEW o \in Orders, NEW row \in OrderRow, NEW lines \in Seq(ItemRow),
         SaveOrder(o, row, lines), payments' \in Seq(PaymentRow), Len(payments) <= Len(payments'),
         audit' \subseteq AuditRow, UNCHANGED <<stock, journal>>
  PROVE  Tables' /\ Kept /\ Len(items') = Len(items)
<1>1. items' \in Seq(ItemRow) /\ Len(items') = Len(items)
  BY CascadedType DEF SaveOrder, LedgerInv, Tables
<1>2. orders' \in [Orders -> OrderRow \cup {NoRow}] BY DEF SaveOrder, LedgerInv, Tables
<1>3. Tables' BY <1>1, <1>2 DEF LedgerInv, Tables
<1>4. \A r \in OrderRow : r # NoRow BY DEF OrderRow, NoRow
<1>5. \A u \in Orders : orders'[u] = IF u = o THEN row ELSE orders[u]
  BY DEF SaveOrder, LedgerInv, Tables
<1>6. Len(items) \in Nat BY DEF LedgerInv, Tables
<1>7. Kept BY <1>1, <1>4, <1>5, <1>6 DEF Kept, Exists
<1> QED BY <1>1, <1>3, <1>7

\* addItemToOrder: the item is saved with the stock that was read, then the product.
LEMMA CartSteps ==
  ASSUME LedgerInv, NEW w \in Workers, AddLine(w) \/ TakeStock(w)
  PROVE  LedgerInv'
<1> DEFINE t == task[w]
           line == Head(t.cart)
<1>1. CASE AddLine(w)
  <2>1. At(w, "addLine") BY <1>1 DEF AddLine
  <2>2. t \in Task /\ t.at = "addLine" /\ TaskSound(t) /\ RemovesOne(t) /\ t.order \in Orders
        /\ requests' \in Nat /\ Len(t.lines) \in Nat /\ Len(t.lines) <= Len(items)
    BY <2>1, TaskAt
  <2>3. t.cart \in Seq(CartLine) /\ t.cart # <<>> BY <2>2 DEF Task, TaskSound
  <2>4. line \in CartLine BY <2>3
  <2>5. line.product \in Products /\ line.quantity \in Nat BY <2>4 DEF CartLine
  <2>6. UNCHANGED <<orders, payments, stock, journal, audit>> BY <1>1 DEF AddLine
  <2>7. Len(items) \in Nat /\ Len(payments) \in Nat /\ items \in Seq(ItemRow)
    BY DEF LedgerInv, Tables
  <2>8. CASE items' = Append(items, NewItem(t.order, line.product, line.quantity))
             /\ Sufficient(line.product, line.quantity)
             /\ Go(w, [t EXCEPT !.at = "takeStock", !.held = stock[line.product]])
    <3> DEFINE item == NewItem(t.order, line.product, line.quantity)
               n == [t EXCEPT !.at = "takeStock", !.held = stock[line.product]]
    <3>1. item \in ItemRow BY <2>2, <2>5 DEF NewItem, ItemRow, ItemStatus
    <3>app. items' = Append(items, item) BY <2>8
    <3> HIDE DEF item
    <3>2. items' \in Seq(ItemRow) /\ Len(items') = Len(items) + 1 BY <2>7, <3>1, <3>app
    <3>3. Tables' /\ Kept BY <2>6, <2>7, <3>2 DEF LedgerInv, Tables, Kept, Exists
    <3>4. stock[line.product] \in Int /\ stock[line.product] >= 0
          /\ (line.product \in Tracked => stock[line.product] >= line.quantity)
      BY <2>5, <2>8 DEF LedgerInv, Tables, Sufficient
    <3> HIDE DEF line
    <3>5. n \in Task BY <2>2, <3>4 DEF Task, Steps
    <3>6. n.order = t.order /\ n.lines = t.lines /\ n.held = stock[line.product]
          /\ n.at = "takeStock" /\ n.op = t.op /\ n.cart = t.cart
      BY <2>2 DEF Task
    <3>7. Go(w, n) BY <2>8
    <3> HIDE DEF n
    <3>8. /\ Len(n.lines) <= Len(items') /\ n.held >= 0 /\ n.cart # <<>>
          /\ (Head(n.cart).product \in Tracked => n.held >= Head(n.cart).quantity)
      BY <2>2, <2>3, <2>7, <3>2, <3>4, <3>6 DEF line
    <3>9. n.order = task[w].order /\ n.at = "takeStock" BY <3>6
    <3> HIDE DEF t
    <3> QED BY <2>1, <3>3, <3>5, <3>7, <3>8, <3>9, GoOn DEF RemovesOne
  <2>9. CASE UNCHANGED items /\ Done(w)
    BY <2>2, <2>6, <2>7, <2>9, DoneStep, TablesStay DEF tables
  <2> QED BY <1>1, <2>8, <2>9 DEF AddLine
<1>2. CASE TakeStock(w)
  <2> DEFINE at == IF Len(t.cart) > 1 THEN "addLine" ELSE "recalculate"
             n == [t EXCEPT !.cart = Tail(@), !.at = at]
  <2>1. At(w, "takeStock") BY <1>2 DEF TakeStock
  <2>2. t \in Task /\ t.at = "takeStock" /\ TaskSound(t) /\ RemovesOne(t) /\ t.order \in Orders
        /\ requests' \in Nat /\ Len(t.lines) \in Nat /\ Len(t.lines) <= Len(items)
    BY <2>1, TaskAt
  <2>3. t.cart \in Seq(CartLine) /\ t.cart # <<>> /\ t.held \in Int BY <2>2 DEF Task, TaskSound
  <2>4. line \in CartLine BY <2>3
  <2>5. line.product \in Products /\ line.quantity \in Nat BY <2>4 DEF CartLine
  <2>6. UNCHANGED <<orders, items, payments, audit>> BY <1>2 DEF TakeStock
  <2>7. line.product \in Tracked => t.held - line.quantity >= 0
    BY <2>2, <2>3, <2>5 DEF TaskSound
  <2>8. /\ stock' \in [Products -> Int] /\ journal' \in [Products -> Int]
        /\ \A r \in Products : stock'[r] >= 0
    <3>1. CASE t.op = "posCreate"
      <4>1. /\ stock' = IF line.product \in Tracked
                        THEN [stock EXCEPT ![line.product] = t.held - line.quantity] ELSE stock
            /\ journal' = journal
        BY <1>2, <3>1 DEF TakeStock
      <4> HIDE DEF t, line
      <4> QED BY <2>3, <2>5, <2>7, <4>1 DEF LedgerInv, Tables
    <3>2. CASE t.op # "posCreate"
      <4>1. MoveStock(line.product, t.held, - line.quantity) BY <1>2, <3>2 DEF TakeStock
      <4>2. - line.quantity \in Int /\ (line.product \in Tracked => t.held + (- line.quantity) >= 0)
        BY <2>3, <2>5, <2>7
      <4> HIDE DEF t, line
      <4> QED BY <2>3, <2>5, <4>1, <4>2, MoveStockType
    <3> QED BY <3>1, <3>2
  <2>9. Tables' /\ Kept BY <2>6, <2>8 DEF LedgerInv, Tables, Kept, Exists
  <2>10. Tail(t.cart) \in Seq(CartLine) /\ (Len(t.cart) > 1 => Tail(t.cart) # <<>>)
    BY <2>3
  <2>11. at \in {"addLine", "recalculate"} /\ (at = "addLine" => Tail(t.cart) # <<>>)
    BY <2>10
  <2>12. Go(w, n) BY <1>2 DEF TakeStock
  <2> HIDE DEF at
  <2>13. n \in Task BY <2>2, <2>10, <2>11 DEF Task, Steps
  <2>14. n.order = t.order /\ n.lines = t.lines /\ n.held = t.held /\ n.at = at /\ n.op = t.op
         /\ n.cart = Tail(t.cart)
    BY <2>2 DEF Task
  <2>15. t.held >= 0 BY <2>2 DEF TaskSound
  <2> HIDE DEF n, line
  <2> QED BY <2>1, <2>2, <2>6, <2>9, <2>11, <2>12, <2>13, <2>14, <2>15, GoOn DEF RemovesOne
<1> QED BY <1>1, <1>2

\* The order is loaded again: recalculateOrderTotals, updateOrderStatus and what the
\* device API and markItemDelivered do after them.
LEMMA ReloadSteps ==
  ASSUME LedgerInv, NEW w \in Workers,
         Recalculate(w) \/ UpdateStatus(w) \/ ZeroTotal(w) \/ AutoComplete(w)
  PROVE  LedgerInv'
<1> DEFINE o == task[w].order
<1>1. PICK step \in Steps : At(w, step)
  BY DEF Recalculate, UpdateStatus, ZeroTotal, AutoComplete, Steps
<1>2. /\ task[w] \in Task /\ o \in Orders /\ orders[o] \in OrderRow /\ requests' \in Nat
      /\ TaskSound(task[w])
  BY <1>1, TaskAt
<1>3. UNCHANGED tables BY DEF Recalculate, UpdateStatus, ZeroTotal, AutoComplete
<1>4. Tables' /\ Kept BY <1>3, TablesStay
<1>5. items' = items /\ items \in Seq(ItemRow) /\ Len(items) \in Nat
  BY <1>3 DEF tables, LedgerInv, Tables
<1>6. ASSUME NEW row \in OrderRow, NEW at \in {"saveTotals", "saveStatus", "saveFinal"},
             Go(w, Reloaded(task[w], at, row))
      PROVE  LedgerInv'
  <2> DEFINE n == Reloaded(task[w], at, row)
  <2>1. 1 .. MaxPayments \in SUBSET Nat BY LedgerAssumption
  <2>2. n \in Task BY <1>2, <1>5, <1>6, <2>1 DEF Reloaded, Task, Steps
  <2>3. n.order = o /\ n.lines = items /\ n.held = task[w].held /\ n.at = at
    BY <1>2 DEF Reloaded, Task
  <2>4. task[w].held >= 0 BY <1>2 DEF TaskSound
  <2> HIDE DEF n
  <2>5. Go(w, n) BY <1>6 DEF n
  <2> QED BY <1>1, <1>4, <1>5, <1>6, <2>2, <2>3, <2>4, <2>5, GoOn DEF RemovesOne
<1>7. CASE Done(w) BY <1>2, <1>4, <1>7, DoneStep
<1>8. CASE Recalculate(w)
  <2>1. Recalculated(orders[o], items, o) \in OrderRow
    <3>1. 0 \in Int OBVIOUS
    <3> QED BY <1>2, <1>5, <3>1, RulesType
  <2> QED BY <1>6, <1>7, <1>8, <2>1 DEF Recalculate
<1>9. CASE UpdateStatus(w)
  <2>1. WithOrderStatus(orders[o], items, o) \in OrderRow
    <3>1. 0 \in Int OBVIOUS
    <3> QED BY <1>2, <1>5, <3>1, RulesType
  <2> QED BY <1>6, <1>7, <1>9, <2>1 DEF UpdateStatus
<1>10. CASE ZeroTotal(w)
  <2>1. [orders[o] EXCEPT !.paymentStatus = "paid", !.paidAmount = 0] \in OrderRow
    BY <1>2 DEF OrderRow, PaymentStatus
  <2> QED BY <1>6, <1>7, <1>10, <2>1 DEF ZeroTotal
<1>11. CASE AutoComplete(w)
  <2> DEFINE b == Begin("deliver", "saveFinal", o)
             n == [b EXCEPT !.row.status = "completed"]
  <2>1. b \in Task BY <1>2, BeginType DEF TaskSound, Operations, Steps
  <2>2. n \in Task BY <2>1 DEF Task, OrderRow, OrderStatus
  <2>3. n.order = o /\ n.lines = items /\ n.held = 0 /\ n.at = "saveFinal" BY DEF Begin
  <2>4. Go(w, n) \/ Done(w) BY <1>11 DEF AutoComplete
  <2> HIDE DEF n
  <2> QED BY <1>1, <1>4, <1>5, <1>7, <2>2, <2>3, <2>4, GoOn DEF RemovesOne
<1> QED BY <1>8, <1>9, <1>10, <1>11

\* Tables of which the orders stay as they are.
LEMMA TablesKeep ==
  ASSUME LedgerInv, UNCHANGED orders,
         items' \in Seq(ItemRow), Len(items) <= Len(items'),
         payments' \in Seq(PaymentRow), Len(payments) <= Len(payments'),
         stock' \in [Products -> Int], journal' \in [Products -> Int],
         \A r \in Products : stock'[r] >= 0, audit' \subseteq AuditRow
  PROVE  Tables' /\ Kept
BY DEF LedgerInv, Tables, Kept, Exists

\* The tables as they are.
LEMMA TablesNow ==
  ASSUME LedgerInv
  PROVE  /\ items \in Seq(ItemRow) /\ Len(items) \in Nat /\ DOMAIN items = 1 .. Len(items)
         /\ payments \in Seq(PaymentRow) /\ Len(payments) \in Nat
         /\ DOMAIN payments = 1 .. Len(payments)
         /\ stock \in [Products -> Int] /\ journal \in [Products -> Int]
         /\ \A r \in Products : stock[r] >= 0
         /\ audit \subseteq AuditRow
BY DEF LedgerInv, Tables

\* The stock as it is.
LEMMA StockNow ==
  ASSUME LedgerInv, NEW p \in Products
  PROVE  stock[p] \in Int /\ stock[p] >= 0
BY DEF LedgerInv, Tables

\* The item a request has in memory.
LEMMA LineInMemory ==
  ASSUME LedgerInv, NEW w \in Workers, NEW step, At(w, step), NEW i \in DOMAIN task[w].lines
  PROVE  /\ task[w].lines[i] \in ItemRow /\ task[w].lines[i].product \in Products
         /\ task[w].lines[i].quantity \in Nat
         /\ i \in Nat /\ i \in DOMAIN items
<1>1. task[w].lines \in Seq(ItemRow) /\ Len(task[w].lines) \in Nat
      /\ Len(task[w].lines) <= Len(items)
  BY TaskAt
<1>2. task[w].lines[i] \in ItemRow /\ i \in 1 .. Len(task[w].lines) BY <1>1
<1>3. i \in DOMAIN items /\ i \in Nat BY <1>1, <1>2, TablesNow
<1> QED BY <1>2, <1>3 DEF ItemRow

\* The log of an administrator's action.
LEMMA AuditType ==
  ASSUME LedgerInv, NEW a \in {"cancel", "refund", "status"}, NEW o \in Orders
  PROVE  /\ audit \cup {[action |-> a, order |-> o, ok |-> TRUE]} \subseteq AuditRow
         /\ audit \cup {[action |-> a, order |-> o, ok |-> FALSE]} \subseteq AuditRow
<1>1. audit \subseteq AuditRow BY DEF LedgerInv, Tables
<1>2. /\ [action |-> a, order |-> o, ok |-> TRUE] \in AuditRow
      /\ [action |-> a, order |-> o, ok |-> FALSE] \in AuditRow
  BY Zenon DEF AuditRow
<1> QED BY <1>1, <1>2

\* The order in memory is saved: totals, status, discount.
LEMMA SaveRows ==
  ASSUME LedgerInv, NEW w \in Workers,
         NEW step \in {"saveDiscount", "saveTotals", "saveStatus", "saveFinal"}, SaveRow(w, step)
  PROVE  LedgerInv'
<1> DEFINE t == task[w]
           n == [t EXCEPT !.at = AfterSave(t)]
<1>1. At(w, step) BY DEF SaveRow
<1>2. /\ t \in Task /\ t.at = step /\ TaskSound(t) /\ t.order \in Orders /\ t.row \in OrderRow
      /\ t.lines \in Seq(ItemRow) /\ Len(t.lines) <= Len(items) /\ requests' \in Nat
  BY <1>1, TaskAt
<1>3. UNCHANGED <<payments, stock, journal>> BY DEF SaveRow
<1>4. CASE UNCHANGED <<orders, items, audit>> /\ Done(w)
  BY <1>2, <1>3, <1>4, TablesStay, DoneStep DEF tables
<1>5. CASE SaveOrder(t.order, t.row, t.lines)
           /\ audit' \in {audit, audit \cup {[action |-> "status", order |-> t.order, ok |-> TRUE]}}
           /\ (Done(w) \/ (AfterSave(t) # "done" /\ Go(w, n)))
  <2>1. audit' \subseteq AuditRow BY <1>2, <1>5, AuditType, TablesNow
  <2>2. Tables' /\ Kept /\ Len(items') = Len(items)
    BY <1>2, <1>3, <1>5, <2>1, SaveOrderKeeps, TablesNow
  <2>3. CASE Done(w) BY <1>2, <2>2, <2>3, DoneStep
  <2>4. CASE AfterSave(t) # "done" /\ Go(w, n)
    <3>1. AfterSave(t) \in {"recalculate", "zeroTotal", "status", "autoComplete"}
      BY <2>4 DEF AfterSave
    <3>2. n \in Task BY <1>2, <3>1 DEF Task, Steps
    <3>3. n.order = t.order /\ n.lines = t.lines /\ n.held = t.held /\ n.at = AfterSave(t)
      BY <1>2 DEF Task
    <3>4. n.held >= 0 BY <1>2, <3>3 DEF TaskSound
    <3> HIDE DEF n
    <3> QED BY <1>1, <1>2, <2>2, <2>4, <3>1, <3>2, <3>3, <3>4, GoOn DEF RemovesOne
  <2> QED BY <1>5, <2>3, <2>4
<1> QED BY <1>4, <1>5 DEF SaveRow, GoTo

\* updateItem: the product is read and saved, then the item.
LEMMA AdjustSteps ==
  ASSUME LedgerInv, NEW w \in Workers, Adjust(w) \/ SaveAdjustment(w) \/ SaveUpdatedItem(w)
  PROVE  LedgerInv'
<1> DEFINE t == task[w]
           line == t.lines[t.item]
<1>1. CASE Adjust(w)
  <2> DEFINE n == [t EXCEPT !.at = "saveStock", !.held = stock[line.product]]
  <2>1. At(w, "adjust") BY <1>1 DEF Adjust
  <2>2. /\ t \in Task /\ t.at = "adjust" /\ TaskSound(t) /\ requests' \in Nat
        /\ Len(t.lines) <= Len(items)
    BY <2>1, TaskAt
  <2>3. t.item \in DOMAIN t.lines BY <2>2 DEF TaskSound
  <2>4. line.product \in Products /\ line.quantity \in Nat BY <2>1, <2>3, LineInMemory
  <2>5. UNCHANGED tables BY <1>1 DEF Adjust
  <2>6. Tables' /\ Kept /\ items' = items BY <2>5, TablesStay DEF tables
  <2>7. CASE Done(w) BY <2>2, <2>6, <2>7, DoneStep
  <2>8. CASE Go(w, n) /\ (t.amount > line.quantity =>
                            Sufficient(line.product, t.amount - line.quantity))
    <3>1. stock[line.product] \in Int /\ stock[line.product] >= 0 BY <2>4, StockNow
    <3>2. t.amount \in Nat BY <2>2 DEF Task
    <3>3. line.product \in Tracked => stock[line.product] >= t.amount - line.quantity
      BY <2>4, <2>8, <3>1, <3>2 DEF Sufficient
    <3>4. n \in Task
      <4> HIDE DEF line
      <4> QED BY <2>2, <3>1 DEF Task, Steps
    <3>5. /\ n.order = t.order /\ n.lines = t.lines /\ n.held = stock[line.product]
          /\ n.at = "saveStock" /\ n.item = t.item /\ n.amount = t.amount
      BY <2>2 DEF Task
    <3>6. Go(w, n) BY <2>8
    <3> HIDE DEF n
    <3> QED BY <2>1, <2>2, <2>3, <2>6, <3>1, <3>3, <3>4, <3>5, <3>6, GoOn DEF RemovesOne
  <2> QED BY <1>1, <2>7, <2>8 DEF Adjust
<1>2. CASE SaveAdjustment(w)
  <2> DEFINE n == [t EXCEPT !.at = "saveItem"]
  <2>1. At(w, "saveStock") BY <1>2 DEF SaveAdjustment
  <2>2. /\ t \in Task /\ t.at = "saveStock" /\ TaskSound(t) /\ requests' \in Nat
        /\ Len(t.lines) <= Len(items)
    BY <2>1, TaskAt
  <2>3. t.item \in DOMAIN t.lines /\ t.held >= 0
        /\ (line.product \in Tracked => t.held >= t.amount - line.quantity)
    BY <2>2 DEF TaskSound
  <2>4. line.product \in Products /\ line.quantity \in Nat BY <2>1, <2>3, LineInMemory
  <2>5. t.held \in Int /\ t.amount \in Nat BY <2>2 DEF Task
  <2>6. MoveStock(line.product, t.held, line.quantity - t.amount) /\ Go(w, n)
        /\ UNCHANGED <<orders, items, payments, audit>>
    BY <1>2 DEF SaveAdjustment, GoTo
  <2>7. n \in Task BY <2>2 DEF Task, Steps
  <2>8. /\ n.order = t.order /\ n.lines = t.lines /\ n.held = t.held /\ n.at = "saveItem"
        /\ n.item = t.item
    BY <2>2 DEF Task
  <2> HIDE DEF n
  <2>9. items' \in Seq(ItemRow) /\ Len(items') = Len(items) BY <2>6, TablesNow
  <2>10. line.quantity - t.amount \in Int
         /\ (line.product \in Tracked => t.held + (line.quantity - t.amount) >= 0)
    BY <2>3, <2>4, <2>5
  <2>11. /\ stock' \in [Products -> Int] /\ journal' \in [Products -> Int]
         /\ \A r \in Products : stock'[r] >= 0
    <3> HIDE DEF line, t
    <3> QED BY <2>4, <2>5, <2>6, <2>10, MoveStockType
  <2>12. Tables' /\ Kept BY <2>6, <2>9, <2>11, TablesKeep, TablesNow
  <2> QED BY <2>1, <2>2, <2>3, <2>6, <2>7, <2>8, <2>9, <2>12, GoOn DEF RemovesOne
<1>3. CASE SaveUpdatedItem(w)
  <2> DEFINE row == [line EXCEPT !.quantity = t.amount]
             n == [t EXCEPT !.at = "recalculate"]
  <2>1. At(w, "saveItem") BY <1>3 DEF SaveUpdatedItem
  <2>2. /\ t \in Task /\ t.at = "saveItem" /\ TaskSound(t) /\ requests' \in Nat
        /\ Len(t.lines) <= Len(items)
    BY <2>1, TaskAt
  <2>3. t.item \in DOMAIN t.lines /\ t.held >= 0 BY <2>2 DEF TaskSound
  <2>4. line \in ItemRow /\ t.item \in DOMAIN items BY <2>1, <2>3, LineInMemory
  <2>5. t.amount \in Nat BY <2>2 DEF Task
  <2>6. /\ items' = [items EXCEPT ![t.item] = row] /\ Go(w, n)
        /\ UNCHANGED <<orders, payments, stock, journal, audit>>
    BY <1>3 DEF SaveUpdatedItem, SaveItem, GoTo
  <2>7. row \in ItemRow BY <2>4, <2>5 DEF ItemRow
  <2>8. n \in Task BY <2>2 DEF Task, Steps
  <2>9. n.order = t.order /\ n.lines = t.lines /\ n.held = t.held /\ n.at = "recalculate"
    BY <2>2 DEF Task
  <2> HIDE DEF n, row
  <2>10. items' \in Seq(ItemRow) /\ Len(items') = Len(items)
    BY <2>4, <2>6, <2>7, ReplaceRow, TablesNow
  <2>11. Tables' /\ Kept BY <2>6, <2>10, TablesKeep, TablesNow
  <2> QED BY <2>1, <2>2, <2>3, <2>6, <2>8, <2>9, <2>10, <2>11, GoOn DEF RemovesOne
<1> QED BY <1>1, <1>2, <1>3

\* The product of the next item is read: a removed item, a deleted or a cancelled order.
LEMMA ReadProducts ==
  ASSUME LedgerInv, NEW w \in Workers,
         ReadProduct(w, "restore", "restoreWrite") \/ ReadProduct(w, "cancelItem", "cancelWrite")
  PROVE  LedgerInv'
<1> DEFINE t == task[w]
<1>1. PICK step \in {"restore", "cancelItem"}, next \in {"restoreWrite", "cancelWrite"} :
        /\ step = "restore" <=> next = "restoreWrite"
        /\ ReadProduct(w, step, next)
  OBVIOUS
<1>2. At(w, step) /\ UNCHANGED tables BY <1>1 DEF ReadProduct
<1>3. PICK i \in t.todo :
        Go(w, [t EXCEPT !.at = next, !.item = i, !.todo = @ \ {i},
                        !.held = stock[t.lines[i].product]])
  BY <1>1 DEF ReadProduct
<1>4. /\ t \in Task /\ t.at = step /\ TaskSound(t) /\ RemovesOne(t) /\ requests' \in Nat
      /\ Len(t.lines) <= Len(items)
  BY <1>2, TaskAt
<1>5. t.todo \subseteq DOMAIN t.lines /\ t.todo \in SUBSET Nat BY <1>4 DEF TaskSound, Task
<1>6. t.lines[i].product \in Products /\ i \in Nat BY <1>2, <1>5, LineInMemory
<1>7. stock[t.lines[i].product] \in Int /\ stock[t.lines[i].product] >= 0
  BY <1>6, StockNow
<1>8. Tables' /\ Kept /\ items' = items BY <1>2, TablesStay DEF tables
<1> DEFINE held == stock[t.lines[i].product]
           todo == t.todo \ {i}
           n == [t EXCEPT !.at = next, !.item = i, !.todo = todo, !.held = held]
<1>9. todo \in SUBSET Nat /\ todo \subseteq DOMAIN t.lines
      /\ (t.op = "removeItem" /\ step = "restore" => todo = {})
  BY <1>4, <1>5 DEF RemovesOne
<1>10. Go(w, n) BY <1>3, <1>4 DEF Task
<1> HIDE DEF held, todo
<1>11. held \in Int /\ held >= 0 BY <1>7 DEF held
<1>12. n \in Task BY <1>4, <1>6, <1>9, <1>11 DEF Task, Steps
<1>13. /\ n.order = t.order /\ n.lines = t.lines /\ n.held = held /\ n.at = next
       /\ n.item = i /\ n.todo = todo /\ n.op = t.op
  BY <1>4 DEF Task
<1> HIDE DEF n
<1> QED BY <1>1, <1>2, <1>4, <1>5, <1>8, <1>9, <1>10, <1>11, <1>12, <1>13, GoOn DEF RemovesOne

\* A removed item and the items of a deleted order: the stock goes back, then the rows go.
LEMMA RemoveSteps ==
  ASSUME LedgerInv, NEW w \in Workers, RestoreItem(w) \/ DeleteItem(w) \/ SoftRemove(w)
  PROVE  LedgerInv'
<1> DEFINE t == task[w]
<1>1. CASE RestoreItem(w)
  <2> DEFINE line == t.lines[t.item]
             n == [t EXCEPT !.at = "restore"]
  <2>1. At(w, "restoreWrite") BY <1>1 DEF RestoreItem
  <2>2. /\ t \in Task /\ t.at = "restoreWrite" /\ TaskSound(t) /\ requests' \in Nat
        /\ Len(t.lines) <= Len(items)
    BY <2>1, TaskAt
  <2>3. /\ t.item \in DOMAIN t.lines /\ t.held >= 0 /\ t.todo \subseteq DOMAIN t.lines
        /\ (t.op = "removeItem" => t.todo = {})
    BY <2>2 DEF TaskSound
  <2>4. line.product \in Products /\ line.quantity \in Nat BY <2>1, <2>3, LineInMemory
  <2>5. t.held \in Int BY <2>2 DEF Task
  <2>6. /\ MoveStock(line.product, t.held, line.quantity) /\ Go(w, n)
        /\ UNCHANGED <<orders, items, payments, audit>>
    BY <1>1 DEF RestoreItem, GoTo
  <2>7. n \in Task BY <2>2 DEF Task, Steps
  <2>8. /\ n.order = t.order /\ n.lines = t.lines /\ n.held = t.held /\ n.at = "restore"
        /\ n.item = t.item /\ n.todo = t.todo /\ n.op = t.op
    BY <2>2 DEF Task
  <2>9. /\ stock' \in [Products -> Int] /\ journal' \in [Products -> Int]
        /\ \A r \in Products : stock'[r] >= 0
    <3>1. line.quantity \in Int /\ t.held + line.quantity >= 0 BY <2>3, <2>4, <2>5
    <3> HIDE DEF line, t
    <3> QED BY <2>4, <2>5, <2>6, <3>1, MoveStockType
  <2>10. Tables' /\ Kept BY <2>6, <2>9, TablesKeep, TablesNow
  <2> HIDE DEF n, line
  <2> QED BY <2>1, <2>2, <2>3, <2>6, <2>7, <2>8, <2>10, GoOn DEF RemovesOne
<1>2. CASE DeleteItem(w)
  <2> DEFINE row == [items[t.item] EXCEPT !.live = FALSE]
             n == [t EXCEPT !.at = "recalculate"]
  <2>1. At(w, "restore") /\ t.op = "removeItem" BY <1>2 DEF DeleteItem
  <2>2. /\ t \in Task /\ t.at = "restore" /\ TaskSound(t) /\ requests' \in Nat
        /\ Len(t.lines) <= Len(items)
    BY <2>1, TaskAt
  <2>3. t.item \in DOMAIN t.lines /\ t.held >= 0 BY <2>1, <2>2 DEF TaskSound
  <2>4. t.item \in DOMAIN items BY <2>1, <2>3, LineInMemory
  <2>5. items' = [items EXCEPT ![t.item] = row] /\ Go(w, n)
        /\ UNCHANGED <<orders, payments, stock, journal, audit>>
    BY <1>2 DEF DeleteItem, GoTo
  <2>6. row \in ItemRow BY <2>4, RowOfOrder DEF ItemRow
  <2>7. n \in Task BY <2>2 DEF Task, Steps
  <2>8. n.order = t.order /\ n.lines = t.lines /\ n.held = t.held /\ n.at = "recalculate"
    BY <2>2 DEF Task
  <2> HIDE DEF n, row
  <2>9. items' \in Seq(ItemRow) /\ Len(items') = Len(items)
    BY <2>4, <2>5, <2>6, ReplaceRow, TablesNow
  <2>10. Tables' /\ Kept BY <2>5, <2>9, TablesKeep, TablesNow
  <2> QED BY <2>1, <2>2, <2>3, <2>5, <2>7, <2>8, <2>9, <2>10, GoOn DEF RemovesOne
<1>3. CASE SoftRemove(w)
  <2>1. At(w, "restore") /\ Done(w) /\ UNCHANGED <<payments, stock, journal, audit>>
    BY <1>3 DEF SoftRemove
  <2>2. t.order \in Orders /\ orders[t.order] \in OrderRow /\ requests' \in Nat
    BY <2>1, TaskAt
  <2>3. CASE UNCHANGED <<orders, items>>
    BY <2>1, <2>2, <2>3, TablesStay, DoneStep DEF tables
  <2>4. CASE /\ orders' = [orders EXCEPT ![t.order].live = FALSE]
             /\ items' = [i \in DOMAIN items |->
                            IF i \in ItemsOf(t.lines, t.order)
                            THEN [items[i] EXCEPT !.live = FALSE] ELSE items[i]]
    <3> DEFINE row == [orders[t.order] EXCEPT !.live = FALSE]
    <3>1. row \in OrderRow BY <2>2 DEF OrderRow
    <3>2. orders' = [orders EXCEPT ![t.order] = row] BY <2>4
    <3>3. row # NoRow BY <3>1 DEF OrderRow, NoRow
    <3> HIDE DEF row
    <3>4. items' \in [1 .. Len(items) -> ItemRow]
      <4>1. \A r \in ItemRow : [r EXCEPT !.live = FALSE] \in ItemRow BY DEF ItemRow
      <4> QED BY <2>4, <4>1, TablesNow
    <3>5. items' \in Seq(ItemRow) /\ Len(items') = Len(items) BY <3>4, SeqOfLength, TablesNow
    <3>6. Tables' BY <2>1, <2>2, <3>1, <3>2, <3>5 DEF LedgerInv, Tables
    <3>7. \A u \in Orders : orders'[u] = IF u = t.order THEN row ELSE orders[u]
      BY <3>2 DEF LedgerInv, Tables
    <3>8. Kept BY <2>1, <3>3, <3>5, <3>7, TablesNow DEF Kept, Exists
    <3> QED BY <2>1, <2>2, <3>6, <3>8, DoneStep
  <2> QED BY <1>3, <2>3, <2>4 DEF SoftRemove
<1> QED BY <1>1, <1>2, <1>3

\* markItemReady and markItemDelivered save the item.
LEMMA MarkSteps ==
  ASSUME LedgerInv, NEW w \in Workers, SaveMarked(w)
  PROVE  LedgerInv'
<1> DEFINE t == task[w]
           mark == IF t.op = "ready" THEN "ready" ELSE "delivered"
           row == [t.lines[t.item] EXCEPT !.status = mark]
           n == [t EXCEPT !.at = "status"]
<1>1. At(w, "mark") BY DEF SaveMarked
<1>2. /\ t \in Task /\ t.at = "mark" /\ TaskSound(t) /\ requests' \in Nat
      /\ Len(t.lines) <= Len(items)
  BY <1>1, TaskAt
<1>3. t.item \in DOMAIN t.lines /\ t.held >= 0 BY <1>2 DEF TaskSound
<1>4. t.item \in DOMAIN items /\ t.lines[t.item] \in ItemRow BY <1>1, <1>3, LineInMemory
<1>5. items' = [items EXCEPT ![t.item] = row] /\ Go(w, n)
      /\ UNCHANGED <<orders, payments, stock, journal, audit>>
  BY DEF SaveMarked, SaveItem, GoTo
<1>6. row \in ItemRow
  <2>1. mark \in ItemStatus BY DEF ItemStatus
  <2> HIDE DEF mark
  <2> QED BY <1>4, <2>1 DEF ItemRow
<1>7. n \in Task BY <1>2 DEF Task, Steps
<1>8. n.order = t.order /\ n.lines = t.lines /\ n.held = t.held /\ n.at = "status"
  BY <1>2 DEF Task
<1> HIDE DEF n, row
<1>9. items' \in Seq(ItemRow) /\ Len(items') = Len(items)
  BY <1>4, <1>5, <1>6, ReplaceRow, TablesNow
<1>10. Tables' /\ Kept BY <1>5, <1>9, TablesKeep, TablesNow
<1> QED BY <1>1, <1>2, <1>3, <1>5, <1>7, <1>8, <1>9, <1>10, GoOn DEF RemovesOne

\* A payment and its reversal are rows of the table.
LEMMA PaymentType ==
  ASSUME LedgerInv
  PROVE  /\ \A o \in Orders, a \in Nat, p \in [item : Nat, quantity : Nat] :
              NewPayment(o, a, p) \in PaymentRow
         /\ \A k \in DOMAIN payments, tse \in TseResult : Reversal(k, tse) \in PaymentRow
         /\ NoPart \in [item : Nat, quantity : Nat]
<1>1. NoPart \in [item : Nat, quantity : Nat] BY DEF NoPart
<1>2. \A o \in Orders, a \in Nat, p \in [item : Nat, quantity : Nat] :
        NewPayment(o, a, p) \in PaymentRow
  BY DEF NewPayment, PaymentRow, TseResult
<1>3. ASSUME NEW k \in DOMAIN payments, NEW tse \in TseResult
      PROVE  Reversal(k, tse) \in PaymentRow
  <2>1. k \in Nat /\ payments[k].order \in Orders /\ payments[k].amount \in Int
    BY RowOfOrder DEF PaymentRow
  <2>2. - payments[k].amount \in Int BY <2>1
  <2> QED BY <1>1, <2>1, <2>2 DEF Reversal, PaymentRow
<1> QED BY <1>1, <1>2, <1>3

\* A payment is appended, and nothing else changes.
LEMMA PaymentAppended ==
  ASSUME LedgerInv, NEW row \in PaymentRow, payments' = Append(payments, row),
         UNCHANGED <<orders, items, stock, journal>>, audit' \subseteq AuditRow
  PROVE  Tables' /\ Kept /\ DOMAIN payments \subseteq DOMAIN payments' /\ items' = items
<1>1. payments' \in Seq(PaymentRow) /\ Len(payments') = Len(payments) + 1 BY TablesNow
<1>2. Tables' /\ Kept BY <1>1, TablesKeep, TablesNow
<1>3. DOMAIN payments' = 1 .. Len(payments') BY <1>1
<1> QED BY <1>1, <1>2, <1>3, TablesNow

\* The status and the signature of a payment are written over.
LEMMA PaymentRewritten ==
  ASSUME LedgerInv, NEW k \in DOMAIN payments, NEW s \in {"captured", "refunded"},
         NEW tse \in TseResult
  PROVE  /\ [payments EXCEPT ![k].status = s, ![k].tse = tse] \in Seq(PaymentRow)
         /\ Len([payments EXCEPT ![k].status = s, ![k].tse = tse]) = Len(payments)
<1> DEFINE row == [payments[k] EXCEPT !.status = s, !.tse = tse]
<1>1. row \in PaymentRow BY RowOfOrder DEF PaymentRow
<1>2. [payments EXCEPT ![k].status = s, ![k].tse = tse] = [payments EXCEPT ![k] = row]
  BY RowOfOrder, TablesNow DEF PaymentRow
<1> HIDE DEF row
<1>3. /\ [payments EXCEPT ![k] = row] \in Seq(PaymentRow)
      /\ Len([payments EXCEPT ![k] = row]) = Len(payments)
  BY <1>1, ReplaceRow, TablesNow
<1> QED BY <1>2, <1>3

\* A cancelled order: its items one by one, then the order itself.
LEMMA CancelSteps ==
  ASSUME LedgerInv, NEW w \in Workers, CancelItem(w) \/ SaveCancelled(w)
  PROVE  LedgerInv'
<1> DEFINE t == task[w]
<1>1. CASE CancelItem(w)
  <2> DEFINE old == t.lines[t.item]
             line == [old EXCEPT !.status = "cancelled"]
             lines == [t.lines EXCEPT ![t.item] = line]
             n == [t EXCEPT !.at = "cancelItem", !.lines = lines]
  <2>1. At(w, "cancelWrite") BY <1>1 DEF CancelItem
  <2>2. /\ t \in Task /\ t.at = "cancelWrite" /\ TaskSound(t) /\ requests' \in Nat
        /\ t.lines \in Seq(ItemRow) /\ Len(t.lines) <= Len(items)
    BY <2>1, TaskAt
  <2>3. t.item \in DOMAIN t.lines /\ t.held >= 0 /\ t.todo \subseteq DOMAIN t.lines
    BY <2>2 DEF TaskSound
  <2>4. /\ old \in ItemRow /\ old.product \in Products /\ old.quantity \in Nat
        /\ t.item \in DOMAIN items
    BY <2>1, <2>3, LineInMemory
  <2> HIDE DEF old
  <2>5. line \in ItemRow /\ line.product = old.product /\ line.quantity = old.quantity
    BY <2>4 DEF ItemRow, ItemStatus
  <2>6. t.held \in Int BY <2>2 DEF Task
  <2>7. /\ MoveStock(line.product, t.held, line.quantity)
        /\ items' = [items EXCEPT ![t.item] = line] /\ Go(w, n)
        /\ UNCHANGED <<orders, payments, audit>>
    BY <1>1, <2>2 DEF CancelItem, SaveItem, Task, old
  <2> HIDE DEF line
  <2>8. lines \in Seq(ItemRow) /\ Len(lines) = Len(t.lines) /\ DOMAIN lines = DOMAIN t.lines
    BY <2>2, <2>3, <2>5, ReplaceRow
  <2> HIDE DEF lines
  <2>9. n \in Task BY <2>2, <2>8 DEF Task, Steps
  <2>10. /\ n.order = t.order /\ n.lines = lines /\ n.held = t.held /\ n.at = "cancelItem"
         /\ n.todo = t.todo
    BY <2>2 DEF Task
  <2> HIDE DEF n
  <2>11. items' \in Seq(ItemRow) /\ Len(items') = Len(items)
    BY <2>4, <2>5, <2>7, ReplaceRow, TablesNow
  <2>12. /\ stock' \in [Products -> Int] /\ journal' \in [Products -> Int]
         /\ \A r \in Products : stock'[r] >= 0
    <3>1. line.quantity \in Int /\ t.held + line.quantity >= 0 BY <2>3, <2>4, <2>5, <2>6
    <3> HIDE DEF t
    <3> QED BY <2>4, <2>5, <2>6, <2>7, <3>1, MoveStockType
  <2>13. Tables' /\ Kept BY <2>7, <2>11, <2>12, TablesKeep, TablesNow
  <2> QED BY <2>1, <2>2, <2>3, <2>7, <2>8, <2>9, <2>10, <2>11, <2>13, GoOn DEF RemovesOne
<1>2. CASE SaveCancelled(w)
  <2> DEFINE cancelled == [t.row EXCEPT !.status = "cancelled"]
             todo == CapturedOf(payments, t.order)
             n == [t EXCEPT !.at = "reverse", !.todo = todo]
  <2>1. At(w, "cancelItem") /\ UNCHANGED <<payments, stock, journal>>
    BY <1>2 DEF SaveCancelled
  <2>2. /\ t \in Task /\ t.at = "cancelItem" /\ TaskSound(t) /\ requests' \in Nat
        /\ t.row \in OrderRow /\ t.order \in Orders
        /\ t.lines \in Seq(ItemRow) /\ Len(t.lines) <= Len(items)
    BY <2>1, TaskAt
  <2>3. CASE UNCHANGED <<orders, items, audit>> /\ Done(w)
    BY <2>1, <2>2, <2>3, TablesStay, DoneStep DEF tables
  <2>4. CASE /\ SaveOrder(t.order, cancelled, t.lines)
             /\ \/ /\ audit' = audit \cup {[action |-> "cancel", order |-> t.order, ok |-> TRUE]}
                   /\ Done(w)
                \/ UNCHANGED audit /\ Go(w, n)
    <3>1. cancelled \in OrderRow BY <2>2 DEF OrderRow, OrderStatus
    <3>2. audit' \subseteq AuditRow BY <2>2, <2>4, AuditType, TablesNow
    <3> HIDE DEF cancelled
    <3>3. Tables' /\ Kept /\ Len(items') = Len(items)
      BY <2>1, <2>2, <2>4, <3>1, <3>2, SaveOrderKeeps, TablesNow
    <3>4. CASE Done(w) BY <2>2, <3>3, <3>4, DoneStep
    <3>5. CASE Go(w, n)
      <4>1. todo \subseteq DOMAIN payments /\ todo \in SUBSET Nat
        BY TablesNow DEF CapturedOf
      <4> HIDE DEF todo
      <4>2. n \in Task BY <2>2, <4>1 DEF Task, Steps
      <4>3. /\ n.order = t.order /\ n.lines = t.lines /\ n.held = t.held /\ n.at = "reverse"
            /\ n.todo = todo
        BY <2>2 DEF Task
      <4>4. t.held >= 0 /\ payments' = payments BY <2>1, <2>2 DEF TaskSound
      <4> HIDE DEF n
      <4> QED BY <2>1, <2>2, <3>3, <3>5, <4>1, <4>2, <4>3, <4>4, GoOn DEF RemovesOne
    <3> QED BY <2>4, <3>4, <3>5
  <2> QED BY <1>2, <2>3, <2>4 DEF SaveCancelled
<1> QED BY <1>1, <1>2

\* The captured payments of a cancelled order are reversed one by one.
LEMMA ReverseSteps ==
  ASSUME LedgerInv, NEW w \in Workers,
         \/ ReversePayment(w) \/ ReversalsDone(w)
         \/ ForceReversePayment(w) \/ ForceReversalsDone(w)
  PROVE  LedgerInv'
<1> DEFINE t == task[w]
<1>1. CASE ReversalsDone(w)
  <2>1. At(w, "reverse") /\ Done(w) /\ UNCHANGED tables BY <1>1 DEF ReversalsDone
  <2> QED BY <2>1, TaskAt, TablesStay, DoneStep
<1>2. CASE ForceReversalsDone(w)
  <2> DEFINE todo == ItemsOf(t.lines, t.order)
             n == [t EXCEPT !.at = "cancelItem", !.todo = todo]
  <2>1. At(w, "forceReverse") /\ Go(w, n) /\ UNCHANGED tables BY <1>2 DEF ForceReversalsDone
  <2>2. /\ t \in Task /\ TaskSound(t) /\ t.lines \in Seq(ItemRow) /\ Len(t.lines) <= Len(items)
    BY <2>1, TaskAt
  <2>3. todo \subseteq DOMAIN t.lines /\ todo \in SUBSET Nat BY <2>2 DEF ItemsOf
  <2> HIDE DEF todo
  <2>4. n \in Task BY <2>2, <2>3 DEF Task, Steps
  <2>5. /\ n.order = t.order /\ n.lines = t.lines /\ n.held = t.held /\ n.at = "cancelItem"
        /\ n.todo = todo
    BY <2>2 DEF Task
  <2>6. t.held >= 0 BY <2>2 DEF TaskSound
  <2>7. Tables' /\ Kept /\ items' = items BY <2>1, TablesStay DEF tables
  <2> HIDE DEF n
  <2> QED BY <2>1, <2>2, <2>3, <2>4, <2>5, <2>6, <2>7, GoOn DEF RemovesOne
<1>3. CASE ReversePayment(w) \/ ForceReversePayment(w)
  <2>1. PICK step \in {"reverse", "forceReverse"} : At(w, step)
    BY <1>3 DEF ReversePayment, ForceReversePayment
  <2>2. /\ t \in Task /\ t.at = step /\ TaskSound(t) /\ requests' \in Nat /\ t.order \in Orders
        /\ t.lines \in Seq(ItemRow) /\ Len(t.lines) <= Len(items)
    BY <2>1, TaskAt
  <2>3. /\ UNCHANGED <<orders, items, stock, journal>>
        /\ audit' \in {audit, audit \cup {[action |-> "cancel", order |-> t.order, ok |-> FALSE]}}
        /\ UNCHANGED payments \/ \E k \in t.todo, tse \in TseResult :
                                   payments' = Append(payments, Reversal(k, tse))
        /\ Done(w) \/ \E k \in t.todo : Go(w, [t EXCEPT !.todo = @ \ {k}])
    BY <1>3 DEF ReversePayment, ForceReversePayment
  <2>4. t.todo \subseteq DOMAIN payments /\ t.todo \in SUBSET Nat BY <2>2 DEF TaskSound, Task
  <2>5. audit' \subseteq AuditRow BY <2>2, <2>3, AuditType, TablesNow
  <2>6. Tables' /\ Kept /\ DOMAIN payments \subseteq DOMAIN payments' /\ items' = items
    <3>1. CASE UNCHANGED payments BY <2>3, <2>5, <3>1, TablesKeep, TablesNow
    <3>2. ASSUME NEW k \in t.todo, NEW tse \in TseResult,
                 payments' = Append(payments, Reversal(k, tse))
          PROVE  Tables' /\ Kept /\ DOMAIN payments \subseteq DOMAIN payments' /\ items' = items
      <4>1. Reversal(k, tse) \in PaymentRow BY <2>4, PaymentType
      <4> QED BY <2>3, <2>5, <3>2, <4>1, PaymentAppended
    <3> QED BY <2>3, <3>1, <3>2
  <2>7. CASE Done(w) BY <2>2, <2>6, <2>7, DoneStep
  <2>8. ASSUME NEW k \in t.todo, Go(w, [t EXCEPT !.todo = @ \ {k}]) PROVE LedgerInv'
    <3> DEFINE todo == t.todo \ {k}
               n == [t EXCEPT !.todo = todo]
    <3>1. todo \in SUBSET Nat /\ todo \subseteq DOMAIN payments' BY <2>4, <2>6
    <3>2. Go(w, n) BY <2>2, <2>8 DEF Task
    <3> HIDE DEF todo
    <3>3. n \in Task BY <2>2, <3>1 DEF Task
    <3>4. /\ n.order = t.order /\ n.lines = t.lines /\ n.held = t.held /\ n.at = step
          /\ n.todo = todo
      BY <2>2 DEF Task
    <3>5. t.held >= 0 BY <2>2 DEF TaskSound
    <3> HIDE DEF n
    <3> QED BY <2>1, <2>2, <2>6, <3>1, <3>2, <3>3, <3>4, <3>5, GoOn DEF RemovesOne
  <2> QED BY <2>3, <2>7, <2>8
<1> QED BY <1>1, <1>2, <1>3

\* The order after a payment is an order.
LEMMA SettledType ==
  ASSUME NEW t \in Task
  PROVE  SettledOrder(t) \in OrderRow
<1> DEFINE row == [t.row EXCEPT !.paidAmount = @ + t.amount]
           paid == WithPaymentStatus(row)
<1>1. t.row \in OrderRow /\ t.amount \in Nat BY DEF Task
<1>2. row \in OrderRow BY <1>1 DEF OrderRow
<1> HIDE DEF row
<1>3. paid \in OrderRow
  <2>1. 0 \in Int /\ <<>> \in Seq(ItemRow) OBVIOUS
  <2> QED BY <1>2, <2>1, RulesType
<1> HIDE DEF paid
<1>4. [paid EXCEPT !.status = "completed"] \in OrderRow BY <1>3 DEF OrderRow, OrderStatus
<1>5. SettledOrder(t) \in {paid, [paid EXCEPT !.status = "completed"]}
  BY DEF SettledOrder, paid, row
<1> QED BY <1>3, <1>4, <1>5

\* A payment: the row, the order in memory, the signature.
LEMMA PaySteps ==
  ASSUME LedgerInv, NEW w \in Workers, Charge(w) \/ Settle(w) \/ SignPayment(w)
  PROVE  LedgerInv'
<1> DEFINE t == task[w]
<1>1. CASE Charge(w)
  <2> DEFINE i == t.part.item
             split == t.op \in {"split", "posSplit"}
             paidLine == [t.lines[i] EXCEPT !.paidQuantity = @ + t.part.quantity]
             lines == IF split THEN [t.lines EXCEPT ![i] = paidLine] ELSE t.lines
             part == IF t.op = "split" THEN t.part ELSE NoPart
             row == NewPayment(t.order, t.amount, part)
             k == Len(payments) + 1
             n == [t EXCEPT !.at = "settle", !.item = k, !.lines = lines]
  <2>1. At(w, "charge") /\ UNCHANGED <<orders, stock, journal, audit>> BY <1>1 DEF Charge
  <2>2. /\ t \in Task /\ t.at = "charge" /\ TaskSound(t) /\ requests' \in Nat /\ t.order \in Orders
        /\ t.lines \in Seq(ItemRow) /\ Len(t.lines) <= Len(items)
    BY <2>1, TaskAt
  <2>3. /\ t.held >= 0 /\ (split => i \in DOMAIN t.lines)
        /\ t.part \in [item : Nat, quantity : Nat] /\ t.amount \in Nat
    BY <2>2 DEF TaskSound, Task
  <2>4. row \in PaymentRow
    <3>1. part \in [item : Nat, quantity : Nat] BY <2>3, PaymentType
    <3> HIDE DEF part
    <3> QED BY <2>2, <2>3, <3>1, PaymentType
  <2>5. payments' = Append(payments, row) BY <1>1 DEF Charge
  <2> HIDE DEF row
  <2>6. payments' \in Seq(PaymentRow) /\ Len(payments') = Len(payments) + 1
    BY <2>4, <2>5, TablesNow
  <2>7. k \in DOMAIN payments' /\ k \in Nat BY <2>6, TablesNow
  <2>8. ASSUME split
        PROVE  /\ paidLine \in ItemRow /\ i \in DOMAIN items
               /\ lines \in Seq(ItemRow) /\ Len(lines) = Len(t.lines)
    <3>1. t.lines[i] \in ItemRow /\ i \in DOMAIN items BY <2>1, <2>3, <2>8, LineInMemory
    <3>2. paidLine \in ItemRow BY <2>3, <3>1 DEF ItemRow
    <3> HIDE DEF paidLine
    <3>3. lines = [t.lines EXCEPT ![i] = paidLine] BY <2>8
    <3>4. [t.lines EXCEPT ![i] = paidLine] \in Seq(ItemRow)
          /\ Len([t.lines EXCEPT ![i] = paidLine]) = Len(t.lines)
      BY <2>2, <2>3, <2>8, <3>2, ReplaceRow
    <3> QED BY <3>1, <3>2, <3>3, <3>4
  <2>9. lines \in Seq(ItemRow) /\ Len(lines) = Len(t.lines) BY <2>2, <2>8
  <2>10. items' \in Seq(ItemRow) /\ Len(items') = Len(items)
    <3>1. CASE split
      <4>1. items' = [items EXCEPT ![i] = paidLine] BY <1>1, <3>1 DEF Charge, SaveItem
      <4> HIDE DEF paidLine
      <4> QED BY <2>8, <3>1, <4>1, ReplaceRow, TablesNow
    <3>2. CASE ~ split
      <4>1. items' = items BY <1>1, <3>2 DEF Charge
      <4> QED BY <4>1, TablesNow
    <3> QED BY <3>1, <3>2
  <2>11. Go(w, n) BY <1>1, <2>2 DEF Charge, Task
  <2>12. Tables' /\ Kept BY <2>1, <2>6, <2>10, TablesKeep, TablesNow
  <2> HIDE DEF lines, k
  <2>13. n \in Task BY <2>2, <2>7, <2>9 DEF Task, Steps
  <2>14. n.order = t.order /\ n.lines = lines /\ n.held = t.held /\ n.at = "settle" /\ n.item = k
    BY <2>2 DEF Task
  <2> HIDE DEF n
  <2> QED BY <2>1, <2>2, <2>3, <2>7, <2>9, <2>10, <2>11, <2>12, <2>13, <2>14, GoOn DEF RemovesOne
<1>2. CASE Settle(w)
  <2> DEFINE row == SettledOrder(t)
             lines == IF t.op \in {"pay", "posPay"} /\ row.paymentStatus = "paid"
                      THEN PaidLines(t.lines, t.order) ELSE t.lines
             n == [t EXCEPT !.at = "sign"]
  <2>1. At(w, "settle") /\ UNCHANGED <<payments, stock, journal, audit>> BY <1>2 DEF Settle
  <2>2. /\ t \in Task /\ t.at = "settle" /\ TaskSound(t) /\ requests' \in Nat /\ t.order \in Orders
        /\ t.lines \in Seq(ItemRow) /\ Len(t.lines) <= Len(items)
    BY <2>1, TaskAt
  <2>3. t.held >= 0 /\ t.item \in DOMAIN payments BY <2>2 DEF TaskSound
  <2>4. CASE UNCHANGED <<orders, items>> /\ Done(w)
    BY <2>1, <2>2, <2>4, TablesStay, DoneStep DEF tables
  <2>5. CASE SaveOrder(t.order, row, lines) /\ Go(w, n)
    <3>1. row \in OrderRow BY <2>2, SettledType
    <3>2. lines \in Seq(ItemRow)
      <4>1. t.part \in [item : Nat, quantity : Nat] BY <2>2 DEF Task
      <4>2. PaidLines(t.lines, t.order) \in Seq(ItemRow) BY <2>2, <4>1, LinesType
      <4> QED BY <2>2, <4>2
    <3> HIDE DEF row, lines
    <3>3. Tables' /\ Kept /\ Len(items') = Len(items)
      BY <2>1, <2>2, <2>5, <3>1, <3>2, SaveOrderKeeps, TablesNow
    <3>4. n \in Task BY <2>2 DEF Task, Steps
    <3>5. /\ n.order = t.order /\ n.lines = t.lines /\ n.held = t.held /\ n.at = "sign"
          /\ n.item = t.item
      BY <2>2 DEF Task
    <3>6. Go(w, n) /\ payments' = payments BY <2>1, <2>5
    <3> HIDE DEF n
    <3> QED BY <2>1, <2>2, <2>3, <3>3, <3>4, <3>5, <3>6, GoOn DEF RemovesOne
  <2> QED BY <1>2, <2>4, <2>5 DEF Settle, GoTo
<1>3. CASE SignPayment(w)
  <2>1. At(w, "sign") /\ Done(w) /\ UNCHANGED <<orders, items, stock, journal, audit>>
    BY <1>3 DEF SignPayment
  <2>2. TaskSound(t) /\ t.at = "sign" /\ requests' \in Nat BY <2>1, TaskAt
  <2>3. t.item \in DOMAIN payments BY <2>2 DEF TaskSound
  <2>4. payments' \in Seq(PaymentRow) /\ Len(payments') = Len(payments)
    <3>1. CASE UNCHANGED payments BY <3>1, TablesNow
    <3>2. ASSUME NEW tse \in TseResult,
                 payments' = [payments EXCEPT ![t.item].status = "captured", ![t.item].tse = tse]
          PROVE  payments' \in Seq(PaymentRow) /\ Len(payments') = Len(payments)
      BY <2>3, <3>2, PaymentRewritten
    <3> QED BY <1>3, <3>1, <3>2 DEF SignPayment
  <2>5. Tables' /\ Kept BY <2>1, <2>4, TablesKeep, TablesNow
  <2> QED BY <2>1, <2>2, <2>5, DoneStep
<1> QED BY <1>1, <1>2, <1>3

\* A refunded payment, and its order loaded afresh.
LEMMA RefundSteps ==
  ASSUME LedgerInv, NEW w \in Workers, RefundPayment(w) \/ RefundOrder(w)
  PROVE  LedgerInv'
<1> DEFINE t == task[w]
           k == t.item
           o == t.order
<1>1. CASE RefundPayment(w)
  <2> DEFINE n == [t EXCEPT !.at = "refundOrder"]
  <2>1. /\ At(w, "refundPayment") /\ Go(w, n)
        /\ UNCHANGED <<orders, items, stock, journal, audit>>
        /\ payments' = [payments EXCEPT ![k].status = "refunded", ![k].tse = t.tse]
    BY <1>1 DEF RefundPayment, GoTo
  <2>2. /\ t \in Task /\ t.at = "refundPayment" /\ TaskSound(t) /\ Len(t.lines) <= Len(items)
        /\ t.tse \in TseResult
    BY <2>1, TaskAt DEF Task
  <2>3. t.held >= 0 /\ k \in DOMAIN payments BY <2>2 DEF TaskSound
  <2>4. payments' \in Seq(PaymentRow) /\ Len(payments') = Len(payments)
    BY <2>1, <2>2, <2>3, PaymentRewritten
  <2>5. Tables' /\ Kept BY <2>1, <2>4, TablesKeep, TablesNow
  <2>6. n \in Task BY <2>2 DEF Task, Steps
  <2>7. n.order = o /\ n.lines = t.lines /\ n.held = t.held /\ n.at = "refundOrder" /\ n.item = k
    BY <2>2 DEF Task
  <2>8. k \in DOMAIN payments' BY <2>3, <2>4, TablesNow
  <2> HIDE DEF n
  <2> QED BY <2>1, <2>2, <2>3, <2>5, <2>6, <2>7, <2>8, GoOn DEF RemovesOne
<1>2. CASE RefundOrder(w)
  <2>1. At(w, "refundOrder") /\ UNCHANGED tables BY <1>2 DEF RefundOrder
  <2>2. /\ t \in Task /\ t.at = "refundOrder" /\ TaskSound(t) /\ o \in Orders /\ requests' \in Nat
        /\ orders[o] \in OrderRow
    BY <2>1, TaskAt
  <2>3. Tables' /\ Kept /\ items' = items /\ payments' = payments
    BY <2>1, TablesStay DEF tables
  <2>4. CASE Done(w) BY <2>2, <2>3, <2>4, DoneStep
  <2> DEFINE row == WithPaymentStatus(Repaid(orders[o], payments[k].amount))
             lines == UnpaidLines(items, o, payments[k].part)
             n == [Reloaded(t, "saveRefund", row) EXCEPT !.lines = lines]
  <2>5. CASE Go(w, n)
    <3>1. t.held >= 0 /\ k \in DOMAIN payments BY <2>2 DEF TaskSound
    <3>2. payments[k].amount \in Int /\ payments[k].part \in [item : Nat, quantity : Nat]
      BY <3>1, RowOfOrder DEF PaymentRow
    <3>3. row \in OrderRow
      <4>1. Repaid(orders[o], payments[k].amount) \in OrderRow BY <2>2, <3>2, RulesType, TablesNow
      <4> QED BY <3>2, <4>1, RulesType, TablesNow
    <3>4. lines \in Seq(ItemRow) /\ Len(lines) = Len(items) BY <3>2, LinesType, TablesNow
    <3>4a. Go(w, n) BY <2>5
    <3> HIDE DEF row, lines
    <3>5. n \in Task
      <4>1. 1 .. MaxPayments \in SUBSET Nat BY LedgerAssumption
      <4> QED BY <2>2, <3>3, <3>4, <4>1, TablesNow DEF Reloaded, Task, Steps
    <3>6. n.order = o /\ n.lines = lines /\ n.held = t.held /\ n.at = "saveRefund" /\ n.item = k
      BY <2>2 DEF Reloaded, Task
    <3> HIDE DEF n
    <3>7. Len(n.lines) <= Len(items') /\ n.item \in DOMAIN payments' /\ n.held >= 0
      BY <2>3, <3>1, <3>4, <3>6, TablesNow
    <3> QED BY <2>1, <2>3, <3>4a, <3>5, <3>6, <3>7, GoOn DEF RemovesOne
  <2> QED BY <1>2, <2>4, <2>5 DEF RefundOrder
<1> QED BY <1>1, <1>2

\* The items of a refused save of a refunded order are saved nevertheless.
LEMMA RefundedItemSaved ==
  ASSUME LedgerInv, NEW w \in Workers, NEW step, At(w, step), SaveRefundedItem(task[w])
  PROVE  items' \in Seq(ItemRow) /\ Len(items') = Len(items)
<1> DEFINE t == task[w]
           i == payments[t.item].part.item
<1>1. t.lines \in Seq(ItemRow) BY TaskAt
<1>2. CASE i \in ItemsOf(t.lines, t.order)
  <2>1. i \in DOMAIN t.lines BY <1>1, <1>2 DEF ItemsOf
  <2>2. t.lines[i] \in ItemRow /\ i \in DOMAIN items BY <2>1, LineInMemory
  <2>3. items' = [items EXCEPT ![i] = t.lines[i]] BY <1>2 DEF SaveRefundedItem
  <2> HIDE DEF t, i
  <2> QED BY <2>2, <2>3, ReplaceRow, TablesNow
<1>3. CASE i \notin ItemsOf(t.lines, t.order)
  <2>1. items' = items BY <1>3 DEF SaveRefundedItem
  <2> QED BY <2>1, TablesNow
<1> QED BY <1>2, <1>3

\* A refunded order is saved, and its reversal is signed after it; a forced refund
\* saves the reversal, the payment and the order together.
LEMMA SaveRefunds ==
  ASSUME LedgerInv, NEW w \in Workers, SaveRefund(w) \/ FinishForceRefund(w)
  PROVE  LedgerInv'
<1> DEFINE t == task[w]
           k == t.item
<1>1. PICK step \in {"saveRefund", "forceRefund"} : At(w, step)
  BY DEF SaveRefund, FinishForceRefund
<1>2. /\ t \in Task /\ t.at = step /\ TaskSound(t) /\ t.order \in Orders /\ t.row \in OrderRow
      /\ t.lines \in Seq(ItemRow) /\ Len(t.lines) <= Len(items) /\ requests' \in Nat
      /\ t.tse \in TseResult
  BY <1>1, TaskAt DEF Task
<1>3. t.held >= 0 /\ k \in DOMAIN payments /\ k \in Nat
  BY <1>2, RowOfOrder DEF TaskSound
<1>4. UNCHANGED <<stock, journal>> BY DEF SaveRefund, FinishForceRefund
<1>5. CASE SaveRefund(w)
  <2>1. UNCHANGED <<payments, audit>> BY <1>5 DEF SaveRefund
  <2>2. CASE SaveRefundedItem(t) /\ UNCHANGED orders /\ Done(w)
    <3>1. items' \in Seq(ItemRow) /\ Len(items') = Len(items) BY <1>1, <2>2, RefundedItemSaved
    <3>2. Tables' /\ Kept BY <1>4, <2>1, <2>2, <3>1, TablesKeep, TablesNow
    <3> QED BY <1>2, <2>2, <3>2, DoneStep
  <2> DEFINE n == [t EXCEPT !.at = "reverse", !.todo = {k}]
  <2>3. CASE SaveOrder(t.order, t.row, t.lines) /\ Go(w, n)
    <3>1. Tables' /\ Kept /\ Len(items') = Len(items)
      BY <1>2, <1>4, <2>1, <2>3, SaveOrderKeeps, TablesNow
    <3>2. n \in Task BY <1>2, <1>3 DEF Task, Steps
    <3>3. /\ n.order = t.order /\ n.lines = t.lines /\ n.held = t.held /\ n.at = "reverse"
          /\ n.todo = {k}
      BY <1>2 DEF Task
    <3>4. Go(w, n) /\ payments' = payments BY <2>1, <2>3
    <3> HIDE DEF n
    <3> QED BY <1>1, <1>2, <1>3, <3>1, <3>2, <3>3, <3>4, GoOn DEF RemovesOne
  <2> QED BY <1>5, <2>2, <2>3 DEF SaveRefund
<1>6. CASE FinishForceRefund(w)
  <2>1. Done(w) BY <1>6 DEF FinishForceRefund
  <2> DEFINE log(ok) == audit \cup {[action |-> "refund", order |-> t.order, ok |-> ok]}
  <2>2. log(FALSE) \subseteq AuditRow /\ log(TRUE) \subseteq AuditRow BY <1>2, AuditType
  <2>3. CASE audit' = log(FALSE) /\ UNCHANGED <<orders, items, payments>>
    <3>1. audit' \subseteq AuditRow BY <2>2, <2>3
    <3>2. Tables' /\ Kept BY <1>4, <2>3, <3>1, TablesKeep, TablesNow
    <3> QED BY <1>2, <2>1, <3>2, DoneStep
  <2>4. ASSUME NEW tse \in TseResult,
               payments' = [Append(payments, Reversal(k, tse))
                              EXCEPT ![k].status = "refunded", ![k].tse = t.tse],
               \/ SaveRefundedItem(t) /\ UNCHANGED <<orders, audit>>
               \/ SaveOrder(t.order, t.row, t.lines) /\ audit' = log(TRUE)
        PROVE  LedgerInv'
    <3> DEFINE row == Reversal(k, tse)
               all == Append(payments, row)
               paid == [all[k] EXCEPT !.status = "refunded", !.tse = t.tse]
    <3>1. row \in PaymentRow BY <1>3, PaymentType
    <3>2. payments' = [all EXCEPT ![k].status = "refunded", ![k].tse = t.tse] BY <2>4
    <3> HIDE DEF row
    <3>3. /\ all \in Seq(PaymentRow) /\ Len(all) = Len(payments) + 1 /\ k \in DOMAIN all
          /\ DOMAIN all = 1 .. Len(all)
      BY <1>3, <3>1, TablesNow
    <3> HIDE DEF all
    <3>4. all[k] \in PaymentRow BY <3>3
    <3>5. paid \in PaymentRow BY <1>2, <3>4 DEF PaymentRow
    <3>6. payments' = [all EXCEPT ![k] = paid] BY <3>2, <3>3, <3>4 DEF PaymentRow
    <3> HIDE DEF paid
    <3>7. payments' \in Seq(PaymentRow) /\ Len(payments') = Len(all)
      BY <3>3, <3>5, <3>6, ReplaceRow
    <3>8. Len(payments) <= Len(payments') BY <3>3, <3>7, TablesNow
    <3>9. CASE SaveRefundedItem(t) /\ UNCHANGED <<orders, audit>>
      <4>1. items' \in Seq(ItemRow) /\ Len(items') = Len(items) BY <1>1, <3>9, RefundedItemSaved
      <4>2. Tables' /\ Kept BY <1>4, <3>7, <3>8, <3>9, <4>1, TablesKeep, TablesNow
      <4> QED BY <1>2, <2>1, <4>2, DoneStep
    <3>10. CASE SaveOrder(t.order, t.row, t.lines) /\ audit' = log(TRUE)
      <4>1. audit' \subseteq AuditRow BY <2>2, <3>10
      <4>2. Tables' /\ Kept BY <1>2, <1>4, <3>7, <3>8, <3>10, <4>1, SaveOrderKeeps
      <4> QED BY <1>2, <2>1, <4>2, DoneStep
    <3> QED BY <2>4, <3>9, <3>10
  <2> QED BY <1>6, <2>3, <2>4 DEF FinishForceRefund
<1> QED BY <1>5, <1>6

\* Every step of a request in progress.
LEMMA ContinueKeeps ==
  ASSUME LedgerInv, NEW w \in Workers, Continue(w)
  PROVE  LedgerInv'
BY CartSteps, ReloadSteps, SaveRows, AdjustSteps, ReadProducts, RemoveSteps, MarkSteps, CancelSteps,
   ReverseSteps, PaySteps, RefundSteps, SaveRefunds
DEF Continue

\* The invariant is inductive, with interruptions.
LEMMA LedgerNext ==
  ASSUME LedgerInv, [FaultNext]_vars
  PROVE  LedgerInv'
<1>1. CASE UNCHANGED vars
  <2>1. Tables' /\ Kept /\ task' = task /\ requests' = requests
    BY <1>1, TablesStay DEF vars, tables
  <2> QED BY <2>1, OthersKeep DEF LedgerInv
<1>2. ASSUME NEW w \in Workers, Request(w) \/ Continue(w) PROVE LedgerInv'
  BY <1>2, RequestKeeps, ContinueKeeps
<1>3. ASSUME NEW w \in Workers, Interrupt(w) PROVE LedgerInv'
  <2>1. Done(w) /\ UNCHANGED tables /\ requests' = requests
    BY <1>3 DEF Interrupt, tables
  <2> QED BY <2>1, TablesStay, DoneStep DEF LedgerInv
<1> QED BY <1>1, <1>2, <1>3 DEF FaultNext, Next, Rest

\* Nothing was ordered yet.
LEMMA LedgerInit ==
  ASSUME Init
  PROVE  LedgerInv
<1>1. \A p \in Products : InitialStock[p] \in Nat BY LedgerAssumption
<1>2. stock \in [Products -> Int] /\ \A p \in Products : stock[p] >= 0
  BY <1>1, LedgerAssumption DEF Init
<1>3. items \in Seq(ItemRow) /\ payments \in Seq(PaymentRow) BY DEF Init
<1> QED BY <1>2, <1>3 DEF Init, LedgerInv, Tables, Sound

\* The inductive invariant holds, with and without interruptions.
LEMMA LedgerHolds == FaultSpec => []LedgerInv
<1> QED BY LedgerInit, LedgerNext, PTL DEF FaultSpec

\* However many requests run at the same time, and wherever they are interrupted, the
\* tables keep their types, and what a request in memory goes on with is there: its
\* order, the rows it names, and stock for the units it takes; no stock is negative.
THEOREM TypeCorrect == FaultSpec => []TypeOK
<1>1. LedgerInv => TypeOK BY DEF LedgerInv, Tables, Sound, TypeOK
<1> QED BY <1>1, LedgerHolds, PTL

-----------------------------------------------------------------------------
(* Reversals.                                                                *)

\* The ways the table of payments changes.
PaymentsStay == UNCHANGED payments

PaymentMade ==
  \E o \in Orders, a \in Nat, p \in [item : Nat, quantity : Nat] :
    payments' = Append(payments, NewPayment(o, a, p))

PaymentReversed ==
  \E k \in DOMAIN payments, tse \in TseResult : payments' = Append(payments, Reversal(k, tse))

PaymentMarked ==
  \E k \in DOMAIN payments, s \in {"captured", "refunded"}, tse \in TseResult :
    payments' = [payments EXCEPT ![k].status = s, ![k].tse = tse]

PaymentForced ==
  \E k \in DOMAIN payments, r \in TseResult, s \in {"captured", "refunded"}, tse \in TseResult :
    payments' = [Append(payments, Reversal(k, r)) EXCEPT ![k].status = s, ![k].tse = tse]

\* No step changes the table of payments in another way: no row is deleted, and the
\* order, the amount and the target of a row are never written again.
LEMMA PaymentWrites ==
  ASSUME LedgerInv, [FaultNext]_vars
  PROVE  PaymentsStay \/ PaymentMade \/ PaymentReversed \/ PaymentMarked \/ PaymentForced
<1>1. ASSUME NEW w \in Workers, Request(w) PROVE PaymentsStay
  BY <1>1
  DEF Request, CreateOrder, Update, AddItem, CreatePayment, ForceUpdateStatus, Remove,
      CompleteOrder, CancelOrder, PosCancelOrder, ForceCancelOrder, UpdateItem,
      CreateSplitPayment, RemoveItem, MarkItem, Refund, ForceRefund, tables, PaymentsStay
<1>2. ASSUME NEW w \in Workers, Charge(w) PROVE PaymentMade
  <2>1. At(w, "charge") BY <1>2 DEF Charge
  <2>2. /\ task[w].order \in Orders /\ task[w].amount \in Nat
        /\ task[w].part \in [item : Nat, quantity : Nat]
    BY <2>1, TaskAt DEF Task
  <2>3. NoPart \in [item : Nat, quantity : Nat] BY PaymentType
  <2> DEFINE part == IF task[w].op = "split" THEN task[w].part ELSE NoPart
  <2>4. part \in [item : Nat, quantity : Nat] BY <2>2, <2>3
  <2>5. payments' = Append(payments, NewPayment(task[w].order, task[w].amount, part))
    BY <1>2 DEF Charge
  <2> QED BY <2>2, <2>4, <2>5 DEF PaymentMade
<1>3. ASSUME NEW w \in Workers, ReversePayment(w) \/ ForceReversePayment(w)
      PROVE  PaymentReversed \/ PaymentsStay
  <2>1. PICK step \in {"reverse", "forceReverse"} : At(w, step)
    BY <1>3 DEF ReversePayment, ForceReversePayment
  <2>2. task[w].todo \subseteq DOMAIN payments BY <2>1, TaskAt DEF TaskSound
  <2> QED BY <1>3, <2>2 DEF ReversePayment, ForceReversePayment, PaymentReversed, PaymentsStay
<1>4. ASSUME NEW w \in Workers, SignPayment(w) PROVE PaymentMarked \/ PaymentsStay
  <2>1. At(w, "sign") BY <1>4 DEF SignPayment
  <2>2. task[w].item \in DOMAIN payments BY <2>1, TaskAt DEF TaskSound
  <2> QED BY <1>4, <2>2 DEF SignPayment, PaymentMarked, PaymentsStay
<1>5. ASSUME NEW w \in Workers, RefundPayment(w) PROVE PaymentMarked
  <2>1. At(w, "refundPayment") BY <1>5 DEF RefundPayment
  <2>2. task[w].item \in DOMAIN payments /\ task[w].tse \in TseResult
    BY <2>1, TaskAt DEF TaskSound, Task
  <2> QED BY <1>5, <2>2 DEF RefundPayment, PaymentMarked
<1>6. ASSUME NEW w \in Workers, FinishForceRefund(w) PROVE PaymentForced \/ PaymentsStay
  <2>1. At(w, "forceRefund") BY <1>6 DEF FinishForceRefund
  <2>2. task[w].item \in DOMAIN payments /\ task[w].tse \in TseResult
    BY <2>1, TaskAt DEF TaskSound, Task
  <2> QED BY <1>6, <2>2 DEF FinishForceRefund, PaymentForced, PaymentsStay
<1>7. ASSUME NEW w \in Workers, Continue(w),
             ~ Charge(w), ~ ReversePayment(w), ~ ForceReversePayment(w), ~ SignPayment(w),
             ~ RefundPayment(w), ~ FinishForceRefund(w)
      PROVE  PaymentsStay
  BY <1>7
  DEF Continue, AddLine, TakeStock, Recalculate, UpdateStatus, ZeroTotal, SaveRow, Adjust,
      SaveAdjustment, SaveUpdatedItem, DeleteItem, SaveMarked, AutoComplete, ReadProduct,
      RestoreItem, SoftRemove, CancelItem, SaveCancelled, ReversalsDone, ForceReversalsDone, Settle, RefundOrder, SaveRefund,
      tables, PaymentsStay
<1>8. ASSUME NEW w \in Workers, Interrupt(w) PROVE PaymentsStay
  BY <1>8 DEF Interrupt, tables, PaymentsStay
<1>9. CASE UNCHANGED vars BY <1>9 DEF vars, PaymentsStay
<1> QED BY <1>1, <1>2, <1>3, <1>4, <1>5, <1>6, <1>7, <1>8, <1>9 DEF FaultNext, Next, Rest

\* A payment that is added, reversed or marked leaves every reversal with its target.
LEMMA MirrorsNext ==
  ASSUME LedgerInv, ReversalMirrorsTarget,
         PaymentsStay \/ PaymentMade \/ PaymentReversed \/ PaymentMarked \/ PaymentForced
  PROVE  ReversalMirrorsTarget'
<1> DEFINE Same(a, b) == a.order = b.order /\ a.amount = b.amount /\ a.reverses = b.reverses
<1>1. /\ payments \in Seq(PaymentRow) /\ Len(payments) \in Nat
      /\ DOMAIN payments = 1 .. Len(payments)
  BY TablesNow
<1>2. \A k \in DOMAIN payments : payments[k].amount \in Int /\ payments[k].reverses \in Nat
  BY RowOfOrder DEF PaymentRow
<1>3. \A k \in DOMAIN payments :
        payments[k].reverses # 0 => payments[k].reverses \in DOMAIN payments
  BY <1>1, <1>2 DEF ReversalMirrorsTarget
<1>4. ASSUME DOMAIN payments' = DOMAIN payments,
             \A k \in DOMAIN payments : Same(payments'[k], payments[k])
      PROVE  ReversalMirrorsTarget'
  BY <1>2, <1>3, <1>4 DEF ReversalMirrorsTarget
<1>5. ASSUME NEW row, row.reverses # 0 =>
                        /\ row.reverses \in DOMAIN payments
                        /\ payments[row.reverses].order = row.order
                        /\ payments[row.reverses].amount = - row.amount,
             DOMAIN payments' = 1 .. Len(payments) + 1,
             \A k \in DOMAIN payments : Same(payments'[k], payments[k]),
             Same(payments'[Len(payments) + 1], row)
      PROVE  ReversalMirrorsTarget'
  BY <1>1, <1>2, <1>3, <1>5 DEF ReversalMirrorsTarget
<1>6. CASE PaymentsStay BY <1>6 DEF PaymentsStay, ReversalMirrorsTarget
<1>7. ASSUME NEW row \in PaymentRow, payments' = Append(payments, row)
      PROVE  /\ DOMAIN payments' = 1 .. Len(payments) + 1
             /\ \A k \in DOMAIN payments : Same(payments'[k], payments[k])
             /\ Same(payments'[Len(payments) + 1], row)
  BY <1>1, <1>7
<1>8. CASE PaymentMade
  <2>1. PICK row \in PaymentRow : payments' = Append(payments, row) /\ row.reverses = 0
    BY <1>8, PaymentType DEF PaymentMade, NewPayment
  <2> QED BY <1>5, <1>7, <2>1
<1>9. \A k \in DOMAIN payments, tse \in TseResult :
        LET row == Reversal(k, tse)
        IN  /\ row \in PaymentRow /\ row.reverses = k /\ payments[k].order = row.order
            /\ payments[k].amount = - row.amount
  BY <1>2, PaymentType DEF Reversal
<1>10. CASE PaymentReversed
  <2>1. PICK k \in DOMAIN payments, tse \in TseResult :
          payments' = Append(payments, Reversal(k, tse))
    BY <1>10 DEF PaymentReversed
  <2> QED BY <1>5, <1>7, <1>9, <2>1
<1>11. CASE PaymentMarked
  <2>1. PICK k \in DOMAIN payments, s \in {"captured", "refunded"}, tse \in TseResult :
          payments' = [payments EXCEPT ![k].status = s, ![k].tse = tse]
    BY <1>11 DEF PaymentMarked
  <2> DEFINE row == [payments[k] EXCEPT !.status = s, !.tse = tse]
  <2>2. \A i \in DOMAIN payments : payments[i] \in PaymentRow BY RowOfOrder
  <2>3. payments' = [payments EXCEPT ![k] = row] BY <1>1, <2>1, <2>2 DEF PaymentRow
  <2>4. Same(row, payments[k]) BY <2>2 DEF PaymentRow
  <2> HIDE DEF row
  <2>5. DOMAIN payments' = DOMAIN payments BY <2>3
  <2>6. \A i \in DOMAIN payments : Same(payments'[i], payments[i]) BY <2>3, <2>4
  <2> QED BY <1>4, <2>5, <2>6
<1>12. CASE PaymentForced
  <2>1. PICK k \in DOMAIN payments, r \in TseResult, s \in {"captured", "refunded"},
             tse \in TseResult :
          payments' = [Append(payments, Reversal(k, r)) EXCEPT ![k].status = s, ![k].tse = tse]
    BY <1>12 DEF PaymentForced
  <2> DEFINE row == Reversal(k, r)
             all == Append(payments, row)
  <2>2. row \in PaymentRow BY <1>9
  <2>3. payments' = [all EXCEPT ![k].status = s, ![k].tse = tse] BY <2>1
  <2>4. /\ row.reverses = k /\ payments[k].order = row.order /\ payments[k].amount = - row.amount
    BY <1>9
  <2> HIDE DEF row
  <2>5. /\ all \in Seq(PaymentRow) /\ DOMAIN all = 1 .. Len(payments) + 1
        /\ \A i \in DOMAIN payments : all[i] = payments[i]
        /\ all[Len(payments) + 1] = row
    BY <1>1, <2>2
  <2> HIDE DEF all
  <2>6. /\ DOMAIN payments' = 1 .. Len(payments) + 1
        /\ \A i \in DOMAIN all : Same(payments'[i], all[i])
    BY <2>3, <2>5 DEF PaymentRow
  <2>7. Len(payments) + 1 \in DOMAIN all BY <1>1, <2>5
  <2> QED BY <1>1, <1>5, <2>4, <2>5, <2>6, <2>7
<1> QED BY <1>6, <1>8, <1>10, <1>11, <1>12

\* Every reversal keeps an older payment of its order as its target, with the inverted
\* amount, however refunds, cancels and their forced forms overtake each other and
\* wherever they are interrupted.
THEOREM ReversalsMirror == FaultSpec => []ReversalMirrorsTarget
<1>1. Init => ReversalMirrorsTarget BY DEF Init, ReversalMirrorsTarget
<1>2. LedgerInv /\ ReversalMirrorsTarget /\ [FaultNext]_vars => ReversalMirrorsTarget'
  BY PaymentWrites, MirrorsNext
<1> QED BY <1>1, <1>2, LedgerHolds, PTL DEF FaultSpec

-----------------------------------------------------------------------------
(* The stock, when requests follow each other.  Two requests at the same time  *)
(* lose units (both save what they read before the other one wrote), so the    *)
(* theorem is about one worker; it may be interrupted anywhere but between     *)
(* the two saves of updateItem, where the units of the product are gone        *)
(* before the item has them.  Within a                                         *)
(* request NoStockLost is too weak to be inductive: the units of a line        *)
(* that was saved are still in stock until takeStock, and those of a removed   *)
(* item are back in stock while its row is still there.  Returned are the      *)
(* rows whose units are in stock at the moment.  The request also has to know  *)
(* the rows and the stock as they are when it writes them back.                *)

Counts(row, p) == row.product = p /\ row.live /\ row.status # "cancelled"

Returned(its, t) ==
  LET all == IF t.op = "removeItem" THEN {t.item} ELSE ItemsOf(t.lines, t.order)
  IN  IF t = Idle THEN {}
      ELSE CASE t.at = "takeStock" -> {Len(its)}
             [] t.at = "restore" -> all \ t.todo
             [] t.at = "restoreWrite" -> all \ (t.todo \cup {t.item})
             [] OTHER -> {}

Weight(its, p, R, i) == IF Counts(its[i], p) /\ i \notin R THEN its[i].quantity ELSE 0

Left(its, p, R) == [i \in DOMAIN its |-> Weight(its, p, R, i)]

Covers(held, its, R) ==
  \A p \in Tracked : held[p] + SumOver(DOMAIN its, Left(its, p, R)) >= InitialStock[p]

\* Between its two saves updateItem has moved the units the item still has.
Torn(t) == t # Idle /\ t.at = "saveItem"

InHand(t) ==
  IF Torn(t)
  THEN LET line == t.lines[t.item]
       IN  [p \in Products |->
              IF p = line.product THEN stock[p] - (line.quantity - t.amount) ELSE stock[p]]
  ELSE stock

\* The same rows but for paidQuantity.
SameButPaid(a, b) ==
  /\ a.order = b.order /\ a.product = b.product /\ a.quantity = b.quantity
  /\ a.status = b.status /\ a.live = b.live

Alike(a, b) == Len(a) = Len(b) /\ \A i \in 1 .. Len(a) : SameButPaid(a[i], b[i])

\* The steps a request makes with the items in memory.
UsesLines ==
  {"adjust", "saveStock", "saveItem", "restore", "restoreWrite", "mark", "saveDiscount",
   "saveTotals", "saveStatus", "saveFinal", "cancelItem", "cancelWrite", "forceReverse", "charge", "settle",
   "saveRefund", "forceRefund"}

Current(t, its, left) ==
  /\ t.at \in UsesLines => Alike(t.lines, its)
  /\ t.at = "takeStock" =>
       /\ its # <<>> /\ Counts(its[Len(its)], Head(t.cart).product)
       /\ its[Len(its)].quantity = Head(t.cart).quantity
       /\ t.held = left[Head(t.cart).product]
  /\ t.at \in {"saveStock", "restoreWrite", "cancelWrite"}
       => t.held = left[t.lines[t.item].product]
  /\ t.at \in {"adjust", "saveStock", "saveItem"}
       => its[t.item].live /\ its[t.item].status # "cancelled"

StockInv(w) ==
  /\ task[w] # Idle => Current(task[w], items, stock)
  /\ Covers(InHand(task[w]), items, Returned(items, task[w]))

\* Summands outside a part of the set are zero.
LEMMA SumFiltered ==
  ASSUME NEW S, NEW T \in SUBSET S, NEW f, NEW g, \A x \in S \ T : f[x] = 0,
         \A x \in T : f[x] = g[x]
  PROVE  SumOver(S, f) = SumOver(T, g)
<1>1. \A x \in S \ T : \A n : n \notin 1 .. f[x] OBVIOUS
<1>2. \A u : u \in Units(S, f) <=> u \in Units(T, g) BY <1>1, UnitsMember
<1>3. Units(S, f) = Units(T, g) BY <1>2
<1> QED BY <1>3 DEF SumOver, Units

\* A sum of which one summand may shrink, by no more than a grows.
LEMMA SumTrade ==
  ASSUME NEW D, IsFiniteSet(D), NEW E \in SUBSET D, NEW i \in D, NEW f, NEW g,
         \A x \in E : f[x] \in Nat, \A x \in D : g[x] \in Nat,
         \A x \in E \ {i} : f[x] <= g[x],
         NEW a \in Int, NEW b \in Int,
         a + (IF i \in E THEN f[i] ELSE 0) <= b + g[i]
  PROVE  a + SumOver(E, f) <= b + SumOver(D, g)
<1> DEFINE D0 == D \ {i}
           E0 == E \ {i}
<1>1. IsFiniteSet(D0) /\ IsFiniteSet(E0) /\ IsFiniteSet(E) BY FS_Subset
<1>2. SumOver(E0, f) <= SumOver(D0, g)
  <2>1. \A x \in D0 : g[x] \in Nat OBVIOUS
  <2>2. \A x \in E0 : f[x] \in Nat /\ f[x] <= g[x] OBVIOUS
  <2>3. E0 \in SUBSET D0 OBVIOUS
  <2> HIDE DEF D0, E0
  <2> QED BY <1>1, <2>1, <2>2, <2>3, SumGrows
<1>3. SumOver(D, g) = SumOver(D0, g) + g[i]
  <2>1. D0 \cup {i} = D /\ i \notin D0 OBVIOUS
  <2>2. \A x \in D0 \cup {i} : g[x] \in Nat OBVIOUS
  <2> HIDE DEF D0
  <2>3. SumOver(D0 \cup {i}, g) = SumOver(D0, g) + g[i] BY <1>1, <2>1, <2>2, SumAdd
  <2> QED BY <2>1, <2>3
<1>4. SumOver(E, f) = SumOver(E0, f) + (IF i \in E THEN f[i] ELSE 0)
  <2>1. CASE i \in E
    <3>1. E0 \cup {i} = E /\ i \notin E0 BY <2>1
    <3>2. \A x \in E0 \cup {i} : f[x] \in Nat BY <2>1
    <3> HIDE DEF E0
    <3>3. SumOver(E0 \cup {i}, f) = SumOver(E0, f) + f[i] BY <1>1, <3>1, <3>2, SumAdd
    <3> QED BY <2>1, <3>1, <3>3
  <2>2. CASE i \notin E
    <3>1. E0 = E BY <2>2
    <3>2. SumOver(E, f) \in Nat BY <1>1, SumType
    <3> QED BY <2>2, <3>1, <3>2
  <2> QED BY <2>1, <2>2
<1>5. SumOver(E0, f) \in Nat /\ SumOver(D0, g) \in Nat
  <2>1. (\A x \in E0 : f[x] \in Nat) /\ (\A x \in D0 : g[x] \in Nat) OBVIOUS
  <2> HIDE DEF E0, D0
  <2> QED BY <1>1, <2>1, SumType
<1>6. g[i] \in Nat /\ (IF i \in E THEN f[i] ELSE 0) \in Nat OBVIOUS
<1> DEFINE fi == IF i \in E THEN f[i] ELSE 0
           s == SumOver(E0, f)
           u == SumOver(D0, g)
           gi == g[i]
<1>7. s \in Nat /\ u \in Nat /\ fi \in Nat /\ gi \in Nat /\ s <= u /\ a + fi <= b + gi
  BY <1>2, <1>5, <1>6
<1> HIDE DEF s, u, fi, gi
<1>8. a + (s + fi) <= b + (u + gi) BY <1>7
<1> QED BY <1>3, <1>4, <1>8 DEF s, u, fi, gi

\* The weights are numbers.
LEMMA WeightType ==
  ASSUME NEW its \in Seq(ItemRow), NEW p, NEW R
  PROVE  /\ \A i \in DOMAIN its : Weight(its, p, R, i) \in Nat
         /\ \A i \in DOMAIN its : Left(its, p, R)[i] = Weight(its, p, R, i)
         /\ DOMAIN its = 1 .. Len(its) /\ Len(its) \in Nat /\ IsFiniteSet(DOMAIN its)
<1>1. DOMAIN its = 1 .. Len(its) /\ Len(its) \in Nat OBVIOUS
<1>2. \A i \in DOMAIN its : its[i] \in ItemRow OBVIOUS
<1>3. \A i \in DOMAIN its : its[i].quantity \in Nat BY <1>2 DEF ItemRow
<1>4. \A i \in DOMAIN its : Weight(its, p, R, i) \in Nat BY <1>3 DEF Weight
<1>5. IsFiniteSet(DOMAIN its) BY <1>1, FS_Interval
<1> QED BY <1>1, <1>4, <1>5 DEF Left

\* The rows may be written over, and one of them traded for units in stock.
LEMMA CoversTrade ==
  ASSUME NEW its \in Seq(ItemRow), NEW new \in Seq(ItemRow), Len(its) <= Len(new),
         NEW held \in [Products -> Int], NEW left \in [Products -> Int],
         NEW R, NEW Q, NEW i \in DOMAIN new,
         Covers(held, its, R),
         \A p \in Tracked : \A j \in DOMAIN its \ {i} : Weight(its, p, R, j) <= Weight(new, p, Q, j),
         \A p \in Tracked : held[p] + (IF i \in DOMAIN its THEN Weight(its, p, R, i) ELSE 0)
                              <= left[p] + Weight(new, p, Q, i)
  PROVE  Covers(left, new, Q)
<1> SUFFICES ASSUME NEW p \in Tracked
             PROVE  left[p] + SumOver(DOMAIN new, Left(new, p, Q)) >= InitialStock[p]
  BY DEF Covers
<1> DEFINE f == Left(its, p, R)
           g == Left(new, p, Q)
<1>1. /\ \A j \in DOMAIN its : Weight(its, p, R, j) \in Nat /\ f[j] = Weight(its, p, R, j)
      /\ DOMAIN its = 1 .. Len(its) /\ Len(its) \in Nat /\ IsFiniteSet(DOMAIN its)
  BY WeightType
<1>2. /\ \A j \in DOMAIN new : Weight(new, p, Q, j) \in Nat /\ g[j] = Weight(new, p, Q, j)
      /\ DOMAIN new = 1 .. Len(new) /\ Len(new) \in Nat /\ IsFiniteSet(DOMAIN new)
  BY WeightType
<1>3. DOMAIN its \in SUBSET DOMAIN new BY <1>1, <1>2
<1>4. p \in Products /\ InitialStock[p] \in Nat BY ProductAssumption, LedgerAssumption
<1>5. held[p] \in Int /\ left[p] \in Int BY <1>4
<1>6. held[p] + SumOver(DOMAIN its, f) >= InitialStock[p] BY DEF Covers
<1>7. held[p] + (IF i \in DOMAIN its THEN f[i] ELSE 0) <= left[p] + g[i] BY <1>1, <1>2
<1>8. \A j \in DOMAIN its \ {i} : f[j] <= g[j] BY <1>1, <1>2, <1>3
<1>9. (\A j \in DOMAIN its : f[j] \in Nat) /\ (\A j \in DOMAIN new : g[j] \in Nat)
  BY <1>1, <1>2
<1> DEFINE s == SumOver(DOMAIN its, f)
           u == SumOver(DOMAIN new, g)
<1> HIDE DEF f, g
<1>10. s \in Nat /\ u \in Nat BY <1>1, <1>2, <1>9, SumType
<1>11. held[p] + s <= left[p] + u BY <1>2, <1>3, <1>5, <1>7, <1>8, <1>9, SumTrade
<1> HIDE DEF s, u
<1> QED BY <1>4, <1>5, <1>6, <1>10, <1>11 DEF s, u, g

\* Without a trade.
LEMMA CoversGrows ==
  ASSUME NEW its \in Seq(ItemRow), NEW new \in Seq(ItemRow), Len(its) <= Len(new),
         NEW held \in [Products -> Int], NEW R, NEW Q, Covers(held, its, R),
         \A p \in Tracked : \A j \in DOMAIN its : Weight(its, p, R, j) <= Weight(new, p, Q, j)
  PROVE  Covers(held, new, Q)
<1>1. /\ DOMAIN its = 1 .. Len(its) /\ Len(its) \in Nat
      /\ DOMAIN new = 1 .. Len(new) /\ Len(new) \in Nat
  OBVIOUS
<1>2. CASE DOMAIN new = {}
  <2>1. DOMAIN its = {} BY <1>1, <1>2
  <2>2. \A p : Left(its, p, R) = Left(new, p, Q) BY <1>2, <2>1 DEF Left
  <2> QED BY <1>2, <2>1, <2>2 DEF Covers
<1>3. ASSUME NEW i \in DOMAIN new PROVE Covers(held, new, Q)
  <2>1. \A p \in Tracked : held[p] \in Int BY ProductAssumption
  <2>2. \A p \in Tracked : Weight(new, p, Q, i) \in Nat BY WeightType
  <2>3. \A p \in Tracked : held[p] + (IF i \in DOMAIN its THEN Weight(its, p, R, i) ELSE 0)
                             <= held[p] + Weight(new, p, Q, i)
    <3>1. \A p \in Tracked : i \in DOMAIN its => Weight(its, p, R, i) \in Nat BY WeightType
    <3> QED BY <2>1, <2>2, <3>1
  <2> QED BY <2>3, CoversTrade
<1> QED BY <1>2, <1>3

\* What the steps below rely on.
LEMMA StockFacts ==
  ASSUME LedgerInv, LedgerInv', NEW w \in Workers
  PROVE  /\ items \in Seq(ItemRow) /\ Len(items) \in Nat /\ DOMAIN items = 1 .. Len(items)
         /\ items' \in Seq(ItemRow) /\ Len(items') \in Nat /\ DOMAIN items' = 1 .. Len(items')
         /\ stock \in [Products -> Int] /\ stock' \in [Products -> Int]
         /\ \A n : Go(w, n) => task'[w] = n
         /\ Done(w) => task'[w] = Idle
BY DEF LedgerInv, Tables, Go, Done

\* The rows were written over by rows that are alike; no item lost its place.
LEMMA AlikeStep ==
  ASSUME LedgerInv, LedgerInv', NEW w \in Workers, StockInv(w), UNCHANGED stock,
         Alike(items, items'), NEW n, task'[w] = n, n = Idle \/ Current(n, items', stock'),
         ~ Torn(task[w]), ~ Torn(n),
         Returned(items', n) \subseteq Returned(items, task[w])
  PROVE  StockInv(w)'
<1> DEFINE R == Returned(items, task[w])
           Q == Returned(items', n)
<1>1. Covers(stock, items, R) BY DEF StockInv, InHand
<1>2. Len(items) <= Len(items') BY StockFacts DEF Alike
<1>3. \A p \in Tracked : \A j \in DOMAIN items : Weight(items, p, R, j) <= Weight(items', p, Q, j)
  <2>1. \A j \in DOMAIN items : items[j].quantity \in Nat BY RowOfOrder DEF ItemRow
  <2>2. \A j \in DOMAIN items : SameButPaid(items[j], items'[j]) BY StockFacts DEF Alike
  <2>3. Q \subseteq R OBVIOUS
  <2> HIDE DEF R, Q
  <2> QED BY <2>1, <2>2, <2>3 DEF Weight, Counts, SameButPaid
<1> HIDE DEF R, Q
<1>4. Covers(stock, items', Q) BY <1>1, <1>2, <1>3, StockFacts, CoversGrows
<1>5. (InHand(task[w]))' = stock' BY DEF InHand
<1> QED BY <1>4, <1>5 DEF StockInv, Q

\* Rows alike to rows alike are alike; the cascade writes such rows.
LEMMA AlikeFacts ==
  ASSUME NEW a \in Seq(ItemRow)
  PROVE  /\ Alike(a, a)
         /\ \A b \in Seq(ItemRow) : Alike(b, a) => \A o : Alike(a, CascadedItems(a, b, o))
         /\ \A o : Alike(PaidLines(a, o), a)
         /\ \A o : \A part \in [item : Nat, quantity : Nat] : Alike(UnpaidLines(a, o, part), a)
<1>0. Len(a) \in Nat /\ DOMAIN a = 1 .. Len(a) /\ \A i \in 1 .. Len(a) : a[i] \in ItemRow
  OBVIOUS
<1>1. Alike(a, a) BY DEF Alike, SameButPaid
<1>2. ASSUME NEW b \in Seq(ItemRow), Alike(b, a), NEW o PROVE Alike(a, CascadedItems(a, b, o))
  <2>1. Len(CascadedItems(a, b, o)) = Len(a) BY CascadedType
  <2>2. \A i \in 1 .. Len(a) : CascadedItems(a, b, o)[i] \in {a[i], b[i]}
    BY <1>0 DEF CascadedItems
  <2>3. \A i \in 1 .. Len(a) : SameButPaid(b[i], a[i]) BY <1>2 DEF Alike
  <2> QED BY <2>1, <2>2, <2>3 DEF Alike, SameButPaid
<1>3. ASSUME NEW o, NEW part \in [item : Nat, quantity : Nat]
      PROVE  Alike(PaidLines(a, o), a) /\ Alike(UnpaidLines(a, o, part), a)
  <2>1. Len(PaidLines(a, o)) = Len(a) /\ Len(UnpaidLines(a, o, part)) = Len(a) BY LinesType
  <2>2. \A i \in 1 .. Len(a) : SameButPaid(PaidLines(a, o)[i], a[i])
    BY <1>0 DEF PaidLines, SameButPaid, ItemRow
  <2>3. \A i \in 1 .. Len(a) : SameButPaid(UnpaidLines(a, o, part)[i], a[i])
    <3>1. CASE part.item \in ItemsOf(a, o)
      <4> DEFINE paid == a[part.item].paidQuantity
                 rest == IF paid - part.quantity < 0 THEN 0 ELSE paid - part.quantity
                 line == [a[part.item] EXCEPT !.paidQuantity = rest]
      <4>1. UnpaidLines(a, o, part) = [a EXCEPT ![part.item] = line]
        BY <3>1 DEF UnpaidLines
      <4>2. part.item \in 1 .. Len(a) BY <3>1, ItemsOfDomain
      <4>3. SameButPaid(line, a[part.item]) BY <1>0, <4>2 DEF SameButPaid, ItemRow
      <4> HIDE DEF line
      <4> QED BY <1>0, <4>1, <4>2, <4>3 DEF SameButPaid
    <3>2. CASE part.item \notin ItemsOf(a, o) BY <3>2 DEF UnpaidLines, SameButPaid
    <3> QED BY <3>1, <3>2
  <2> QED BY <2>1, <2>2, <2>3 DEF Alike
<1>4. \A o : Alike(PaidLines(a, o), a)
  <2>1. [item |-> 0, quantity |-> 0] \in [item : Nat, quantity : Nat] OBVIOUS
  <2> QED BY <1>3, <2>1
<1> QED BY <1>1, <1>2, <1>3, <1>4

\* A request that starts read the rows as they are.
LEMMA StartStock ==
  ASSUME LedgerInv, LedgerInv', NEW w \in Workers, StockInv(w), task[w] = Idle, UNCHANGED tables,
         NEW n, Go(w, n), Alike(n.lines, items), Returned(items, n) = {},
         n.at \notin {"takeStock", "saveStock", "saveItem", "restoreWrite", "cancelWrite"},
         n.at = "adjust" => items[n.item].live /\ items[n.item].status # "cancelled"
  PROVE  StockInv(w)'
<1>1. items' = items /\ stock' = stock BY DEF tables
<1>2. task'[w] = n BY StockFacts
<1>3. Current(n, items', stock') BY <1>1 DEF Current
<1>4. Alike(items, items') BY <1>1, StockFacts, AlikeFacts
<1>5. Returned(items', n) \subseteq Returned(items, task[w]) BY <1>1
<1>6. ~ Torn(task[w]) /\ ~ Torn(n) BY DEF Torn
<1> QED BY <1>1, <1>2, <1>3, <1>4, <1>5, <1>6, AlikeStep

\* Every request.
LEMMA RequestStock ==
  ASSUME LedgerInv, LedgerInv', NEW w \in Workers, StockInv(w), Request(w)
  PROVE  StockInv(w)'
<1> DEFINE Quick == {"saveDiscount", "addLine", "charge", "saveFinal", "mark", "refundPayment"}
<1>1. Alike(items, items) BY StockFacts, AlikeFacts
<1>2. \A n : n.at \in Quick \cup {"cancelItem", "forceReverse", "adjust", "forceRefund"}
               => Returned(items, n) = {}
  BY DEF Returned
<1>3. ASSUME NEW op, NEW at \in Quick, NEW o, NEW n, Accept(w, op), UNCHANGED tables, Go(w, n),
             n.at = at, n.lines = items
      PROVE  StockInv(w)'
  <2>1. task[w] = Idle BY <1>3 DEF Accept
  <2> QED BY <1>1, <1>2, <1>3, <2>1, StartStock
<1>4. ASSUME NEW o \in Orders, NEW op \in {"create", "posCreate"}, NEW d \in Discounts,
             NEW cart \in Carts, CreateOrder(w, op, o, d, cart)
      PROVE  StockInv(w)'
  <2>1. task[w] = Idle /\ items' = items /\ stock' = stock BY <1>4 DEF CreateOrder, Accept
  <2> DEFINE n == [Begin(op, IF cart = <<>> THEN "zeroTotal" ELSE "addLine", o)
                   EXCEPT !.row = NewOrder(d), !.cart = cart]
  <2>2. CASE UNCHANGED task BY <2>1, <2>2 DEF StockInv, InHand
  <2>3. CASE Go(w, n)
    <3>1. n.at \in {"zeroTotal", "addLine"} BY DEF Begin
    <3> HIDE DEF n
    <3>2. Current(n, items', stock') /\ Returned(items', n) = {} BY <3>1 DEF Current, Returned, UsesLines
    <3>3. Alike(items, items') BY <2>1, <1>1
    <3>4. task'[w] = n BY <2>3, StockFacts
    <3>5. ~ Torn(task[w]) /\ ~ Torn(n) BY <2>1, <3>1 DEF Torn
    <3> QED BY <2>1, <3>2, <3>3, <3>4, <3>5, AlikeStep
  <2> QED BY <1>4, <2>2, <2>3 DEF CreateOrder
<1>5. ASSUME NEW o \in Orders, NEW d \in Discounts, Update(w, o, d)
      PROVE  StockInv(w)'
  <2> DEFINE n == [Begin("update", "saveDiscount", o) EXCEPT !.row.discount = d]
  <2>1. n.at = "saveDiscount" /\ n.lines = items BY DEF Begin
  <2>2. Accept(w, "update") /\ UNCHANGED tables /\ Go(w, n) BY <1>5 DEF Update
  <2> HIDE DEF n
  <2> QED BY <1>3, <2>1, <2>2
<1>6. ASSUME NEW o \in Orders, NEW p \in Products, NEW q \in Quantities, AddItem(w, o, p, q)
      PROVE  StockInv(w)'
  <2> DEFINE n == [Begin("addItem", "addLine", o)
                   EXCEPT !.cart = <<[product |-> p, quantity |-> q]>>]
  <2>1. n.at = "addLine" /\ n.lines = items BY DEF Begin
  <2>2. Accept(w, "addItem") /\ UNCHANGED tables /\ Go(w, n) BY <1>6 DEF AddItem
  <2> HIDE DEF n
  <2> QED BY <1>3, <2>1, <2>2
<1>7. ASSUME NEW o \in Orders, NEW op \in {"pay", "posPay"}, NEW a \in Amounts, CreatePayment(w, op, o, a)
      PROVE  StockInv(w)'
  <2> DEFINE n == [Begin(op, "charge", o) EXCEPT !.amount = a]
  <2>1. n.at = "charge" /\ n.lines = items BY DEF Begin
  <2>2. Accept(w, op) /\ UNCHANGED tables /\ Go(w, n) BY <1>7 DEF CreatePayment
  <2> HIDE DEF n
  <2> QED BY <1>3, <2>1, <2>2
<1>8. ASSUME NEW o \in Orders, NEW s \in OrderStatus, ForceUpdateStatus(w, o, s)
      PROVE  StockInv(w)'
  <2> DEFINE n == [Begin("forceStatus", "saveFinal", o) EXCEPT !.row.status = s]
  <2>1. n.at = "saveFinal" /\ n.lines = items BY DEF Begin
  <2>2. Accept(w, "forceStatus") /\ UNCHANGED tables /\ Go(w, n) BY <1>8 DEF ForceUpdateStatus
  <2> HIDE DEF n
  <2> QED BY <1>3, <2>1, <2>2
<1>9. ASSUME NEW o \in Orders, CompleteOrder(w, o)
      PROVE  StockInv(w)'
  <2> DEFINE n == [Begin("complete", "saveFinal", o) EXCEPT !.row.status = "completed"]
  <2>1. n.at = "saveFinal" /\ n.lines = items BY DEF Begin
  <2>2. Accept(w, "complete") /\ UNCHANGED tables /\ Go(w, n) BY <1>9 DEF CompleteOrder
  <2> HIDE DEF n
  <2> QED BY <1>3, <2>1, <2>2
<1>10. ASSUME NEW i \in DOMAIN items, NEW op \in {"ready", "deliver"}, MarkItem(w, op, i)
      PROVE  StockInv(w)'
  <2> DEFINE n == [Begin(op, "mark", items[i].order) EXCEPT !.item = i]
  <2>1. n.at = "mark" /\ n.lines = items BY DEF Begin
  <2>2. Accept(w, op) /\ UNCHANGED tables /\ Go(w, n) BY <1>10 DEF MarkItem
  <2> HIDE DEF n
  <2> QED BY <1>3, <2>1, <2>2
<1>11. ASSUME NEW i \in DOMAIN items, NEW op \in {"split", "posSplit"}, NEW q \in Quantities, CreateSplitPayment(w, op, i, q)
      PROVE  StockInv(w)'
  <2> DEFINE n == [Begin(op, "charge", items[i].order)
                   EXCEPT !.amount = Price[items[i].product] * q,
                          !.part = [item |-> i, quantity |-> q]]
  <2>1. n.at = "charge" /\ n.lines = items BY DEF Begin
  <2>2. Accept(w, op) /\ UNCHANGED tables /\ Go(w, n) BY <1>11 DEF CreateSplitPayment
  <2> HIDE DEF n
  <2> QED BY <1>3, <2>1, <2>2
<1>12. ASSUME NEW k \in DOMAIN payments, Refund(w, k)
      PROVE  StockInv(w)'
  <2> DEFINE n == [Begin("refund", "refundPayment", payments[k].order)
                   EXCEPT !.item = k, !.tse = payments[k].tse]
  <2>1. n.at = "refundPayment" /\ n.lines = items BY DEF Begin
  <2>2. Accept(w, "refund") /\ UNCHANGED tables /\ Go(w, n) BY <1>12 DEF Refund
  <2> HIDE DEF n
  <2> QED BY <1>3, <2>1, <2>2
<1>13. ASSUME NEW o \in Orders, CancelOrder(w, o) \/ PosCancelOrder(w, o) \/ ForceCancelOrder(w, o)
      PROVE  StockInv(w)'
  <2>1. PICK op \in {"cancel", "posCancel", "forceCancel"}, at \in {"cancelItem", "forceReverse"},
             todo \in {ItemsOf(items, o), ActiveItems(items, o), CapturedOf(payments, o)} :
          /\ Accept(w, op) /\ UNCHANGED tables
          /\ Go(w, [Begin(op, at, o) EXCEPT !.todo = todo])
    BY <1>13 DEF CancelOrder, PosCancelOrder, ForceCancelOrder
  <2> DEFINE n == [Begin(op, at, o) EXCEPT !.todo = todo]
  <2>2. n.at = at /\ n.lines = items BY DEF Begin
  <2>3. Go(w, n) /\ task[w] = Idle BY <2>1 DEF Accept
  <2> HIDE DEF n
  <2> QED BY <1>1, <1>2, <2>1, <2>2, <2>3, StartStock
<1>14. ASSUME NEW o \in Orders, Remove(w, o) PROVE StockInv(w)'
  <2> DEFINE n == [Begin("remove", "restore", o) EXCEPT !.todo = ItemsOf(items, o)]
  <2>1. /\ n.at = "restore" /\ n.lines = items /\ n.order = o /\ n.op = "remove"
        /\ n.todo = ItemsOf(items, o)
    BY DEF Begin
  <2>2. task[w] = Idle /\ UNCHANGED tables /\ Go(w, n) BY <1>14 DEF Remove, Accept
  <2> HIDE DEF n
  <2>3. Returned(items, n) = {} BY <2>1 DEF Returned
  <2> QED BY <1>1, <2>1, <2>2, <2>3, StartStock
<1>15. ASSUME NEW i \in DOMAIN items, RemoveItem(w, i) PROVE StockInv(w)'
  <2> DEFINE n == [Begin("removeItem", "restore", items[i].order) EXCEPT !.item = i, !.todo = {i}]
  <2>1. /\ n.at = "restore" /\ n.lines = items /\ n.op = "removeItem" /\ n.item = i
        /\ n.todo = {i}
    BY DEF Begin
  <2>2. task[w] = Idle /\ UNCHANGED tables /\ Go(w, n) BY <1>15 DEF RemoveItem, Accept
  <2> HIDE DEF n
  <2>3. Returned(items, n) = {} BY <2>1 DEF Returned
  <2> QED BY <1>1, <2>1, <2>2, <2>3, StartStock
<1>16. ASSUME NEW i \in DOMAIN items, NEW q \in Quantities, UpdateItem(w, i, q)
      PROVE  StockInv(w)'
  <2> DEFINE n == [Begin("updateItem", "adjust", items[i].order) EXCEPT !.item = i, !.amount = q]
  <2>1. n.at = "adjust" /\ n.lines = items /\ n.item = i BY DEF Begin
  <2>2. /\ task[w] = Idle /\ UNCHANGED tables /\ Go(w, n)
        /\ items[i].live /\ items[i].status = "pending"
    BY <1>16 DEF UpdateItem, Accept
  <2> HIDE DEF n
  <2> QED BY <1>1, <1>2, <2>1, <2>2, StartStock
<1>17. ASSUME NEW k \in DOMAIN payments, ForceRefund(w, k) PROVE StockInv(w)'
  <2> DEFINE o == payments[k].order
             lines == UnpaidLines(items, o, payments[k].part)
             n == [Begin("forceRefund", "forceRefund", o)
                   EXCEPT !.item = k, !.tse = payments[k].tse,
                          !.row = WithPaymentStatus(Repaid(orders[o], payments[k].amount)),
                          !.lines = lines]
  <2>1. n.at = "forceRefund" /\ n.lines = lines BY DEF Begin
  <2>2. task[w] = Idle /\ UNCHANGED tables /\ Go(w, n) BY <1>17 DEF ForceRefund, Accept
  <2>3. Alike(lines, items)
    <3>1. payments[k].part \in [item : Nat, quantity : Nat] BY RowOfOrder DEF PaymentRow
    <3> QED BY <3>1, StockFacts, AlikeFacts
  <2> HIDE DEF n, lines
  <2> QED BY <1>2, <2>1, <2>2, <2>3, StartStock
<1> QED
  BY <1>4, <1>5, <1>6, <1>7, <1>8, <1>9, <1>10, <1>11, <1>12, <1>13, <1>14, <1>15, <1>16, <1>17
  DEF Request

\* A step that needs the rows no longer: the next one reads them again, or none follows.
LEMMA RestStock ==
  ASSUME LedgerInv, LedgerInv', NEW w \in Workers, StockInv(w), UNCHANGED stock,
         Alike(items, items'), NEW n, task'[w] = n, ~ Torn(task[w]),
         n = Idle \/ n.at \notin UsesLines \cup {"takeStock"}
  PROVE  StockInv(w)'
<1>1. Returned(items', n) = {} BY DEF Returned, UsesLines
<1>2. n = Idle \/ Current(n, items', stock') BY DEF Current, UsesLines
<1>3. ~ Torn(n) BY DEF Torn, UsesLines
<1> QED BY <1>1, <1>2, <1>3, AlikeStep

\* The request in progress.
LEMMA InProgress ==
  ASSUME LedgerInv, NEW w \in Workers, NEW step, At(w, step), StockInv(w)
  PROVE  /\ task[w] \in Task /\ task[w].at = step /\ TaskSound(task[w]) /\ RemovesOne(task[w])
         /\ Current(task[w], items, stock) /\ task[w] # Idle
         /\ step # "saveItem" =>
              ~ Torn(task[w]) /\ Covers(stock, items, Returned(items, task[w]))
BY TaskAt DEF At, StockInv, Torn, InHand

\* The invariant after a step that is not between the two saves of updateItem.
LEMMA WholeStock ==
  ASSUME NEW w \in Workers, ~ Torn(task'[w]),
         task'[w] # Idle => Current(task'[w], items', stock'),
         Covers(stock', items', Returned(items', task'[w]))
  PROVE  StockInv(w)'
<1>1. (InHand(task[w]))' = stock' BY DEF InHand
<1> QED BY <1>1 DEF StockInv

\* addItemToOrder: a line is saved before its units leave the stock.
LEMMA CartStock ==
  ASSUME LedgerInv, LedgerInv', NEW w \in Workers, StockInv(w), AddLine(w) \/ TakeStock(w)
  PROVE  StockInv(w)'
<1> DEFINE t == task[w]
           line == Head(t.cart)
           R == Returned(items, t)
<1>1. Covers(stock, items, R) /\ ~ Torn(t)
  <2>1. PICK step \in {"addLine", "takeStock"} : At(w, step) BY DEF AddLine, TakeStock
  <2> QED BY <2>1, InProgress
<1>2. CASE AddLine(w)
  <2>1. At(w, "addLine") /\ UNCHANGED stock BY <1>2 DEF AddLine
  <2>2. t \in Task /\ t.at = "addLine" /\ t # Idle BY <2>1, InProgress
  <2>3. R = {} BY <2>2 DEF Returned
  <2>4. CASE UNCHANGED items /\ Done(w)
    <3>1. task'[w] = Idle /\ Alike(items, items') BY <2>4, StockFacts, AlikeFacts
    <3> QED BY <1>1, <2>1, <3>1, RestStock
  <2> DEFINE item == NewItem(t.order, line.product, line.quantity)
             n == [t EXCEPT !.at = "takeStock", !.held = stock[line.product]]
  <2>5. CASE items' = Append(items, item) /\ Go(w, n)
    <3>1. /\ item.product = line.product /\ item.quantity = line.quantity
          /\ item.live /\ item.status = "pending"
      BY DEF NewItem
    <3>2. /\ n.at = "takeStock" /\ n.held = stock[line.product] /\ n.cart = t.cart /\ n # Idle
      BY <2>2, TaskIsNotIdle DEF Task, Idle
    <3>3. task'[w] = n BY <2>5, StockFacts
    <3> HIDE DEF item, n
    <3>4. /\ Len(items') = Len(items) + 1 /\ items'[Len(items')] = item
          /\ \A j \in DOMAIN items : items'[j] = items[j] /\ j # Len(items')
      BY <2>5, StockFacts
    <3>5. Returned(items', n) = {Len(items')} BY <3>2 DEF Returned
    <3>6. Current(n, items', stock')
      BY <2>1, <3>1, <3>2, <3>4, StockFacts DEF Current, Counts, UsesLines
    <3>7. \A p \in Tracked : \A j \in DOMAIN items :
            Weight(items, p, R, j) <= Weight(items', p, {Len(items')}, j)
      <4>1. \A j \in DOMAIN items : items[j].quantity \in Nat BY RowOfOrder DEF ItemRow
      <4> QED BY <2>3, <3>4, <4>1 DEF Weight
    <3>8. Covers(stock', items', {Len(items')})
      <4>1. Len(items) <= Len(items') BY <3>4, StockFacts
      <4> HIDE DEF R
      <4> QED BY <1>1, <2>1, <3>7, <4>1, StockFacts, CoversGrows
    <3>9. ~ Torn(n) BY <3>2 DEF Torn
    <3> QED BY <3>3, <3>5, <3>6, <3>8, <3>9, WholeStock
  <2> QED BY <1>2, <2>4, <2>5 DEF AddLine
<1>3. CASE TakeStock(w)
  <2> DEFINE at == IF Len(t.cart) > 1 THEN "addLine" ELSE "recalculate"
             n == [t EXCEPT !.cart = Tail(@), !.at = at]
             i == Len(items)
  <2>1. At(w, "takeStock") /\ UNCHANGED items BY <1>3 DEF TakeStock
  <2>2. t \in Task /\ t.at = "takeStock" /\ t # Idle /\ TaskSound(t) /\ Current(t, items, stock)
    BY <2>1, InProgress
  <2>3. /\ i \in DOMAIN items /\ Counts(items[i], line.product)
        /\ items[i].quantity = line.quantity /\ t.held = stock[line.product]
    BY <2>2, StockFacts DEF Current
  <2>4. R = {i} BY <2>2 DEF Returned
  <2>5. line.product \in Products /\ line.quantity \in Nat
    <3>1. items[i] \in ItemRow BY <2>3, RowOfOrder
    <3> QED BY <2>3, <3>1 DEF Counts, ItemRow
  <2>6. n.at = at BY <2>2 DEF Task
  <2>7. Go(w, n) BY <1>3 DEF TakeStock
  <2>8. task'[w] = n BY <2>7, StockFacts
  <2>9. at \in {"addLine", "recalculate"} OBVIOUS
  <2> HIDE DEF n, at
  <2>10. Returned(items', n) = {} BY <2>6, <2>9 DEF Returned
  <2>11. Current(n, items', stock') BY <2>6, <2>9 DEF Current, UsesLines
  <2>12. \A p \in Tracked : stock'[p] = IF p = line.product THEN stock[p] - line.quantity
                                        ELSE stock[p]
    <3>1. \/ line.product \in Tracked
             /\ stock' = [stock EXCEPT ![line.product] = t.held - line.quantity]
          \/ line.product \in Tracked
             /\ stock' = [stock EXCEPT ![line.product] = t.held + (- line.quantity)]
          \/ line.product \notin Tracked /\ stock' = stock
      BY <1>3 DEF TakeStock, MoveStock
    <3>2. stock[line.product] \in Int BY <2>5, StockNow
    <3>3. \A p \in Tracked : p \in Products BY ProductAssumption
    <3> HIDE DEF line, t
    <3> QED BY <2>3, <2>5, <3>1, <3>2, <3>3, StockFacts
  <2>13. \A p \in Tracked : \A j \in DOMAIN items \ {i} :
           Weight(items, p, R, j) <= Weight(items', p, {}, j)
    <3>1. \A j \in DOMAIN items : items[j].quantity \in Nat BY RowOfOrder DEF ItemRow
    <3> QED BY <2>1, <2>4, <3>1 DEF Weight
  <2>14. \A p \in Tracked : stock[p] + (IF i \in DOMAIN items THEN Weight(items, p, R, i) ELSE 0)
                              <= stock'[p] + Weight(items', p, {}, i)
    <3> TAKE p \in Tracked
    <3>1. stock[p] \in Int BY ProductAssumption, StockNow
    <3>2. Weight(items, p, R, i) = 0 BY <2>4 DEF Weight
    <3>3. Weight(items', p, {}, i) = IF p = line.product THEN line.quantity ELSE 0
      BY <2>1, <2>3 DEF Weight, Counts
    <3> HIDE DEF line
    <3> QED BY <2>5, <2>12, <3>1, <3>2, <3>3
  <2>15. Covers(stock', items', {})
    <3>1. i \in DOMAIN items' /\ Len(items) <= Len(items') BY <2>1, <2>3, StockFacts
    <3> HIDE DEF R, i
    <3> QED BY <1>1, <2>13, <2>14, <3>1, StockFacts, CoversTrade
  <2>16. ~ Torn(n) BY <2>6, <2>9 DEF Torn
  <2> QED BY <2>8, <2>10, <2>11, <2>15, <2>16, WholeStock
<1> QED BY <1>2, <1>3

\* The rows are read again.
LEMMA ReloadStock ==
  ASSUME LedgerInv, LedgerInv', NEW w \in Workers, StockInv(w),
         \/ Recalculate(w) \/ UpdateStatus(w) \/ ZeroTotal(w) \/ AutoComplete(w) \/ RefundOrder(w)
  PROVE  StockInv(w)'
<1> DEFINE t == task[w]
<1>1. UNCHANGED tables
  BY DEF Recalculate, UpdateStatus, ZeroTotal, AutoComplete, RefundOrder
<1>2. stock' = stock /\ items' = items BY <1>1 DEF tables
<1>3. PICK step \in Steps \ {"saveItem"} : At(w, step)
  BY DEF Recalculate, UpdateStatus, ZeroTotal, AutoComplete, RefundOrder, Steps
<1>4. t \in Task /\ TaskSound(t) /\ t.at = step /\ ~ Torn(t) BY <1>3, InProgress
<1>5. Alike(items, items') /\ Alike(items, items) BY <1>2, StockFacts, AlikeFacts
<1>6. ASSUME Done(w) PROVE StockInv(w)'
  BY <1>2, <1>4, <1>5, <1>6, RestStock, StockFacts
<1>7. ASSUME NEW n, Go(w, n), Alike(n.lines, items),
             n.at \in {"saveTotals", "saveStatus", "saveFinal", "saveRefund"}
      PROVE  StockInv(w)'
  <2>1. Returned(items', n) = {} /\ Current(n, items', stock')
    BY <1>2, <1>7 DEF Returned, Current
  <2>2. task'[w] = n BY <1>7, StockFacts
  <2>3. ~ Torn(n) BY <1>7 DEF Torn
  <2> QED BY <1>2, <1>4, <1>5, <2>1, <2>2, <2>3, AlikeStep
<1>8. ASSUME NEW at \in {"saveTotals", "saveStatus", "saveFinal"}, NEW row,
             Go(w, Reloaded(t, at, row))
      PROVE  StockInv(w)'
  <2> DEFINE n == Reloaded(t, at, row)
  <2>1. n.at = at /\ n.lines = items BY <1>4 DEF Reloaded, Task
  <2>2. Go(w, n) BY <1>8
  <2> HIDE DEF n
  <2> QED BY <1>5, <1>7, <2>1, <2>2
<1>9. CASE Recalculate(w) \/ UpdateStatus(w) \/ ZeroTotal(w)
  BY <1>6, <1>8, <1>9 DEF Recalculate, UpdateStatus, ZeroTotal
<1>10. CASE AutoComplete(w)
  <2> DEFINE n == [Begin("deliver", "saveFinal", t.order) EXCEPT !.row.status = "completed"]
  <2>1. n.at = "saveFinal" /\ n.lines = items BY DEF Begin
  <2>2. Go(w, n) \/ Done(w) BY <1>10 DEF AutoComplete
  <2> HIDE DEF n
  <2> QED BY <1>5, <1>6, <1>7, <2>1, <2>2
<1>11. CASE RefundOrder(w)
  <2> DEFINE lines == UnpaidLines(items, t.order, payments[t.item].part)
             row == WithPaymentStatus(Repaid(orders[t.order], payments[t.item].amount))
             n == [Reloaded(t, "saveRefund", row) EXCEPT !.lines = lines]
  <2>1. n.at = "saveRefund" /\ n.lines = lines BY <1>4 DEF Reloaded, Task
  <2>2. Go(w, n) \/ Done(w) BY <1>11 DEF RefundOrder
  <2>3. Alike(lines, items)
    <3>1. At(w, "refundOrder") BY <1>11 DEF RefundOrder
    <3>2. t.item \in DOMAIN payments BY <3>1, InProgress DEF TaskSound
    <3>3. payments[t.item].part \in [item : Nat, quantity : Nat]
      BY <3>2, RowOfOrder DEF PaymentRow
    <3> QED BY <3>3, StockFacts, AlikeFacts
  <2> HIDE DEF n, lines
  <2> QED BY <1>6, <1>7, <2>1, <2>2, <2>3
<1> QED BY <1>9, <1>10, <1>11

\* A saved order writes the rows that were read.
LEMMA SaveStock ==
  ASSUME LedgerInv, LedgerInv', NEW w \in Workers, StockInv(w),
         \/ \E step \in {"saveDiscount", "saveTotals", "saveStatus", "saveFinal"} : SaveRow(w, step)
         \/ SaveCancelled(w) \/ Settle(w) \/ SaveRefund(w) \/ FinishForceRefund(w)
  PROVE  StockInv(w)'
<1> DEFINE t == task[w]
<1>1. PICK step \in {"saveDiscount", "saveTotals", "saveStatus", "saveFinal", "cancelItem",
                     "settle", "saveRefund", "forceRefund"} :
        At(w, step) /\ UNCHANGED stock
  BY DEF SaveRow, SaveCancelled, Settle, SaveRefund, FinishForceRefund
<1>2. /\ t \in Task /\ t.at = step /\ TaskSound(t) /\ Current(t, items, stock)
      /\ t.lines \in Seq(ItemRow) /\ t.order \in Orders /\ ~ Torn(t)
  BY <1>1, InProgress DEF Task
<1>3. Alike(t.lines, items) BY <1>1, <1>2 DEF Current, UsesLines
<1>4. PICK lines \in {t.lines, PaidLines(t.lines, t.order)} :
        items' \in {items, CascadedItems(items, lines, t.order)} \/ SaveRefundedItem(t)
  BY DEF SaveRow, SaveCancelled, Settle, SaveRefund, FinishForceRefund, SaveOrder
<1>5. lines \in Seq(ItemRow) /\ Alike(lines, items)
  <2>1. NoPart \in [item : Nat, quantity : Nat] BY PaymentType
  <2>2. PaidLines(t.lines, t.order) \in Seq(ItemRow) BY <1>2, <2>1, LinesType
  <2>3. Alike(PaidLines(t.lines, t.order), t.lines) BY <1>2, AlikeFacts
  <2>4. Alike(PaidLines(t.lines, t.order), items)
    BY <1>3, <2>3 DEF Alike, SameButPaid
  <2> QED BY <1>2, <1>3, <2>2, <2>4
<1>6. Alike(items, items')
  <2>1. CASE items' \in {items, CascadedItems(items, lines, t.order)}
    BY <1>5, <2>1, StockFacts, AlikeFacts
  <2>2. CASE SaveRefundedItem(t)
    <3> DEFINE i == payments[t.item].part.item
    <3>1. items' \in {items, [items EXCEPT ![i] = t.lines[i]]} BY <2>2 DEF SaveRefundedItem
    <3>2. \A j \in DOMAIN items : SameButPaid(t.lines[j], items[j]) /\ SameButPaid(items[j], items[j])
      BY <1>3, StockFacts DEF Alike, SameButPaid
    <3>3. \A j \in DOMAIN items : items'[j] \in {items[j], t.lines[j]} BY <3>1
    <3>4. Len(items') = Len(items) BY <3>1, StockFacts
    <3> HIDE DEF i, t
    <3> QED BY <3>2, <3>3, <3>4, StockFacts DEF Alike, SameButPaid
  <2> QED BY <1>4, <2>1, <2>2
<1>7. PICK at \in {"recalculate", "zeroTotal", "status", "autoComplete", "reverse", "sign"} :
        \/ Done(w)
        \/ Go(w, [t EXCEPT !.at = at])
        \/ \E todo : Go(w, [t EXCEPT !.at = at, !.todo = todo])
  <2>1. AfterSave(t) # "done" => AfterSave(t) \in {"recalculate", "zeroTotal", "status", "autoComplete"}
    BY DEF AfterSave
  <2> QED BY <2>1 DEF SaveRow, SaveCancelled, Settle, SaveRefund, FinishForceRefund, GoTo
<1>8. CASE Done(w)
  <2>1. task'[w] = Idle BY <1>8, StockFacts
  <2> QED BY <1>1, <1>2, <1>6, <2>1, RestStock
<1>9. ASSUME NEW n, Go(w, n), n.at = at PROVE StockInv(w)'
  <2>1. task'[w] = n BY <1>9, StockFacts
  <2>2. n.at \notin UsesLines \cup {"takeStock"} BY <1>9 DEF UsesLines
  <2> QED BY <1>1, <1>2, <1>6, <2>1, <2>2, RestStock
<1>10. [t EXCEPT !.at = at].at = at BY <1>2 DEF Task
<1>11. \A todo : [t EXCEPT !.at = at, !.todo = todo].at = at BY <1>2 DEF Task
<1> QED BY <1>7, <1>8, <1>9, <1>10, <1>11

\* What is written to one product and one row, with the stock as it was read.
LEMMA MoveStockEffect ==
  ASSUME LedgerInv, NEW p \in Products, NEW q \in Int, MoveStock(p, stock[p], q)
  PROVE  \A r \in Tracked : stock'[r] = IF r = p THEN stock[r] + q ELSE stock[r]
<1>1. stock \in [Products -> Int] /\ stock[p] \in Int BY DEF LedgerInv, Tables
<1>2. \A r \in Tracked : r \in Products BY ProductAssumption
<1> QED BY <1>1, <1>2 DEF MoveStock

\* updateItem: the difference is taken out of the stock before the item has its new quantity.
LEMMA AdjustStock ==
  ASSUME LedgerInv, LedgerInv', NEW w \in Workers, StockInv(w), Adjust(w) \/ SaveAdjustment(w) \/ SaveUpdatedItem(w)
  PROVE  StockInv(w)'
<1> DEFINE t == task[w]
           i == t.item
           line == t.lines[i]
           R == Returned(items, t)
<1>1. CASE Adjust(w)
  <2> DEFINE n == [t EXCEPT !.at = "saveStock", !.held = stock[line.product]]
  <2>1. At(w, "adjust") /\ UNCHANGED tables BY <1>1 DEF Adjust
  <2>2. t \in Task /\ t.at = "adjust" /\ Current(t, items, stock) /\ ~ Torn(t) BY <2>1, InProgress
  <2>3. stock' = stock /\ items' = items /\ Alike(items, items')
    BY <2>1, StockFacts, AlikeFacts DEF tables
  <2>4. CASE Done(w) BY <2>2, <2>3, <2>4, StockFacts, RestStock
  <2>5. CASE Go(w, n)
    <3>1. n.at = "saveStock" /\ n.held = stock[line.product] /\ n.lines = t.lines /\ n.item = i
      BY <2>2 DEF Task
    <3>2. task'[w] = n BY <2>5, StockFacts
    <3> HIDE DEF n
    <3>3. Returned(items', n) = {} BY <3>1 DEF Returned
    <3>4. Current(n, items', stock') BY <2>2, <2>3, <3>1 DEF Current, UsesLines
    <3>5. ~ Torn(n) BY <3>1 DEF Torn
    <3> QED BY <2>2, <2>3, <3>2, <3>3, <3>4, <3>5, AlikeStep
  <2> QED BY <1>1, <2>4, <2>5 DEF Adjust
<1>2. CASE SaveAdjustment(w)
  <2> DEFINE n == [t EXCEPT !.at = "saveItem"]
             d == line.quantity - t.amount
  <2>1. At(w, "saveStock") BY <1>2 DEF SaveAdjustment
  <2>2. /\ t \in Task /\ t.at = "saveStock" /\ Current(t, items, stock) /\ TaskSound(t) /\ t # Idle
        /\ Covers(stock, items, R)
    BY <2>1, InProgress
  <2>3. i \in DOMAIN t.lines BY <2>2 DEF TaskSound
  <2>4. line.product \in Products /\ line.quantity \in Nat BY <2>1, <2>3, LineInMemory
  <2>5. t.amount \in Nat BY <2>2 DEF Task
  <2>6. t.held = stock[line.product] /\ items[i].live /\ items[i].status # "cancelled"
        /\ Alike(t.lines, items)
    BY <2>2 DEF Current, UsesLines
  <2>7. MoveStock(line.product, t.held, d) /\ Go(w, n) /\ items' = items
    BY <1>2 DEF SaveAdjustment, GoTo
  <2>8. n.at = "saveItem" /\ n.lines = t.lines /\ n.item = i /\ n.amount = t.amount
    BY <2>2 DEF Task
  <2>9. task'[w] = n BY <2>7, StockFacts
  <2> HIDE DEF n
  <2>10. R = {} /\ Returned(items', n) = {} BY <2>2, <2>8 DEF Returned
  <2>11. Current(n, items', stock') BY <2>6, <2>7, <2>8 DEF Current, UsesLines
  <2>12. d \in Int BY <2>4, <2>5
  <2>13. \A p \in Tracked : stock'[p] = IF p = line.product THEN stock[p] + d ELSE stock[p]
    <3>1. MoveStock(line.product, stock[line.product], d) BY <2>6, <2>7
    <3> HIDE DEF line, d, t
    <3> QED BY <2>4, <2>12, <3>1, MoveStockEffect
  <2>14. \A p \in Tracked : (InHand(task[w]))'[p] = stock[p]
    <3> TAKE p \in Tracked
    <3>1. stock[p] \in Int BY ProductAssumption, StockNow
    <3>2. n # Idle
      <4>1. n.op = t.op BY <2>2 DEF n, Task
      <4>2. t.op \in Operations BY <2>2 DEF Task
      <4> HIDE DEF t
      <4> QED BY <4>1, <4>2 DEF Idle, Operations
    <3>3. (InHand(task[w]))'[p] = IF p = line.product THEN stock'[p] - d ELSE stock'[p]
      BY <2>8, <2>9, <3>2, ProductAssumption DEF InHand, Torn
    <3> HIDE DEF line, d
    <3> QED BY <2>12, <2>13, <3>1, <3>3
  <2>15. Covers((InHand(task[w]))', items', {}) BY <2>2, <2>7, <2>10, <2>14 DEF Covers
  <2> QED BY <2>9, <2>10, <2>11, <2>15 DEF StockInv
<1>3. CASE SaveUpdatedItem(w)
  <2> DEFINE n == [t EXCEPT !.at = "recalculate"]
             d == line.quantity - t.amount
             row == [line EXCEPT !.quantity = t.amount]
             hand == InHand(t)
  <2>1. At(w, "saveItem") BY <1>3 DEF SaveUpdatedItem
  <2>2. t \in Task /\ t.at = "saveItem" /\ Current(t, items, stock) /\ TaskSound(t) /\ t # Idle
    BY <2>1, InProgress
  <2>3. i \in DOMAIN t.lines BY <2>2 DEF TaskSound
  <2>4. /\ i \in DOMAIN items /\ line \in ItemRow /\ line.product \in Products
        /\ line.quantity \in Nat
    BY <2>1, <2>3, LineInMemory
  <2>5. t.amount \in Nat BY <2>2 DEF Task
  <2>6. SameButPaid(line, items[i]) /\ items[i].live /\ items[i].status # "cancelled"
    <3>1. i \in 1 .. Len(t.lines) BY <2>2, <2>3 DEF Task
    <3> QED BY <2>2, <3>1 DEF Current, UsesLines, Alike
  <2>7. stock' = stock /\ Go(w, n) /\ items' = [items EXCEPT ![i] = row]
    BY <1>3 DEF SaveUpdatedItem, SaveItem, GoTo
  <2>8. n.at = "recalculate" BY <2>2 DEF Task
  <2>9. task'[w] = n BY <2>7, StockFacts
  <2> HIDE DEF n
  <2>10. R = {} /\ Returned(items', n) = {} /\ ~ Torn(n) BY <2>2, <2>8 DEF Returned, Torn
  <2>11. Current(n, items', stock') BY <2>8 DEF Current, UsesLines
  <2>12. /\ row.product = items[i].product /\ row.quantity = t.amount
         /\ row.live = items[i].live /\ row.status = items[i].status
    BY <2>4, <2>6 DEF SameButPaid, ItemRow
  <2>13. d \in Int BY <2>4, <2>5
  <2> HIDE DEF row
  <2>14. \A p \in Tracked : /\ hand[p] \in Int
                            /\ stock'[p] = IF p = line.product THEN hand[p] + d ELSE hand[p]
    <3> TAKE p \in Tracked
    <3>1. stock[p] \in Int BY ProductAssumption, StockNow
    <3>2. hand[p] = IF p = line.product THEN stock[p] - d ELSE stock[p]
      BY <2>2, ProductAssumption DEF InHand, Torn
    <3> HIDE DEF line, d, hand
    <3> QED BY <2>7, <2>13, <3>1, <3>2
  <2>15. DOMAIN items' = DOMAIN items /\ items'[i] = row
         /\ \A j \in DOMAIN items \ {i} : items'[j] = items[j]
    BY <2>4, <2>7, StockFacts
  <2>16. \A p \in Tracked : \A j \in DOMAIN items \ {i} :
           Weight(items, p, {}, j) <= Weight(items', p, {}, j)
    <3>1. \A j \in DOMAIN items : items[j].quantity \in Nat BY RowOfOrder DEF ItemRow
    <3> QED BY <2>15, <3>1 DEF Weight
  <2>17. \A p \in Tracked : hand[p] + (IF i \in DOMAIN items THEN Weight(items, p, {}, i) ELSE 0)
                              <= stock'[p] + Weight(items', p, {}, i)
    <3> TAKE p \in Tracked
    <3>1. Weight(items, p, {}, i) = IF p = line.product THEN line.quantity ELSE 0
      BY <2>6 DEF Weight, Counts, SameButPaid
    <3>2. Weight(items', p, {}, i) = IF p = line.product THEN t.amount ELSE 0
      BY <2>6, <2>12, <2>15 DEF Weight, Counts, SameButPaid
    <3> HIDE DEF line, t, hand
    <3> QED BY <2>4, <2>5, <2>14, <3>1, <3>2 DEF d
  <2>18. Covers(stock', items', {})
    <3>1. Covers(hand, items, {}) BY <2>10 DEF StockInv
    <3>2. i \in DOMAIN items' /\ Len(items) <= Len(items') BY <2>4, <2>15, StockFacts
    <3>3. hand \in [Products -> Int]
      <4>1. stock \in [Products -> Int] BY StockFacts
      <4>2. hand = [p \in Products |-> IF p = line.product THEN stock[p] - d ELSE stock[p]]
        BY <2>2, <4>1 DEF InHand, Torn
      <4> HIDE DEF line, d
      <4> QED BY <2>13, <4>1, <4>2
    <3> HIDE DEF i, hand
    <3> QED BY <2>14, <2>16, <2>17, <3>1, <3>2, <3>3, StockFacts, CoversTrade
  <2> QED BY <2>9, <2>10, <2>11, <2>18, WholeStock
<1> QED BY <1>1, <1>2, <1>3

\* markItemReady and markItemDelivered: a cancelled item that is marked counts again.
LEMMA MarkStock ==
  ASSUME LedgerInv, LedgerInv', NEW w \in Workers, StockInv(w), SaveMarked(w)
  PROVE  StockInv(w)'
<1> DEFINE t == task[w]
           i == t.item
           mark == IF t.op = "ready" THEN "ready" ELSE "delivered"
           row == [t.lines[i] EXCEPT !.status = mark]
           n == [t EXCEPT !.at = "status"]
<1>1. At(w, "mark") /\ UNCHANGED stock BY DEF SaveMarked
<1>2. t \in Task /\ t.at = "mark" /\ Current(t, items, stock) /\ TaskSound(t) BY <1>1, InProgress
<1>3. i \in DOMAIN t.lines BY <1>2 DEF TaskSound
<1>4. i \in DOMAIN items /\ t.lines[i] \in ItemRow BY <1>1, <1>3, LineInMemory
<1>5. SameButPaid(t.lines[i], items[i])
  <2>1. i \in 1 .. Len(t.lines) BY <1>2, <1>3 DEF Task
  <2> QED BY <1>2, <2>1 DEF Current, UsesLines, Alike
<1>6. items' = [items EXCEPT ![i] = row] /\ Go(w, n) BY DEF SaveMarked, SaveItem, GoTo
<1>7. n.at = "status" BY <1>2 DEF Task
<1>8. task'[w] = n BY <1>6, StockFacts
<1> HIDE DEF n
<1>9. Returned(items, t) = {} /\ Returned(items', n) = {} BY <1>2, <1>7 DEF Returned
<1>10. Current(n, items', stock') BY <1>7 DEF Current, UsesLines
<1>11. /\ row.product = items[i].product /\ row.quantity = items[i].quantity
       /\ row.live = items[i].live /\ row.status # "cancelled"
  BY <1>4, <1>5 DEF SameButPaid, ItemRow
<1> HIDE DEF row
<1>12. \A p \in Tracked : \A j \in DOMAIN items : Weight(items, p, {}, j) <= Weight(items', p, {}, j)
  <2>1. \A j \in DOMAIN items : items[j].quantity \in Nat BY RowOfOrder DEF ItemRow
  <2>2. items'[i] = row /\ \A j \in DOMAIN items \ {i} : items'[j] = items[j] BY <1>4, <1>6
  <2> HIDE DEF i
  <2> QED BY <1>11, <2>1, <2>2 DEF Weight, Counts
<1>13. Len(items) <= Len(items') BY <1>6, StockFacts
<1>14. Covers(stock, items, {}) BY <1>1, <1>9, InProgress
<1>15. Covers(stock', items', {}) BY <1>1, <1>12, <1>13, <1>14, StockFacts, CoversGrows
<1>16. ~ Torn(n) BY <1>7 DEF Torn
<1> QED BY <1>8, <1>9, <1>10, <1>15, <1>16, WholeStock

\* The product of the next item is read; no unit moves.
LEMMA ReadStock ==
  ASSUME LedgerInv, LedgerInv', NEW w \in Workers, StockInv(w),
         ReadProduct(w, "restore", "restoreWrite") \/ ReadProduct(w, "cancelItem", "cancelWrite")
  PROVE  StockInv(w)'
<1> DEFINE t == task[w]
<1>1. PICK step \in {"restore", "cancelItem"}, next \in {"restoreWrite", "cancelWrite"} :
        /\ step = "restore" <=> next = "restoreWrite"
        /\ ReadProduct(w, step, next)
  OBVIOUS
<1>2. At(w, step) /\ UNCHANGED tables BY <1>1 DEF ReadProduct
<1>3. PICK i \in t.todo :
        Go(w, [t EXCEPT !.at = next, !.item = i, !.todo = @ \ {i},
                        !.held = stock[t.lines[i].product]])
  BY <1>1 DEF ReadProduct
<1> DEFINE todo == t.todo \ {i}
           held == stock[t.lines[i].product]
           n == [t EXCEPT !.at = next, !.item = i, !.todo = todo, !.held = held]
<1>4. t \in Task /\ t.at = step /\ Current(t, items, stock) /\ RemovesOne(t) /\ t # Idle
  BY <1>2, InProgress
<1>5. stock' = stock /\ items' = items /\ Alike(items, items')
  BY <1>2, StockFacts, AlikeFacts DEF tables
<1>6. /\ n.at = next /\ n.item = i /\ n.todo = t.todo \ {i} /\ n.lines = t.lines /\ n.op = t.op
      /\ n.order = t.order /\ n.held = stock[t.lines[i].product]
  BY <1>4 DEF Task
<1>7. Go(w, n) BY <1>3, <1>4 DEF Task
<1>8. task'[w] = n BY <1>7, StockFacts
<1> HIDE DEF n
<1>9. n # Idle BY <1>1, <1>6, <1>8, <1>3, <1>4 DEF LedgerInv, Idle, n, Task
<1>10. Current(n, items', stock') BY <1>1, <1>4, <1>5, <1>6 DEF Current, UsesLines
<1>11. Returned(items', n) \subseteq Returned(items, t)
  <2>1. CASE step = "cancelItem"
    <3>1. n.at = "cancelWrite" BY <1>1, <1>6, <2>1
    <3> QED BY <3>1 DEF Returned
  <2>2. CASE step = "restore"
    <3>1. n.at = "restoreWrite" /\ t.at = "restore" BY <1>1, <1>4, <1>6, <2>2
    <3>2. t.op = "removeItem" => i = t.item BY <1>4, <3>1 DEF RemovesOne
    <3>3. n.todo \cup {n.item} = t.todo BY <1>6
    <3> QED BY <1>4, <1>6, <1>9, <3>1, <3>2, <3>3 DEF Returned
  <2> QED BY <2>1, <2>2
<1>12. ~ Torn(t) /\ ~ Torn(n) BY <1>1, <1>4, <1>6 DEF Torn
<1> QED BY <1>5, <1>8, <1>10, <1>11, <1>12, AlikeStep

\* restoreStockForItem: the units of an item are back in stock while its row is there;
\* a cancelled item loses the row's claim in the same step.
LEMMA RestoreStock ==
  ASSUME LedgerInv, LedgerInv', NEW w \in Workers, StockInv(w), RestoreItem(w) \/ CancelItem(w)
  PROVE  StockInv(w)'
<1> DEFINE t == task[w]
           i == t.item
           old == t.lines[i]
           line == [old EXCEPT !.status = "cancelled"]
           R == Returned(items, t)
           Q == Returned(items', task'[w])
<1>1. PICK step \in {"restoreWrite", "cancelWrite"} :
        At(w, step) /\ (step = "restoreWrite" <=> RestoreItem(w))
  BY DEF RestoreItem, CancelItem, At
<1>2. /\ t \in Task /\ t.at = step /\ Current(t, items, stock) /\ TaskSound(t) /\ t # Idle
      /\ RemovesOne(t)
  BY <1>1, InProgress
<1>3. i \in DOMAIN t.lines BY <1>2 DEF TaskSound
<1>4. i \in DOMAIN items /\ old \in ItemRow /\ old.product \in Products /\ old.quantity \in Nat
  BY <1>1, <1>3, LineInMemory
<1>5. SameButPaid(old, items[i]) /\ t.held = stock[old.product] /\ Alike(t.lines, items)
      /\ Len(t.lines) \in Nat /\ DOMAIN t.lines = 1 .. Len(t.lines)
  <2>1. i \in 1 .. Len(t.lines) /\ Len(t.lines) \in Nat /\ DOMAIN t.lines = 1 .. Len(t.lines)
    BY <1>2, <1>3 DEF Task
  <2> QED BY <1>2, <2>1 DEF Current, UsesLines, Alike
<1>6. /\ line.product = old.product /\ line.quantity = old.quantity /\ line.status = "cancelled"
      /\ line.order = old.order /\ line.live = old.live
  BY <1>4 DEF ItemRow
<1>7. MoveStock(old.product, stock[old.product], old.quantity)
  BY <1>5, <1>6 DEF RestoreItem, CancelItem
<1>8. \A p \in Tracked : stock'[p] = IF p = old.product THEN stock[p] + old.quantity ELSE stock[p]
  <2> HIDE DEF old
  <2> QED BY <1>4, <1>7, MoveStockEffect
<1>9. /\ DOMAIN items' = DOMAIN items /\ \A j \in DOMAIN items \ {i} : items'[j] = items[j]
      /\ Len(items') = Len(items)
      /\ Q \subseteq R \cup {i}
      /\ Current(task'[w], items', stock')
      /\ ~ Torn(task'[w])
  <2>1. CASE RestoreItem(w)
    <3> DEFINE n == [t EXCEPT !.at = "restore"]
    <3>1. UNCHANGED items /\ Go(w, n) BY <2>1 DEF RestoreItem, GoTo
    <3>2. /\ n.at = "restore" /\ n.todo = t.todo /\ n.lines = t.lines /\ n.op = t.op
          /\ n.order = t.order /\ n.item = i
      BY <1>2 DEF Task
    <3>3. task'[w] = n BY <3>1, StockFacts
    <3> HIDE DEF n
    <3>4. n # Idle BY <1>2, <3>1, <3>2 DEF n, Task, Idle
    <3>5. t.at = "restoreWrite" BY <1>1, <1>2, <2>1
    <3>6. Current(n, items', stock') BY <1>5, <3>1, <3>2 DEF Current, UsesLines
    <3> DEFINE all == IF t.op = "removeItem" THEN {i} ELSE ItemsOf(t.lines, t.order)
    <3>7. R = all \ (t.todo \cup {i}) BY <1>2, <3>5 DEF Returned
    <3>8. Q = all \ t.todo BY <3>2, <3>3, <3>4 DEF Returned
    <3>9. ~ Torn(n) BY <3>2 DEF Torn
    <3> HIDE DEF R, Q, all
    <3> QED BY <3>1, <3>3, <3>6, <3>7, <3>8, <3>9
  <2>2. CASE CancelItem(w)
    <3> DEFINE lines == [t.lines EXCEPT ![i] = line]
               n == [t EXCEPT !.at = "cancelItem", !.lines = lines]
    <3>1. items' = [items EXCEPT ![i] = line] /\ Go(w, n)
      BY <1>2, <2>2 DEF CancelItem, SaveItem, Task
    <3>2. n.at = "cancelItem" /\ n.lines = lines BY <1>2 DEF Task
    <3>3. task'[w] = n BY <3>1, StockFacts
    <3> HIDE DEF n
    <3>4. t.at = "cancelWrite" \/ t.at = "restoreWrite" BY <1>2
    <3>5. At(w, "cancelWrite") BY <2>2 DEF CancelItem
    <3>6. R = {} /\ Q = {} BY <1>2, <3>2, <3>3, <3>5 DEF Returned, At
    <3>7. Len(items') = Len(items) /\ DOMAIN items' = DOMAIN items /\ items'[i] = line
          /\ \A j \in DOMAIN items \ {i} : items'[j] = items[j]
      BY <1>4, <3>1, StockFacts
    <3>8. Alike(lines, items')
      <4>1. Len(lines) = Len(t.lines) /\ lines[i] = line
            /\ \A j \in DOMAIN t.lines \ {i} : lines[j] = t.lines[j]
        BY <1>3, <1>5
      <4> HIDE DEF lines, line, i, t
      <4> QED BY <1>5, <3>7, <4>1, StockFacts DEF Alike, SameButPaid
    <3>9. Current(n, items', stock') BY <3>2, <3>8 DEF Current, UsesLines
    <3>10. ~ Torn(n) BY <3>2 DEF Torn
    <3> HIDE DEF R, Q, line
    <3> QED BY <3>3, <3>6, <3>7, <3>9, <3>10
  <2> QED BY <2>1, <2>2
<1>10. \A p \in Tracked : \A j \in DOMAIN items \ {i} :
         Weight(items, p, R, j) <= Weight(items', p, Q, j)
  <2>1. \A j \in DOMAIN items : items[j].quantity \in Nat BY RowOfOrder DEF ItemRow
  <2> HIDE DEF R, Q, i
  <2> QED BY <1>9, <2>1 DEF Weight
<1>11. \A p \in Tracked : stock[p] + (IF i \in DOMAIN items THEN Weight(items, p, R, i) ELSE 0)
                             <= stock'[p] + Weight(items', p, Q, i)
  <2> TAKE p \in Tracked
  <2>1. stock[p] \in Int BY ProductAssumption, StockNow
  <2>2. Weight(items, p, R, i) \in {0, IF p = old.product THEN old.quantity ELSE 0}
    BY <1>5 DEF Weight, Counts, SameButPaid
  <2>3. Weight(items', p, Q, i) \in Nat BY <1>4, <1>9, StockFacts, WeightType
  <2> HIDE DEF old, Q, R
  <2> QED BY <1>4, <1>8, <2>1, <2>2, <2>3
<1>12. Covers(stock', items', Q)
  <2>1. Covers(stock, items, R) BY <1>1, InProgress
  <2>2. i \in DOMAIN items' /\ Len(items) <= Len(items') BY <1>4, <1>9, StockFacts
  <2> HIDE DEF i, R, Q
  <2> QED BY <1>10, <1>11, <2>1, <2>2, StockFacts, CoversTrade
<1> QED BY <1>9, <1>12, WholeStock

\* The rows of what was put back are removed; a refused removal leaves too much in stock.
LEMMA RemoveStock ==
  ASSUME LedgerInv, LedgerInv', NEW w \in Workers, StockInv(w), DeleteItem(w) \/ SoftRemove(w)
  PROVE  StockInv(w)'
<1> DEFINE t == task[w]
           R == Returned(items, t)
<1>1. /\ At(w, "restore") /\ UNCHANGED stock /\ t.todo = {}
      /\ t.op = "removeItem" <=> DeleteItem(w)
  BY DEF DeleteItem, SoftRemove
<1>2. t \in Task /\ t.at = "restore" /\ TaskSound(t) /\ t # Idle BY <1>1, InProgress
<1>3. R = IF t.op = "removeItem" THEN {t.item} ELSE ItemsOf(t.lines, t.order)
  BY <1>1, <1>2 DEF Returned
<1>4. /\ Len(items') = Len(items)
      /\ \A j \in DOMAIN items : items'[j] = items[j] \/ (j \in R /\ items'[j] = [items[j] EXCEPT !.live = FALSE])
  <2>1. CASE DeleteItem(w)
    <3>1. t.item \in DOMAIN t.lines BY <1>1, <1>2, <2>1 DEF TaskSound
    <3>2. t.item \in DOMAIN items BY <1>1, <3>1, LineInMemory
    <3>3. items' = [items EXCEPT ![t.item].live = FALSE] BY <2>1 DEF DeleteItem
    <3>4. t.item \in R BY <1>1, <1>3, <2>1
    <3> DEFINE i == t.item
               row == [items[i] EXCEPT !.live = FALSE]
    <3>5. items' = [items EXCEPT ![i] = row] /\ i \in DOMAIN items /\ i \in R BY <3>2, <3>3, <3>4
    <3> HIDE DEF R, t, row, i
    <3>6. /\ Len(items') = Len(items) /\ items'[i] = row
          /\ \A j \in DOMAIN items \ {i} : items'[j] = items[j]
      BY <3>5, StockFacts
    <3> QED BY <3>5, <3>6 DEF row
  <2>2. CASE SoftRemove(w)
    <3>1. t.op # "removeItem" BY <2>2 DEF SoftRemove
    <3>2. \/ items' = items
          \/ items' = [j \in DOMAIN items |->
                         IF j \in ItemsOf(t.lines, t.order)
                         THEN [items[j] EXCEPT !.live = FALSE] ELSE items[j]]
      BY <2>2 DEF SoftRemove
    <3>3. R = ItemsOf(t.lines, t.order) BY <1>3, <3>1
    <3>4. \/ items' = items
          \/ items' = [j \in DOMAIN items |->
                         IF j \in R THEN [items[j] EXCEPT !.live = FALSE] ELSE items[j]]
      BY <3>2, <3>3
    <3>5. DOMAIN items' = DOMAIN items BY <3>4
    <3>6. Len(items') = Len(items) BY <3>5, StockFacts
    <3> HIDE DEF R, t
    <3> QED BY <3>4, <3>6
  <2> QED BY <2>1, <2>2, <1>1 DEF DeleteItem, SoftRemove
<1>5. \A p \in Tracked : \A j \in DOMAIN items : Weight(items, p, R, j) <= Weight(items', p, {}, j)
  <2>1. \A j \in DOMAIN items : items[j].quantity \in Nat BY RowOfOrder DEF ItemRow
  <2>2. \A j \in DOMAIN items : items'[j].quantity \in Nat
    <3>1. \A j \in DOMAIN items' : items'[j] \in ItemRow BY StockFacts
    <3> QED BY <1>4, <3>1, StockFacts DEF ItemRow
  <2>3. \A j \in DOMAIN items : j \in R \/ items'[j] = items[j] BY <1>4
  <2>4. \A p : \A j \in DOMAIN items : Weight(items', p, {}, j) \in Nat BY <2>2 DEF Weight
  <2> HIDE DEF R
  <2>5. \A p : \A j \in R : Weight(items, p, R, j) = 0 BY DEF Weight
  <2>6. \A p : \A j \in DOMAIN items \ R : Weight(items, p, R, j) = Weight(items', p, {}, j)
    BY <2>3 DEF Weight, Counts
  <2> SUFFICES ASSUME NEW p \in Tracked, NEW j \in DOMAIN items
               PROVE  Weight(items, p, R, j) <= Weight(items', p, {}, j)
    OBVIOUS
  <2>7. Weight(items', p, {}, j) \in Nat BY <2>4
  <2> QED BY <2>5, <2>6, <2>7
<1>6. Covers(stock', items', {})
  <2>1. Covers(stock, items, R) BY <1>1, InProgress
  <2>2. Len(items) <= Len(items') BY <1>4, StockFacts
  <2> HIDE DEF R
  <2> QED BY <1>1, <1>5, <2>1, <2>2, StockFacts, CoversGrows
<1> DEFINE n == [t EXCEPT !.at = "recalculate"]
<1>7. Done(w) \/ Go(w, n) BY DEF DeleteItem, SoftRemove, GoTo
<1>8. n.at = "recalculate" BY <1>2 DEF Task
<1>9. task'[w] = Idle \/ task'[w] = n BY <1>7, StockFacts
<1> HIDE DEF n
<1>10. Returned(items', task'[w]) = {} BY <1>8, <1>9 DEF Returned
<1>11. task'[w] # Idle => Current(task'[w], items', stock') BY <1>8, <1>9 DEF Current, UsesLines
<1>12. ~ Torn(task'[w]) BY <1>8, <1>9 DEF Torn
<1> QED BY <1>6, <1>10, <1>11, <1>12, WholeStock

\* Payments and reversals move no unit; a split payment writes its item as it was read.
LEMMA MoneyStock ==
  ASSUME LedgerInv, LedgerInv', NEW w \in Workers, StockInv(w),
         \/ ReversePayment(w) \/ ReversalsDone(w) \/ ForceReversePayment(w) \/ ForceReversalsDone(w)
         \/ Charge(w) \/ SignPayment(w) \/ RefundPayment(w)
  PROVE  StockInv(w)'
<1> DEFINE t == task[w]
<1>1. PICK step \in {"reverse", "forceReverse", "charge", "sign", "refundPayment"} : At(w, step)
  BY DEF ReversePayment, ReversalsDone, ForceReversePayment, ForceReversalsDone, Charge,
         SignPayment, RefundPayment
<1>2. t \in Task /\ t.at = step /\ Current(t, items, stock) /\ TaskSound(t) /\ ~ Torn(t)
  BY <1>1, InProgress
<1>3. UNCHANGED stock
  BY DEF ReversePayment, ReversalsDone, ForceReversePayment, ForceReversalsDone, Charge,
         SignPayment, RefundPayment, tables
<1>4. CASE Charge(w)
  <2> DEFINE i == t.part.item
             split == t.op \in {"split", "posSplit"}
             paidLine == [t.lines[i] EXCEPT !.paidQuantity = @ + t.part.quantity]
             lines == IF split THEN [t.lines EXCEPT ![i] = paidLine] ELSE t.lines
             n == [t EXCEPT !.at = "settle", !.item = Len(payments) + 1, !.lines = lines]
  <2>1. At(w, "charge") /\ Go(w, n)
        /\ items' = IF split THEN [items EXCEPT ![i] = paidLine] ELSE items
    BY <1>2, <1>4 DEF Charge, SaveItem, Task
  <2>2. n.at = "settle" /\ n.lines = lines BY <1>2 DEF Task
  <2>3. task'[w] = n BY <2>1, StockFacts
  <2> HIDE DEF n
  <2>4. /\ Alike(t.lines, items) /\ Len(t.lines) \in Nat /\ DOMAIN t.lines = 1 .. Len(t.lines)
        /\ (split => i \in DOMAIN t.lines)
    BY <1>2, <2>1 DEF Current, UsesLines, At, TaskSound, Task
  <2>5. Alike(lines, items') /\ Alike(items, items')
    <3>1. CASE ~ split BY <2>1, <2>4, <3>1, StockFacts, AlikeFacts
    <3>2. CASE split
      <4>1. i \in DOMAIN items /\ t.lines[i] \in ItemRow BY <2>1, <2>4, <3>2, LineInMemory
      <4>2. SameButPaid(paidLine, t.lines[i]) BY <4>1 DEF SameButPaid, ItemRow
      <4>3. SameButPaid(t.lines[i], items[i]) BY <2>4, <3>2 DEF Alike
      <4>4. lines = [t.lines EXCEPT ![i] = paidLine] /\ items' = [items EXCEPT ![i] = paidLine]
        BY <2>1, <3>2
      <4> DEFINE old == t.lines
      <4>5. SameButPaid(paidLine, old[i]) BY <4>2
      <4> HIDE DEF paidLine, lines, i, old
      <4>6. /\ Len(lines) = Len(old) /\ lines[i] = paidLine
            /\ \A j \in DOMAIN old \ {i} : lines[j] = old[j]
        BY <2>4, <3>2, <4>4 DEF old
      <4>7. /\ Len(items') = Len(items) /\ items'[i] = paidLine
            /\ \A j \in DOMAIN items \ {i} : items'[j] = items[j]
        BY <4>1, <4>4, StockFacts
      <4>8. Alike(old, items) /\ DOMAIN old = 1 .. Len(old) BY <2>4 DEF old
      <4>9. SameButPaid(old[i], items[i]) BY <4>3 DEF old
      <4>10. \A j \in DOMAIN items : SameButPaid(items[j], items[j]) BY DEF SameButPaid
      <4>11. \A j \in DOMAIN old : SameButPaid(old[j], items[j]) BY <4>8 DEF Alike
      <4>12. SameButPaid(paidLine, items[i]) /\ SameButPaid(items[i], paidLine)
             /\ SameButPaid(paidLine, paidLine)
        BY <4>5, <4>9 DEF SameButPaid
      <4>13. Len(old) = Len(items) BY <4>8 DEF Alike
      <4>14. DOMAIN items = DOMAIN old BY <4>8, <4>13, StockFacts
      <4>15. \A j \in DOMAIN items : SameButPaid(items[j], items'[j])
        BY <4>7, <4>10, <4>12
      <4>16. \A j \in DOMAIN items : SameButPaid(lines[j], items'[j])
        BY <4>6, <4>7, <4>11, <4>12, <4>14
      <4> QED BY <4>6, <4>7, <4>13, <4>15, <4>16, StockFacts DEF Alike
    <3> QED BY <3>1, <3>2
  <2>6. Returned(items', n) = {} BY <2>2 DEF Returned
  <2>7. Current(n, items', stock') BY <2>2, <2>5 DEF Current, UsesLines
  <2>8. ~ Torn(n) BY <2>2 DEF Torn
  <2> QED BY <1>2, <1>3, <2>3, <2>5, <2>6, <2>7, <2>8, AlikeStep
<1>5. CASE ~ Charge(w)
  <2>1. items' = items
    BY <1>5 DEF ReversePayment, ReversalsDone, ForceReversePayment, ForceReversalsDone,
                SignPayment, RefundPayment, tables
  <2>2. Alike(items, items') BY <2>1, StockFacts, AlikeFacts
  <2>3. ASSUME Done(w) PROVE StockInv(w)' BY <1>2, <1>3, <2>2, <2>3, StockFacts, RestStock
  <2>4. CASE RefundPayment(w)
    <3> DEFINE n == [t EXCEPT !.at = "refundOrder"]
    <3>1. Go(w, n) BY <2>4 DEF RefundPayment, GoTo
    <3>2. n.at = "refundOrder" BY <1>2 DEF Task
    <3>3. task'[w] = n BY <3>1, StockFacts
    <3> HIDE DEF n
    <3>4. n.at \notin UsesLines \cup {"takeStock"} BY <3>2 DEF UsesLines
    <3> QED BY <1>2, <1>3, <2>2, <3>3, <3>4, RestStock
  <2>5. ASSUME NEW at \in {"reverse", "forceReverse", "cancelItem"}, NEW todo,
               at # "reverse" => step = "forceReverse",
               Go(w, [t EXCEPT !.at = at, !.todo = todo])
        PROVE  StockInv(w)'
    <3> DEFINE n == [t EXCEPT !.at = at, !.todo = todo]
    <3>1. Go(w, n) BY <2>5
    <3>2. n.at = at /\ n.lines = t.lines BY <1>2 DEF Task
    <3>3. task'[w] = n BY <3>1, StockFacts
    <3> HIDE DEF n
    <3>4. Returned(items', n) = {} BY <3>2 DEF Returned
    <3>5. Current(n, items', stock') BY <1>2, <2>1, <2>5, <3>2 DEF Current, UsesLines
    <3>6. ~ Torn(n) BY <3>2 DEF Torn
    <3> QED BY <1>2, <1>3, <2>2, <3>3, <3>4, <3>5, <3>6, AlikeStep
  <2>6. CASE ReversePayment(w) \/ ForceReversePayment(w)
    <3>1. \/ Done(w)
          \/ \E k \in t.todo : Go(w, [t EXCEPT !.todo = t.todo \ {k}])
      BY <1>2, <2>6 DEF ReversePayment, ForceReversePayment, Task
    <3>2. step \in {"reverse", "forceReverse"}
      BY <1>1, <2>6 DEF ReversePayment, ForceReversePayment, At
    <3>3. \A todo : [t EXCEPT !.todo = todo] = [t EXCEPT !.at = step, !.todo = todo]
      BY <1>2 DEF Task
    <3> QED BY <2>3, <2>5, <3>1, <3>2, <3>3
  <2>7. CASE ForceReversalsDone(w)
    <3>1. step = "forceReverse" BY <1>1, <2>7 DEF ForceReversalsDone, At
    <3> QED BY <2>5, <2>7, <3>1 DEF ForceReversalsDone
  <2>8. CASE ReversalsDone(w) \/ SignPayment(w) BY <2>3, <2>8 DEF ReversalsDone, SignPayment
  <2> QED BY <1>5, <2>4, <2>6, <2>7, <2>8
<1> QED BY <1>4, <1>5

\* Every step of a single worker.
LEMMA StockStep ==
  ASSUME LedgerInv, LedgerInv', NEW w, Workers = {w}, StockInv(w), [Next]_vars
  PROVE  StockInv(w)'
<1>1. CASE UNCHANGED vars BY <1>1 DEF vars, StockInv, InHand
<1>2. CASE Request(w) BY <1>2, RequestStock
<1>3. CASE Continue(w)
  BY <1>3, CartStock, ReloadStock, SaveStock, AdjustStock, MarkStock, ReadStock, RestoreStock,
     RemoveStock, MoneyStock
  DEF Continue
<1> QED BY <1>1, <1>2, <1>3 DEF Next, Rest

\* The same with interruptions, but none between the two saves of updateItem.
LEMMA StockNext ==
  ASSUME LedgerInv, LedgerInv', NEW w, Workers = {w}, StockInv(w), [FaultNext]_vars,
         [EndsWhole]_vars
  PROVE  StockInv(w)'
<1>1. CASE [Next]_vars BY <1>1, StockStep
<1>2. CASE Interrupt(w) /\ task[w].at # "saveItem"
  <2>1. Done(w) /\ stock' = stock /\ items' = items BY <1>2 DEF Interrupt, tables
  <2>2. task'[w] = Idle /\ Alike(items, items') BY <2>1, StockFacts, AlikeFacts
  <2>3. ~ Torn(task[w]) BY <1>2 DEF Torn
  <2> QED BY <2>1, <2>2, <2>3, RestStock
<1> QED BY <1>1, <1>2 DEF FaultNext, EndsWhole

\* No unit disappears between requests.
LEMMA StockCovers ==
  ASSUME LedgerInv, NEW w, Workers = {w}, StockInv(w)
  PROVE  NoStockLost
<1> SUFFICES ASSUME Quiet, NEW p \in Tracked
             PROVE  LET sold == {i \in DOMAIN items :
                                   /\ items[i].product = p /\ items[i].live
                                   /\ items[i].status # "cancelled"}
                    IN stock[p] + SumOver(sold, [i \in sold |-> items[i].quantity])
                         >= InitialStock[p]
  BY DEF NoStockLost
<1> DEFINE sold == {i \in DOMAIN items : /\ items[i].product = p /\ items[i].live
                                         /\ items[i].status # "cancelled"}
           f == Left(items, p, {})
           g == [i \in sold |-> items[i].quantity]
<1>1. Returned(items, task[w]) = {} /\ InHand(task[w]) = stock BY DEF Quiet, Returned, InHand, Torn
<1>2. stock[p] + SumOver(DOMAIN items, f) >= InitialStock[p] BY <1>1 DEF StockInv, Covers
<1>3. (\A i \in DOMAIN items \ sold : f[i] = 0) /\ (\A i \in sold : f[i] = g[i])
  BY DEF Left, Weight, Counts
<1>4. sold \in SUBSET DOMAIN items OBVIOUS
<1> HIDE DEF f, g, sold
<1>5. SumOver(DOMAIN items, f) = SumOver(sold, g) BY <1>3, <1>4, SumFiltered
<1> QED BY <1>2, <1>5 DEF sold, g

\* Nothing was sold.
LEMMA StockInit ==
  ASSUME Init, NEW w \in Workers
  PROVE  StockInv(w)
<1>1. items = <<>> /\ stock = InitialStock /\ task[w] = Idle BY DEF Init
<1>2. \A p \in Tracked : SumOver(DOMAIN items, Left(items, p, {})) = 0
  <2>1. DOMAIN items = {} BY <1>1
  <2>2. \A f : SumOver(DOMAIN items, f) = 0 BY <2>1, SumEmpty
  <2> QED BY <2>2
<1>3. \A p \in Tracked : InitialStock[p] \in Nat BY ProductAssumption, LedgerAssumption
<1>4. Returned(items, task[w]) = {} BY <1>1 DEF Returned
<1>5. Covers(stock, items, {})
  <2> SUFFICES ASSUME NEW p \in Tracked
               PROVE  stock[p] + SumOver(DOMAIN items, Left(items, p, {})) >= InitialStock[p]
    BY DEF Covers
  <2>1. stock[p] = InitialStock[p] /\ InitialStock[p] \in Nat BY <1>1, <1>3
  <2> QED BY <1>2, <2>1
<1>6. InHand(task[w]) = stock BY <1>1 DEF InHand, Torn
<1> QED BY <1>1, <1>4, <1>5, <1>6 DEF StockInv

\* The invariant of the stock holds, with one worker, wherever else it is interrupted.
LEMMA StockHolds ==
  ASSUME NEW w, Workers = {w}
  PROVE  FaultSpec /\ UpdatesEndWhole => []StockInv(w)
<1>1. Init => StockInv(w) BY StockInit
<1>2. LedgerInv /\ LedgerInv' /\ StockInv(w) /\ [FaultNext]_vars /\ [EndsWhole]_vars
      => StockInv(w)'
  BY StockNext
<1> QED BY <1>1, <1>2, LedgerHolds, PTL DEF FaultSpec, UpdatesEndWhole

\* With one request at a time, however the requests follow each other and wherever one is
\* interrupted except between the two saves of updateItem, no unit of a tracked product
\* disappears between them: createOrder, addItem, updateItem, removeItem, remove and the
\* cancels put back at least what they took.
THEOREM StockIsKept ==
  ASSUME NEW w, Workers = {w}
  PROVE  FaultSpec /\ UpdatesEndWhole => []NoStockLost
<1>1. FaultSpec /\ UpdatesEndWhole => []StockInv(w) BY StockHolds
<1>2. LedgerInv /\ StockInv(w) => NoStockLost BY StockCovers
<1> QED BY <1>1, <1>2, LedgerHolds, PTL

-----------------------------------------------------------------------------
(* Amounts.  What the payments of an order add up to, in any table of payments.  *)

Total(pays, S) ==
  LET In == {k \in S : pays[k].amount > 0}
      Out == {k \in S : pays[k].amount < 0}
  IN  SumOver(In, [k \in In |-> pays[k].amount]) - SumOver(Out, [k \in Out |-> - pays[k].amount])

Charged(pays, o) == {k \in DOMAIN pays : pays[k].order = o /\ pays[k].reverses = 0}
Refunded(pays, o) == {k \in DOMAIN pays : pays[k].order = o /\ pays[k].status = "refunded"}
Balance(pays, o) == Total(pays, Charged(pays, o)) - Total(pays, Refunded(pays, o))
Plain(pays) == \A k \in DOMAIN pays : pays[k].reverses # 0 => pays[pays[k].reverses].reverses = 0
Mirrors(pays) ==
  \A k \in DOMAIN pays :
    LET q == pays[k].reverses
    IN  q # 0 => q < k /\ pays[q].order = pays[k].order /\ pays[q].amount = - pays[k].amount
Positive(pays) == \A k \in DOMAIN pays : pays[k].reverses = 0 => pays[k].amount > 0

\* A total is a number.
LEMMA TotalType ==
  ASSUME NEW pays, NEW S, IsFiniteSet(S), \A k \in S : pays[k].amount \in Int
  PROVE  Total(pays, S) \in Int
<1> DEFINE In == {k \in S : pays[k].amount > 0}
           Out == {k \in S : pays[k].amount < 0}
           f == [k \in In |-> pays[k].amount]
           g == [k \in Out |-> - pays[k].amount]
<1>1. IsFiniteSet(In) /\ IsFiniteSet(Out) BY FS_Subset
<1>2. (\A k \in In : f[k] \in Nat) /\ (\A k \in Out : g[k] \in Nat) OBVIOUS
<1>3. Total(pays, S) = SumOver(In, f) - SumOver(Out, g) BY DEF Total
<1> HIDE DEF In, Out, f, g
<1>4. SumOver(In, f) \in Nat /\ SumOver(Out, g) \in Nat BY <1>1, <1>2, SumType
<1> QED BY <1>3, <1>4

\* Only the amounts count.
LEMMA TotalSame ==
  ASSUME NEW p, NEW q, NEW S, \A k \in S : p[k].amount = q[k].amount
  PROVE  Total(p, S) = Total(q, S)
<1> DEFINE In == {k \in S : p[k].amount > 0}
           Out == {k \in S : p[k].amount < 0}
<1>1. In = {k \in S : q[k].amount > 0} /\ Out = {k \in S : q[k].amount < 0} OBVIOUS
<1>2. [k \in In |-> p[k].amount] = [k \in In |-> q[k].amount] OBVIOUS
<1>3. [k \in Out |-> - p[k].amount] = [k \in Out |-> - q[k].amount] OBVIOUS
<1> QED BY <1>1, <1>2, <1>3 DEF Total

\* One more payment.
LEMMA TotalAdd ==
  ASSUME NEW pays, NEW S, IsFiniteSet(S), NEW x, x \notin S, \A k \in S \cup {x} : pays[k].amount \in Int
  PROVE  Total(pays, S \cup {x}) = Total(pays, S) + pays[x].amount
<1> DEFINE T == S \cup {x}
           In(U) == {k \in U : pays[k].amount > 0}
           Out(U) == {k \in U : pays[k].amount < 0}
           f(U) == [k \in In(U) |-> pays[k].amount]
           g(U) == [k \in Out(U) |-> - pays[k].amount]
           a == pays[x].amount
<1>1. \A U : Total(pays, U) = SumOver(In(U), f(U)) - SumOver(Out(U), g(U)) BY DEF Total
<1>2. IsFiniteSet(In(S)) /\ IsFiniteSet(Out(S)) /\ a \in Int BY FS_Subset
<1>3. /\ \A k \in In(T) : f(T)[k] \in Nat /\ f(T)[k] = pays[k].amount
      /\ \A k \in Out(T) : g(T)[k] \in Nat /\ g(T)[k] = - pays[k].amount
      /\ \A k \in In(S) : f(S)[k] \in Nat /\ f(S)[k] = pays[k].amount
      /\ \A k \in Out(S) : g(S)[k] \in Nat /\ g(S)[k] = - pays[k].amount
  OBVIOUS
<1>4. SumOver(In(S), f(S)) \in Nat /\ SumOver(Out(S), g(S)) \in Nat
  <2> HIDE DEF In, Out, f, g
  <2> QED BY <1>2, <1>3, SumType
<1>5. CASE a > 0
  <2>1. In(T) = In(S) \cup {x} /\ Out(T) = Out(S) /\ x \notin In(S) BY <1>5
  <2> HIDE DEF In, Out, f, g, T
  <2>2. SumOver(In(S) \cup {x}, f(T)) = SumOver(In(S), f(T)) + f(T)[x] BY <1>2, <1>3, <2>1, SumAdd
  <2>3. SumOver(In(S), f(T)) = SumOver(In(S), f(S)) BY <1>3, <2>1, SumSame
  <2>4. SumOver(Out(S), g(T)) = SumOver(Out(S), g(S)) BY <1>3, <2>1, SumSame
  <2>5. f(T)[x] = a BY <1>3, <2>1
  <2>6. /\ Total(pays, T) = SumOver(In(T), f(T)) - SumOver(Out(T), g(T))
        /\ Total(pays, S) = SumOver(In(S), f(S)) - SumOver(Out(S), g(S))
    BY <1>1
  <2> HIDE DEF a
  <2>7. Total(pays, T) = Total(pays, S) + a BY <1>2, <1>4, <2>1, <2>2, <2>3, <2>4, <2>5, <2>6
  <2> QED BY <2>7 DEF T, a
<1>6. CASE a < 0
  <2>1. In(T) = In(S) /\ Out(T) = Out(S) \cup {x} /\ x \notin Out(S) BY <1>6
  <2> HIDE DEF In, Out, f, g, T
  <2>2. SumOver(Out(S) \cup {x}, g(T)) = SumOver(Out(S), g(T)) + g(T)[x] BY <1>2, <1>3, <2>1, SumAdd
  <2>3. SumOver(In(S), f(T)) = SumOver(In(S), f(S)) BY <1>3, <2>1, SumSame
  <2>4. SumOver(Out(S), g(T)) = SumOver(Out(S), g(S)) BY <1>3, <2>1, SumSame
  <2>5. g(T)[x] = - a BY <1>3, <2>1
  <2>6. /\ Total(pays, T) = SumOver(In(T), f(T)) - SumOver(Out(T), g(T))
        /\ Total(pays, S) = SumOver(In(S), f(S)) - SumOver(Out(S), g(S))
    BY <1>1
  <2> HIDE DEF a
  <2>7. Total(pays, T) = Total(pays, S) + a BY <1>2, <1>4, <2>1, <2>2, <2>3, <2>4, <2>5, <2>6
  <2> QED BY <2>7 DEF T, a
<1>7. CASE a = 0
  <2>1. In(T) = In(S) /\ Out(T) = Out(S) BY <1>7
  <2> HIDE DEF In, Out, f, g, T
  <2>3. SumOver(In(S), f(T)) = SumOver(In(S), f(S)) BY <1>3, <2>1, SumSame
  <2>4. SumOver(Out(S), g(T)) = SumOver(Out(S), g(S)) BY <1>3, <2>1, SumSame
  <2>6. /\ Total(pays, T) = SumOver(In(T), f(T)) - SumOver(Out(T), g(T))
        /\ Total(pays, S) = SumOver(In(S), f(S)) - SumOver(Out(S), g(S))
    BY <1>1
  <2> HIDE DEF a
  <2>7. Total(pays, T) = Total(pays, S) + a BY <1>2, <1>4, <1>7, <2>1, <2>3, <2>4, <2>6
  <2> QED BY <2>7 DEF T, a
<1> QED BY <1>2, <1>5, <1>6, <1>7

\* The payments of an order are finitely many, their amounts numbers.
LEMMA PaymentsOf ==
  ASSUME NEW pays \in Seq(PaymentRow), NEW o
  PROVE  /\ IsFiniteSet(Charged(pays, o)) /\ IsFiniteSet(Refunded(pays, o))
         /\ Charged(pays, o) \subseteq DOMAIN pays /\ Refunded(pays, o) \subseteq DOMAIN pays
         /\ \A k \in DOMAIN pays : pays[k].amount \in Int /\ pays[k] \in PaymentRow
         /\ DOMAIN pays = 1 .. Len(pays) /\ Len(pays) \in Nat /\ Len(pays) + 1 \notin DOMAIN pays
         /\ Balance(pays, o) \in Int
<1>1. DOMAIN pays = 1 .. Len(pays) /\ Len(pays) \in Nat /\ Len(pays) + 1 \notin DOMAIN pays OBVIOUS
<1>2. Charged(pays, o) \subseteq DOMAIN pays /\ Refunded(pays, o) \subseteq DOMAIN pays BY DEF Charged, Refunded
<1>3. IsFiniteSet(1 .. Len(pays)) BY <1>1, FS_Interval
<1>4. IsFiniteSet(Charged(pays, o)) /\ IsFiniteSet(Refunded(pays, o)) BY <1>1, <1>2, <1>3, FS_Subset
<1>5. \A k \in DOMAIN pays : pays[k].amount \in Int /\ pays[k] \in PaymentRow
  <2>1. \A k \in DOMAIN pays : pays[k] \in PaymentRow OBVIOUS
  <2> QED BY <2>1 DEF PaymentRow
<1>6. Total(pays, Charged(pays, o)) \in Int /\ Total(pays, Refunded(pays, o)) \in Int BY <1>2, <1>4, <1>5, TotalType
<1> QED BY <1>1, <1>2, <1>4, <1>5, <1>6 DEF Balance

\* The order and the amount of the payments, and whether they were refunded.
SameMoney(p, q, k) ==
  /\ q[k].order = p[k].order /\ q[k].amount = p[k].amount /\ q[k].reverses = p[k].reverses
  /\ q[k].status = p[k].status

\* Payments of the same money leave the balance of every order as it is.
LEMMA BalanceSame ==
  ASSUME NEW p, NEW q, DOMAIN q = DOMAIN p, \A k \in DOMAIN p : SameMoney(p, q, k), NEW o
  PROVE  Balance(q, o) = Balance(p, o)
<1>1. Charged(q, o) = Charged(p, o) /\ Refunded(q, o) = Refunded(p, o) BY DEF Charged, Refunded, SameMoney
<1>2. \A k \in Charged(p, o) \cup Refunded(p, o) : q[k].amount = p[k].amount BY DEF SameMoney, Charged, Refunded
<1>3. /\ Total(q, Charged(p, o)) = Total(p, Charged(p, o))
      /\ Total(q, Refunded(p, o)) = Total(p, Refunded(p, o))
  BY <1>2, TotalSame
<1> QED BY <1>1, <1>3 DEF Balance

\* A payment is added, or a reversal, which only counts when it is refunded.
LEMMA BalanceAppended ==
  ASSUME NEW p \in Seq(PaymentRow), NEW row \in PaymentRow, row.status = "captured", NEW o
  PROVE  Balance(Append(p, row), o) =
           Balance(p, o) + (IF row.order = o /\ row.reverses = 0 THEN row.amount ELSE 0)
<1>1. PICK q : q = Append(p, row) OBVIOUS
<1>2. PICK x : x = Len(p) + 1 OBVIOUS
<1>3. /\ DOMAIN p = 1 .. Len(p) /\ Len(p) \in Nat /\ x \notin DOMAIN p
      /\ IsFiniteSet(Charged(p, o)) /\ IsFiniteSet(Refunded(p, o))
      /\ Charged(p, o) \subseteq DOMAIN p /\ Refunded(p, o) \subseteq DOMAIN p
      /\ \A k \in DOMAIN p : p[k].amount \in Int
      /\ Balance(p, o) \in Int
  BY <1>2, PaymentsOf
<1>4. q \in Seq(PaymentRow) /\ DOMAIN q = DOMAIN p \cup {x} /\ q[x] = row /\ \A k \in DOMAIN p : q[k] = p[k]
  BY <1>1, <1>2, <1>3
<1>5. row.amount \in Int BY DEF PaymentRow
<1>6. /\ Total(q, Charged(p, o)) = Total(p, Charged(p, o)) /\ Total(p, Charged(p, o)) \in Int
      /\ Total(q, Refunded(p, o)) = Total(p, Refunded(p, o)) /\ Total(p, Refunded(p, o)) \in Int
  BY <1>3, <1>4, TotalSame, TotalType
<1>7. Refunded(q, o) = Refunded(p, o) BY <1>3, <1>4 DEF Refunded
<1>8. CASE row.order = o /\ row.reverses = 0
  <2>1. Charged(q, o) = Charged(p, o) \cup {x} BY <1>4, <1>8 DEF Charged
  <2>2. x \notin Charged(p, o) /\ \A k \in Charged(p, o) \cup {x} : q[k].amount \in Int BY <1>3, <1>4, <1>5
  <2>3. Total(q, Charged(p, o) \cup {x}) = Total(q, Charged(p, o)) + q[x].amount BY <1>3, <2>2, TotalAdd
  <2> QED BY <1>1, <1>4, <1>5, <1>6, <1>7, <1>8, <2>1, <2>3 DEF Balance
<1>9. CASE ~ (row.order = o /\ row.reverses = 0)
  <2>1. Charged(q, o) = Charged(p, o) BY <1>3, <1>4, <1>9 DEF Charged
  <2> QED BY <1>1, <1>3, <1>6, <1>7, <1>9, <2>1 DEF Balance
<1> QED BY <1>8, <1>9

\* A payment is refunded.
LEMMA BalanceRefunded ==
  ASSUME NEW p \in Seq(PaymentRow), NEW x \in DOMAIN p, p[x].status = "captured",
         NEW q, DOMAIN q = DOMAIN p, \A k \in DOMAIN p \ {x} : SameMoney(p, q, k),
         q[x].order = p[x].order, q[x].amount = p[x].amount, q[x].reverses = p[x].reverses,
         q[x].status = "refunded", NEW o
  PROVE  Balance(q, o) = Balance(p, o) - (IF p[x].order = o THEN p[x].amount ELSE 0)
<1>1. /\ IsFiniteSet(Charged(p, o)) /\ IsFiniteSet(Refunded(p, o))
      /\ Charged(p, o) \subseteq DOMAIN p /\ Refunded(p, o) \subseteq DOMAIN p
      /\ \A k \in DOMAIN p : p[k].amount \in Int
      /\ Balance(p, o) \in Int
  BY PaymentsOf
<1>2. \A k \in DOMAIN p : q[k].amount = p[k].amount BY DEF SameMoney
<1>3. /\ Total(q, Charged(p, o)) = Total(p, Charged(p, o)) /\ Total(p, Charged(p, o)) \in Int
      /\ Total(q, Refunded(p, o)) = Total(p, Refunded(p, o)) /\ Total(p, Refunded(p, o)) \in Int
  BY <1>1, <1>2, TotalSame, TotalType
<1>4. Charged(q, o) = Charged(p, o) BY DEF Charged, SameMoney
<1>5. CASE p[x].order = o
  <2>1. Refunded(q, o) = Refunded(p, o) \cup {x} /\ x \notin Refunded(p, o) BY <1>5 DEF Refunded, SameMoney
  <2>2. \A k \in Refunded(p, o) \cup {x} : q[k].amount \in Int BY <1>1, <1>2
  <2>3. Total(q, Refunded(p, o) \cup {x}) = Total(q, Refunded(p, o)) + q[x].amount BY <1>1, <2>1, <2>2, TotalAdd
  <2>4. q[x].amount = p[x].amount /\ p[x].amount \in Int BY <1>1, <1>2
  <2> QED BY <1>3, <1>4, <1>5, <2>1, <2>3, <2>4 DEF Balance
<1>6. CASE p[x].order # o
  <2>1. Refunded(q, o) = Refunded(p, o) BY <1>6 DEF Refunded, SameMoney
  <2> QED BY <1>1, <1>3, <1>4, <1>6, <2>1 DEF Balance
<1> QED BY <1>5, <1>6

\* Where no reversal was reversed, not more was refunded than was paid.
LEMMA BalanceCovers ==
  ASSUME NEW p \in Seq(PaymentRow), Plain(p), Mirrors(p), Positive(p), NEW o
  PROVE  Balance(p, o) >= 0
<1> DEFINE A == Charged(p, o)
           B == Refunded(p, o)
           In(U) == {k \in U : p[k].amount > 0}
           Out(U) == {k \in U : p[k].amount < 0}
           f(U) == [k \in In(U) |-> p[k].amount]
           g(U) == [k \in Out(U) |-> - p[k].amount]
<1>1. /\ IsFiniteSet(A) /\ IsFiniteSet(B) /\ A \subseteq DOMAIN p /\ B \subseteq DOMAIN p
      /\ \A k \in DOMAIN p : p[k].amount \in Int /\ p[k] \in PaymentRow
      /\ DOMAIN p = 1 .. Len(p) /\ Len(p) \in Nat
  BY PaymentsOf
<1>2. \A U : Total(p, U) = SumOver(In(U), f(U)) - SumOver(Out(U), g(U)) BY DEF Total
<1>3. Out(A) = {}
  <2>1. \A k \in A : p[k].amount > 0 /\ p[k].amount \in Int BY <1>1 DEF Charged, Positive
  <2> QED BY <2>1
<1>4. In(B) \subseteq In(A)
  <2> SUFFICES ASSUME NEW k \in B, p[k].amount > 0 PROVE p[k].reverses = 0 BY DEF Charged, Refunded
  <2>1. SUFFICES ASSUME p[k].reverses # 0 PROVE FALSE OBVIOUS
  <2>2. PICK r : r = p[k].reverses OBVIOUS
  <2>3. k \in DOMAIN p /\ r \in Nat /\ r < k /\ p[r].amount = - p[k].amount /\ p[r].reverses = 0
    BY <1>1, <2>1, <2>2 DEF Mirrors, Plain, PaymentRow
  <2>4. r \in DOMAIN p BY <1>1, <2>1, <2>2, <2>3
  <2>5. p[r].amount > 0 BY <2>3, <2>4 DEF Positive
  <2> QED BY <1>1, <2>3, <2>5
<1>5. IsFiniteSet(In(A)) /\ IsFiniteSet(Out(B)) /\ IsFiniteSet(In(B)) BY <1>1, FS_Subset
<1>6. /\ \A k \in In(A) : f(A)[k] \in Nat /\ f(A)[k] = p[k].amount
      /\ \A k \in In(B) : f(B)[k] \in Nat /\ f(B)[k] = p[k].amount
      /\ \A k \in Out(B) : g(B)[k] \in Nat
  BY <1>1
<1>7. \A h : SumOver({}, h) = 0 BY SumEmpty
<1> HIDE DEF In, Out, f, g, A, B
<1>8. SumOver(In(B), f(B)) <= SumOver(In(A), f(A))
  <2>1. \A k \in In(B) : f(B)[k] \in Nat /\ f(B)[k] <= f(A)[k] BY <1>4, <1>6
  <2>2. \A k \in In(A) : f(A)[k] \in Nat BY <1>6
  <2>3. In(B) \in SUBSET In(A) BY <1>4
  <2> QED BY <1>5, <2>1, <2>2, <2>3, SumGrows
<1>9. SumOver(Out(B), g(B)) \in Nat /\ SumOver(In(A), f(A)) \in Nat /\ SumOver(In(B), f(B)) \in Nat
  BY <1>5, <1>6, SumType
<1>10. Total(p, A) = SumOver(In(A), f(A))
  <2>1. Total(p, A) = SumOver(In(A), f(A)) - SumOver(Out(A), g(A)) BY <1>2
  <2>2. SumOver(Out(A), g(A)) = 0 BY <1>3, <1>7
  <2> QED BY <1>9, <2>1, <2>2
<1>11. Total(p, B) = SumOver(In(B), f(B)) - SumOver(Out(B), g(B)) BY <1>2
<1> QED BY <1>8, <1>9, <1>10, <1>11 DEF Balance, A, B

-----------------------------------------------------------------------------
(* What was paid, when requests follow each other.  A payment is saved before the   *)
(* order says so, and a payment is saved as refunded before it is taken out of the  *)
(* order, so between its steps a request has booked more or less than the order     *)
(* says: the invariant is about the amount the order is about to say.  The request  *)
(* has to know what the order says, and its save must not be refused.               *)

\* What an order is to say was paid, against its payments.
Meets(b, pays, o) == b >= Balance(pays, o) /\ (Plain(pays) => b = Balance(pays, o))

\* An amount taken out, never below zero.
Less(a, b) == IF a - b < 0 THEN 0 ELSE a - b

\* What the order says, and is about to say.
Booked(t, ords, pays, o) ==
  IF t = Idle THEN ords[o].paidAmount
  ELSE CASE t.order = o /\ t.at = "settle" -> ords[o].paidAmount + t.amount
         [] t.order = o /\ t.at = "refundOrder" -> Less(ords[o].paidAmount, pays[t.item].amount)
         [] t.order = o /\ t.at = "saveRefund" -> t.row.paidAmount
         [] OTHER -> ords[o].paidAmount

Moving == {"settle", "refundOrder", "saveRefund"}

\* The steps of payments and refunds.
Booking == {"charge", "settle", "refundPayment", "refundOrder", "saveRefund", "forceRefund"}

\* The steps that go on with the row in memory.
RowSteps ==
  {"saveDiscount", "saveTotals", "saveStatus", "saveFinal", "cancelItem", "cancelWrite",
   "forceReverse", "charge", "settle"}

\* What a request in progress knows of its order and its payment.
Remembers(t, ords, pays) ==
  /\ t.at \in RowSteps => t.row.paidAmount = ords[t.order].paidAmount
  /\ t.at = "forceRefund" =>
       t.row.paidAmount = Less(ords[t.order].paidAmount, pays[t.item].amount)
  /\ t.at \in {"charge", "settle", "saveRefund", "forceRefund"} => t.known = 1 .. MaxPayments
  /\ t.at = "charge" => t.amount > 0
  /\ t.at \in {"settle", "sign", "refundPayment", "forceRefund"} =>
       pays[t.item].status = "captured"
  /\ t.at \in {"refundPayment", "refundOrder", "forceRefund"} => pays[t.item].order = t.order
  /\ t.at \in {"refundPayment", "refundOrder"} => ords[t.order].live
  /\ t.at = "zeroTotal" => t.op = "posCreate"
  /\ t.op = "posCreate" => ords[t.order].paidAmount = 0 /\ t.at \notin Booking

\* Payments belong to orders that exist, and an original one is of more than nothing.
RowsKnown(ords, pays) ==
  /\ Len(pays) <= MaxPayments
  /\ \A k \in DOMAIN pays : ords[pays[k].order] # NoRow
  /\ Positive(pays)

AllMeet(t, ords, pays) ==
  \A o \in Orders : ords[o] # NoRow => Meets(Booked(t, ords, pays, o), pays, o)

PaidInv(w) ==
  /\ RowsKnown(orders, payments)
  /\ task[w] # Idle => Remembers(task[w], orders, payments)
  /\ AllMeet(task[w], orders, payments)

\* Between the steps that book, the order says it.
LEMMA BookedRests ==
  ASSUME NEW t, t = Idle \/ t.at \notin Moving, NEW ords, NEW pays, NEW o
  PROVE  Booked(t, ords, pays, o) = ords[o].paidAmount
BY DEF Booked, Moving

\* An order without payments.
LEMMA NoPayments ==
  ASSUME NEW pays, NEW o, \A k \in DOMAIN pays : pays[k].order # o
  PROVE  Balance(pays, o) = 0
<1>1. Charged(pays, o) = {} /\ Refunded(pays, o) = {} BY DEF Charged, Refunded
<1>2. IsFiniteSet({}) BY FS_EmptySet
<1>3. Total(pays, {}) \in Int BY <1>2, TotalType
<1> QED BY <1>1, <1>3 DEF Balance

\* No payment is written, the orders say what they said, and a new one says nothing.
LEMMA PaidStays ==
  ASSUME LedgerInv, LedgerInv', NEW w \in Workers, PaidInv(w), payments' = payments,
         \A o \in Orders :
           /\ orders[o] # NoRow => orders'[o] # NoRow /\ orders'[o].paidAmount = orders[o].paidAmount
           /\ orders[o] = NoRow /\ orders'[o] # NoRow => orders'[o].paidAmount = 0,
         task[w] # Idle => task[w].at \notin Moving,
         NEW n, task'[w] = n, n # Idle => n.at \notin Moving /\ Remembers(n, orders', payments)
  PROVE  PaidInv(w)'
<1>1. RowsKnown(orders, payments) /\ AllMeet(task[w], orders, payments) BY DEF PaidInv
<1>2. \A k \in DOMAIN payments : payments[k].order \in Orders BY RowOfOrder
<1>3. RowsKnown(orders', payments) BY <1>1, <1>2 DEF RowsKnown
<1>4. ASSUME NEW o \in Orders, orders'[o] # NoRow
      PROVE  Meets(Booked(n, orders', payments, o), payments, o)
  <2>1. Booked(n, orders', payments, o) = orders'[o].paidAmount BY BookedRests
  <2>2. CASE orders[o] # NoRow
    <3>1. Booked(task[w], orders, payments, o) = orders[o].paidAmount BY BookedRests
    <3> QED BY <1>1, <2>1, <2>2, <3>1 DEF AllMeet
  <2>3. CASE orders[o] = NoRow
    <3>1. Balance(payments, o) = 0 BY <1>1, <2>3, NoPayments DEF RowsKnown
    <3> QED BY <1>4, <2>1, <2>3, <3>1 DEF Meets
  <2> QED BY <2>2, <2>3
<1>5. AllMeet(n, orders', payments) BY <1>4 DEF AllMeet
<1> QED BY <1>3, <1>5 DEF PaidInv

\* Neither orders nor payments are written.
LEMMA PaidRests ==
  ASSUME LedgerInv, LedgerInv', NEW w \in Workers, PaidInv(w),
         payments' = payments, orders' = orders,
         task[w] # Idle => task[w].at \notin Moving,
         NEW n, task'[w] = n, n # Idle => n.at \notin Moving /\ Remembers(n, orders, payments)
  PROVE  PaidInv(w)'
BY PaidStays

\* A request that starts with its order as it is.
LEMMA PaidBegins ==
  ASSUME LedgerInv, LedgerInv', NEW w \in Workers, PaidInv(w), task[w] = Idle, UNCHANGED tables,
         NEW n, Go(w, n), n.at \notin Moving, Remembers(n, orders, payments)
  PROVE  PaidInv(w)'
<1>1. payments' = payments /\ orders' = orders BY DEF tables
<1>2. task'[w] = n BY StockFacts
<1> QED BY <1>1, <1>2, PaidRests

\* Every request but those that create an order.
LEMMA RequestPaid ==
  ASSUME LedgerInv, LedgerInv', NEW w \in Workers, PaidInv(w), Request(w),
         \A o \in Orders, op \in {"create", "posCreate"}, d \in Discounts, cart \in Carts :
           ~ CreateOrder(w, op, o, d, cart)
  PROVE  PaidInv(w)'
<1> DEFINE Quick == {"saveDiscount", "addLine", "adjust", "restore", "mark", "saveFinal",
                     "cancelItem", "forceReverse"}
<1>1. ASSUME NEW op, NEW at \in Quick, NEW o, NEW n, Accept(w, op), UNCHANGED tables, Go(w, n),
             op # "posCreate", n.at = at, n.op = op, n.order = o,
             n.row.paidAmount = orders[o].paidAmount
      PROVE  PaidInv(w)'
  <2>1. task[w] = Idle BY <1>1 DEF Accept
  <2>2. n.at \notin Moving BY <1>1 DEF Moving
  <2>3. Remembers(n, orders, payments) BY <1>1 DEF Remembers, RowSteps, Booking
  <2> QED BY <1>1, <2>1, <2>2, <2>3, PaidBegins
<1>2. \A o \in Orders : Exists(o) => orders[o] \in OrderRow BY DEF LedgerInv, Tables, Exists
<1>3. ASSUME NEW o \in Orders, NEW d \in Discounts, Update(w, o, d) PROVE PaidInv(w)'
  <2> DEFINE n == [Begin("update", "saveDiscount", o) EXCEPT !.row.discount = d]
  <2>1. Accept(w, "update") /\ UNCHANGED tables /\ Go(w, n) /\ orders[o] \in OrderRow
    BY <1>2, <1>3 DEF Update, Loadable
  <2>2. n.at = "saveDiscount" /\ n.op = "update" /\ n.order = o BY DEF Begin
  <2>3. n.row.paidAmount = orders[o].paidAmount BY <2>1 DEF Begin, OrderRow
  <2> HIDE DEF n
  <2> QED BY <1>1, <2>1, <2>2, <2>3
<1>4. ASSUME NEW o \in Orders, NEW p \in Products, NEW q \in Quantities, AddItem(w, o, p, q)
      PROVE  PaidInv(w)'
  <2> DEFINE n == [Begin("addItem", "addLine", o)
                   EXCEPT !.cart = <<[product |-> p, quantity |-> q]>>]
  <2>1. Accept(w, "addItem") /\ UNCHANGED tables /\ Go(w, n) BY <1>4 DEF AddItem
  <2>2. /\ n.at = "addLine" /\ n.op = "addItem" /\ n.order = o
        /\ n.row.paidAmount = orders[o].paidAmount
    BY DEF Begin
  <2> HIDE DEF n
  <2> QED BY <1>1, <2>1, <2>2
<1>5. ASSUME NEW op \in {"pay", "posPay", "split", "posSplit"}, NEW o \in Orders, NEW n, Accept(w, op),
             UNCHANGED tables, Go(w, n), n.at = "charge", n.op = op, n.order = o,
             n.row.paidAmount = orders[o].paidAmount, n.known = 1 .. MaxPayments, n.amount > 0
      PROVE  PaidInv(w)'
  <2>1. task[w] = Idle BY <1>5 DEF Accept
  <2>2. n.at \notin Moving BY <1>5 DEF Moving
  <2>3. Remembers(n, orders, payments) BY <1>5 DEF Remembers, RowSteps, Booking
  <2> QED BY <1>5, <2>1, <2>2, <2>3, PaidBegins
<1>6. \A op \in {"pay", "posPay", "split", "posSplit", "forceRefund"} : \A o : Known(op, o) = 1 .. MaxPayments
  BY DEF Known, WithPayments
<1>7. ASSUME NEW o \in Orders, NEW op \in {"pay", "posPay"}, NEW a \in Amounts,
             CreatePayment(w, op, o, a)
      PROVE  PaidInv(w)'
  <2> DEFINE n == [Begin(op, "charge", o) EXCEPT !.amount = a]
  <2>1. Accept(w, op) /\ UNCHANGED tables /\ Go(w, n) BY <1>7 DEF CreatePayment
  <2>2. /\ n.at = "charge" /\ n.op = op /\ n.order = o /\ n.amount = a
        /\ n.row.paidAmount = orders[o].paidAmount
    BY DEF Begin
  <2>3. n.known = 1 .. MaxPayments BY <1>6 DEF Begin
  <2>4. a > 0 BY LedgerAssumption
  <2> HIDE DEF n
  <2> QED BY <1>5, <2>1, <2>2, <2>3, <2>4
<1>8. ASSUME NEW i \in DOMAIN items, NEW op \in {"split", "posSplit"}, NEW q \in Quantities,
             CreateSplitPayment(w, op, i, q)
      PROVE  PaidInv(w)'
  <2> DEFINE o == items[i].order
             a == Price[items[i].product] * q
             n == [Begin(op, "charge", o) EXCEPT !.amount = a,
                                                 !.part = [item |-> i, quantity |-> q]]
  <2>1. Accept(w, op) /\ UNCHANGED tables /\ Go(w, n) /\ a > 0 BY <1>8 DEF CreateSplitPayment
  <2>2. o \in Orders BY RowOfOrder
  <2> HIDE DEF o, a
  <2>3. /\ n.at = "charge" /\ n.op = op /\ n.order = o /\ n.amount = a
        /\ n.row.paidAmount = orders[o].paidAmount
    BY DEF Begin
  <2>4. n.known = 1 .. MaxPayments BY <1>6 DEF Begin
  <2> HIDE DEF n
  <2> QED BY <1>5, <2>1, <2>2, <2>3, <2>4
<1>9. ASSUME NEW o \in Orders, NEW s \in OrderStatus,
             ForceUpdateStatus(w, o, s) \/ CompleteOrder(w, o)
      PROVE  PaidInv(w)'
  <2>1. PICK op \in {"forceStatus", "complete"}, r \in OrderStatus :
          /\ Accept(w, op) /\ UNCHANGED tables /\ Loadable(o)
          /\ Go(w, [Begin(op, "saveFinal", o) EXCEPT !.row.status = r])
    BY <1>9 DEF ForceUpdateStatus, CompleteOrder, OrderStatus
  <2> DEFINE n == [Begin(op, "saveFinal", o) EXCEPT !.row.status = r]
  <2>2. Go(w, n) /\ orders[o] \in OrderRow BY <1>2, <2>1 DEF Loadable
  <2>3. n.at = "saveFinal" /\ n.op = op /\ n.order = o BY DEF Begin
  <2>4. n.row.paidAmount = orders[o].paidAmount BY <2>2 DEF Begin, OrderRow
  <2> HIDE DEF n
  <2> QED BY <1>1, <2>1, <2>2, <2>3, <2>4
<1>10. ASSUME NEW o \in Orders,
              \/ CancelOrder(w, o) \/ PosCancelOrder(w, o) \/ ForceCancelOrder(w, o) \/ Remove(w, o)
       PROVE  PaidInv(w)'
  <2>1. PICK op \in {"cancel", "posCancel", "forceCancel", "remove"},
             at \in {"cancelItem", "forceReverse", "restore"},
             todo \in {ItemsOf(items, o), ActiveItems(items, o), CapturedOf(payments, o)} :
          /\ Accept(w, op) /\ UNCHANGED tables
          /\ Go(w, [Begin(op, at, o) EXCEPT !.todo = todo])
    BY <1>10 DEF CancelOrder, PosCancelOrder, ForceCancelOrder, Remove
  <2> DEFINE n == [Begin(op, at, o) EXCEPT !.todo = todo]
  <2>2. n.at = at /\ n.op = op /\ n.order = o /\ n.row.paidAmount = orders[o].paidAmount
    BY DEF Begin
  <2>3. Go(w, n) BY <2>1
  <2> HIDE DEF n
  <2> QED BY <1>1, <2>1, <2>2, <2>3
<1>11. ASSUME NEW i \in DOMAIN items,
              \/ \E q \in Quantities : UpdateItem(w, i, q)
              \/ \E op \in {"ready", "deliver"} : MarkItem(w, op, i)
       PROVE  PaidInv(w)'
  <2>1. PICK op \in {"updateItem", "ready", "deliver"}, at \in {"adjust", "mark"},
             q \in Quantities \cup {0} :
          /\ Accept(w, op) /\ UNCHANGED tables
          /\ \/ Go(w, [Begin(op, at, items[i].order) EXCEPT !.item = i, !.amount = q])
             \/ Go(w, [Begin(op, at, items[i].order) EXCEPT !.item = i])
    BY <1>11 DEF UpdateItem, MarkItem
  <2> DEFINE o == items[i].order
             n == [Begin(op, at, o) EXCEPT !.item = i, !.amount = q]
             m == [Begin(op, at, o) EXCEPT !.item = i]
  <2>2. Go(w, n) \/ Go(w, m) BY <2>1
  <2>3. n.at = at /\ n.op = op /\ n.order = o /\ n.row.paidAmount = orders[o].paidAmount
    BY DEF Begin
  <2>4. m.at = at /\ m.op = op /\ m.order = o /\ m.row.paidAmount = orders[o].paidAmount
    BY DEF Begin
  <2> HIDE DEF n, m, o
  <2> QED BY <1>1, <2>1, <2>2, <2>3, <2>4
<1>12. ASSUME NEW i \in DOMAIN items, RemoveItem(w, i) PROVE PaidInv(w)'
  <2> DEFINE o == items[i].order
             n == [Begin("removeItem", "restore", o) EXCEPT !.item = i, !.todo = {i}]
  <2>1. Accept(w, "removeItem") /\ UNCHANGED tables /\ Go(w, n) BY <1>12 DEF RemoveItem
  <2>2. /\ n.at = "restore" /\ n.op = "removeItem" /\ n.order = o
        /\ n.row.paidAmount = orders[o].paidAmount
    BY DEF Begin
  <2> HIDE DEF n, o
  <2> QED BY <1>1, <2>1, <2>2
<1>13. ASSUME NEW k \in DOMAIN payments, Refund(w, k) PROVE PaidInv(w)'
  <2> DEFINE o == payments[k].order
             n == [Begin("refund", "refundPayment", o) EXCEPT !.item = k, !.tse = payments[k].tse]
  <2>1. /\ task[w] = Idle /\ UNCHANGED tables /\ Go(w, n)
        /\ payments[k].status = "captured" /\ orders[o].live
    BY <1>13 DEF Refund, Accept, Loadable
  <2>2. n.at = "refundPayment" /\ n.op = "refund" /\ n.order = o /\ n.item = k BY DEF Begin
  <2>3. payments[n.item].order = n.order BY <2>2
  <2> HIDE DEF n, o
  <2>4. n.at \notin Moving /\ Remembers(n, orders, payments)
    BY <2>1, <2>2, <2>3 DEF Moving, Remembers, RowSteps, Booking
  <2> QED BY <2>1, <2>4, PaidBegins
<1>14. ASSUME NEW k \in DOMAIN payments, ForceRefund(w, k) PROVE PaidInv(w)'
  <2> DEFINE o == payments[k].order
             row == WithPaymentStatus(Repaid(orders[o], payments[k].amount))
             n == [Begin("forceRefund", "forceRefund", o)
                   EXCEPT !.item = k, !.tse = payments[k].tse, !.row = row,
                          !.lines = UnpaidLines(items, o, payments[k].part)]
  <2>1. /\ task[w] = Idle /\ UNCHANGED tables /\ Go(w, n) /\ payments[k].status = "captured"
        /\ orders[o] \in OrderRow
    BY <1>2, <1>14, RowOfOrder DEF ForceRefund, Accept, Loadable
  <2>2. /\ n.at = "forceRefund" /\ n.op = "forceRefund" /\ n.order = o /\ n.item = k /\ n.row = row
    BY DEF Begin
  <2>3. n.known = 1 .. MaxPayments BY <1>6 DEF Begin
  <2>4. row.paidAmount = Less(orders[o].paidAmount, payments[k].amount)
    BY <2>1 DEF WithPaymentStatus, Repaid, OrderRow, Less
  <2>5. payments[n.item].order = n.order BY <2>2
  <2> HIDE DEF n, o, row
  <2>6. n.at \notin Moving /\ Remembers(n, orders, payments)
    BY <2>1, <2>2, <2>3, <2>4, <2>5 DEF Moving, Remembers, RowSteps, Booking
  <2> QED BY <2>1, <2>6, PaidBegins
<1> QED
  BY <1>3, <1>4, <1>7, <1>8, <1>9, <1>10, <1>11, <1>12, <1>13, <1>14 DEF Request, OrderStatus

\* A new order says that nothing was paid, and has no payments.
LEMMA CreatePaid ==
  ASSUME LedgerInv, LedgerInv', NEW w \in Workers, PaidInv(w), NEW o \in Orders,
         NEW op \in {"create", "posCreate"}, NEW d \in Discounts, NEW cart \in Carts,
         CreateOrder(w, op, o, d, cart)
  PROVE  PaidInv(w)'
<1> DEFINE at == IF cart = <<>> THEN "zeroTotal" ELSE "addLine"
           n == [Begin(op, at, o) EXCEPT !.row = NewOrder(d), !.cart = cart]
<1>1. /\ task[w] = Idle /\ payments' = payments /\ ~ Exists(o)
      /\ orders' = [orders EXCEPT ![o] = NewOrder(d)]
  BY DEF CreateOrder, Accept
<1>2. NewOrder(d).paidAmount = 0 BY DEF NewOrder
<1>3. \A u \in Orders : orders'[u] = IF u = o THEN NewOrder(d) ELSE orders[u]
  BY <1>1 DEF LedgerInv, Tables
<1>4. \A u \in Orders :
        /\ orders[u] # NoRow => orders'[u] # NoRow /\ orders'[u].paidAmount = orders[u].paidAmount
        /\ orders[u] = NoRow /\ orders'[u] # NoRow => orders'[u].paidAmount = 0
  BY <1>1, <1>2, <1>3 DEF Exists
<1>5. CASE UNCHANGED task
  <2>1. task'[w] = Idle /\ task[w] = Idle BY <1>1, <1>5
  <2> HIDE DEF n
  <2> QED BY <1>1, <1>4, <2>1, PaidStays
<1>6. CASE Go(w, n) /\ ~ (op = "create" /\ cart = <<>>)
  <2>1. task'[w] = n BY <1>6, StockFacts
  <2>2. n.at \in {"zeroTotal", "addLine"} /\ n.op = op /\ n.order = o BY DEF Begin
  <2>3. n.at = "zeroTotal" => op = "posCreate" BY <1>6 DEF Begin
  <2>4. orders'[o].paidAmount = 0 BY <1>2, <1>3
  <2> HIDE DEF n
  <2>5. n.at \notin Moving /\ Remembers(n, orders', payments)
    BY <2>2, <2>3, <2>4 DEF Moving, Remembers, RowSteps, Booking
  <2> QED BY <1>1, <1>4, <2>1, <2>5, PaidStays
<1> QED BY <1>5, <1>6 DEF CreateOrder

-----------------------------------------------------------------------------
(* The steps that write neither orders nor payments.                         *)

\* The steps that need to know nothing of what was paid.
Plains ==
  {"addLine", "takeStock", "recalculate", "status", "adjust", "saveStock", "saveItem", "restore",
   "restoreWrite", "mark", "autoComplete", "reverse", "zeroTotal"}

\* The next step is one of them, or one that goes on with the same row.
LEMMA RemembersOn ==
  ASSUME NEW t, NEW n, NEW ords, NEW pays, Remembers(t, ords, pays),
         n.op = t.op, n.order = t.order, n.at = "zeroTotal" => t.op = "posCreate",
         \/ n.at \in Plains
         \/ n.at \in RowSteps \ {"charge", "settle"} /\ n.row.paidAmount = ords[t.order].paidAmount
  PROVE  Remembers(n, ords, pays) /\ n.at \notin Moving
BY DEF Remembers, Plains, RowSteps, Moving, Booking

\* A request that ends, or goes on.
LEMMA PaidGoesOn ==
  ASSUME LedgerInv, LedgerInv', NEW w \in Workers, PaidInv(w),
         payments' = payments, orders' = orders, NEW step, step \notin Moving, At(w, step),
         NEW n,
         \/ Done(w)
         \/ /\ Go(w, n) /\ n.op = task[w].op /\ n.order = task[w].order
            /\ n.at = "zeroTotal" => task[w].op = "posCreate"
            /\ \/ n.at \in Plains
               \/ /\ n.at \in RowSteps \ {"charge", "settle"}
                  /\ n.row.paidAmount = orders[task[w].order].paidAmount
  PROVE  PaidInv(w)'
<1>1. task[w] # Idle /\ task[w].at = step BY DEF At
<1>2. Remembers(task[w], orders, payments) BY <1>1 DEF PaidInv
<1>3. CASE Done(w)
  <2>1. task'[w] = Idle BY <1>3, StockFacts
  <2> QED BY <1>1, <2>1, PaidRests
<1>4. CASE Go(w, n)
  <2>1. task'[w] = n BY <1>4, StockFacts
  <2>2. CASE Done(w) BY <1>3, <2>2
  <2>3. CASE ~ Done(w)
    <3>1. Remembers(n, orders, payments) /\ n.at \notin Moving BY <1>2, <2>3, RemembersOn
    <3> QED BY <1>1, <2>1, <3>1, PaidRests
  <2> QED BY <2>2, <2>3
<1> QED BY <1>3, <1>4

\* The rules leave the paid amount alone.
LEMMA RulesPaid ==
  ASSUME NEW row \in OrderRow, NEW its, NEW o
  PROVE  /\ Recalculated(row, its, o).paidAmount = row.paidAmount
         /\ WithOrderStatus(row, its, o).paidAmount = row.paidAmount
         /\ WithPaymentStatus(row).paidAmount = row.paidAmount
         /\ \A s : [row EXCEPT !.status = s].paidAmount = row.paidAmount
         /\ \A s, a : [row EXCEPT !.paymentStatus = s, !.paidAmount = a].paidAmount = a
BY DEF Recalculated, WithOrderStatus, WithPaymentStatus, OrderRow

\* The items of an order, its stock, and the marks on its items.
LEMMA PlainSteps ==
  ASSUME LedgerInv, LedgerInv', NEW w \in Workers, PaidInv(w),
         \/ AddLine(w) \/ TakeStock(w) \/ Adjust(w) \/ SaveAdjustment(w) \/ SaveUpdatedItem(w)
         \/ DeleteItem(w)
         \/ SaveMarked(w) \/ ReadProduct(w, "restore", "restoreWrite") \/ RestoreItem(w)
         \/ ReversalsDone(w)
  PROVE  PaidInv(w)'
<1> DEFINE t == task[w]
<1>1. payments' = payments /\ orders' = orders
  BY DEF AddLine, TakeStock, Adjust, SaveAdjustment, SaveUpdatedItem, DeleteItem, SaveMarked, ReadProduct,
         RestoreItem, ReversalsDone, tables
<1>2. PICK step \in Plains : At(w, step)
  BY DEF AddLine, TakeStock, Adjust, SaveAdjustment, SaveUpdatedItem, DeleteItem, SaveMarked, ReadProduct,
         RestoreItem, ReversalsDone, Plains
<1>3. t \in Task /\ step \notin Moving BY <1>2, TaskAt DEF Plains, Moving
<1>4. CASE Done(w) BY <1>1, <1>2, <1>3, <1>4, PaidGoesOn
<1>5. ASSUME NEW n, Go(w, n), n.op = t.op, n.order = t.order, n.at \in Plains \ {"zeroTotal"}
      PROVE  PaidInv(w)'
  <2>1. n.at # "zeroTotal" /\ n.at \in Plains BY <1>5
  <2> QED BY <1>1, <1>2, <1>3, <1>5, <2>1, PaidGoesOn
<1>6. ASSUME NEW at \in Plains \ {"zeroTotal"}, NEW held, NEW cart, NEW item, NEW todo,
             \/ Go(w, [t EXCEPT !.at = at, !.held = held])
             \/ Go(w, [t EXCEPT !.at = at])
             \/ Go(w, [t EXCEPT !.cart = cart, !.at = at])
             \/ Go(w, [t EXCEPT !.at = at, !.item = item, !.todo = todo, !.held = held])
      PROVE  PaidInv(w)'
  <2> DEFINE a == [t EXCEPT !.at = at, !.held = held]
             b == [t EXCEPT !.at = at]
             c == [t EXCEPT !.cart = cart, !.at = at]
             d == [t EXCEPT !.at = at, !.item = item, !.todo = todo, !.held = held]
  <2>1. a.op = t.op /\ a.order = t.order /\ a.at = at BY <1>3 DEF Task
  <2>2. b.op = t.op /\ b.order = t.order /\ b.at = at BY <1>3 DEF Task
  <2>3. c.op = t.op /\ c.order = t.order /\ c.at = at BY <1>3 DEF Task
  <2>4. d.op = t.op /\ d.order = t.order /\ d.at = at BY <1>3 DEF Task
  <2>5. Go(w, a) \/ Go(w, b) \/ Go(w, c) \/ Go(w, d) BY <1>6
  <2> HIDE DEF a, b, c, d
  <2> QED BY <1>5, <2>1, <2>2, <2>3, <2>4, <2>5
<1>7. \A x : x \in {"addLine", "takeStock", "recalculate", "status", "adjust", "saveStock", "saveItem", "restore",
              "restoreWrite"} => x \in Plains \ {"zeroTotal"}
  BY DEF Plains
<1>8. CASE AddLine(w) BY <1>4, <1>6, <1>7, <1>8 DEF AddLine
<1>9. CASE TakeStock(w)
  <2> DEFINE cart == Tail(t.cart)
             at == IF Len(t.cart) > 1 THEN "addLine" ELSE "recalculate"
  <2>1. Go(w, [t EXCEPT !.cart = cart, !.at = at]) BY <1>3, <1>9 DEF TakeStock, Task
  <2>2. at \in Plains \ {"zeroTotal"} BY <1>7
  <2> HIDE DEF cart, at
  <2> QED BY <1>6, <2>1, <2>2
<1>10. CASE Adjust(w) BY <1>4, <1>6, <1>7, <1>10 DEF Adjust
<1>11. CASE SaveAdjustment(w) \/ SaveUpdatedItem(w) \/ DeleteItem(w) \/ SaveMarked(w) \/ RestoreItem(w)
  <2>1. PICK at \in {"saveItem", "recalculate", "status", "restore"} : Go(w, [t EXCEPT !.at = at])
    BY <1>11 DEF SaveAdjustment, SaveUpdatedItem, DeleteItem, SaveMarked, RestoreItem, GoTo
  <2> QED BY <1>6, <1>7, <2>1
<1>12. CASE ReadProduct(w, "restore", "restoreWrite")
  <2>1. PICK i, todo, held :
          Go(w, [t EXCEPT !.at = "restoreWrite", !.item = i, !.todo = todo, !.held = held])
    BY <1>3, <1>12 DEF ReadProduct, Task
  <2> QED BY <1>6, <1>7, <2>1
<1>13. CASE ReversalsDone(w) BY <1>4, <1>13 DEF ReversalsDone
<1> QED BY <1>8, <1>9, <1>10, <1>11, <1>12, <1>13

\* The steps that load the order again, and those of a cancel that keep it.
LEMMA ReloadPaid ==
  ASSUME LedgerInv, LedgerInv', NEW w \in Workers, PaidInv(w),
         Recalculate(w) \/ UpdateStatus(w) \/ ZeroTotal(w) \/ AutoComplete(w)
  PROVE  PaidInv(w)'
<1> DEFINE t == task[w]
           o == t.order
<1>1. payments' = payments /\ orders' = orders
  BY DEF Recalculate, UpdateStatus, ZeroTotal, AutoComplete, tables
<1>2. PICK step \in Plains : At(w, step)
  BY DEF Recalculate, UpdateStatus, ZeroTotal, AutoComplete, Plains
<1>3. t \in Task /\ step \notin Moving /\ orders[o] \in OrderRow /\ t.at = step /\ t # Idle
  BY <1>2, TaskAt DEF Plains, Moving, At
<1>4. CASE Done(w) BY <1>1, <1>2, <1>3, <1>4, PaidGoesOn
<1>5. ASSUME NEW at \in {"saveTotals", "saveStatus", "saveFinal"}, NEW row,
             row.paidAmount = orders[o].paidAmount, Go(w, Reloaded(t, at, row))
      PROVE  PaidInv(w)'
  <2> DEFINE n == Reloaded(t, at, row)
  <2>1. n.op = t.op /\ n.order = o /\ n.at = at /\ n.row = row BY <1>3 DEF Reloaded, Task
  <2>2. Go(w, n) BY <1>5
  <2>3. n.at \in RowSteps \ {"charge", "settle"} /\ n.at # "zeroTotal" BY <2>1 DEF RowSteps
  <2> HIDE DEF n
  <2> QED BY <1>1, <1>2, <1>3, <1>5, <2>1, <2>2, <2>3, PaidGoesOn
<1>6. CASE Recalculate(w) BY <1>3, <1>4, <1>5, <1>6, RulesPaid DEF Recalculate
<1>7. CASE UpdateStatus(w) BY <1>3, <1>4, <1>5, <1>7, RulesPaid DEF UpdateStatus
<1>8. CASE ZeroTotal(w)
  <2>1. t.at = "zeroTotal" BY <1>8 DEF ZeroTotal, At
  <2>2. Remembers(t, orders, payments) BY <1>3 DEF PaidInv
  <2>3. orders[o].paidAmount = 0 BY <2>1, <2>2 DEF Remembers
  <2> DEFINE row == [orders[o] EXCEPT !.paymentStatus = "paid", !.paidAmount = 0]
  <2>4. row.paidAmount = 0 BY <1>3, RulesPaid
  <2>5. Done(w) \/ Go(w, Reloaded(t, "saveFinal", row)) BY <1>8 DEF ZeroTotal
  <2> HIDE DEF row
  <2> QED BY <1>4, <1>5, <2>3, <2>4, <2>5
<1>9. CASE AutoComplete(w)
  <2> DEFINE n == [Begin("deliver", "saveFinal", o) EXCEPT !.row.status = "completed"]
  <2>1. Done(w) \/ Go(w, n) BY <1>9 DEF AutoComplete
  <2>2. n.at = "saveFinal" /\ n.op = "deliver" /\ n.order = o BY DEF Begin
  <2>3. n.row.paidAmount = orders[o].paidAmount BY <1>3 DEF Begin, OrderRow
  <2> HIDE DEF n
  <2>4. n.at \notin Moving /\ Remembers(n, orders, payments)
    BY <2>2, <2>3 DEF Moving, Remembers, RowSteps, Booking
  <2>5. CASE Go(w, n)
    <3>1. task'[w] = n BY <2>5, StockFacts
    <3> QED BY <1>1, <1>3, <2>4, <3>1, PaidRests
  <2> QED BY <1>4, <2>1, <2>5
<1> QED BY <1>6, <1>7, <1>8, <1>9

\* The items of a cancelled order one by one.
LEMMA KeepSteps ==
  ASSUME LedgerInv, LedgerInv', NEW w \in Workers, PaidInv(w),
         \/ ReadProduct(w, "cancelItem", "cancelWrite") \/ CancelItem(w) \/ ForceReversalsDone(w)
  PROVE  PaidInv(w)'
<1> DEFINE t == task[w]
           o == t.order
           Rows == {"cancelItem", "cancelWrite", "forceReverse"}
<1>1. payments' = payments /\ orders' = orders
  BY DEF ReadProduct, CancelItem, ForceReversalsDone, tables
<1>2. PICK step \in Rows : At(w, step) BY DEF ReadProduct, CancelItem, ForceReversalsDone
<1>3. t \in Task /\ step \notin Moving /\ t.at = step /\ t # Idle
  BY <1>2, TaskAt DEF Moving, At
<1>4. t.row.paidAmount = orders[o].paidAmount
  BY <1>3 DEF PaidInv, Remembers, RowSteps
<1>5. ASSUME NEW n, Go(w, n), n.op = t.op, n.order = o, n.row = t.row,
             n.at \in {"cancelItem", "cancelWrite"}
      PROVE  PaidInv(w)'
  <2>1. n.at \in RowSteps \ {"charge", "settle"} /\ n.at # "zeroTotal" BY <1>5 DEF RowSteps
  <2>2. n.row.paidAmount = orders[o].paidAmount BY <1>4, <1>5
  <2> QED BY <1>1, <1>2, <1>3, <1>5, <2>1, <2>2, PaidGoesOn
<1>6. CASE ReadProduct(w, "cancelItem", "cancelWrite")
  <2>1. PICK i \in t.todo :
          Go(w, [t EXCEPT !.at = "cancelWrite", !.item = i, !.todo = @ \ {i},
                          !.held = stock[t.lines[i].product]])
    BY <1>6 DEF ReadProduct
  <2> DEFINE n == [t EXCEPT !.at = "cancelWrite", !.item = i, !.todo = @ \ {i},
                            !.held = stock[t.lines[i].product]]
  <2>2. n.op = t.op /\ n.order = o /\ n.row = t.row /\ n.at = "cancelWrite" BY <1>3 DEF Task
  <2>3. Go(w, n) BY <2>1
  <2> HIDE DEF n
  <2> QED BY <1>5, <2>2, <2>3
<1>7. CASE CancelItem(w)
  <2> DEFINE line == [t.lines[t.item] EXCEPT !.status = "cancelled"]
             n == [t EXCEPT !.at = "cancelItem", !.lines = [@ EXCEPT ![t.item] = line]]
  <2>1. Go(w, n) BY <1>7 DEF CancelItem
  <2>2. n.op = t.op /\ n.order = o /\ n.row = t.row /\ n.at = "cancelItem" BY <1>3 DEF Task
  <2> HIDE DEF n
  <2> QED BY <1>5, <2>1, <2>2
<1>8. CASE ForceReversalsDone(w)
  <2> DEFINE n == [t EXCEPT !.at = "cancelItem", !.todo = ItemsOf(t.lines, o)]
  <2>1. Go(w, n) BY <1>8 DEF ForceReversalsDone
  <2>2. n.op = t.op /\ n.order = o /\ n.row = t.row /\ n.at = "cancelItem" BY <1>3 DEF Task
  <2> HIDE DEF n
  <2> QED BY <1>5, <2>1, <2>2
<1> QED BY <1>6, <1>7, <1>8

-----------------------------------------------------------------------------
(* The steps that save the order.                                            *)

\* The order is saved with the paid amount it had.
LEMMA SavePaid ==
  ASSUME LedgerInv, LedgerInv', NEW w \in Workers, PaidInv(w),
         \/ \E step \in {"saveDiscount", "saveTotals", "saveStatus", "saveFinal"} : SaveRow(w, step)
         \/ SaveCancelled(w) \/ SoftRemove(w)
  PROVE  PaidInv(w)'
<1> DEFINE t == task[w]
           o == t.order
<1>1. PICK step \in {"saveDiscount", "saveTotals", "saveStatus", "saveFinal", "cancelItem", "restore"} :
        At(w, step)
  BY DEF SaveRow, SaveCancelled, SoftRemove
<1>2. /\ t \in Task /\ step \notin Moving /\ t.at = step /\ t # Idle /\ o \in Orders
      /\ t.row \in OrderRow /\ orders[o] \in OrderRow
  BY <1>1, TaskAt DEF Moving, At
<1>3. Remembers(t, orders, payments) BY <1>2 DEF PaidInv
<1>4. payments' = payments BY DEF SaveRow, SaveCancelled, SoftRemove
<1>5. \A r \in OrderRow : r # NoRow BY DEF OrderRow, NoRow
<1>6. ASSUME NEW row \in OrderRow, row.paidAmount = orders[o].paidAmount,
             orders' = [orders EXCEPT ![o] = row]
      PROVE  \A u \in Orders :
               /\ orders[u] # NoRow => orders'[u] # NoRow /\ orders'[u].paidAmount = orders[u].paidAmount
               /\ orders[u] = NoRow => orders'[u] = NoRow
  <2>1. \A u \in Orders : orders'[u] = IF u = o THEN row ELSE orders[u]
    BY <1>6 DEF LedgerInv, Tables
  <2> QED BY <1>2, <1>5, <1>6, <2>1
<1>7. PICK row \in OrderRow :
        /\ row.paidAmount = orders[o].paidAmount
        /\ orders' = orders \/ orders' = [orders EXCEPT ![o] = row]
  <2>1. t.at # "restore" => t.row.paidAmount = orders[o].paidAmount
    BY <1>1, <1>2, <1>3 DEF Remembers, RowSteps
  <2>2. CASE \E s \in {"saveDiscount", "saveTotals", "saveStatus", "saveFinal"} : SaveRow(w, s)
    <3>1. t.at # "restore" BY <2>2 DEF SaveRow, At
    <3>2. orders' = orders \/ orders' = [orders EXCEPT ![o] = t.row]
      BY <2>2 DEF SaveRow, SaveOrder
    <3> QED BY <1>2, <2>1, <3>1, <3>2
  <2>3. CASE SaveCancelled(w)
    <3> DEFINE r == [t.row EXCEPT !.status = "cancelled"]
    <3>1. t.at # "restore" BY <2>3 DEF SaveCancelled, At
    <3>2. orders' = orders \/ orders' = [orders EXCEPT ![o] = r]
      BY <2>3 DEF SaveCancelled, SaveOrder
    <3>3. r \in OrderRow /\ r.paidAmount = t.row.paidAmount BY <1>2 DEF OrderRow, OrderStatus
    <3> HIDE DEF r
    <3> QED BY <2>1, <3>1, <3>2, <3>3
  <2>4. CASE SoftRemove(w)
    <3> DEFINE r == [orders[o] EXCEPT !.live = FALSE]
    <3>1. orders' = orders \/ orders' = [orders EXCEPT ![o] = r]
      BY <2>4 DEF SoftRemove
    <3>2. r \in OrderRow /\ r.paidAmount = orders[o].paidAmount BY <1>2 DEF OrderRow
    <3> HIDE DEF r
    <3> QED BY <3>1, <3>2
  <2> QED BY <2>2, <2>3, <2>4
<1>8. \A u \in Orders :
        /\ orders[u] # NoRow => orders'[u] # NoRow /\ orders'[u].paidAmount = orders[u].paidAmount
        /\ orders[u] = NoRow /\ orders'[u] # NoRow => orders'[u].paidAmount = 0
  BY <1>6, <1>7
<1>9. orders'[o].paidAmount = orders[o].paidAmount BY <1>2, <1>5, <1>8
<1>10. CASE Done(w)
  <2>1. task'[w] = Idle BY <1>10, StockFacts
  <2> QED BY <1>2, <1>4, <1>8, <2>1, PaidStays
<1>11. ASSUME NEW n, Go(w, n), n.op = t.op, n.order = o, n.at \in Plains,
              n.at = "zeroTotal" => t.op = "posCreate"
       PROVE  PaidInv(w)'
  <2>1. task'[w] = n BY <1>11, StockFacts
  <2>2. t.op = "posCreate" => orders'[o].paidAmount = 0 BY <1>3, <1>9 DEF Remembers
  <2>3. n.at \notin Moving /\ Remembers(n, orders', payments)
    BY <1>11, <2>2 DEF Moving, Remembers, RowSteps, Booking, Plains
  <2> QED BY <1>2, <1>4, <1>8, <2>1, <2>3, PaidStays
<1>12. CASE \E s \in {"saveDiscount", "saveTotals", "saveStatus", "saveFinal"} : SaveRow(w, s)
  <2> DEFINE at == AfterSave(t)
             n == [t EXCEPT !.at = at]
  <2>1. Done(w) \/ (Go(w, n) /\ at # "done") BY <1>12 DEF SaveRow, GoTo
  <2>2. /\ at # "done" => at \in Plains
        /\ at = "zeroTotal" => t.op = "posCreate"
    BY DEF AfterSave, Plains
  <2>3. n.op = t.op /\ n.order = o /\ n.at = at BY <1>2 DEF Task
  <2> HIDE DEF n, at
  <2> QED BY <1>10, <1>11, <2>1, <2>2, <2>3
<1>13. CASE SaveCancelled(w)
  <2> DEFINE n == [t EXCEPT !.at = "reverse", !.todo = CapturedOf(payments, o)]
  <2>1. Done(w) \/ Go(w, n) BY <1>13 DEF SaveCancelled
  <2>2. n.op = t.op /\ n.order = o /\ n.at = "reverse" BY <1>2 DEF Task
  <2>3. "reverse" \in Plains BY DEF Plains
  <2> HIDE DEF n
  <2> QED BY <1>10, <1>11, <2>1, <2>2, <2>3
<1>14. CASE SoftRemove(w) BY <1>10, <1>14 DEF SoftRemove
<1> QED BY <1>12, <1>13, <1>14

-----------------------------------------------------------------------------
(* The steps that write payments.                                            *)

\* A payment of which the status and the signature are written over.
Marked(p, k, s, tse) == [p EXCEPT ![k].status = s, ![k].tse = tse]

\* It is still a payment of the same order and amount.
LEMMA MarkedPayment ==
  ASSUME NEW p \in Seq(PaymentRow), NEW k \in DOMAIN p, NEW s \in {"captured", "refunded"},
         NEW tse \in TseResult, NEW q, q = Marked(p, k, s, tse)
  PROVE  /\ q \in Seq(PaymentRow) /\ DOMAIN q = DOMAIN p /\ Len(q) = Len(p)
         /\ \A i \in DOMAIN p :
              q[i].order = p[i].order /\ q[i].amount = p[i].amount /\ q[i].reverses = p[i].reverses
         /\ \A i \in DOMAIN p \ {k} : SameMoney(p, q, i)
         /\ q[k].status = s
<1>1. /\ Len(p) \in Nat /\ DOMAIN p = 1 .. Len(p)
      /\ \A i \in DOMAIN p : p[i] \in PaymentRow
  OBVIOUS
<1> DEFINE row == [p[k] EXCEPT !.status = s, !.tse = tse]
<1>2. /\ row \in PaymentRow /\ row.status = s /\ row.order = p[k].order
      /\ row.amount = p[k].amount /\ row.reverses = p[k].reverses
  BY <1>1 DEF PaymentRow
<1>3. q = [p EXCEPT ![k] = row] BY <1>1 DEF PaymentRow, Marked
<1> HIDE DEF row
<1>4. q \in Seq(PaymentRow) /\ Len(q) = Len(p)
  <2>1. /\ [p EXCEPT ![k] = row] \in Seq(PaymentRow)
        /\ Len([p EXCEPT ![k] = row]) = Len(p)
    BY <1>2, ReplaceRow
  <2> QED BY <1>3, <2>1
<1>5. q[k] = row /\ \A i \in DOMAIN p \ {k} : q[i] = p[i] BY <1>3
<1>6. DOMAIN q = DOMAIN p BY <1>3
<1> QED BY <1>2, <1>4, <1>5, <1>6 DEF SameMoney

\* A payment that was refunded.
LEMMA RefundedPayment ==
  ASSUME NEW p \in Seq(PaymentRow), NEW k \in DOMAIN p, NEW tse \in TseResult,
         NEW q, q = Marked(p, k, "refunded", tse)
  PROVE  /\ q \in Seq(PaymentRow) /\ DOMAIN q = DOMAIN p /\ Len(q) = Len(p)
         /\ \A i \in DOMAIN p :
              q[i].order = p[i].order /\ q[i].amount = p[i].amount /\ q[i].reverses = p[i].reverses
         /\ \A i \in DOMAIN p \ {k} : SameMoney(p, q, i)
         /\ q[k].status = "refunded"
<1> DEFINE s == "refunded"
<1>1. s \in {"captured", "refunded"} /\ s = "refunded" /\ q = Marked(p, k, s, tse) OBVIOUS
<1> HIDE DEF s
<1>2. /\ q \in Seq(PaymentRow) /\ DOMAIN q = DOMAIN p /\ Len(q) = Len(p)
      /\ \A i \in DOMAIN p :
           q[i].order = p[i].order /\ q[i].amount = p[i].amount /\ q[i].reverses = p[i].reverses
      /\ \A i \in DOMAIN p \ {k} : SameMoney(p, q, i)
      /\ q[k].status = s
  BY <1>1, MarkedPayment
<1> QED BY <1>1, <1>2

\* The order, the amount and the target of a payment are never written over.
LEMMA MarkedTable ==
  ASSUME NEW p \in Seq(PaymentRow), NEW q \in Seq(PaymentRow), Len(q) = Len(p), Mirrors(p),
         \A i \in DOMAIN p :
           q[i].order = p[i].order /\ q[i].amount = p[i].amount /\ q[i].reverses = p[i].reverses
  PROVE  /\ Mirrors(q) /\ (Plain(q) => Plain(p))
         /\ \A ords : RowsKnown(ords, p) => RowsKnown(ords, q)
<1>1. /\ Len(p) \in Nat /\ DOMAIN p = 1 .. Len(p) /\ DOMAIN q = 1 .. Len(p)
      /\ \A i \in DOMAIN p : p[i] \in PaymentRow
  OBVIOUS
<1>2. \A i \in DOMAIN p : p[i].reverses \in Nat BY <1>1 DEF PaymentRow
<1>3. \A i \in DOMAIN p : p[i].reverses # 0 => p[i].reverses \in DOMAIN p
  BY <1>1, <1>2 DEF Mirrors
<1>4. Mirrors(q) BY <1>1, <1>3 DEF Mirrors
<1>5. Plain(q) => Plain(p) BY <1>1, <1>3 DEF Plain
<1>6. \A ords : RowsKnown(ords, p) => RowsKnown(ords, q) BY <1>1 DEF RowsKnown, Positive
<1> QED BY <1>4, <1>5, <1>6

\* One more payment: an original one, or the reversal of an older one.
LEMMA AddedPayment ==
  ASSUME NEW p \in Seq(PaymentRow), NEW row \in PaymentRow, Mirrors(p), NEW ords, RowsKnown(ords, p),
         Len(p) < MaxPayments, ords[row.order] # NoRow, row.reverses = 0 => row.amount > 0,
         row.reverses # 0 => /\ row.reverses \in DOMAIN p /\ p[row.reverses].order = row.order
                             /\ p[row.reverses].amount = - row.amount,
         NEW q \in Seq(PaymentRow), Len(q) = Len(p) + 1, \A i \in DOMAIN p : q[i] = p[i],
         q[Len(p) + 1] = row
  PROVE  Mirrors(q) /\ (Plain(q) => Plain(p)) /\ RowsKnown(ords, q)
<1>1. /\ Len(p) \in Nat /\ DOMAIN p = 1 .. Len(p)
      /\ \A i \in DOMAIN p : p[i] \in PaymentRow
      /\ DOMAIN q = 1 .. Len(p) + 1
  OBVIOUS
<1>2. /\ \A i \in DOMAIN p : p[i].reverses \in Nat
      /\ row.reverses \in Nat
  BY <1>1 DEF PaymentRow
<1>3. \A i \in DOMAIN p : p[i].reverses # 0 => p[i].reverses \in DOMAIN p
  BY <1>1, <1>2 DEF Mirrors
<1>4. Mirrors(q) BY <1>1, <1>2, <1>3 DEF Mirrors
<1>5. Plain(q) => Plain(p) BY <1>1, <1>3 DEF Plain
<1>6. MaxPayments \in Nat BY LedgerAssumption
<1>7. RowsKnown(ords, q) BY <1>1, <1>6 DEF RowsKnown, Positive
<1> QED BY <1>4, <1>5, <1>7

\* A refund takes the amount out of what the order says, and of nothing else.
LEMMA RefundedMeets ==
  ASSUME NEW p \in Seq(PaymentRow), Mirrors(p), NEW ords, RowsKnown(ords, p),
         NEW k \in DOMAIN p, p[k].status = "captured", NEW tse \in TseResult,
         NEW q, q = Marked(p, k, "refunded", tse),
         NEW o, NEW b \in Int, Meets(b, p, o)
  PROVE  IF o = p[k].order THEN Meets(Less(b, p[k].amount), q, o) ELSE Meets(b, q, o)
<1>1. /\ q \in Seq(PaymentRow) /\ DOMAIN q = DOMAIN p /\ Len(q) = Len(p)
      /\ \A i \in DOMAIN p :
           q[i].order = p[i].order /\ q[i].amount = p[i].amount /\ q[i].reverses = p[i].reverses
      /\ \A i \in DOMAIN p \ {k} : SameMoney(p, q, i)
      /\ q[k].status = "refunded"
  BY RefundedPayment
<1>2. Mirrors(q) /\ (Plain(q) => Plain(p)) /\ RowsKnown(ords, q) BY <1>1, MarkedTable
<1>3. Balance(q, o) = Balance(p, o) - (IF p[k].order = o THEN p[k].amount ELSE 0)
  <2>1. /\ q[k].order = p[k].order /\ q[k].amount = p[k].amount /\ q[k].reverses = p[k].reverses
        /\ DOMAIN q = DOMAIN p /\ q[k].status = "refunded"
        /\ \A i \in DOMAIN p \ {k} : SameMoney(p, q, i)
    BY <1>1
  <2> QED BY <2>1, BalanceRefunded
<1>4. Balance(p, o) \in Int /\ p[k].amount \in Int BY PaymentsOf
<1>5. CASE o # p[k].order BY <1>2, <1>3, <1>4, <1>5 DEF Meets
<1>6. CASE o = p[k].order
  <2>1. Balance(q, o) = Balance(p, o) - p[k].amount BY <1>3, <1>6
  <2>2. b >= Balance(p, o) /\ (Plain(q) => b = Balance(p, o)) BY <1>2 DEF Meets
  <2>3. Plain(q) => Balance(q, o) >= 0 BY <1>1, <1>2, BalanceCovers DEF RowsKnown
  <2> QED BY <1>4, <1>6, <2>1, <2>2, <2>3 DEF Meets, Less
<1> QED BY <1>5, <1>6

\* What a step may rely on.
LEMMA PaidNow ==
  ASSUME LedgerInv, NEW w \in Workers, PaidInv(w), ReversalMirrorsTarget, NEW step, At(w, step)
  PROVE  /\ task[w] \in Task /\ task[w].at = step /\ task[w] # Idle /\ TaskSound(task[w])
         /\ task[w].order \in Orders /\ orders[task[w].order] \in OrderRow
         /\ orders[task[w].order] # NoRow
         /\ task[w].row \in OrderRow /\ task[w].lines \in Seq(ItemRow) /\ task[w].amount \in Nat
         /\ task[w].tse \in TseResult
         /\ Remembers(task[w], orders, payments)
         /\ payments \in Seq(PaymentRow) /\ Len(payments) \in Nat
         /\ RowsKnown(orders, payments) /\ Mirrors(payments)
         /\ \A o \in Orders : orders[o] # NoRow =>
              /\ Meets(Booked(task[w], orders, payments, o), payments, o)
              /\ orders[o].paidAmount \in Nat
<1>1. /\ task[w] \in Task /\ task[w].at = step /\ task[w] # Idle /\ TaskSound(task[w])
      /\ task[w].order \in Orders /\ orders[task[w].order] \in OrderRow
      /\ task[w].row \in OrderRow /\ task[w].lines \in Seq(ItemRow)
  BY TaskAt DEF At
<1>2. task[w].amount \in Nat /\ task[w].tse \in TseResult BY <1>1 DEF Task
<1>3. /\ Remembers(task[w], orders, payments) /\ RowsKnown(orders, payments)
      /\ \A o \in Orders : orders[o] # NoRow => Meets(Booked(task[w], orders, payments, o), payments, o)
  BY <1>1 DEF PaidInv, AllMeet
<1>4. Mirrors(payments) BY DEF Mirrors, ReversalMirrorsTarget
<1>5. \A r \in OrderRow : r # NoRow /\ r.paidAmount \in Nat BY DEF OrderRow, NoRow
<1>6. \A o \in Orders : orders[o] # NoRow => orders[o].paidAmount \in Nat
  BY <1>5 DEF LedgerInv, Tables
<1> QED BY <1>1, <1>2, <1>3, <1>4, <1>5, <1>6, TablesNow

\* The orders stay, the balances too, and no reversal is reversed.
LEMMA PaidCarries ==
  ASSUME LedgerInv, LedgerInv', NEW w \in Workers, PaidInv(w), orders' = orders,
         RowsKnown(orders, payments'), Plain(payments') => Plain(payments),
         \A o \in Orders : Balance(payments', o) = Balance(payments, o),
         task[w] # Idle => task[w].at \notin Moving,
         NEW n, task'[w] = n, n # Idle => n.at \notin Moving /\ Remembers(n, orders, payments')
  PROVE  PaidInv(w)'
<1>1. ASSUME NEW o \in Orders, orders[o] # NoRow
      PROVE  Meets(Booked(n, orders, payments', o), payments', o)
  <2>1. Booked(n, orders, payments', o) = orders[o].paidAmount BY BookedRests
  <2>2. Booked(task[w], orders, payments, o) = orders[o].paidAmount BY BookedRests
  <2>3. Meets(orders[o].paidAmount, payments, o) BY <1>1, <2>2 DEF PaidInv, AllMeet
  <2> QED BY <2>1, <2>3 DEF Meets
<1>2. AllMeet(n, orders, payments') BY <1>1 DEF AllMeet
<1> QED BY <1>2 DEF PaidInv

\* The reversal of a payment counts for nothing.
LEMMA ReversalAdded ==
  ASSUME LedgerInv, NEW w \in Workers, PaidInv(w), ReversalMirrorsTarget,
         NEW k \in DOMAIN payments, NEW tse \in TseResult, Len(payments) < MaxPayments,
         NEW q, q = Append(payments, Reversal(k, tse))
  PROVE  /\ q \in Seq(PaymentRow) /\ Len(q) = Len(payments) + 1 /\ DOMAIN payments \subseteq DOMAIN q
         /\ \A i \in DOMAIN payments : q[i] = payments[i]
         /\ Mirrors(q) /\ (Plain(q) => Plain(payments)) /\ RowsKnown(orders, q)
         /\ \A o \in Orders : Balance(q, o) = Balance(payments, o)
<1> DEFINE row == Reversal(k, tse)
<1>1. /\ payments \in Seq(PaymentRow) /\ Mirrors(payments) /\ RowsKnown(orders, payments)
  BY TablesNow DEF PaidInv, Mirrors, ReversalMirrorsTarget
<1>2. k \in Nat /\ k # 0 BY TablesNow
<1>3. row \in PaymentRow BY PaymentType
<1>4. payments[k].amount \in Int BY RowOfOrder DEF PaymentRow
<1>5. /\ row.reverses = k /\ row.order = payments[k].order /\ row.amount = - payments[k].amount
      /\ row.status = "captured"
  BY DEF Reversal
<1>6. orders[row.order] # NoRow BY <1>1, <1>5 DEF RowsKnown
<1>7. payments[row.reverses].amount = - row.amount BY <1>4, <1>5
<1>8. q = Append(payments, row) OBVIOUS
<1> HIDE DEF row
<1>9. /\ q \in Seq(PaymentRow) /\ Len(q) = Len(payments) + 1 /\ DOMAIN payments \subseteq DOMAIN q
      /\ \A i \in DOMAIN payments : q[i] = payments[i]
      /\ q[Len(payments) + 1] = row
  BY <1>1, <1>3, <1>8
<1>9a. Mirrors(q) /\ (Plain(q) => Plain(payments)) /\ RowsKnown(orders, q)
  <2>1. row.reverses = 0 => row.amount > 0 BY <1>2, <1>5
  <2>2. row.reverses # 0 => /\ row.reverses \in DOMAIN payments
                            /\ payments[row.reverses].order = row.order
                            /\ payments[row.reverses].amount = - row.amount
    BY <1>5, <1>7
  <2> QED BY <1>1, <1>3, <1>6, <1>9, <2>1, <2>2, AddedPayment
<1>10. ASSUME NEW o \in Orders PROVE Balance(q, o) = Balance(payments, o)
  <2>1. Balance(Append(payments, row), o) =
          Balance(payments, o) + (IF row.order = o /\ row.reverses = 0 THEN row.amount ELSE 0)
    BY <1>1, <1>3, <1>5, BalanceAppended
  <2>2. Balance(payments, o) \in Int BY <1>1, PaymentsOf
  <2> QED BY <1>2, <1>5, <1>8, <2>1, <2>2
<1> QED BY <1>9, <1>9a, <1>10

\* The captured payments of a cancelled order are reversed.
LEMMA ReversePaid ==
  ASSUME LedgerInv, LedgerInv', NEW w \in Workers, PaidInv(w), ReversalMirrorsTarget,
         ReversePayment(w) \/ ForceReversePayment(w)
  PROVE  PaidInv(w)'
<1> DEFINE t == task[w]
<1>1. PICK step \in {"reverse", "forceReverse"} : At(w, step)
  BY DEF ReversePayment, ForceReversePayment
<1>2. /\ t \in Task /\ t.at = step /\ t # Idle /\ TaskSound(t)
      /\ Remembers(t, orders, payments) /\ RowsKnown(orders, payments)
  BY <1>1, PaidNow
<1>3. t.at \notin Moving BY <1>2 DEF Moving
<1>4. orders' = orders BY DEF ReversePayment, ForceReversePayment
<1>5. PICK k \in t.todo :
        /\ Len(payments) < MaxPayments
        /\ \/ \E tse \in TseResult : payments' = Append(payments, Reversal(k, tse))
           \/ payments' = payments
        /\ Done(w) \/ Go(w, [t EXCEPT !.todo = t.todo \ {k}])
  BY <1>2 DEF ReversePayment, ForceReversePayment, Task
<1>6. k \in DOMAIN payments BY <1>1, <1>2, <1>5 DEF TaskSound
<1>7. /\ RowsKnown(orders, payments') /\ (Plain(payments') => Plain(payments))
      /\ \A o \in Orders : Balance(payments', o) = Balance(payments, o)
  <2>1. CASE payments' = payments BY <1>2, <2>1
  <2>2. ASSUME NEW tse \in TseResult, payments' = Append(payments, Reversal(k, tse))
        PROVE  /\ RowsKnown(orders, payments') /\ (Plain(payments') => Plain(payments))
               /\ \A o \in Orders : Balance(payments', o) = Balance(payments, o)
    BY <1>5, <1>6, <2>2, ReversalAdded
  <2> QED BY <1>5, <2>1, <2>2
<1>8. CASE Done(w)
  <2>1. task'[w] = Idle BY <1>8, StockFacts
  <2> QED BY <1>3, <1>4, <1>7, <2>1, PaidCarries
<1>9. CASE Go(w, [t EXCEPT !.todo = t.todo \ {k}])
  <2> DEFINE n == [t EXCEPT !.todo = t.todo \ {k}]
  <2>1. n.at = step /\ n.op = t.op /\ n.order = t.order /\ n.row = t.row BY <1>2 DEF Task
  <2>2. Go(w, n) BY <1>9
  <2>3. task'[w] = n BY <2>2, StockFacts
  <2> HIDE DEF n
  <2>4. Remembers(n, orders, payments')
    BY <1>1, <1>2, <2>1 DEF Remembers, RowSteps, Booking
  <2> QED BY <1>3, <1>2, <1>4, <1>7, <2>1, <2>3, <2>4, PaidCarries
<1> QED BY <1>5, <1>8, <1>9

-----------------------------------------------------------------------------
(* Payments and refunds.                                                     *)

\* With one request at a time the items in memory are those of the table and every
\* payment is known: TypeORM refuses no save.
LEMMA SaveAccepted ==
  ASSUME LedgerInv, NEW w \in Workers, StockInv(w), PaidInv(w), ReversalMirrorsTarget,
         NEW step \in {"settle", "saveRefund", "forceRefund"}, At(w, step)
  PROVE  ~ Refused(task[w])
<1> DEFINE t == task[w]
<1>1. /\ t \in Task /\ t.at = step /\ t # Idle /\ Current(t, items, stock)
      /\ t.known = 1 .. MaxPayments /\ Len(payments) <= MaxPayments
      /\ t.lines \in Seq(ItemRow)
  BY InProgress, PaidNow DEF Remembers, RowsKnown
<1>2. Alike(t.lines, items) BY <1>1 DEF Current, UsesLines
<1>3. ItemsOf(items, t.order) \subseteq ItemsOf(t.lines, t.order)
  <2>1. Len(t.lines) = Len(items) /\ \A i \in 1 .. Len(items) : SameButPaid(t.lines[i], items[i])
    BY <1>2 DEF Alike
  <2>2. DOMAIN t.lines = DOMAIN items BY <1>1, <2>1, TablesNow
  <2> QED BY <2>1, <2>2, TablesNow DEF ItemsOf, SameButPaid
<1>4. MaxPayments \in Nat BY LedgerAssumption
<1>5. \A k \in DOMAIN payments : k \in t.known BY <1>1, <1>4, TablesNow
<1> QED BY <1>3, <1>5 DEF Refused, SaveRefused

\* The payment is booked, and the order about to say so.
LEMMA ChargePaid ==
  ASSUME LedgerInv, LedgerInv', NEW w \in Workers, PaidInv(w), ReversalMirrorsTarget, Charge(w)
  PROVE  PaidInv(w)'
<1> DEFINE t == task[w]
           o == t.order
<1>1. At(w, "charge") /\ orders' = orders /\ Len(payments) < MaxPayments BY DEF Charge
<1>2. /\ t \in Task /\ t.at = "charge" /\ t # Idle /\ o \in Orders
      /\ orders[o] # NoRow /\ t.amount \in Nat
      /\ Remembers(t, orders, payments)
      /\ payments \in Seq(PaymentRow) /\ Len(payments) \in Nat
      /\ RowsKnown(orders, payments) /\ Mirrors(payments)
      /\ \A u \in Orders : orders[u] # NoRow =>
           Meets(Booked(t, orders, payments, u), payments, u) /\ orders[u].paidAmount \in Nat
  BY <1>1, PaidNow
<1>3. t.amount > 0 /\ t.known = 1 .. MaxPayments /\ t.op # "posCreate"
      /\ t.row.paidAmount = orders[o].paidAmount
  BY <1>2 DEF Remembers, RowSteps, Booking
<1>4. PICK row \in PaymentRow :
        /\ payments' = Append(payments, row)
        /\ row.order = o /\ row.amount = t.amount /\ row.reverses = 0 /\ row.status = "captured"
  <2> DEFINE part == IF t.op = "split" THEN t.part ELSE NoPart
             row == NewPayment(o, t.amount, part)
  <2>1. part \in [item : Nat, quantity : Nat] BY <1>2, PaymentType DEF Task
  <2>2. payments' = Append(payments, row) BY DEF Charge
  <2>3. row \in PaymentRow BY <1>2, <2>1, PaymentType
  <2>4. row.order = o /\ row.amount = t.amount /\ row.reverses = 0 /\ row.status = "captured"
    BY DEF NewPayment
  <2> HIDE DEF row
  <2> QED BY <2>2, <2>3, <2>4
<1>5. /\ payments' \in Seq(PaymentRow) /\ Len(payments') = Len(payments) + 1
      /\ \A i \in DOMAIN payments : payments'[i] = payments[i]
      /\ payments'[Len(payments) + 1] = row
  BY <1>2, <1>4
<1>6. (Plain(payments') => Plain(payments)) /\ RowsKnown(orders, payments')
  <2>1. orders[row.order] # NoRow /\ row.amount > 0 BY <1>2, <1>3, <1>4
  <2> QED BY <1>1, <1>2, <1>4, <1>5, <2>1, AddedPayment
<1>7. PICK lines :
        Go(w, [t EXCEPT !.at = "settle", !.item = Len(payments) + 1, !.lines = lines])
  <2> DEFINE charged == [t EXCEPT !.at = "settle", !.item = Len(payments) + 1]
             line == [t.lines[t.part.item] EXCEPT !.paidQuantity = @ + t.part.quantity]
  <2>1. \/ Go(w, charged)
        \/ Go(w, [charged EXCEPT !.lines = [@ EXCEPT ![t.part.item] = line]])
    BY DEF Charge
  <2>2. charged = [t EXCEPT !.at = "settle", !.item = Len(payments) + 1, !.lines = t.lines]
    BY <1>2 DEF Task
  <2>3. \A x : [charged EXCEPT !.lines = x]
               = [t EXCEPT !.at = "settle", !.item = Len(payments) + 1, !.lines = x]
    BY <1>2 DEF Task
  <2>4. [charged EXCEPT !.lines = [@ EXCEPT ![t.part.item] = line]]
        = [charged EXCEPT !.lines = [charged.lines EXCEPT ![t.part.item] = line]]
    BY <1>2 DEF Task
  <2> HIDE DEF charged, line
  <2> QED BY <2>1, <2>2, <2>3, <2>4
<1> DEFINE n == [t EXCEPT !.at = "settle", !.item = Len(payments) + 1, !.lines = lines]
<1>8. /\ n.at = "settle" /\ n.item = Len(payments) + 1 /\ n.op = t.op /\ n.order = o
      /\ n.row = t.row /\ n.known = t.known /\ n.amount = t.amount
  BY <1>2 DEF Task
<1>9. task'[w] = n /\ n # Idle
  <2>1. n # Idle BY <1>2, <1>8 DEF Idle, Task, Operations
  <2> QED BY <1>7, <2>1, StockFacts
<1> HIDE DEF n
<1>10. Remembers(n, orders, payments')
  BY <1>3, <1>4, <1>5, <1>8 DEF Remembers, RowSteps, Booking
<1>11. ASSUME NEW u \in Orders, orders[u] # NoRow
       PROVE  Meets(Booked(n, orders, payments', u), payments', u)
  <2>1. Balance(payments', u) = Balance(payments, u) + (IF o = u THEN t.amount ELSE 0)
    <3>1. Balance(Append(payments, row), u) =
            Balance(payments, u) + (IF row.order = u /\ row.reverses = 0 THEN row.amount ELSE 0)
      BY <1>2, <1>4, BalanceAppended
    <3> QED BY <1>4, <3>1
  <2>2. Balance(payments, u) \in Int BY <1>2, PaymentsOf
  <2>3. Meets(orders[u].paidAmount, payments, u) /\ orders[u].paidAmount \in Nat
    <3>1. Booked(t, orders, payments, u) = orders[u].paidAmount BY <1>2, BookedRests DEF Moving
    <3> QED BY <1>2, <1>11, <3>1
  <2>4. Booked(n, orders, payments', u) = orders[u].paidAmount + (IF o = u THEN t.amount ELSE 0)
    BY <1>8, <1>9, <2>3 DEF Booked
  <2> QED BY <1>2, <1>6, <2>1, <2>2, <2>3, <2>4 DEF Meets
<1>12. AllMeet(n, orders, payments') BY <1>11 DEF AllMeet
<1> QED BY <1>1, <1>6, <1>9, <1>10, <1>12 DEF PaidInv

\* The order is saved with the amount booked before.
LEMMA WrittenPaid ==
  ASSUME LedgerInv, LedgerInv', NEW w \in Workers, PaidInv(w), ReversalMirrorsTarget,
         NEW step \in {"settle", "saveRefund"}, At(w, step), payments' = payments,
         NEW row \in OrderRow, orders' = [orders EXCEPT ![task[w].order] = row],
         row.paidAmount = Booked(task[w], orders, payments, task[w].order),
         NEW n, task'[w] = n,
         n # Idle => n.at \notin Moving /\ Remembers(n, orders', payments)
  PROVE  PaidInv(w)'
<1> DEFINE t == task[w]
           o == t.order
<1>1. /\ t # Idle /\ o \in Orders /\ orders[o] # NoRow /\ RowsKnown(orders, payments)
      /\ \A u \in Orders : orders[u] # NoRow => Meets(Booked(t, orders, payments, u), payments, u)
  BY PaidNow
<1>2. \A u \in Orders : orders'[u] = IF u = o THEN row ELSE orders[u]
  BY DEF LedgerInv, Tables
<1>3. \A r \in OrderRow : r # NoRow BY DEF OrderRow, NoRow
<1>4. \A k \in DOMAIN payments : payments[k].order \in Orders BY RowOfOrder
<1>5. RowsKnown(orders', payments) BY <1>1, <1>2, <1>3, <1>4 DEF RowsKnown
<1>6a. \A ords, u : Booked(n, ords, payments, u) = ords[u].paidAmount BY DEF Booked, Moving
<1>6. ASSUME NEW u \in Orders, orders'[u] # NoRow
      PROVE  Meets(Booked(n, orders', payments, u), payments, u)
  <2>1. Booked(n, orders', payments, u) = orders'[u].paidAmount BY <1>6a
  <2>2. orders[u] # NoRow BY <1>1, <1>2, <1>6
  <2>3. orders'[u].paidAmount = Booked(t, orders, payments, u)
    <3>1. CASE u = o BY <1>2, <3>1
    <3>2. CASE u # o BY <1>2, <3>2 DEF Booked
    <3> QED BY <3>1, <3>2
  <2> QED BY <1>1, <2>1, <2>2, <2>3
<1>7. AllMeet(n, orders', payments) BY <1>6 DEF AllMeet
<1> QED BY <1>5, <1>7 DEF PaidInv

\* A settled payment and a refund are saved on the order.
LEMMA SettlePaid ==
  ASSUME LedgerInv, LedgerInv', NEW w \in Workers, StockInv(w), PaidInv(w), ReversalMirrorsTarget,
         Settle(w) \/ SaveRefund(w)
  PROVE  PaidInv(w)'
<1> DEFINE t == task[w]
           o == t.order
<1>1. PICK step \in {"settle", "saveRefund"} : At(w, step) /\ payments' = payments
  BY DEF Settle, SaveRefund
<1>2. /\ t \in Task /\ t.at = step /\ t # Idle /\ o \in Orders /\ t.row \in OrderRow
      /\ t.amount \in Nat /\ Remembers(t, orders, payments)
  BY <1>1, PaidNow
<1>3. t.op # "posCreate" BY <1>2 DEF Remembers, Booking
<1>4. ~ Refused(t) BY <1>1, SaveAccepted
<1>5. CASE Settle(w)
  <2>1. step = "settle" BY <1>2, <1>5 DEF Settle, At
  <2> DEFINE row == SettledOrder(t)
             n == [t EXCEPT !.at = "sign"]
  <2>2. orders' = [orders EXCEPT ![o] = row] /\ Go(w, n)
    BY <1>4, <1>5 DEF Settle, SaveOrder, GoTo
  <2>3. row \in OrderRow BY <1>2, SettledType
  <2>4. row.paidAmount = t.row.paidAmount + t.amount
    BY <1>2 DEF SettledOrder, WithPaymentStatus, OrderRow
  <2>5. t.row.paidAmount = orders[o].paidAmount /\ payments[t.item].status = "captured"
    BY <1>2, <2>1 DEF Remembers, RowSteps
  <2>6. n.at = "sign" /\ n.op = t.op /\ n.order = o /\ n.item = t.item BY <1>2 DEF Task
  <2>7. task'[w] = n BY <2>2, StockFacts
  <2> HIDE DEF row, n
  <2>8. row.paidAmount = Booked(t, orders, payments, o) BY <1>2, <2>1, <2>4, <2>5 DEF Booked
  <2>9. n.at \notin Moving /\ Remembers(n, orders', payments)
    BY <1>3, <2>5, <2>6 DEF Moving, Remembers, RowSteps
  <2> QED BY <1>1, <2>2, <2>3, <2>7, <2>8, <2>9, WrittenPaid
<1>6. CASE SaveRefund(w)
  <2>1. step = "saveRefund" BY <1>2, <1>6 DEF SaveRefund, At
  <2> DEFINE n == [t EXCEPT !.at = "reverse", !.todo = {t.item}]
  <2>2. orders' = [orders EXCEPT ![o] = t.row] /\ Go(w, n)
    BY <1>4, <1>6 DEF SaveRefund, SaveOrder
  <2>3. n.at = "reverse" /\ n.op = t.op BY <1>2 DEF Task
  <2>4. task'[w] = n BY <2>2, StockFacts
  <2> HIDE DEF n
  <2>5. t.row.paidAmount = Booked(t, orders, payments, o) BY <1>2, <2>1 DEF Booked
  <2>6. n.at \notin Moving /\ Remembers(n, orders', payments)
    BY <1>3, <2>3 DEF Moving, Remembers, RowSteps
  <2> QED BY <1>1, <1>2, <2>2, <2>4, <2>5, <2>6, WrittenPaid
<1> QED BY <1>5, <1>6

\* The signature is saved with a payment that is still captured.
LEMMA SignPaid ==
  ASSUME LedgerInv, LedgerInv', NEW w \in Workers, PaidInv(w), ReversalMirrorsTarget, SignPayment(w)
  PROVE  PaidInv(w)'
<1> DEFINE t == task[w]
           k == t.item
<1>1. At(w, "sign") /\ orders' = orders /\ Done(w) BY DEF SignPayment
<1>2. /\ t \in Task /\ t.at = "sign" /\ t # Idle /\ k \in DOMAIN payments
      /\ Remembers(t, orders, payments)
      /\ payments \in Seq(PaymentRow) /\ RowsKnown(orders, payments) /\ Mirrors(payments)
  BY <1>1, PaidNow DEF TaskSound
<1>3. payments[k].status = "captured" BY <1>2 DEF Remembers
<1>4. task'[w] = Idle /\ t.at \notin Moving BY <1>1, <1>2, StockFacts DEF Moving
<1>5. CASE payments' = payments BY <1>1, <1>2, <1>4, <1>5, PaidRests
<1>6. ASSUME NEW tse \in TseResult, payments' = Marked(payments, k, "captured", tse)
      PROVE  PaidInv(w)'
  <2> DEFINE s == "captured"
  <2>1. s \in {"captured", "refunded"} /\ s = "captured" /\ payments' = Marked(payments, k, s, tse)
    BY <1>6
  <2> HIDE DEF s, t, k
  <2>2. /\ payments' \in Seq(PaymentRow) /\ DOMAIN payments' = DOMAIN payments
        /\ Len(payments') = Len(payments)
        /\ \A i \in DOMAIN payments :
             /\ payments'[i].order = payments[i].order /\ payments'[i].amount = payments[i].amount
             /\ payments'[i].reverses = payments[i].reverses
        /\ \A i \in DOMAIN payments \ {k} : SameMoney(payments, payments', i)
        /\ payments'[k].status = s
    <3>1. payments \in Seq(PaymentRow) /\ k \in DOMAIN payments BY <1>2
    <3>2. s \in {"captured", "refunded"} /\ payments' = Marked(payments, k, s, tse) BY <2>1
    <3> QED BY <3>1, <3>2, MarkedPayment
  <2>3. (Plain(payments') => Plain(payments)) /\ RowsKnown(orders, payments')
    BY <1>2, <2>2, MarkedTable
  <2>4. \A i \in DOMAIN payments : SameMoney(payments, payments', i)
    BY <1>2, <1>3, <2>1, <2>2 DEF SameMoney
  <2>5. \A o \in Orders : Balance(payments', o) = Balance(payments, o)
    BY <2>2, <2>4, BalanceSame
  <2> QED BY <1>1, <1>4, <2>3, <2>5, PaidCarries DEF t
<1>7. payments' = payments \/ \E tse \in TseResult : payments' = Marked(payments, k, "captured", tse)
  BY DEF SignPayment, Marked
<1> QED BY <1>5, <1>6, <1>7

\* The payment is refunded, and the order about to say so.
LEMMA RefundPaid ==
  ASSUME LedgerInv, LedgerInv', NEW w \in Workers, PaidInv(w), ReversalMirrorsTarget,
         RefundPayment(w)
  PROVE  PaidInv(w)'
<1> DEFINE t == task[w]
           k == t.item
           o == t.order
           n == [t EXCEPT !.at = "refundOrder"]
<1>1. /\ At(w, "refundPayment") /\ orders' = orders /\ Go(w, n)
      /\ payments' = Marked(payments, k, "refunded", t.tse)
  BY DEF RefundPayment, GoTo, Marked
<1>2. /\ t \in Task /\ t.at = "refundPayment" /\ t # Idle /\ k \in DOMAIN payments /\ o \in Orders
      /\ Remembers(t, orders, payments) /\ t.tse \in TseResult
      /\ payments \in Seq(PaymentRow) /\ RowsKnown(orders, payments) /\ Mirrors(payments)
      /\ \A u \in Orders : orders[u] # NoRow =>
           Meets(Booked(t, orders, payments, u), payments, u) /\ orders[u].paidAmount \in Nat
  BY <1>1, PaidNow DEF TaskSound
<1>3. /\ payments[k].status = "captured" /\ payments[k].order = o /\ orders[o].live
      /\ t.op # "posCreate"
  BY <1>2 DEF Remembers, Booking
<1>4. n.at = "refundOrder" /\ n.op = t.op /\ n.order = o /\ n.item = k BY <1>2 DEF Task
<1>5. task'[w] = n /\ n # Idle
  <2>1. n # Idle BY <1>2, <1>4 DEF Idle, Task, Operations
  <2> QED BY <1>1, <2>1, StockFacts
<1> HIDE DEF n
<1>6. /\ payments' \in Seq(PaymentRow) /\ Len(payments') = Len(payments)
      /\ \A i \in DOMAIN payments :
           /\ payments'[i].order = payments[i].order /\ payments'[i].amount = payments[i].amount
           /\ payments'[i].reverses = payments[i].reverses
  <2> HIDE DEF t, k
  <2> QED BY <1>1, <1>2, RefundedPayment
<1>7. RowsKnown(orders, payments') BY <1>2, <1>6, MarkedTable
<1>8. Remembers(n, orders, payments')
  <2>1. payments'[n.item].order = n.order BY <1>2, <1>3, <1>4, <1>6
  <2> QED BY <1>3, <1>4, <2>1 DEF Remembers, RowSteps
<1>9. ASSUME NEW u \in Orders, orders[u] # NoRow
      PROVE  Meets(Booked(n, orders, payments', u), payments', u)
  <2> DEFINE b == orders[u].paidAmount
  <2>1. Meets(b, payments, u) /\ b \in Int
    <3>1. Booked(t, orders, payments, u) = b BY <1>2, BookedRests DEF Moving
    <3> QED BY <1>2, <1>9, <3>1
  <2> HIDE DEF b, t, k, o
  <2>2. IF u = payments[k].order THEN Meets(Less(b, payments[k].amount), payments', u)
                                 ELSE Meets(b, payments', u)
    BY <1>1, <1>2, <1>3, <2>1, RefundedMeets
  <2>3. Booked(n, orders, payments', u) = IF u = o THEN Less(b, payments'[k].amount) ELSE b
    BY <1>4, <1>5 DEF Booked, b
  <2>4. payments'[k].amount = payments[k].amount BY <1>2, <1>6
  <2> QED BY <1>3, <2>2, <2>3, <2>4
<1>10. AllMeet(n, orders, payments') BY <1>9 DEF AllMeet
<1> QED BY <1>1, <1>5, <1>7, <1>8, <1>10 DEF PaidInv

\* The order is loaded again, and the amount taken out of it in memory.
LEMMA RepaidPaid ==
  ASSUME LedgerInv, LedgerInv', NEW w \in Workers, PaidInv(w), ReversalMirrorsTarget,
         RefundOrder(w)
  PROVE  PaidInv(w)'
<1> DEFINE t == task[w]
           k == t.item
           o == t.order
           row == WithPaymentStatus(Repaid(orders[o], payments[k].amount))
           n == [Reloaded(t, "saveRefund", row) EXCEPT
                   !.lines = UnpaidLines(items, o, payments[k].part)]
<1>1. At(w, "refundOrder") /\ orders' = orders /\ payments' = payments BY DEF RefundOrder, tables
<1>2. /\ t \in Task /\ t.at = "refundOrder" /\ t # Idle /\ o \in Orders /\ orders[o] \in OrderRow
      /\ Remembers(t, orders, payments) /\ RowsKnown(orders, payments)
      /\ \A u \in Orders : orders[u] # NoRow => Meets(Booked(t, orders, payments, u), payments, u)
  BY <1>1, PaidNow
<1>3. orders[o].live /\ t.op # "posCreate" BY <1>2 DEF Remembers, Booking
<1>4. Go(w, n) BY <1>3 DEF RefundOrder
<1>5. row.paidAmount = Less(orders[o].paidAmount, payments[k].amount)
  BY <1>2 DEF WithPaymentStatus, Repaid, OrderRow, Less
<1>6. /\ n.at = "saveRefund" /\ n.op = t.op /\ n.order = o /\ n.row = row
      /\ n.known = 1 .. MaxPayments
  BY <1>2 DEF Reloaded, Task
<1>7. task'[w] = n /\ n # Idle
  <2>1. n # Idle BY <1>2, <1>6 DEF Idle, Task, Operations
  <2> QED BY <1>4, <2>1, StockFacts
<1> HIDE DEF n, row
<1>8. Remembers(n, orders, payments) BY <1>3, <1>6 DEF Remembers, RowSteps
<1>9. ASSUME NEW u \in Orders PROVE Booked(n, orders, payments, u) = Booked(t, orders, payments, u)
  BY <1>2, <1>5, <1>6, <1>7 DEF Booked
<1>10. AllMeet(n, orders, payments) BY <1>2, <1>9 DEF AllMeet
<1> QED BY <1>1, <1>2, <1>7, <1>8, <1>10 DEF PaidInv

\* A forced refund saves the reversal, the payment and the order together.
LEMMA ForcedPaid ==
  ASSUME LedgerInv, LedgerInv', NEW w \in Workers, StockInv(w), PaidInv(w), ReversalMirrorsTarget,
         FinishForceRefund(w)
  PROVE  PaidInv(w)'
<1> DEFINE t == task[w]
           k == t.item
           o == t.order
<1>1. At(w, "forceRefund") /\ Done(w) BY DEF FinishForceRefund
<1>2. /\ t \in Task /\ t.at = "forceRefund" /\ t # Idle /\ k \in DOMAIN payments /\ o \in Orders
      /\ t.row \in OrderRow /\ Remembers(t, orders, payments) /\ t.tse \in TseResult
      /\ orders[o] # NoRow
      /\ payments \in Seq(PaymentRow) /\ RowsKnown(orders, payments) /\ Mirrors(payments)
      /\ \A u \in Orders : orders[u] # NoRow =>
           Meets(Booked(t, orders, payments, u), payments, u) /\ orders[u].paidAmount \in Nat
  BY <1>1, PaidNow DEF TaskSound
<1>3. /\ payments[k].status = "captured" /\ payments[k].order = o
      /\ t.row.paidAmount = Less(orders[o].paidAmount, payments[k].amount)
  BY <1>2 DEF Remembers
<1>4. task'[w] = Idle /\ t.at \notin Moving BY <1>1, <1>2, StockFacts DEF Moving
<1>5. ~ Refused(t) BY <1>1, SaveAccepted
<1>6. CASE payments' = payments /\ orders' = orders BY <1>1, <1>2, <1>4, <1>6, PaidRests
<1>7. ASSUME NEW r, r \in TseResult, Len(payments) < MaxPayments,
             payments' = Marked(Append(payments, Reversal(k, r)), k, "refunded", t.tse),
             orders' = [orders EXCEPT ![o] = t.row]
      PROVE  PaidInv(w)'
  <2>1. PICK all : all = Append(payments, Reversal(k, r)) OBVIOUS
  <2>2. /\ all \in Seq(PaymentRow) /\ Len(all) = Len(payments) + 1 /\ DOMAIN payments \subseteq DOMAIN all
        /\ \A i \in DOMAIN payments : all[i] = payments[i]
        /\ Mirrors(all) /\ (Plain(all) => Plain(payments)) /\ RowsKnown(orders, all)
        /\ \A u \in Orders : Balance(all, u) = Balance(payments, u)
    <3>1. k \in DOMAIN payments /\ Len(payments) < MaxPayments /\ r \in TseResult BY <1>2, <1>7
    <3> HIDE DEF t, k, o
    <3> QED BY <2>1, <3>1, ReversalAdded
  <2>3. k \in DOMAIN all /\ all[k].status = "captured" /\ all[k].order = o
        /\ all[k].amount = payments[k].amount
    BY <1>2, <1>3, <2>2
  <2>4. payments' = Marked(all, k, "refunded", t.tse) BY <1>7, <2>1
  <2>5. \A u \in Orders : orders'[u] = IF u = o THEN t.row ELSE orders[u]
    BY <1>7 DEF LedgerInv, Tables
  <2>6. \A x \in OrderRow : x # NoRow BY DEF OrderRow, NoRow
  <2> HIDE DEF t, k, o
  <2>7. /\ payments' \in Seq(PaymentRow) /\ Len(payments') = Len(all)
        /\ \A i \in DOMAIN all :
             /\ payments'[i].order = all[i].order /\ payments'[i].amount = all[i].amount
             /\ payments'[i].reverses = all[i].reverses
    <3>1. all \in Seq(PaymentRow) /\ k \in DOMAIN all /\ t.tse \in TseResult BY <1>2, <2>2, <2>3
    <3> QED BY <2>4, <3>1, RefundedPayment
  <2>8. RowsKnown(orders, payments') BY <2>2, <2>7, MarkedTable
  <2>9. \A i \in DOMAIN payments' : payments'[i].order \in Orders
    <3>1. \A i \in DOMAIN payments' : payments'[i] \in PaymentRow BY <2>7
    <3> QED BY <3>1 DEF PaymentRow
  <2>10. RowsKnown(orders', payments')
    BY <1>2, <2>5, <2>6, <2>8, <2>9 DEF RowsKnown
  <2>11. ASSUME NEW u \in Orders, orders'[u] # NoRow
         PROVE  Meets(Booked(Idle, orders', payments', u), payments', u)
    <3> DEFINE b == orders[u].paidAmount
    <3>1. orders[u] # NoRow BY <1>2, <2>5, <2>11
    <3>2. Meets(b, all, u) /\ b \in Int
      <4>1. Booked(t, orders, payments, u) = b BY <1>4, BookedRests
      <4>2. Meets(b, payments, u) /\ b \in Int BY <1>2, <3>1, <4>1
      <4> QED BY <2>2, <4>2 DEF Meets
    <3>3. orders'[u].paidAmount = IF u = o THEN Less(b, all[k].amount) ELSE b
      BY <1>3, <2>3, <2>5
    <3> HIDE DEF b
    <3>4. IF u = all[k].order THEN Meets(Less(b, all[k].amount), payments', u)
                              ELSE Meets(b, payments', u)
      BY <1>2, <2>2, <2>3, <2>4, <3>2, RefundedMeets
    <3>5. Booked(Idle, orders', payments', u) = orders'[u].paidAmount BY DEF Booked
    <3> QED BY <2>3, <3>3, <3>4, <3>5
  <2>12. AllMeet(Idle, orders', payments') BY <2>11 DEF AllMeet
  <2> QED BY <1>4, <2>10, <2>12 DEF PaidInv
<1>8. \/ payments' = payments /\ orders' = orders
      \/ /\ Len(payments) < MaxPayments
         /\ orders' = [orders EXCEPT ![o] = t.row]
         /\ \E tse \in TseResult :
              payments' = Marked(Append(payments, Reversal(k, tse)), k, "refunded", t.tse)
  BY <1>5 DEF FinishForceRefund, SaveOrder, Marked
<1> QED BY <1>6, <1>7, <1>8

\* Every step of a request in progress.
LEMMA ContinuePaid ==
  ASSUME LedgerInv, LedgerInv', NEW w \in Workers, StockInv(w), PaidInv(w), ReversalMirrorsTarget,
         Continue(w)
  PROVE  PaidInv(w)'
BY PlainSteps, ReloadPaid, KeepSteps, SavePaid, ReversePaid, ChargePaid, SettlePaid, SignPaid,
   RefundPaid, RepaidPaid, ForcedPaid
DEF Continue

\* Every step of a single worker that is not interrupted.
LEMMA PaidNext ==
  ASSUME LedgerInv, LedgerInv', NEW w, Workers = {w}, StockInv(w), PaidInv(w),
         ReversalMirrorsTarget, [Next]_vars
  PROVE  PaidInv(w)'
<1>1. CASE UNCHANGED vars BY <1>1 DEF vars, PaidInv
<1>2. CASE Request(w)
  <2>1. CASE \E o \in Orders, op \in {"create", "posCreate"}, d \in Discounts, cart \in Carts :
               CreateOrder(w, op, o, d, cart)
    BY <2>1, CreatePaid
  <2>2. CASE ~ \E o \in Orders, op \in {"create", "posCreate"}, d \in Discounts, cart \in Carts :
                 CreateOrder(w, op, o, d, cart)
    BY <1>2, <2>2, RequestPaid
  <2> QED BY <2>1, <2>2
<1>3. CASE Continue(w) BY <1>3, ContinuePaid
<1> QED BY <1>1, <1>2, <1>3 DEF Next, Rest

\* Between requests every order says what was paid.
LEMMA PaidMatches ==
  ASSUME LedgerInv, NEW w, Workers = {w}, PaidInv(w)
  PROVE  PaidAmountMatchesLedger
<1> SUFFICES ASSUME Quiet, NEW o \in Orders, Loadable(o)
             PROVE  LET P == {k \in DOMAIN payments : payments[k].order = o}
                        ledger == SumOfAmounts({k \in P : payments[k].reverses = 0})
                                    - SumOfAmounts({k \in P : payments[k].status = "refunded"})
                    IN /\ orders[o].paidAmount >= ledger
                       /\ ReversalTargetsOriginal => orders[o].paidAmount = ledger
  BY DEF PaidAmountMatchesLedger
<1> DEFINE P == {k \in DOMAIN payments : payments[k].order = o}
<1>1. task[w] = Idle BY DEF Quiet
<1>2. Booked(task[w], orders, payments, o) = orders[o].paidAmount BY <1>1, BookedRests
<1>3. Meets(orders[o].paidAmount, payments, o) BY <1>2 DEF PaidInv, AllMeet, Loadable, Exists
<1>4. {k \in P : payments[k].reverses = 0} = Charged(payments, o) BY DEF Charged
<1>5. {k \in P : payments[k].status = "refunded"} = Refunded(payments, o) BY DEF Refunded
<1>6. \A S : SumOfAmounts(S) = Total(payments, S) BY DEF SumOfAmounts, Total
<1>7. ReversalTargetsOriginal = Plain(payments) BY DEF ReversalTargetsOriginal, Plain
<1> HIDE DEF P
<1> QED BY <1>3, <1>4, <1>5, <1>6, <1>7 DEF Meets, Balance, P

\* Nothing was ordered and nothing was paid.
LEMMA PaidInit ==
  ASSUME Init, NEW w \in Workers
  PROVE  PaidInv(w)
<1>1. payments = <<>> /\ orders = [o \in Orders |-> NoRow] /\ task[w] = Idle BY DEF Init
<1>2. Len(payments) = 0 /\ DOMAIN payments = {} BY <1>1
<1>3. RowsKnown(orders, payments) BY <1>2, LedgerAssumption DEF RowsKnown, Positive
<1>4. AllMeet(task[w], orders, payments) BY <1>1 DEF AllMeet
<1> QED BY <1>1, <1>3, <1>4 DEF PaidInv

\* The run without interruptions is one of those with them.
LEMMA SpecIsFaultSpec == Spec => FaultSpec
<1>1. [Next]_vars => [FaultNext]_vars BY DEF FaultNext
<1> QED BY <1>1, PTL DEF Spec, FaultSpec

\* With one request at a time, none of them interrupted, an order says between requests that
\* exactly what was captured for it and not refunded was paid, however payments, splits,
\* refunds, cancels and aborted forced cancels follow each other (PaymentsService.create,
\* refund, forceRefund, forceCancelOrder); only the floor of refund at zero, after a
\* reversal was reversed, leaves more.
THEOREM PaidAmountsMatch ==
  ASSUME NEW w, Workers = {w}
  PROVE  Spec => []PaidAmountMatchesLedger
<1>1. Init => PaidInv(w) BY PaidInit
<1>2. LedgerInv /\ LedgerInv' /\ StockInv(w) /\ ReversalMirrorsTarget /\ PaidInv(w) /\ [Next]_vars
      => PaidInv(w)'
  BY PaidNext
<1>3. LedgerInv /\ PaidInv(w) => PaidAmountMatchesLedger BY PaidMatches
<1>4. Init => StockInv(w) BY StockInit
<1>5. LedgerInv /\ LedgerInv' /\ StockInv(w) /\ [Next]_vars => StockInv(w)' BY StockStep
<1> QED BY <1>1, <1>2, <1>3, <1>4, <1>5, LedgerHolds, ReversalsMirror, SpecIsFaultSpec, PTL DEF Spec

-----------------------------------------------------------------------------
(* Forced cancels.  The payments a forced cancel read are in its loop or have a     *)
(* reversal the TSE did not reject; no request in between captures another one.     *)

ForceSteps == {"forceReverse", "cancelItem", "cancelWrite"}

Answered(pays, k) == \E r \in DOMAIN pays : pays[r].reverses = k /\ pays[r].tse # "failed"

\* What a forced cancel has reversed, and still has to reverse.
Reverses(t, pays) ==
  /\ t.at \in ForceSteps
  /\ \A k \in CapturedOf(pays, t.order) :
       pays[k].reverses = 0 => Answered(pays, k) \/ (t.at = "forceReverse" /\ k \in t.todo)

ForceInv(w) == task[w] # Idle /\ task[w].op = "forceCancel" => Reverses(task[w], payments)

\* A request starts: only a forced cancel has payments to reverse.
LEMMA RequestForce ==
  ASSUME LedgerInv, LedgerInv', NEW w \in Workers, Request(w)
  PROVE  ForceInv(w)'
<1> DEFINE Others == Operations \ {"forceCancel"}
<1>1. \A n : Go(w, n) => task'[w] = n BY StockFacts
<1>2. ASSUME NEW n, Go(w, n), n.op \in Others PROVE ForceInv(w)'
  BY <1>1, <1>2 DEF ForceInv
<1>3. ASSUME NEW o \in Orders, NEW op \in {"create", "posCreate"}, NEW d \in Discounts,
             NEW cart \in Carts, CreateOrder(w, op, o, d, cart)
      PROVE  ForceInv(w)'
  <2>1. CASE UNCHANGED task
    <3>1. task[w] = Idle BY <1>3 DEF CreateOrder, Accept
    <3> QED BY <2>1, <3>1 DEF ForceInv
  <2> DEFINE n == [Begin(op, IF cart = <<>> THEN "zeroTotal" ELSE "addLine", o)
                   EXCEPT !.row = NewOrder(d), !.cart = cart]
  <2>2. CASE Go(w, n)
    <3>1. n.op \in Others BY DEF Begin, Operations
    <3> HIDE DEF n
    <3> QED BY <1>2, <2>2, <3>1
  <2> QED BY <1>3, <2>1, <2>2 DEF CreateOrder
<1>4. ASSUME NEW o \in Orders, NEW d \in Discounts, Update(w, o, d) PROVE ForceInv(w)'
  <2>1. PICK n : Go(w, n) /\ n.op = "update" BY <1>4 DEF Update, Begin
  <2> QED BY <1>2, <2>1 DEF Operations
<1>5. ASSUME NEW o \in Orders, NEW p \in Products, NEW q \in Quantities, AddItem(w, o, p, q)
      PROVE  ForceInv(w)'
  <2>1. PICK n : Go(w, n) /\ n.op = "addItem" BY <1>5 DEF AddItem, Begin
  <2> QED BY <1>2, <2>1 DEF Operations
<1>6. ASSUME NEW o \in Orders, NEW op \in {"pay", "posPay"}, NEW a \in Amounts,
             CreatePayment(w, op, o, a)
      PROVE  ForceInv(w)'
  <2>1. PICK n : Go(w, n) /\ n.op = op BY <1>6 DEF CreatePayment, Begin
  <2> QED BY <1>2, <2>1 DEF Operations
<1>7. ASSUME NEW o \in Orders,
             \/ \E s \in OrderStatus : ForceUpdateStatus(w, o, s)
             \/ Remove(w, o) \/ CompleteOrder(w, o) \/ CancelOrder(w, o) \/ PosCancelOrder(w, o)
      PROVE  ForceInv(w)'
  <2>1. ASSUME NEW s \in OrderStatus, ForceUpdateStatus(w, o, s) PROVE ForceInv(w)'
    <3>1. PICK n : Go(w, n) /\ n.op = "forceStatus" BY <2>1 DEF ForceUpdateStatus, Begin
    <3> QED BY <1>2, <3>1 DEF Operations
  <2>2. CASE Remove(w, o) \/ CompleteOrder(w, o) \/ CancelOrder(w, o) \/ PosCancelOrder(w, o)
    <3>1. PICK n : Go(w, n) /\ n.op \in {"remove", "complete", "cancel", "posCancel"}
      BY <2>2 DEF Remove, CompleteOrder, CancelOrder, PosCancelOrder, Begin
    <3> QED BY <1>2, <3>1 DEF Operations
  <2> QED BY <1>7, <2>1, <2>2
<1>8. ASSUME NEW o \in Orders, ForceCancelOrder(w, o) PROVE ForceInv(w)'
  <2> DEFINE n == [Begin("forceCancel", "forceReverse", o) EXCEPT !.todo = CapturedOf(payments, o)]
  <2>1. Go(w, n) /\ UNCHANGED tables BY <1>8 DEF ForceCancelOrder
  <2>2. n.at = "forceReverse" /\ n.order = o /\ n.todo = CapturedOf(payments, o) BY DEF Begin
  <2>3. task'[w] = n /\ payments' = payments BY <1>1, <2>1 DEF tables
  <2> HIDE DEF n
  <2> QED BY <2>2, <2>3 DEF ForceInv, Reverses, ForceSteps
<1>9. ASSUME NEW i \in DOMAIN items, NEW q \in Quantities, UpdateItem(w, i, q) PROVE ForceInv(w)'
  <2> DEFINE n == [Begin("updateItem", "adjust", items[i].order) EXCEPT !.item = i, !.amount = q]
  <2>1. Go(w, n) BY <1>9 DEF UpdateItem
  <2>2. n.op = "updateItem" BY DEF Begin
  <2> HIDE DEF n
  <2> QED BY <1>2, <2>1, <2>2 DEF Operations
<1>10. ASSUME NEW i \in DOMAIN items, NEW op \in {"split", "posSplit"}, NEW q \in Quantities,
              CreateSplitPayment(w, op, i, q)
       PROVE  ForceInv(w)'
  <2> DEFINE n == [Begin(op, "charge", items[i].order)
                   EXCEPT !.amount = Price[items[i].product] * q,
                          !.part = [item |-> i, quantity |-> q]]
  <2>1. Go(w, n) BY <1>10 DEF CreateSplitPayment
  <2>2. n.op = op BY DEF Begin
  <2> HIDE DEF n
  <2> QED BY <1>2, <2>1, <2>2 DEF Operations
<1>11. ASSUME NEW i \in DOMAIN items, RemoveItem(w, i) PROVE ForceInv(w)'
  <2> DEFINE n == [Begin("removeItem", "restore", items[i].order) EXCEPT !.item = i, !.todo = {i}]
  <2>1. Go(w, n) BY <1>11 DEF RemoveItem
  <2>2. n.op = "removeItem" BY DEF Begin
  <2> HIDE DEF n
  <2> QED BY <1>2, <2>1, <2>2 DEF Operations
<1>12. ASSUME NEW i \in DOMAIN items, NEW op \in {"ready", "deliver"}, MarkItem(w, op, i)
       PROVE  ForceInv(w)'
  <2> DEFINE n == [Begin(op, "mark", items[i].order) EXCEPT !.item = i]
  <2>1. Go(w, n) BY <1>12 DEF MarkItem
  <2>2. n.op = op BY DEF Begin
  <2> HIDE DEF n
  <2> QED BY <1>2, <2>1, <2>2 DEF Operations
<1>13. ASSUME NEW k \in DOMAIN payments, Refund(w, k) PROVE ForceInv(w)'
  <2> DEFINE n == [Begin("refund", "refundPayment", payments[k].order)
                   EXCEPT !.item = k, !.tse = payments[k].tse]
  <2>1. Go(w, n) BY <1>13 DEF Refund
  <2>2. n.op = "refund" BY DEF Begin
  <2> HIDE DEF n
  <2> QED BY <1>2, <2>1, <2>2 DEF Operations
<1>14. ASSUME NEW k \in DOMAIN payments, ForceRefund(w, k) PROVE ForceInv(w)'
  <2> DEFINE o == payments[k].order
             n == [Begin("forceRefund", "forceRefund", o)
                   EXCEPT !.item = k, !.tse = payments[k].tse,
                          !.row = WithPaymentStatus(Repaid(orders[o], payments[k].amount)),
                          !.lines = UnpaidLines(items, o, payments[k].part)]
  <2>1. Go(w, n) BY <1>14 DEF ForceRefund
  <2>2. n.op = "forceRefund" BY DEF Begin
  <2> HIDE DEF n
  <2> QED BY <1>2, <2>1, <2>2 DEF Operations
<1> QED
  BY <1>3, <1>4, <1>5, <1>6, <1>7, <1>8, <1>9, <1>10, <1>11, <1>12, <1>13, <1>14 DEF Request

\* A request goes on as what it is.
LEMMA OperationStays ==
  ASSUME LedgerInv, LedgerInv', NEW w \in Workers, Continue(w), task[w].op # "forceCancel"
  PROVE  task'[w] = Idle \/ task'[w].op # "forceCancel"
<1> DEFINE t == task[w]
           Follows == task'[w] = Idle \/ task'[w].op \in {t.op, "deliver"}
<1>1. \A n : Go(w, n) => task'[w] = n BY StockFacts
<1>2. \A step : At(w, step) => t \in Task BY TaskAt
<1>3. \A n : Go(w, n) /\ n.op \in {t.op, "deliver"} => Follows BY <1>1
<1>4. Done(w) => Follows BY <1>1 DEF Done
<1>5. \A step, next : At(w, step) /\ GoTo(w, next) => Follows
  <2> SUFFICES ASSUME NEW step, NEW next, At(w, step), GoTo(w, next) PROVE Follows OBVIOUS
  <2>1. Go(w, [t EXCEPT !.at = next]) BY DEF GoTo
  <2>2. [t EXCEPT !.at = next].op = t.op BY <1>2 DEF Task
  <2> QED BY <1>3, <2>1, <2>2
<1>6. ASSUME NEW step, At(w, step), NEW next, NEW row, Go(w, Reloaded(t, next, row)) PROVE Follows
  <2>1. Reloaded(t, next, row).op = t.op BY <1>2, <1>6 DEF Task, Reloaded
  <2> QED BY <1>3, <1>6, <2>1
<1> SUFFICES Follows OBVIOUS
<1> HIDE DEF Follows
<1>7. ASSUME \/ \E step \in {"saveDiscount", "saveTotals", "saveStatus", "saveFinal"} : SaveRow(w, step)
             \/ SaveAdjustment(w) \/ SaveUpdatedItem(w) \/ DeleteItem(w) \/ SaveMarked(w)
             \/ RestoreItem(w) \/ SoftRemove(w)
             \/ Settle(w) \/ SignPayment(w) \/ RefundPayment(w) \/ FinishForceRefund(w)
             \/ ReversalsDone(w)
      PROVE  Follows
  <2>1. PICK step : At(w, step) /\ (Done(w) \/ \E next : GoTo(w, next))
    BY <1>7 DEF SaveRow, SaveAdjustment, SaveUpdatedItem, DeleteItem, SaveMarked, RestoreItem, SoftRemove, Settle,
                SignPayment, RefundPayment, FinishForceRefund, ReversalsDone
  <2> QED BY <1>4, <1>5, <2>1
<1>8. CASE Recalculate(w) \/ UpdateStatus(w) \/ ZeroTotal(w)
  <2>1. PICK step : At(w, step) /\ (Done(w) \/ \E next, row : Go(w, Reloaded(t, next, row)))
    BY <1>8 DEF Recalculate, UpdateStatus, ZeroTotal
  <2> QED BY <1>4, <1>6, <2>1
<1>9. CASE AddLine(w)
  <2> DEFINE n == [t EXCEPT !.at = "takeStock", !.held = stock[Head(t.cart).product]]
  <2>1. At(w, "addLine") /\ (Done(w) \/ Go(w, n)) BY <1>9 DEF AddLine
  <2>2. n.op = t.op BY <1>2, <2>1 DEF Task
  <2> HIDE DEF n
  <2> QED BY <1>3, <1>4, <2>1, <2>2
<1>10. CASE TakeStock(w)
  <2>1. PICK next, cart : /\ At(w, "takeStock")
                          /\ Go(w, [t EXCEPT !.cart = cart, !.at = next])
    BY <1>10 DEF TakeStock
  <2>2. [t EXCEPT !.cart = cart, !.at = next].op = t.op BY <1>2, <2>1 DEF Task
  <2> QED BY <1>3, <2>1, <2>2
<1>11. CASE Adjust(w)
  <2> DEFINE n == [t EXCEPT !.at = "saveStock", !.held = stock[t.lines[t.item].product]]
  <2>1. At(w, "adjust") /\ (Done(w) \/ Go(w, n)) BY <1>11 DEF Adjust
  <2>2. n.op = t.op BY <1>2, <2>1 DEF Task
  <2> HIDE DEF n
  <2> QED BY <1>3, <1>4, <2>1, <2>2
<1>12. CASE AutoComplete(w)
  <2> DEFINE n == [Begin("deliver", "saveFinal", t.order) EXCEPT !.row.status = "completed"]
  <2>1. Done(w) \/ Go(w, n) BY <1>12 DEF AutoComplete
  <2>2. n.op = "deliver" BY DEF Begin
  <2> HIDE DEF n
  <2> QED BY <1>3, <1>4, <2>1, <2>2
<1>13. CASE ReadProduct(w, "restore", "restoreWrite") \/ ReadProduct(w, "cancelItem", "cancelWrite")
  <2>1. PICK step, next, i : At(w, step) /\
          Go(w, [t EXCEPT !.at = next, !.item = i, !.todo = @ \ {i},
                          !.held = stock[t.lines[i].product]])
    BY <1>13 DEF ReadProduct
  <2> DEFINE n == [t EXCEPT !.at = next, !.item = i, !.todo = @ \ {i},
                            !.held = stock[t.lines[i].product]]
  <2>2. n.op = t.op BY <1>2, <2>1 DEF Task
  <2>3. Go(w, n) BY <2>1
  <2> HIDE DEF n
  <2> QED BY <1>3, <2>2, <2>3
<1>14. CASE CancelItem(w)
  <2> DEFINE line == [t.lines[t.item] EXCEPT !.status = "cancelled"]
             n == [t EXCEPT !.at = "cancelItem", !.lines = [@ EXCEPT ![t.item] = line]]
  <2>1. At(w, "cancelWrite") /\ Go(w, n) BY <1>14 DEF CancelItem
  <2>2. n.op = t.op BY <1>2, <2>1 DEF Task
  <2> HIDE DEF n
  <2> QED BY <1>3, <2>1, <2>2
<1>15. CASE SaveCancelled(w)
  <2> DEFINE n == [t EXCEPT !.at = "reverse", !.todo = CapturedOf(payments, t.order)]
  <2>1. At(w, "cancelItem") /\ (Done(w) \/ Go(w, n)) BY <1>15 DEF SaveCancelled
  <2>2. n.op = t.op BY <1>2, <2>1 DEF Task
  <2> HIDE DEF n
  <2> QED BY <1>3, <1>4, <2>1, <2>2
<1>16. CASE ReversePayment(w) \/ ForceReversePayment(w)
  <2>1. PICK step, k : At(w, step) /\ (Done(w) \/ Go(w, [t EXCEPT !.todo = @ \ {k}]))
    BY <1>16 DEF ReversePayment, ForceReversePayment
  <2>2. [t EXCEPT !.todo = @ \ {k}].op = t.op BY <1>2, <2>1 DEF Task
  <2> QED BY <1>3, <1>4, <2>1, <2>2
<1>17. CASE ForceReversalsDone(w)
  <2> DEFINE n == [t EXCEPT !.at = "cancelItem", !.todo = ItemsOf(t.lines, t.order)]
  <2>1. At(w, "forceReverse") /\ Go(w, n) BY <1>17 DEF ForceReversalsDone
  <2>2. n.op = t.op BY <1>2, <2>1 DEF Task
  <2> HIDE DEF n
  <2> QED BY <1>3, <2>1, <2>2
<1>18. CASE Charge(w)
  <2>1. PICK a, b, c : /\ At(w, "charge")
                       /\ \/ Go(w, [[t EXCEPT !.at = a, !.item = b] EXCEPT !.lines = c])
                          \/ Go(w, [t EXCEPT !.at = a, !.item = b])
    <3> DEFINE i == t.part.item
               paid == [t.lines[i] EXCEPT !.paidQuantity = @ + t.part.quantity]
               m == [t EXCEPT !.at = "settle", !.item = Len(payments) + 1]
               n == [m EXCEPT !.lines = [@ EXCEPT ![i] = paid]]
    <3>1. At(w, "charge") /\ (Go(w, m) \/ Go(w, n)) BY <1>18 DEF Charge
    <3>2. n = [m EXCEPT !.lines = [t.lines EXCEPT ![i] = paid]]
      BY <1>2, <3>1 DEF Task
    <3> QED BY <3>1, <3>2
  <2>2. /\ [[t EXCEPT !.at = a, !.item = b] EXCEPT !.lines = c].op = t.op
        /\ [t EXCEPT !.at = a, !.item = b].op = t.op
    BY <1>2, <2>1 DEF Task
  <2> QED BY <1>3, <2>1, <2>2
<1>19. CASE RefundOrder(w)
  <2>1. PICK row, c : /\ At(w, "refundOrder")
                      /\ Done(w) \/ Go(w, [Reloaded(t, "saveRefund", row) EXCEPT !.lines = c])
    BY <1>19 DEF RefundOrder
  <2>2. [Reloaded(t, "saveRefund", row) EXCEPT !.lines = c].op = t.op
    BY <1>2, <2>1 DEF Task, Reloaded
  <2> QED BY <1>3, <1>4, <2>1, <2>2
<1>20. CASE SaveRefund(w)
  <2> DEFINE n == [t EXCEPT !.at = "reverse", !.todo = {t.item}]
  <2>1. At(w, "saveRefund") /\ (Done(w) \/ Go(w, n)) BY <1>20 DEF SaveRefund
  <2>2. n.op = t.op BY <1>2, <2>1 DEF Task
  <2> HIDE DEF n
  <2> QED BY <1>3, <1>4, <2>1, <2>2
<1> HIDE DEF t
<1> QED
  BY <1>7, <1>8, <1>9, <1>10, <1>11, <1>12, <1>13, <1>14, <1>15, <1>16, <1>17, <1>18, <1>19, <1>20
  DEF Continue

\* The steps of a forced cancel.
LEMMA ForcedSteps ==
  ASSUME LedgerInv, NEW w \in Workers, Continue(w), task[w].at \in ForceSteps
  PROVE  \/ ReadProduct(w, "cancelItem", "cancelWrite") \/ CancelItem(w) \/ SaveCancelled(w)
         \/ ForceReversePayment(w) \/ ForceReversalsDone(w)
<1> DEFINE Others == Steps \ ForceSteps
<1>1. ~ \E step \in Others : At(w, step) BY DEF At
<1>2. /\ AddLine(w) \/ TakeStock(w) \/ Recalculate(w) \/ UpdateStatus(w) \/ ZeroTotal(w)
         => \E step \in Others : At(w, step)
      /\ \A step \in {"saveDiscount", "saveTotals", "saveStatus", "saveFinal"} :
           SaveRow(w, step) => step \in Others /\ At(w, step)
  BY DEF AddLine, TakeStock, Recalculate, UpdateStatus, ZeroTotal, SaveRow, Steps, ForceSteps
<1>3. Adjust(w) \/ SaveAdjustment(w) \/ SaveUpdatedItem(w) \/ DeleteItem(w) \/ SaveMarked(w) \/ AutoComplete(w)
      => \E step \in Others : At(w, step)
  BY DEF Adjust, SaveAdjustment, SaveUpdatedItem, DeleteItem, SaveMarked, AutoComplete, Steps, ForceSteps
<1>4. ReadProduct(w, "restore", "restoreWrite") \/ RestoreItem(w) \/ SoftRemove(w)
      \/ ReversePayment(w) \/ ReversalsDone(w)
      => \E step \in Others : At(w, step)
  BY DEF ReadProduct, RestoreItem, SoftRemove, ReversePayment, ReversalsDone, Steps, ForceSteps
<1>5. Charge(w) \/ Settle(w) \/ SignPayment(w) \/ RefundPayment(w) \/ RefundOrder(w)
      \/ SaveRefund(w) \/ FinishForceRefund(w) => \E step \in Others : At(w, step)
  BY DEF Charge, Settle, SignPayment, RefundPayment, RefundOrder, SaveRefund, FinishForceRefund,
         Steps, ForceSteps
<1> HIDE DEF Others
<1> QED BY <1>1, <1>2, <1>3, <1>4, <1>5 DEF Continue

\* Every step of a request in progress; a rejected signature ends a forced cancel.
LEMMA ContinueForce ==
  ASSUME LedgerInv, LedgerInv', NEW w \in Workers, ForceInv(w), Continue(w)
  PROVE  ForceInv(w)'
<1> DEFINE t == task[w]
<1>1. \A n : Go(w, n) => task'[w] = n BY StockFacts
<1>2. Done(w) => ForceInv(w)' BY <1>1 DEF Done, ForceInv
<1>3. CASE t.op # "forceCancel" BY <1>3, OperationStays DEF ForceInv
<1>4. CASE t = Idle
  <2>1. \A step : ~ At(w, step) BY <1>4 DEF At
  <2>2. t.op # "forceCancel" BY <1>4 DEF Idle
  <2> QED BY <2>2, <1>3
<1>5. ASSUME t.op = "forceCancel", t # Idle, Reverses(t, payments) PROVE ForceInv(w)'
  <2>1. t.at \in ForceSteps BY <1>5 DEF Reverses
  <2>2. t \in Task BY <1>5 DEF LedgerInv
  <2>3. ASSUME NEW n, Go(w, n), UNCHANGED payments, n.order = t.order,
               n.at \in {"cancelItem", "cancelWrite"}, t.at # "forceReverse" \/ t.todo = {}
        PROVE  ForceInv(w)'
    BY <1>1, <1>5, <2>3 DEF ForceInv, Reverses, ForceSteps
  <2>4. CASE ReadProduct(w, "cancelItem", "cancelWrite")
    <3>1. PICK i : /\ At(w, "cancelItem") /\ UNCHANGED tables
                   /\ Go(w, [t EXCEPT !.at = "cancelWrite", !.item = i, !.todo = @ \ {i},
                                      !.held = stock[t.lines[i].product]])
      BY <2>4 DEF ReadProduct
    <3> DEFINE n == [t EXCEPT !.at = "cancelWrite", !.item = i, !.todo = @ \ {i},
                              !.held = stock[t.lines[i].product]]
    <3>2. n.order = t.order /\ n.at = "cancelWrite" BY <2>2 DEF Task
    <3>3. Go(w, n) /\ UNCHANGED payments /\ t.at = "cancelItem" BY <3>1 DEF tables, At
    <3> HIDE DEF n
    <3> QED BY <2>3, <3>2, <3>3
  <2>5. CASE CancelItem(w)
    <3> DEFINE line == [t.lines[t.item] EXCEPT !.status = "cancelled"]
               n == [t EXCEPT !.at = "cancelItem", !.lines = [@ EXCEPT ![t.item] = line]]
    <3>1. n.order = t.order /\ n.at = "cancelItem" BY <2>2 DEF Task
    <3>2. Go(w, n) /\ UNCHANGED payments /\ t.at = "cancelWrite" BY <2>5 DEF CancelItem, At
    <3> HIDE DEF n
    <3> QED BY <2>3, <3>1, <3>2
  <2>6. CASE SaveCancelled(w) BY <1>2, <1>5, <2>6 DEF SaveCancelled
  <2>7. CASE ForceReversalsDone(w)
    <3> DEFINE n == [t EXCEPT !.at = "cancelItem", !.todo = ItemsOf(t.lines, t.order)]
    <3>1. n.order = t.order /\ n.at = "cancelItem" BY <2>2 DEF Task
    <3>2. Go(w, n) /\ UNCHANGED payments /\ t.todo = {} BY <2>7 DEF ForceReversalsDone, tables
    <3> HIDE DEF n
    <3> QED BY <2>3, <3>1, <3>2
  <2>8. CASE ForceReversePayment(w)
    <3>1. PICK k \in t.todo, tse \in TseResult :
            /\ At(w, "forceReverse")
            /\ payments' = Append(payments, Reversal(k, tse))
            /\ IF AbortsForceCancel(tse) THEN Done(w) ELSE Go(w, [t EXCEPT !.todo = @ \ {k}])
      BY <2>8 DEF ForceReversePayment
    <3>2. CASE AbortsForceCancel(tse) BY <1>2, <3>1, <3>2
    <3>3. CASE ~ AbortsForceCancel(tse)
      <4> DEFINE n == [t EXCEPT !.todo = @ \ {k}]
                 q == Append(payments, Reversal(k, tse))
                 last == Len(payments) + 1
      <4>1. /\ n.op = t.op /\ n.order = t.order /\ n.at = t.at /\ n.todo = t.todo \ {k}
            /\ task'[w] = n
        BY <1>1, <2>2, <3>1, <3>3 DEF Task
      <4>2. k \in DOMAIN payments /\ k # 0 /\ t.at = "forceReverse" /\ payments \in Seq(PaymentRow)
        <5>1. TaskSound(t) /\ t.at = "forceReverse" BY <3>1, TaskAt
        <5> QED BY <5>1 DEF TaskSound, LedgerInv, Tables
      <4>3. /\ DOMAIN q = DOMAIN payments \cup {last} /\ last \in DOMAIN q
            /\ \A i \in DOMAIN payments : q[i] = payments[i]
            /\ q[last] = Reversal(k, tse)
        BY <4>2
      <4>4. q[last].reverses = k /\ q[last].tse = tse /\ tse # "failed"
        BY <3>3, <4>3 DEF Reversal, AbortsForceCancel
      <4> HIDE DEF n, q, last
      <4>5. Answered(q, k) /\ \A i \in DOMAIN payments : Answered(payments, i) => Answered(q, i)
        BY <4>3, <4>4 DEF Answered
      <4>6. ASSUME NEW i \in CapturedOf(q, t.order), q[i].reverses = 0
            PROVE  Answered(q, i) \/ i \in t.todo \ {k}
        <5>1. i \in CapturedOf(payments, t.order) /\ payments[i].reverses = 0
          BY <4>2, <4>3, <4>4, <4>6 DEF CapturedOf
        <5>2. i \in DOMAIN payments BY <5>1 DEF CapturedOf
        <5>3. Answered(payments, i) \/ i \in t.todo BY <1>5, <5>1 DEF Reverses
        <5> QED BY <4>5, <5>2, <5>3
      <4>7. Reverses(n, q) BY <4>1, <4>2, <4>6 DEF Reverses, ForceSteps
      <4>8. payments' = q BY <3>1 DEF q
      <4> QED BY <4>1, <4>7, <4>8 DEF ForceInv
    <3> QED BY <3>2, <3>3
  <2> QED BY <2>1, <2>4, <2>5, <2>6, <2>7, <2>8, ForcedSteps
<1> QED BY <1>3, <1>4, <1>5 DEF ForceInv

\* One worker, interrupted or not.
LEMMA ForceNext ==
  ASSUME LedgerInv, LedgerInv', NEW w, Workers = {w}, ForceInv(w), [FaultNext]_vars
  PROVE  ForceInv(w)'
<1>1. CASE UNCHANGED vars BY <1>1 DEF vars, ForceInv
<1>2. CASE Request(w) BY <1>2, RequestForce
<1>3. CASE Continue(w) BY <1>3, ContinueForce
<1>4. CASE Interrupt(w)
  <2>1. task'[w] = Idle BY <1>4, StockFacts DEF Interrupt
  <2> QED BY <2>1 DEF ForceInv
<1> QED BY <1>1, <1>2, <1>3, <1>4 DEF FaultNext, Next, Rest

\* What ForceCancelReversesAll says of a step.
CancelsReversed ==
  \A w \in Workers :
    LET t == task[w]
    IN /\ t # Idle /\ t.op = "forceCancel" /\ t.at = "cancelItem"
       /\ orders[t.order].status # "cancelled"
       /\ orders'[t.order].status = "cancelled"
       => \A k \in CapturedOf(payments, t.order) :
            payments[k].reverses = 0 =>
              \E r \in DOMAIN payments :
                payments[r].reverses = k /\ payments[r].tse # "failed"

\* With one request at a time, even one that stops between two steps, forceCancelOrder
\* cancels an order only when every captured payment of it has a reversal the TSE did not
\* reject: the payments it read are those that are there when the order is saved.
THEOREM ForcedCancelsReverse ==
  ASSUME NEW x, Workers = {x}
  PROVE  FaultSpec => ForceCancelReversesAll
<1>1. Init => ForceInv(x) BY DEF Init, ForceInv
<1>2. LedgerInv /\ LedgerInv' /\ ForceInv(x) /\ [FaultNext]_vars => ForceInv(x)' BY ForceNext
<1>3. ForceInv(x) => CancelsReversed BY DEF ForceInv, Reverses, Answered, CancelsReversed
<1>4. FaultSpec => [][CancelsReversed]_vars BY <1>1, <1>2, <1>3, LedgerHolds, PTL DEF FaultSpec
<1> QED BY <1>4 DEF ForceCancelReversesAll, CancelsReversed
=============================================================================
