------------------------ MODULE ShopCheckout_proofs ------------------------
(***************************************************************************)
(* Proofs about ShopCheckout, for every set of checkouts, any number of    *)
(* requests in progress and any bound of failures, crashes included.       *)
(***************************************************************************)
EXTENDS ShopCheckout, FiniteSetTheorems, SequenceTheorems, TLAPS

Sound == ClaimSound /\ ClaimExclusive /\ OrderOnlyWhenPaid

\* Until the claim of a checkout got an order, every order the checkout has is
\* due to a failed step; afterwards there may be one more.
OrderDue(c) ==
  \/ checkouts[c] = NoRow
  \/ checkouts[c].status # "paid"
  \/ \E w \in Workers : Holds(w, c) /\ task[w].at \in {"saveOrder", "release"}

Allowed(c) == failures[c] + (IF OrderDue(c) THEN 0 ELSE 1)

Budget == \A c \in Checkouts : Cardinality(OrdersOf(c)) <= Allowed(c)

IInv == TypeOK /\ Sound /\ Budget

-----------------------------------------------------------------------------
(* Rows and tasks.                                                         *)

\* A row of the table is told apart from a missing one by its type.
LEMMA RowIsNotNoRow == ASSUME NEW r \in CheckoutRow PROVE r # NoRow
  BY DEF CheckoutRow, NoRow, CheckoutStatus

\* A request in progress is told apart from an idle worker by its type.
LEMMA TaskIsNotIdle == ASSUME NEW t \in Task PROVE t # Idle
  BY DEF Task, Idle, Steps, Claimed

\* A worker at one of the steps is busy.
LEMMA AtIsBusy ==
  ASSUME TypeOK, NEW w \in Workers, NEW s \in Steps, At(w, s)
  PROVE  task[w] \in Task /\ task[w] # Idle /\ task[w].checkout \in Checkouts
  BY TaskIsNotIdle DEF TypeOK, At, Idle, Steps, Claimed, Task
-----------------------------------------------------------------------------
(* What a changed field does to a row and to a task.                       *)

\* A task that goes on to step s keeps its other fields.
LEMMA AtChanged ==
  \A t \in Task, s \in Steps :
    [t EXCEPT !.at = s] =
      [at |-> s, checkout |-> t.checkout, row |-> t.row, order |-> t.order]
  BY DEF Task

\* A task whose entity in memory changes keeps its other fields.
LEMMA RowChanged ==
  \A t \in Task, r \in CheckoutRow :
    [t EXCEPT !.row = r] =
      [at |-> t.at, checkout |-> t.checkout, row |-> r, order |-> t.order]
  BY DEF Task

\* A task that notes the order it saved keeps its other fields.
LEMMA OrderChanged ==
  \A t \in Task, n \in Nat :
    [t EXCEPT !.order = n] =
      [at |-> t.at, checkout |-> t.checkout, row |-> t.row, order |-> n]
  BY DEF Task

\* A checkout that changes its status keeps its other columns.
LEMMA StatusChanged ==
  \A r \in CheckoutRow, s \in CheckoutStatus :
    [r EXCEPT !.status = s] =
      [status |-> s, sumup |-> r.sumup, order |-> r.order, paidAt |-> r.paidAt]
  BY DEF CheckoutRow

\* A checkout that gets its SumUp session keeps its other columns.
LEMMA SumUpChanged ==
  \A r \in CheckoutRow, b \in BOOLEAN :
    [r EXCEPT !.sumup = b] =
      [status |-> r.status, sumup |-> b, order |-> r.order, paidAt |-> r.paidAt]
  BY DEF CheckoutRow

\* A checkout that gets its order keeps its other columns.
LEMMA LinkChanged ==
  \A r \in CheckoutRow, n \in Nat :
    [r EXCEPT !.order = n] =
      [status |-> r.status, sumup |-> r.sumup, order |-> n, paidAt |-> r.paidAt]
  BY DEF CheckoutRow

\* A checkout that gets a time of payment keeps its other columns.
LEMMA PaidAtChanged ==
  \A r \in CheckoutRow, b \in BOOLEAN :
    [r EXCEPT !.paidAt = b] =
      [status |-> r.status, sumup |-> r.sumup, order |-> r.order, paidAt |-> b]
  BY DEF CheckoutRow

\* An order that gets its items keeps what else it has.
LEMMA ItemsChanged ==
  \A x \in ShopOrder, b \in BOOLEAN :
    [x EXCEPT !.items = b] =
      [checkout |-> x.checkout, items |-> b, payment |-> x.payment]
  BY DEF ShopOrder

\* An order that gets its payment keeps what else it has.
LEMMA PaymentChanged ==
  \A x \in ShopOrder, b \in BOOLEAN :
    [x EXCEPT !.payment = b] =
      [checkout |-> x.checkout, items |-> x.items, payment |-> b]
  BY DEF ShopOrder

\* GoTo changes the step of one request and nothing else.
LEMMA GoToChanges ==
  ASSUME TypeOK, NEW w \in Workers, task[w] # Idle, NEW s \in Steps, GoTo(w, s)
  PROVE  task' = [task EXCEPT ![w] =
           [at |-> s, checkout |-> task[w].checkout,
            row |-> task[w].row, order |-> task[w].order]]
<1>1. task[w] \in Task
  BY DEF TypeOK
<1> QED
  BY <1>1, AtChanged DEF GoTo, Go

\* GoTo keeps the type of the tasks.
LEMMA GoToTyped ==
  ASSUME TypeOK, NEW w \in Workers, task[w] # Idle, NEW s \in Steps, GoTo(w, s)
  PROVE  task' \in [Workers -> Task \cup {Idle}]
<1>1. task[w] \in Task
  BY DEF TypeOK
<1>2. [task[w] EXCEPT !.at = s] \in Task
  BY <1>1, AtChanged DEF Task
<1> QED
  BY <1>2 DEF TypeOK, GoTo, Go

\* The row a claim, a release and the link of an order write.
LEMMA RowAfter ==
  ASSUME NEW r \in CheckoutRow, NEW s \in CheckoutStatus, NEW b \in BOOLEAN, NEW n \in Nat
  PROVE  /\ [r EXCEPT !.status = s, !.paidAt = b] =
              [status |-> s, sumup |-> r.sumup, order |-> r.order, paidAt |-> b]
         /\ [r EXCEPT !.status = s, !.order = n] =
              [status |-> s, sumup |-> r.sumup, order |-> n, paidAt |-> r.paidAt]
<1> DEFINE u == [r EXCEPT !.status = s]
<1>1. /\ u \in CheckoutRow
      /\ u = [status |-> s, sumup |-> r.sumup, order |-> r.order, paidAt |-> r.paidAt]
  BY StatusChanged DEF CheckoutRow
<1>2. /\ [u EXCEPT !.paidAt = b] =
           [status |-> u.status, sumup |-> u.sumup, order |-> u.order, paidAt |-> b]
      /\ [u EXCEPT !.order = n] =
           [status |-> u.status, sumup |-> u.sumup, order |-> n, paidAt |-> u.paidAt]
  BY <1>1, PaidAtChanged, LinkChanged
<1> QED
  BY <1>1, <1>2

\* The task of a request that learnt of a failed checkout.
LEMMA TaskClosing ==
  \A t \in Task, s \in CheckoutStatus :
    [t EXCEPT !.at = "close", !.row.status = s] =
      [at |-> "close", checkout |-> t.checkout,
       row |-> [t.row EXCEPT !.status = s], order |-> t.order]
<1> SUFFICES ASSUME NEW t \in Task, NEW s \in CheckoutStatus
             PROVE  [t EXCEPT !.at = "close", !.row.status = s] =
                      [at |-> "close", checkout |-> t.checkout,
                       row |-> [t.row EXCEPT !.status = s], order |-> t.order]
  OBVIOUS
<1> DEFINE u == [t EXCEPT !.at = "close"]
<1>1. /\ u \in Task /\ t.row \in CheckoutRow
      /\ u = [at |-> "close", checkout |-> t.checkout, row |-> t.row, order |-> t.order]
  BY AtChanged DEF Task, Steps
<1>2. [u.row EXCEPT !.status = s] \in CheckoutRow
  BY <1>1, StatusChanged DEF CheckoutRow
<1>3. [u EXCEPT !.row.status = s] =
        [at |-> u.at, checkout |-> u.checkout,
         row |-> [u.row EXCEPT !.status = s], order |-> u.order]
  BY <1>1, <1>2, RowChanged
<1> QED
  BY <1>1, <1>3

\* The task of a request that saved its order.
LEMMA TaskSaved ==
  \A t \in Task, n \in Nat :
    [t EXCEPT !.at = "saveItems", !.order = n] =
      [at |-> "saveItems", checkout |-> t.checkout, row |-> t.row, order |-> n]
<1> SUFFICES ASSUME NEW t \in Task, NEW n \in Nat
             PROVE  [t EXCEPT !.at = "saveItems", !.order = n] =
                      [at |-> "saveItems", checkout |-> t.checkout, row |-> t.row, order |-> n]
  OBVIOUS
<1> DEFINE u == [t EXCEPT !.at = "saveItems"]
<1>1. /\ u \in Task
      /\ u = [at |-> "saveItems", checkout |-> t.checkout, row |-> t.row, order |-> t.order]
  BY AtChanged DEF Task, Steps, Claimed
<1>2. [u EXCEPT !.order = n] =
        [at |-> u.at, checkout |-> u.checkout, row |-> u.row, order |-> n]
  BY <1>1, OrderChanged
<1> QED
  BY <1>1, <1>2

\* An order that got its items, or its payment.
LEMMA OrderRowSaved ==
  ASSUME TypeOK, NEW n \in DOMAIN shopOrders
  PROVE  LET its == [shopOrders EXCEPT ![n].items = TRUE]
             pay == [shopOrders EXCEPT ![n].payment = TRUE]
         IN /\ its \in Seq(ShopOrder) /\ pay \in Seq(ShopOrder)
            /\ DOMAIN its = DOMAIN shopOrders /\ DOMAIN pay = DOMAIN shopOrders
            /\ \A i \in DOMAIN shopOrders \ {n} :
                 its[i] = shopOrders[i] /\ pay[i] = shopOrders[i]
            /\ its[n] = [checkout |-> shopOrders[n].checkout, items |-> TRUE,
                         payment |-> shopOrders[n].payment]
            /\ pay[n] = [checkout |-> shopOrders[n].checkout,
                         items |-> shopOrders[n].items, payment |-> TRUE]
<1>1. shopOrders \in Seq(ShopOrder) /\ n \in 1 .. Len(shopOrders)
      /\ DOMAIN shopOrders = 1 .. Len(shopOrders) /\ shopOrders[n] \in ShopOrder
  BY LenProperties, ElementOfSeq DEF TypeOK
<1> DEFINE x == shopOrders[n]
<1>2. [x EXCEPT !.items = TRUE] \in ShopOrder /\ [x EXCEPT !.payment = TRUE] \in ShopOrder
  BY <1>1, ItemsChanged, PaymentChanged DEF ShopOrder
<1> DEFINE its == [shopOrders EXCEPT ![n] = [x EXCEPT !.items = TRUE]]
           pay == [shopOrders EXCEPT ![n] = [x EXCEPT !.payment = TRUE]]
<1>3. /\ its \in Seq(ShopOrder) /\ Len(its) = Len(shopOrders)
      /\ pay \in Seq(ShopOrder) /\ Len(pay) = Len(shopOrders)
  BY <1>1, <1>2, ExceptSeq
<1>4. DOMAIN its = DOMAIN shopOrders /\ DOMAIN pay = DOMAIN shopOrders
  BY <1>1
<1>5. /\ \A i \in DOMAIN shopOrders \ {n} : its[i] = shopOrders[i] /\ pay[i] = shopOrders[i]
      /\ its[n] = [x EXCEPT !.items = TRUE] /\ pay[n] = [x EXCEPT !.payment = TRUE]
  BY <1>1
<1> QED
  BY <1>1, <1>3, <1>4, <1>5, ItemsChanged, PaymentChanged

-----------------------------------------------------------------------------
(* The orders of a checkout are finitely many.                             *)

\* The orders of a checkout can be counted.
LEMMA OrdersFinite ==
  ASSUME TypeOK, NEW c \in Checkouts
  PROVE  IsFiniteSet(OrdersOf(c)) /\ Cardinality(OrdersOf(c)) \in Nat
<1>1. OrdersOf(c) \subseteq 1 .. Len(shopOrders) /\ Len(shopOrders) \in Nat
  BY LenProperties DEF OrdersOf, TypeOK
<1>2. IsFiniteSet(1 .. Len(shopOrders))
  BY <1>1, FS_Interval
<1>3. IsFiniteSet(OrdersOf(c))
  BY <1>1, <1>2, FS_Subset
<1> QED
  BY <1>3, FS_CardinalityType

-----------------------------------------------------------------------------
(* Every step keeps the types.                                             *)

\* The empty shop has the right types.
LEMMA InitType == Init => TypeOK
  BY EmptySeq DEF Init, TypeOK

\* Every step of the shop, and a crash, keeps the types.
LEMMA NextType == ASSUME TypeOK, ClaimSound, [Next \/ Crash]_vars PROVE TypeOK'
<1> USE DEF TypeOK
<1>1. ASSUME NEW w \in Workers, NEW c \in Checkouts, CreateCheckout(w, c) PROVE TypeOK'
  BY <1>1 DEF CreateCheckout, Go, SaveCheckout, NewCheckout, CheckoutRow, CheckoutStatus, Task, Steps
<1>2. ASSUME NEW w \in Workers, NEW c \in Checkouts, Settle(w, c), webhooks' \subseteq Checkouts
      PROVE TypeOK'
  BY <1>2 DEF Settle, Start, Go, NeedsSettling, Task, Steps
<1>3. ASSUME NEW w \in Workers, Continue(w) PROVE TypeOK'
  <2> DEFINE t == task[w]
             c == t.checkout
  <2>0. /\ t \in Task /\ t # Idle /\ c \in Checkouts /\ t.row \in CheckoutRow /\ t.order \in Nat
        /\ t.at \in Steps
    <3>1. t \in Task /\ t # Idle
      BY <1>3, AtIsBusy DEF Continue, OpenSession, KeepSession, Fetch, CloseCheckout,
         Claim, SaveShopOrder, SaveShopItems, SaveShopPayment, LinkOrder, TseSummary,
         Release, Steps, Claimed
    <3> QED
      BY <3>1 DEF Task
  <2>12. t.at \in {"saveItems", "savePayment"} => t.order \in DOMAIN shopOrders
    BY <2>0 DEF ClaimSound, TaskSound, Busy, Claimed
  <2>14. {"keepSession", "savePayment", "link"} \subseteq Steps
    BY DEF Steps, Claimed
  <2>13. checkouts[c] # NoRow
    BY <2>0 DEF ClaimSound, TaskSound, Busy
  <2>1. CASE OpenSession(w)
    BY <2>0, <2>1, <2>14, GoToTyped DEF OpenSession, CheckoutStatus
  <2>2. CASE KeepSession(w)
    <3>1. [t.row EXCEPT !.sumup = TRUE] \in CheckoutRow
      BY <2>0, SumUpChanged DEF CheckoutRow
    <3> QED
      BY <2>0, <2>2, <3>1 DEF KeepSession, Done, Go, SaveCheckout
  <2>3. CASE Fetch(w)
    <3>1. \A s \in CheckoutStatus :
            [t EXCEPT !.at = "close", !.row.status = s] \in Task
      BY <2>0, TaskClosing, StatusChanged DEF Task, Steps, CheckoutRow
    <3>2. [t EXCEPT !.at = "claim"] \in Task
      BY <2>0, AtChanged DEF Steps, Task
    <3>3. CASE SumUpStatus(c) = "paid"
      BY <2>0, <2>3, <3>2, <3>3 DEF Fetch, GoTo, Go
    <3>4. CASE SumUpStatus(c) \in {"failed", "cancelled"}
      BY <2>0, <2>3, <3>1, <3>4 DEF Fetch, Go, CheckoutStatus
    <3>5. CASE SumUpStatus(c) \notin {"paid", "failed", "cancelled"}
      BY <2>0, <2>3, <3>5 DEF Fetch, Done, Go
    <3> QED
      BY <3>3, <3>4, <3>5
  <2>4. CASE CloseCheckout(w)
    BY <2>0, <2>4 DEF CloseCheckout, Done, Go, SaveCheckout
  <2>5. CASE Claim(w)
    <3>1. [t EXCEPT !.at = "saveOrder"] \in Task
      BY <2>0, AtChanged DEF Steps, Claimed, Task
    <3>2. CASE Claimable(checkouts[c])
      <4>1. checkouts[c] \in CheckoutRow
        BY <2>0, <3>2 DEF Claimable, NoRow
      <4>2. [checkouts[c] EXCEPT !.status = "paid", !.paidAt = TRUE] \in CheckoutRow
        BY <4>1, RowAfter DEF CheckoutRow, CheckoutStatus
      <4> QED
        BY <2>0, <2>5, <3>1, <3>2, <4>2 DEF Claim, GoTo, Go, SaveCheckout
    <3>3. CASE ~ Claimable(checkouts[c])
      BY <2>0, <2>5, <3>3 DEF Claim, Done, Go
    <3> QED
      BY <3>2, <3>3
  <2>6. CASE SaveShopOrder(w)
    <3> DEFINE new == [checkout |-> c, items |-> FALSE, payment |-> FALSE]
    <3>1. new \in ShopOrder
      BY <2>0 DEF ShopOrder
    <3>2. Append(shopOrders, new) \in Seq(ShopOrder) /\ Len(shopOrders) \in Nat
      BY <3>1, AppendProperties, LenProperties
    <3>5. Len(shopOrders) + 1 \in Nat
      BY <3>2
    <3>3. [t EXCEPT !.at = "saveItems", !.order = Len(shopOrders) + 1] =
            [at |-> "saveItems", checkout |-> c, row |-> t.row, order |-> Len(shopOrders) + 1]
      BY <2>0, <3>5, TaskSaved
    <3>4. [t EXCEPT !.at = "saveItems", !.order = Len(shopOrders) + 1] \in Task
      BY <2>0, <3>2, <3>3 DEF Task, Steps, Claimed
    <3> QED
      BY <2>0, <2>6, <3>2, <3>4 DEF SaveShopOrder, Go
  <2>7. CASE SaveShopItems(w)
    BY <2>0, <2>7, <2>12, <2>14, OrderRowSaved, GoToTyped DEF SaveShopItems, At
  <2>8. CASE SaveShopPayment(w)
    BY <2>0, <2>8, <2>12, <2>14, OrderRowSaved, GoToTyped DEF SaveShopPayment, At
  <2>9. CASE LinkOrder(w)
    <3>1. [t.row EXCEPT !.status = "paid", !.order = t.order] \in CheckoutRow
      BY <2>0, RowAfter DEF CheckoutRow, CheckoutStatus
    <3>2. [t EXCEPT !.at = "summary"] \in Task
      BY <2>0, AtChanged DEF Steps, Claimed, Task
    <3> QED
      BY <2>0, <2>9, <3>1, <3>2 DEF LinkOrder, GoTo, Go, SaveCheckout
  <2>10. CASE TseSummary(w)
    BY <2>0, <2>10 DEF TseSummary, Done, Go
  <2>11. CASE Release(w)
    <3>1. checkouts[c] \in CheckoutRow
      BY <2>0, <2>13
    <3>2. Released(checkouts[c]) \in CheckoutRow
      BY <3>1, RowAfter DEF Released, CheckoutRow, CheckoutStatus
    <3> QED
      BY <2>0, <2>11, <3>2 DEF Release, Done, Go, SaveCheckout
  <2> QED
    BY <1>3, <2>1, <2>2, <2>3, <2>4, <2>5, <2>6, <2>7, <2>8, <2>9, <2>10, <2>11
       DEF Continue
<1>4. ASSUME NEW w \in Workers, Fail(w) PROVE TypeOK'
  BY <1>4, GoToChanges DEF Fail, Done, Go, Task, Steps, Claimed
<1>5. ASSUME NEW c \in Checkouts, NEW s \in CheckoutStatus, Outcome(c, s) PROVE TypeOK'
  BY <1>5 DEF Outcome
<1>6. CASE Crash
  BY <1>6 DEF Crash
<1>7. CASE UNCHANGED vars
  BY <1>7 DEF vars
<1> QED
  BY <1>1, <1>2, <1>3, <1>4, <1>5, <1>6, <1>7 DEF Next, VerifyCheckout, CheckoutWebhook

-----------------------------------------------------------------------------
(* Every step keeps what requests, rows and claims rely on.                *)

\* Orders only become more complete.
OrdersGrow ==
  /\ DOMAIN shopOrders \subseteq DOMAIN shopOrders'
  /\ \A i \in DOMAIN shopOrders :
       /\ shopOrders'[i].checkout = shopOrders[i].checkout
       /\ shopOrders[i].items => shopOrders'[i].items
       /\ \A c \in Checkouts : LinkedTo(c, i) => LinkedTo(c, i)'

\* A request that works on a checkout together with another one is not
\* creating it.
LEMMA NotAlone ==
  ASSUME TypeOK, Sound, NEW c \in Checkouts, NEW v \in Workers, NEW w \in Workers,
         v # w, Busy(v, c), Busy(w, c)
  PROVE  task[v].at \notin {"open", "keepSession"} /\ checkouts[c].sumup
  BY DEF Sound, ClaimSound, TaskSound

\* A step of w on checkout c leaves every other request sound, if it leaves
\* to the requests on the same checkout what they rely on.
LEMMA OthersSound ==
  ASSUME TypeOK, Sound, NEW w \in Workers, NEW c \in Checkouts, NEW u,
         task' = [task EXCEPT ![w] = u],
         u = Idle \/ u.checkout = c,
         \A d \in Checkouts \ {c} : checkouts'[d] = checkouts[d] /\ sessions'[d] = sessions[d],
         OrdersGrow,
         \A v \in Workers \ {w} : Busy(v, c) =>
           /\ task[v].at \notin {"open", "keepSession"}
           /\ sessions'[c] = sessions[c]
           /\ checkouts'[c] # NoRow /\ checkouts'[c].sumup
  PROVE  \A v \in Workers, d \in Checkouts : v # w /\ Busy(v, d)' => TaskSound(v, d)'
<1> SUFFICES ASSUME NEW v \in Workers, NEW d \in Checkouts, v # w, Busy(v, d)'
             PROVE  TaskSound(v, d)'
  OBVIOUS
<1>1. Busy(v, d) /\ task'[v] = task[v] /\ task[v] \in Task
  BY DEF Busy, TypeOK
<1>2. TaskSound(v, d)
  BY <1>1 DEF Sound, ClaimSound
<1>3. sessions'[d] = sessions[d] /\ checkouts'[d] # NoRow
  BY <1>1, <1>2 DEF TaskSound
<1>4. task[v].at \in {"open", "keepSession"} =>
        d # c /\ \A x \in Workers : Busy(x, d)' => x = v
  BY <1>1, <1>2 DEF Busy, TypeOK, TaskSound
<1>5. \/ task[v].at \notin {"open", "keepSession"} /\ checkouts'[d].sumup
      \/ checkouts'[d] = checkouts[d]
  BY <1>1, <1>2 DEF TaskSound
<1>6. task[v].row.order # 0 => LinkedTo(d, task[v].row.order)'
  BY <1>1, <1>2 DEF TaskSound, OrdersGrow, LinkedTo
<1>7. task[v].at \in Claimed \ {"saveOrder", "release"} =>
        /\ task[v].order \in DOMAIN shopOrders' /\ shopOrders'[task[v].order].checkout = d
        /\ task[v].at # "saveItems" => shopOrders'[task[v].order].items
        /\ task[v].at \notin {"saveItems", "savePayment"} => LinkedTo(d, task[v].order)'
  BY <1>1, <1>2 DEF TaskSound, OrdersGrow, LinkedTo
<1> QED
  BY <1>1, <1>2, <1>3, <1>4, <1>5, <1>6, <1>7 DEF TaskSound

\* A step of w on checkout c that makes u of its task, and what it must do to
\* keep everything sound.
KeepsSound(w, c, u) ==
  /\ task' = [task EXCEPT ![w] = u]
  /\ u # Idle => /\ u.checkout = c /\ TaskSound(w, c)'
                 /\ u.at \in Claimed => checkouts'[c].status = "paid"
  /\ \A d \in Checkouts \ {c} : checkouts'[d] = checkouts[d] /\ sessions'[d] = sessions[d]
  /\ OrdersGrow
  /\ \A i \in DOMAIN shopOrders' \ DOMAIN shopOrders :
       shopOrders'[i].checkout = c /\ sessions'[c] = "paid"
  /\ sessions[c] = "paid" => sessions'[c] = "paid"
  /\ RowSound(c)'
  /\ \A v \in Workers \ {w} : Busy(v, c) =>
       /\ task[v].at \notin {"open", "keepSession"}
       /\ sessions'[c] = sessions[c]
       /\ checkouts'[c] # NoRow /\ checkouts'[c].sumup
  /\ \A v \in Workers \ {w} : Holds(v, c) =>
       checkouts'[c].status = "paid" /\ ~ (u # Idle /\ u.at \in Claimed)

\* A step of w on checkout c that keeps what the others rely on keeps Sound.
LEMMA StepSound ==
  ASSUME TypeOK, Sound, TypeOK', NEW w \in Workers, NEW c \in Checkouts, NEW u,
         KeepsSound(w, c, u)
  PROVE  Sound'
<1> USE DEF KeepsSound
<1>1. \A v \in Workers, d \in Checkouts : v # w /\ Busy(v, d)' => TaskSound(v, d)'
  BY OthersSound
<1>2. \A d \in Checkouts : Busy(w, d)' => d = c /\ TaskSound(w, c)'
  BY DEF Busy, TypeOK
<1>3. ASSUME NEW d \in Checkouts, d # c PROVE RowSound(d)'
  BY <1>3 DEF Sound, ClaimSound, RowSound, OrdersGrow, LinkedTo
<1>4. ClaimSound'
  BY <1>1, <1>2, <1>3 DEF ClaimSound
<1>5. ASSUME NEW v \in Workers, NEW d \in Checkouts, Holds(v, d)'
      PROVE  checkouts'[d].status = "paid" /\ \A x \in Workers : Holds(x, d)' => x = v
  <2>1. \A x \in Workers : x # w /\ Holds(x, d)' => Holds(x, d)
    BY DEF Holds, Busy, TypeOK
  <2>2. Holds(w, d)' => d = c /\ u # Idle /\ u.at \in Claimed
    BY DEF Holds, Busy, TypeOK
  <2> QED
    BY <1>5, <2>1, <2>2 DEF Sound, ClaimExclusive
<1>6. ASSUME NEW i \in DOMAIN shopOrders'
      PROVE  sessions'[shopOrders'[i].checkout] = "paid"
  <2>1. CASE i \notin DOMAIN shopOrders
    BY <2>1
  <2>2. CASE i \in DOMAIN shopOrders
    <3>2. shopOrders[i] \in ShopOrder
      BY <2>2, LenProperties, ElementOfSeq DEF TypeOK
    <3>1. shopOrders[i].checkout \in Checkouts
      BY <3>2 DEF ShopOrder
    <3> QED
      BY <2>2, <3>1 DEF Sound, OrderOnlyWhenPaid, OrdersGrow
  <2> QED
    BY <2>1, <2>2
<1> QED
  BY <1>4, <1>5, <1>6 DEF Sound, ClaimExclusive, OrderOnlyWhenPaid

\* Orders that stay as they are keep what links to them.
LEMMA SameOrders == ASSUME UNCHANGED shopOrders PROVE OrdersGrow
  BY DEF OrdersGrow, LinkedTo

\* A request in progress: what it relies on, and the other requests of the
\* same checkout.
LEMMA AtStep ==
  ASSUME TypeOK, Sound, NEW w \in Workers, NEW s \in Steps, At(w, s),
         NEW c, c = task[w].checkout
  PROVE  /\ task[w] \in Task /\ task[w] # Idle /\ task[w].at = s
         /\ task[w].row \in CheckoutRow /\ task[w].order \in Nat
         /\ c \in Checkouts /\ Busy(w, c) /\ TaskSound(w, c) /\ RowSound(c)
         /\ checkouts[c] \in CheckoutRow
         /\ \A v \in Workers \ {w} : Busy(v, c) =>
              /\ task[v].at \notin {"open", "keepSession"} /\ checkouts[c].sumup
              /\ s \notin {"open", "keepSession"}
         /\ s \in Claimed =>
              /\ checkouts[c].status = "paid" /\ sessions[c] = "paid"
              /\ \A v \in Workers \ {w} : ~ Holds(v, c)
<1> DEFINE t == task[w]
<1>1. t \in Task /\ t # Idle /\ c \in Checkouts /\ t.at = s
  BY AtIsBusy DEF At
<1>2. t.row \in CheckoutRow /\ t.order \in Nat
  BY <1>1 DEF Task
<1>3. Busy(w, c) /\ TaskSound(w, c) /\ RowSound(c)
  BY <1>1 DEF Busy, Sound, ClaimSound
<1>4. checkouts[c] \in CheckoutRow
  BY <1>1, <1>3 DEF TaskSound, TypeOK
<1>5. \A v \in Workers \ {w} : Busy(v, c) =>
        /\ task[v].at \notin {"open", "keepSession"} /\ checkouts[c].sumup
        /\ s \notin {"open", "keepSession"}
  BY <1>1, <1>3, NotAlone
<1>6. s \in Claimed =>
        /\ checkouts[c].status = "paid" /\ sessions[c] = "paid"
        /\ \A v \in Workers \ {w} : ~ Holds(v, c)
  BY <1>1, <1>3 DEF Sound, ClaimExclusive, Holds, TaskSound
<1> QED
  BY <1>1, <1>2, <1>3, <1>4, <1>5, <1>6

\* createOnlineCheckout at SumUp keeps Sound.
LEMMA OpenSessionSound ==
  ASSUME TypeOK, Sound, TypeOK', NEW w \in Workers, OpenSession(w),
         NEW c, c = task[w].checkout
  PROVE  Sound'
<1> DEFINE t == task[w]
           u == [at |-> "keepSession", checkout |-> c, row |-> t.row, order |-> t.order]
<1>1. "open" \in Steps /\ "keepSession" \in Steps
  BY DEF Steps
<1>2. /\ t \in Task /\ t # Idle /\ c \in Checkouts /\ t.at = "open"
      /\ Busy(w, c) /\ TaskSound(w, c) /\ RowSound(c) /\ checkouts[c] \in CheckoutRow
      /\ \A v \in Workers \ {w} : ~ Busy(v, c)
  BY <1>1, AtStep DEF OpenSession
<1>3. task' = [task EXCEPT ![w] = u] /\ u # Idle
  BY <1>1, <1>2, GoToChanges DEF OpenSession, Idle
<1>4. /\ UNCHANGED <<checkouts, shopOrders>> /\ sessions' = [sessions EXCEPT ![c] = "pending"]
      /\ \A d \in Checkouts \ {c} : sessions'[d] = sessions[d]
      /\ sessions[c] = "none"
  BY <1>2 DEF OpenSession, TypeOK, TaskSound
<1>5. TaskSound(w, c)'
  <2>1. \A v \in Workers : Busy(v, c)' => v = w
    BY <1>2, <1>3 DEF Busy, TypeOK
  <2>2. task'[w] = u
    BY <1>3 DEF TypeOK
  <2> QED
    BY <1>2, <1>4, <2>1, <2>2 DEF TaskSound, Claimed, LinkedTo
<1>6. RowSound(c)'
  BY <1>2, <1>4 DEF RowSound, TaskSound, LinkedTo
<1>7. KeepsSound(w, c, u)
  BY <1>2, <1>3, <1>4, <1>5, <1>6, SameOrders DEF KeepsSound, Claimed, Holds
<1> QED
  BY <1>2, <1>7, StepSound

\* A request that goes from step s to task u while the tables stay as they are.
Moves(w, s, c, u) ==
  /\ At(w, s)
  /\ c = task[w].checkout
  /\ task' = [task EXCEPT ![w] = u]
  /\ UNCHANGED <<checkouts, shopOrders, sessions>>
  /\ u # Idle => /\ s \notin {"open", "keepSession"}
                 /\ u.checkout = c /\ TaskSound(w, c)'
                 /\ u.at \in Claimed => s \in Claimed

\* A request that goes on or ends without writing a row keeps Sound.
LEMMA MoveSound ==
  ASSUME TypeOK, Sound, TypeOK', NEW w \in Workers, NEW s \in Steps, NEW c, NEW u,
         Moves(w, s, c, u)
  PROVE  Sound'
<1> USE DEF Moves
<1>1. /\ c \in Checkouts /\ TaskSound(w, c) /\ RowSound(c)
      /\ \A v \in Workers \ {w} : Busy(v, c) =>
           task[v].at \notin {"open", "keepSession"} /\ checkouts[c].sumup
      /\ s \in Claimed => /\ checkouts[c].status = "paid"
                           /\ \A v \in Workers \ {w} : ~ Holds(v, c)
  BY AtStep
<1>2. \A v \in Workers \ {w} : Holds(v, c) => checkouts[c].status = "paid"
  BY <1>1 DEF Sound, ClaimExclusive
<1>3. RowSound(c)'
  BY <1>1 DEF RowSound, LinkedTo
<1>4. KeepsSound(w, c, u)
  BY <1>1, <1>2, <1>3, SameOrders DEF KeepsSound, TaskSound
<1> QED
  BY <1>1, <1>4, StepSound

\* Saving the id of the SumUp session keeps Sound.
LEMMA KeepSessionSound ==
  ASSUME TypeOK, Sound, TypeOK', NEW w \in Workers, KeepSession(w),
         NEW c, c = task[w].checkout
  PROVE  Sound'
<1> DEFINE t == task[w]
<1>1. "keepSession" \in Steps
  BY DEF Steps
<1>2. /\ c \in Checkouts /\ TaskSound(w, c) /\ RowSound(c) /\ checkouts[c] \in CheckoutRow
      /\ t.at = "keepSession" /\ t.row \in CheckoutRow
      /\ \A v \in Workers \ {w} : ~ Busy(v, c)
  BY <1>1, AtStep DEF KeepSession
<1>3. /\ task' = [task EXCEPT ![w] = Idle]
      /\ UNCHANGED <<shopOrders, sessions>>
      /\ checkouts'[c] = [t.row EXCEPT !.sumup = TRUE]
      /\ \A d \in Checkouts \ {c} : checkouts'[d] = checkouts[d]
  BY <1>2 DEF KeepSession, SaveCheckout, Done, Go, TypeOK
<1>4. t.row = NewCheckout /\ [t.row EXCEPT !.sumup = TRUE].status = "pending"
      /\ [t.row EXCEPT !.sumup = TRUE].order = 0
  BY <1>2 DEF TaskSound, NewCheckout
<1>5. RowSound(c)' /\ checkouts'[c] # NoRow
  BY <1>3, <1>4 DEF RowSound, NoRow
<1>6. KeepsSound(w, c, Idle)
  BY <1>2, <1>3, <1>5, SameOrders DEF KeepsSound, Holds
<1> QED
  BY <1>2, <1>6, StepSound

\* Reading the status at SumUp keeps Sound.
LEMMA FetchSound ==
  ASSUME TypeOK, Sound, TypeOK', NEW w \in Workers, Fetch(w),
         NEW c, c = task[w].checkout
  PROVE  Sound'
<1> DEFINE t == task[w]
<1>1. {"fetch", "claim", "close"} \subseteq Steps \ Claimed
  BY DEF Steps, Claimed
<1>2. /\ c \in Checkouts /\ TaskSound(w, c) /\ t \in Task /\ t # Idle
      /\ t.at = "fetch" /\ t.row \in CheckoutRow /\ At(w, "fetch")
      /\ sessions[c] \in CheckoutStatus \cup {"none"}
      /\ UNCHANGED <<checkouts, shopOrders, sessions>>
  BY <1>1, AtStep DEF Fetch, TypeOK
<1>3. CASE sessions[c] = "paid"
  <2> DEFINE u == [at |-> "claim", checkout |-> c, row |-> t.row, order |-> t.order]
  <2>1. GoTo(w, "claim")
    BY <1>3 DEF Fetch, SumUpStatus
  <2>2. task' = [task EXCEPT ![w] = u] /\ u # Idle
    BY <1>1, <1>2, <2>1, GoToChanges DEF Idle
  <2>3. task'[w] = u
    BY <2>2 DEF TypeOK
  <2>4. TaskSound(w, c)'
    BY <1>2, <1>3, <2>3 DEF TaskSound, LinkedTo, Claimed
  <2> QED
    <3>1. Moves(w, "fetch", c, u)
      BY <1>1, <1>2, <2>2, <2>4 DEF Moves
    <3> QED
      BY <1>1, <3>1, MoveSound
<1>4. CASE sessions[c] \in {"failed", "cancelled"}
  <2> DEFINE row == [t.row EXCEPT !.status = sessions[c]]
             u == [at |-> "close", checkout |-> c, row |-> row, order |-> t.order]
  <2>1. Go(w, [t EXCEPT !.at = "close", !.row.status = sessions[c]])
    BY <1>4 DEF Fetch, SumUpStatus
  <2>2. sessions[c] \in CheckoutStatus
    BY <1>4 DEF CheckoutStatus
  <2>3. task' = [task EXCEPT ![w] = u] /\ u # Idle
    BY <1>2, <2>1, <2>2, TaskClosing DEF Go, Idle
  <2>4. task'[w] = u
    BY <2>3 DEF TypeOK
  <2>5. row.status = sessions[c] /\ row.sumup = t.row.sumup /\ row.order = t.row.order
    BY <1>2, <2>2, StatusChanged
  <2> HIDE DEF row
  <2>6. TaskSound(w, c)'
    BY <1>2, <1>4, <2>4, <2>5 DEF TaskSound, LinkedTo, Claimed
  <2>7. Moves(w, "fetch", c, u)
    BY <1>1, <1>2, <2>3, <2>6 DEF Moves
  <2> QED
    BY <1>1, <2>7, MoveSound
<1>5. CASE sessions[c] \notin {"paid", "failed", "cancelled"}
  <2>1. task' = [task EXCEPT ![w] = Idle]
    BY <1>5 DEF Fetch, SumUpStatus, Done, Go
  <2>2. Moves(w, "fetch", c, Idle)
    BY <1>1, <1>2, <2>1 DEF Moves
  <2> QED
    BY <1>1, <2>2, MoveSound
<1> QED
  BY <1>3, <1>4, <1>5

\* Saving a failed or cancelled checkout from memory keeps Sound.
LEMMA CloseCheckoutSound ==
  ASSUME TypeOK, Sound, TypeOK', NEW w \in Workers, CloseCheckout(w),
         NEW c, c = task[w].checkout
  PROVE  Sound'
<1> DEFINE t == task[w]
<1>1. "close" \in Steps \ Claimed
  BY DEF Steps, Claimed
<1>2. /\ c \in Checkouts /\ TaskSound(w, c) /\ RowSound(c) /\ t.at = "close"
      /\ t.row \in CheckoutRow
      /\ \A v \in Workers \ {w} : Busy(v, c) => task[v].at \notin {"open", "keepSession"}
  BY <1>1, AtStep DEF CloseCheckout
<1>3. /\ task' = [task EXCEPT ![w] = Idle]
      /\ UNCHANGED <<shopOrders, sessions>>
      /\ checkouts'[c] = t.row
      /\ \A d \in Checkouts \ {c} : checkouts'[d] = checkouts[d]
  BY <1>2 DEF CloseCheckout, SaveCheckout, Done, Go, TypeOK
<1>4. /\ t.row.sumup /\ t.row.status # "paid" /\ sessions[c] # "paid"
      /\ t.row.order # 0 => LinkedTo(c, t.row.order)
  BY <1>2 DEF TaskSound
<1>5. RowSound(c)' /\ checkouts'[c] # NoRow
  BY <1>2, <1>3, <1>4, RowIsNotNoRow DEF RowSound, LinkedTo
<1>6. \A v \in Workers : ~ Holds(v, c)
  BY <1>2, <1>4 DEF Sound, ClaimSound, TaskSound, Holds
<1>7. KeepsSound(w, c, Idle)
  BY <1>2, <1>3, <1>4, <1>5, <1>6, SameOrders DEF KeepsSound
<1> QED
  BY <1>2, <1>7, StepSound

\* The conditional UPDATE that claims a checkout keeps Sound.
LEMMA ClaimStepSound ==
  ASSUME TypeOK, Sound, TypeOK', NEW w \in Workers, Claim(w),
         NEW c, c = task[w].checkout
  PROVE  Sound'
<1> DEFINE t == task[w]
<1>1. "claim" \in Steps \ Claimed /\ "saveOrder" \in Steps /\ "saveOrder" \in Claimed
  BY DEF Steps, Claimed
<1>2. /\ c \in Checkouts /\ TaskSound(w, c) /\ RowSound(c) /\ t.at = "claim"
      /\ checkouts[c] \in CheckoutRow /\ t # Idle /\ At(w, "claim")
      /\ sessions[c] = "paid"
      /\ UNCHANGED <<shopOrders, sessions>>
      /\ \A v \in Workers \ {w} : Busy(v, c) => task[v].at \notin {"open", "keepSession"}
  BY <1>1, AtStep DEF Claim, TaskSound
<1>3. CASE Claimable(checkouts[c])
  <2> DEFINE row == [checkouts[c] EXCEPT !.status = "paid", !.paidAt = TRUE]
             u == [at |-> "saveOrder", checkout |-> c, row |-> t.row, order |-> t.order]
  <2>1. /\ row \in CheckoutRow /\ row.status = "paid"
        /\ row.sumup = checkouts[c].sumup /\ row.order = checkouts[c].order
    BY <1>2, RowAfter DEF CheckoutRow, CheckoutStatus
  <2>2. /\ checkouts'[c] = row
        /\ \A d \in Checkouts \ {c} : checkouts'[d] = checkouts[d]
        /\ GoTo(w, "saveOrder")
    BY <1>2, <1>3 DEF Claim, SaveCheckout, TypeOK
  <2> HIDE DEF row
  <2>3. task' = [task EXCEPT ![w] = u] /\ u # Idle
    BY <1>1, <1>2, <2>2, GoToChanges DEF Idle
  <2>4. task'[w] = u
    BY <2>3 DEF TypeOK
  <2>5. RowSound(c)' /\ checkouts'[c] # NoRow /\ checkouts'[c].sumup
    BY <1>2, <2>1, <2>2, RowIsNotNoRow DEF RowSound, TaskSound, LinkedTo
  <2>6. TaskSound(w, c)'
    BY <1>2, <2>4, <2>5 DEF TaskSound, LinkedTo
  <2>7. \A v \in Workers : ~ Holds(v, c)
    BY <1>2, <1>3 DEF Claimable, Sound, ClaimExclusive
  <2>8. KeepsSound(w, c, u)
    BY <1>2, <2>1, <2>2, <2>3, <2>5, <2>6, <2>7, SameOrders DEF KeepsSound
  <2> QED
    BY <1>2, <2>8, StepSound
<1>4. CASE ~ Claimable(checkouts[c])
  <2>1. Moves(w, "claim", c, Idle)
    BY <1>2, <1>4 DEF Moves, Claim, Done, Go
  <2> QED
    BY <1>1, <2>1, MoveSound
<1> QED
  BY <1>3, <1>4

\* Saving the order of a claimed checkout keeps Sound.
LEMMA SaveShopOrderSound ==
  ASSUME TypeOK, Sound, TypeOK', NEW w \in Workers, SaveShopOrder(w),
         NEW c, c = task[w].checkout
  PROVE  Sound'
<1> DEFINE t == task[w]
           n == Len(shopOrders) + 1
           new == [checkout |-> c, items |-> FALSE, payment |-> FALSE]
           u == [at |-> "saveItems", checkout |-> c, row |-> t.row, order |-> n]
<1>1. "saveOrder" \in Steps /\ "saveOrder" \in Claimed
  BY DEF Steps, Claimed
<1>2. /\ c \in Checkouts /\ TaskSound(w, c) /\ RowSound(c) /\ t.at = "saveOrder"
      /\ t \in Task /\ checkouts[c].status = "paid" /\ sessions[c] = "paid"
      /\ \A v \in Workers \ {w} : ~ Holds(v, c)
      /\ \A v \in Workers \ {w} : Busy(v, c) =>
           task[v].at \notin {"open", "keepSession"} /\ checkouts[c].sumup
      /\ UNCHANGED <<checkouts, sessions>> /\ shopOrders' = Append(shopOrders, new)
  BY <1>1, AtStep DEF SaveShopOrder
<1>3. /\ new \in ShopOrder /\ n \in Nat
      /\ DOMAIN shopOrders' = DOMAIN shopOrders \cup {n}
      /\ shopOrders'[n] = new /\ n \notin DOMAIN shopOrders
      /\ \A i \in DOMAIN shopOrders : shopOrders'[i] = shopOrders[i]
  <2>1. new \in ShopOrder /\ shopOrders \in Seq(ShopOrder)
    BY <1>2 DEF ShopOrder, TypeOK
  <2>2. Len(shopOrders) \in Nat /\ DOMAIN shopOrders = 1 .. Len(shopOrders)
    BY <2>1, LenProperties
  <2>3. /\ shopOrders' \in Seq(ShopOrder) /\ Len(shopOrders') = n
        /\ \A i \in 1 .. Len(shopOrders) : shopOrders'[i] = shopOrders[i]
        /\ shopOrders'[n] = new
    BY <1>2, <2>1, AppendProperties
  <2>4. DOMAIN shopOrders' = 1 .. n
    BY <2>3, LenProperties
  <2> QED
    BY <2>1, <2>2, <2>3, <2>4
<1>4. task' = [task EXCEPT ![w] = u] /\ u # Idle
  BY <1>2, <1>3, TaskSaved DEF SaveShopOrder, Go, Idle
<1>5. task'[w] = u
  BY <1>4 DEF TypeOK
<1>6. OrdersGrow
  BY <1>3 DEF OrdersGrow, LinkedTo
<1>7. TaskSound(w, c)'
  <2>1. t.row.order # 0 => LinkedTo(c, t.row.order)'
    BY <1>2, <1>5, <1>6 DEF TaskSound, OrdersGrow, LinkedTo
  <2>2. n \in DOMAIN shopOrders' /\ shopOrders'[n].checkout = c
    BY <1>3
  <2>3. t.row.sumup /\ checkouts[c].sumup /\ checkouts[c] # NoRow
    BY <1>2 DEF TaskSound
  <2> HIDE DEF n
  <2> QED
    BY <1>2, <1>5, <2>1, <2>2, <2>3 DEF TaskSound
<1>8. RowSound(c)'
  BY <1>2, <1>6 DEF RowSound, OrdersGrow, LinkedTo
<1>9. \A i \in DOMAIN shopOrders' \ DOMAIN shopOrders : shopOrders'[i].checkout = c
  BY <1>3
<1>10. KeepsSound(w, c, u)
  BY <1>2, <1>4, <1>6, <1>7, <1>8, <1>9 DEF KeepsSound, TaskSound
<1> QED
  BY <1>2, <1>10, StepSound

\* The items, or the payment, of an order that is completed are saved.
LEMMA OrderSavedSound ==
  ASSUME TypeOK, Sound, TypeOK', NEW w \in Workers,
         SaveShopItems(w) \/ SaveShopPayment(w),
         NEW c, c = task[w].checkout
  PROVE  Sound'
<1> DEFINE t == task[w]
           n == t.order
           next == IF t.at = "saveItems" THEN "savePayment" ELSE "link"
           u == [at |-> next, checkout |-> c, row |-> t.row, order |-> n]
<1>1. /\ {"saveItems", "savePayment"} \subseteq Steps \cap Claimed
      /\ {"savePayment", "link"} \subseteq Steps \cap Claimed
  BY DEF Steps, Claimed
<1>2. /\ c \in Checkouts /\ TaskSound(w, c) /\ RowSound(c)
      /\ t.at \in {"saveItems", "savePayment"}
      /\ t \in Task /\ t # Idle /\ checkouts[c].status = "paid" /\ sessions[c] = "paid"
      /\ \A v \in Workers \ {w} : ~ Holds(v, c)
      /\ \A v \in Workers \ {w} : Busy(v, c) =>
           task[v].at \notin {"open", "keepSession"} /\ checkouts[c].sumup
      /\ UNCHANGED <<checkouts, sessions>>
  BY <1>1, AtStep DEF SaveShopItems, SaveShopPayment
<1>3. /\ n \in DOMAIN shopOrders /\ shopOrders[n].checkout = c
      /\ t.at = "savePayment" => shopOrders[n].items
  BY <1>2 DEF TaskSound, Claimed
<1>4. /\ DOMAIN shopOrders' = DOMAIN shopOrders
      /\ \A i \in DOMAIN shopOrders \ {n} : shopOrders'[i] = shopOrders[i]
      /\ t.at = "saveItems" =>
           shopOrders'[n] = [checkout |-> c, items |-> TRUE, payment |-> shopOrders[n].payment]
      /\ t.at = "savePayment" =>
           shopOrders'[n] = [checkout |-> c, items |-> shopOrders[n].items, payment |-> TRUE]
  BY <1>2, <1>3, OrderRowSaved DEF SaveShopItems, SaveShopPayment, At
<1>5. shopOrders[n] \in ShopOrder
  BY <1>3, LenProperties, ElementOfSeq DEF TypeOK
<1>6. OrdersGrow
  BY <1>2, <1>3, <1>4, <1>5 DEF OrdersGrow, LinkedTo, ShopOrder
<1>7. task' = [task EXCEPT ![w] = u] /\ u # Idle
  BY <1>1, <1>2, GoToChanges DEF SaveShopItems, SaveShopPayment, At, Idle
<1>8. TaskSound(w, c)'
  <2>1. task'[w] = u
    BY <1>7 DEF TypeOK
  <2>2. t.row.order # 0 => LinkedTo(c, t.row.order)'
    BY <1>2, <1>6, <2>1 DEF TaskSound, OrdersGrow, LinkedTo
  <2>3. /\ n \in DOMAIN shopOrders' /\ shopOrders'[n].checkout = c /\ shopOrders'[n].items
        /\ next = "link" =>
             shopOrders'[n] = [checkout |-> c, items |-> TRUE, payment |-> TRUE]
    <3>1. CASE t.at = "saveItems"
      BY <1>3, <1>4, <3>1
    <3>2. CASE t.at = "savePayment"
      <4>1. shopOrders[n].items = TRUE
        BY <1>3, <1>5, <3>2 DEF ShopOrder
      <4>2. shopOrders'[n] = [checkout |-> c, items |-> TRUE, payment |-> TRUE]
        BY <1>4, <3>2, <4>1, Zenon
      <4> QED
        BY <1>3, <1>4, <4>2
    <3> QED
      BY <1>2, <3>1, <3>2
  <2>4. t.row.sumup /\ checkouts[c].sumup /\ checkouts[c] # NoRow
    BY <1>2 DEF TaskSound
  <2> QED
    BY <1>2, <2>1, <2>2, <2>3, <2>4 DEF TaskSound, LinkedTo
<1>9. RowSound(c)'
  BY <1>2, <1>6 DEF RowSound, OrdersGrow, LinkedTo
<1>10. KeepsSound(w, c, u)
  BY <1>2, <1>4, <1>6, <1>7, <1>8, <1>9 DEF KeepsSound, TaskSound
<1> QED
  BY <1>2, <1>10, StepSound

\* Saving the checkout with the id of its order keeps Sound.
LEMMA LinkOrderSound ==
  ASSUME TypeOK, Sound, TypeOK', NEW w \in Workers, LinkOrder(w),
         NEW c, c = task[w].checkout
  PROVE  Sound'
<1> DEFINE t == task[w]
           row == [t.row EXCEPT !.status = "paid", !.order = t.order]
           u == [at |-> "summary", checkout |-> c, row |-> t.row, order |-> t.order]
<1>1. "link" \in Steps /\ "link" \in Claimed /\ "summary" \in Steps /\ "summary" \in Claimed
  BY DEF Steps, Claimed
<1>2. /\ c \in Checkouts /\ TaskSound(w, c) /\ t.at = "link" /\ t # Idle
      /\ t.row \in CheckoutRow /\ t.order \in Nat /\ sessions[c] = "paid"
      /\ \A v \in Workers \ {w} : ~ Holds(v, c)
      /\ \A v \in Workers \ {w} : Busy(v, c) => task[v].at \notin {"open", "keepSession"}
      /\ UNCHANGED <<shopOrders, sessions>>
  BY <1>1, AtStep DEF LinkOrder
<1>3. t.row.sumup /\ LinkedTo(c, t.order) /\ (t.row.order # 0 => LinkedTo(c, t.row.order))
  BY <1>2 DEF TaskSound, Claimed
<1>4. row \in CheckoutRow /\ row.status = "paid" /\ row.sumup /\ row.order = t.order
  BY <1>2, <1>3, RowAfter DEF CheckoutRow, CheckoutStatus
<1>5. /\ checkouts'[c] = row
      /\ \A d \in Checkouts \ {c} : checkouts'[d] = checkouts[d]
      /\ GoTo(w, "summary")
  BY <1>2 DEF LinkOrder, SaveCheckout, TypeOK
<1> HIDE DEF row
<1>6. task' = [task EXCEPT ![w] = u] /\ u # Idle
  BY <1>1, <1>2, <1>5, GoToChanges DEF Idle
<1>7. task'[w] = u
  BY <1>6 DEF TypeOK
<1>8. RowSound(c)' /\ checkouts'[c] # NoRow
  BY <1>2, <1>3, <1>4, <1>5, RowIsNotNoRow DEF RowSound, LinkedTo
<1>9. TaskSound(w, c)'
  BY <1>2, <1>3, <1>4, <1>5, <1>7, <1>8 DEF TaskSound, LinkedTo
<1>10. KeepsSound(w, c, u)
  BY <1>2, <1>4, <1>5, <1>6, <1>8, <1>9, SameOrders DEF KeepsSound
<1> QED
  BY <1>2, <1>10, StepSound

\* Releasing the claim after a failure keeps Sound.
LEMMA ReleaseSound ==
  ASSUME TypeOK, Sound, TypeOK', NEW w \in Workers, Release(w),
         NEW c, c = task[w].checkout
  PROVE  Sound'
<1> DEFINE row == Released(checkouts[c])
<1>1. "release" \in Steps /\ "release" \in Claimed
  BY DEF Steps, Claimed
<1>2. /\ c \in Checkouts /\ TaskSound(w, c) /\ RowSound(c) /\ checkouts[c] \in CheckoutRow
      /\ \A v \in Workers \ {w} : ~ Holds(v, c)
      /\ \A v \in Workers \ {w} : Busy(v, c) =>
           task[v].at \notin {"open", "keepSession"} /\ checkouts[c].sumup
      /\ UNCHANGED <<shopOrders, sessions>>
  BY <1>1, AtStep DEF Release
<1>3. /\ row \in CheckoutRow /\ row.status = "pending"
      /\ row.sumup = checkouts[c].sumup /\ row.order = checkouts[c].order
  BY <1>2, RowAfter DEF Released, CheckoutRow, CheckoutStatus
<1>4. /\ task' = [task EXCEPT ![w] = Idle]
      /\ checkouts'[c] = row
      /\ \A d \in Checkouts \ {c} : checkouts'[d] = checkouts[d]
  BY <1>2 DEF Release, SaveCheckout, Done, Go, TypeOK
<1> HIDE DEF row
<1>5. RowSound(c)' /\ checkouts'[c] # NoRow
  BY <1>2, <1>3, <1>4, RowIsNotNoRow DEF RowSound, TaskSound, LinkedTo
<1>6. KeepsSound(w, c, Idle)
  BY <1>2, <1>3, <1>4, <1>5, SameOrders DEF KeepsSound
<1> QED
  BY <1>2, <1>6, StepSound

\* A failed step moves its request to the release of the claim, or ends it.
LEMMA FailSound ==
  ASSUME TypeOK, Sound, TypeOK', NEW w \in Workers, Fail(w),
         NEW c, c = task[w].checkout
  PROVE  Sound'
<1> DEFINE t == task[w]
           u == [at |-> "release", checkout |-> c, row |-> t.row, order |-> t.order]
<1>1. t \in Task /\ t.at \in Steps /\ At(w, t.at) /\ t # Idle
  BY DEF Fail, TypeOK, Task, At
<1>2. UNCHANGED <<checkouts, shopOrders, sessions>>
  BY DEF Fail
<1>3. CASE t.at \in Claimed \ {"release"}
  <2>1. "release" \in Claimed /\ "release" \in Steps
    BY DEF Claimed, Steps
  <2>2. task' = [task EXCEPT ![w] = u] /\ u # Idle
    BY <1>1, <1>3, <2>1, GoToChanges DEF Fail, Idle
  <2>3. task'[w] = u
    BY <2>2 DEF TypeOK
  <2>4. TaskSound(w, c) /\ t.at \notin {"open", "keepSession"}
    BY <1>1, <1>3, AtStep DEF Claimed
  <2>5. TaskSound(w, c)'
    BY <1>2, <1>3, <2>3, <2>4 DEF TaskSound, LinkedTo
  <2>6. Moves(w, t.at, c, u)
    BY <1>1, <1>2, <1>3, <2>2, <2>4, <2>5 DEF Moves
  <2> QED
    BY <1>1, <2>6, MoveSound
<1>4. CASE t.at \notin Claimed \ {"release"}
  <2>1. Moves(w, t.at, c, Idle)
    BY <1>1, <1>2, <1>4 DEF Moves, Fail, Done, Go
  <2> QED
    BY <1>1, <2>1, MoveSound
<1> QED
  BY <1>3, <1>4

\* createCheckout keeps Sound.
LEMMA CreateCheckoutSound ==
  ASSUME TypeOK, Sound, TypeOK', NEW w \in Workers, NEW c \in Checkouts,
         CreateCheckout(w, c)
  PROVE  Sound'
<1> DEFINE u == [at |-> "open", checkout |-> c, row |-> NewCheckout, order |-> 0]
<1>1. /\ RowSound(c) /\ sessions[c] = "none"
      /\ \A v \in Workers : ~ Busy(v, c)
  BY DEF Sound, ClaimSound, RowSound, TaskSound, CreateCheckout
<1>2. /\ UNCHANGED <<shopOrders, sessions>>
      /\ checkouts'[c] = NewCheckout
      /\ \A d \in Checkouts \ {c} : checkouts'[d] = checkouts[d]
      /\ task' = [task EXCEPT ![w] = u] /\ u # Idle
  BY DEF CreateCheckout, SaveCheckout, Go, TypeOK, Idle
<1>3. task'[w] = u
  BY <1>2 DEF TypeOK
<1>4. NewCheckout # NoRow /\ NewCheckout.order = 0 /\ NewCheckout.sumup = FALSE
      /\ NewCheckout.status = "pending"
  BY DEF NewCheckout, NoRow
<1>5. RowSound(c)'
  BY <1>2, <1>4 DEF RowSound
<1>6. \A v \in Workers : Busy(v, c)' => v = w
  BY <1>1, <1>2 DEF Busy, TypeOK
<1>7. TaskSound(w, c)'
  BY <1>1, <1>2, <1>3, <1>4, <1>6 DEF TaskSound, Claimed
<1>8. KeepsSound(w, c, u)
  BY <1>1, <1>2, <1>5, <1>7, SameOrders DEF KeepsSound, Holds, Claimed
<1> QED
  BY <1>8, StepSound

\* The start of verifyCheckout and of the webhook keeps Sound.
LEMMA SettleSound ==
  ASSUME TypeOK, Sound, TypeOK', NEW w \in Workers, NEW c \in Checkouts, Settle(w, c)
  PROVE  Sound'
<1> DEFINE u == [at |-> "fetch", checkout |-> c, row |-> checkouts[c], order |-> 0]
<1>1. /\ UNCHANGED <<checkouts, shopOrders, sessions>>
      /\ checkouts[c] # NoRow /\ RowSound(c) /\ task[w] = Idle
  BY DEF Settle, Sound, ClaimSound
<1>2. CASE NeedsSettling(checkouts[c])
  <2>1. task' = [task EXCEPT ![w] = u] /\ u # Idle
    BY <1>2 DEF Settle, Start, Go, Idle
  <2>2. task'[w] = u
    BY <2>1 DEF TypeOK
  <2>3. checkouts[c].sumup
    BY <1>2 DEF NeedsSettling
  <2>4. TaskSound(w, c)'
    BY <1>1, <2>2, <2>3 DEF TaskSound, RowSound, LinkedTo, Claimed
  <2>5. RowSound(c)'
    BY <1>1 DEF RowSound, LinkedTo
  <2>6. \A v \in Workers : Busy(v, c) => task[v].at \notin {"open", "keepSession"}
    BY <2>3 DEF Sound, ClaimSound, TaskSound
  <2>7. \A v \in Workers : Holds(v, c) => checkouts[c].status = "paid"
    BY DEF Sound, ClaimExclusive
  <2>8. KeepsSound(w, c, u)
    BY <1>1, <2>1, <2>3, <2>4, <2>5, <2>6, <2>7, SameOrders DEF KeepsSound, Claimed
  <2> QED
    BY <2>8, StepSound
<1>3. CASE ~ NeedsSettling(checkouts[c])
  <2>1. UNCHANGED task
    BY <1>3 DEF Settle
  <2> QED
    BY <1>1, <2>1 DEF Sound, ClaimSound, ClaimExclusive, OrderOnlyWhenPaid, RowSound,
      TaskSound, Busy, Holds, LinkedTo
<1> QED
  BY <1>2, <1>3

\* What happens at SumUp keeps Sound.
LEMMA OutcomeSound ==
  ASSUME TypeOK, Sound, NEW c \in Checkouts, NEW s \in CheckoutStatus \ {"pending"},
         Outcome(c, s)
  PROVE  Sound'
<1>1. /\ UNCHANGED <<checkouts, shopOrders, task>> /\ sessions[c] = "pending"
      /\ \A d \in Checkouts \ {c} : sessions'[d] = sessions[d]
      /\ sessions'[c] = s /\ s # "none"
      /\ \A d \in Checkouts : sessions[d] = "paid" => sessions'[d] = "paid"
  BY DEF Outcome, TypeOK, CheckoutStatus
<1>2. ASSUME NEW d \in Checkouts PROVE RowSound(d)'
  BY <1>1, <1>2 DEF Sound, ClaimSound, RowSound, LinkedTo
<1>3. ASSUME NEW v \in Workers, NEW d \in Checkouts, Busy(v, d)' PROVE TaskSound(v, d)'
  <2>1. TaskSound(v, d)
    BY <1>1, <1>3 DEF Sound, ClaimSound, Busy
  <2>2. task[v].at = "close" => d # c
    BY <1>1, <2>1 DEF TaskSound
  <2>3. task[v].at # "open" \/ d # c
    BY <1>1, <2>1 DEF TaskSound
  <2>4. \/ sessions'[d] = sessions[d]
        \/ task[v].at \notin {"close", "open"}
    BY <1>1, <2>2, <2>3
  <2> QED
    BY <1>1, <2>1, <2>4 DEF TaskSound, LinkedTo, Busy
<1>4. ClaimExclusive'
  BY <1>1 DEF Sound, ClaimExclusive, Holds, Busy
<1>5. ASSUME NEW i \in DOMAIN shopOrders' PROVE sessions'[shopOrders'[i].checkout] = "paid"
  <2>1. shopOrders[i] \in ShopOrder
    BY <1>1, <1>5, LenProperties, ElementOfSeq DEF TypeOK
  <2>2. shopOrders[i].checkout \in Checkouts
    BY <2>1 DEF ShopOrder
  <2> QED
    BY <1>1, <1>5, <2>2 DEF Sound, OrderOnlyWhenPaid
<1> QED
  BY <1>2, <1>3, <1>4, <1>5 DEF Sound, ClaimSound, OrderOnlyWhenPaid

\* A stop of the process keeps Sound.
LEMMA CrashSound ==
  ASSUME TypeOK, Sound, Crash
  PROVE  Sound'
BY DEF Crash, Sound, ClaimSound, ClaimExclusive, OrderOnlyWhenPaid, RowSound, TaskSound,
  LinkedTo, Busy, Holds

\* The end of a settlement keeps Sound.
LEMMA TseSummarySound ==
  ASSUME TypeOK, Sound, TypeOK', NEW w \in Workers, TseSummary(w),
         NEW c, c = task[w].checkout
  PROVE  Sound'
<1>1. "summary" \in Steps
  BY DEF Steps, Claimed
<1>2. Moves(w, "summary", c, Idle)
  BY DEF Moves, TseSummary, Done, Go
<1> QED
  BY <1>1, <1>2, MoveSound

\* Every step of the shop, and a crash, keeps Sound.
LEMMA NextSound == ASSUME TypeOK, Sound, [Next \/ Crash]_vars PROVE Sound'
<1>1. TypeOK'
  BY NextType DEF Sound
<1>2. ASSUME NEW w \in Workers, Continue(w) \/ Fail(w) PROVE Sound'
  <2>1. CASE OpenSession(w)
    BY <1>1, <2>1, OpenSessionSound
  <2>2. CASE KeepSession(w)
    BY <1>1, <2>2, KeepSessionSound
  <2>3. CASE Fetch(w)
    BY <1>1, <2>3, FetchSound
  <2>4. CASE CloseCheckout(w)
    BY <1>1, <2>4, CloseCheckoutSound
  <2>5. CASE Claim(w)
    BY <1>1, <2>5, ClaimStepSound
  <2>6. CASE SaveShopOrder(w)
    BY <1>1, <2>6, SaveShopOrderSound
  <2>7. CASE SaveShopItems(w) \/ SaveShopPayment(w)
    BY <1>1, <2>7, OrderSavedSound
  <2>8. CASE LinkOrder(w)
    BY <1>1, <2>8, LinkOrderSound
  <2>9. CASE TseSummary(w)
    BY <1>1, <2>9, TseSummarySound
  <2>10. CASE Release(w)
    BY <1>1, <2>10, ReleaseSound
  <2>11. CASE Fail(w)
    BY <1>1, <2>11, FailSound
  <2> QED
    BY <1>2, <2>1, <2>2, <2>3, <2>4, <2>5, <2>6, <2>7, <2>8, <2>9, <2>10, <2>11
       DEF Continue
<1>3. ASSUME NEW w \in Workers, NEW c \in Checkouts,
             CreateCheckout(w, c) \/ VerifyCheckout(w, c) \/ CheckoutWebhook(w, c)
      PROVE  Sound'
  BY <1>1, <1>3, CreateCheckoutSound, SettleSound DEF VerifyCheckout, CheckoutWebhook
<1>4. ASSUME NEW c \in Checkouts, NEW s \in CheckoutStatus \ {"pending"}, Outcome(c, s)
      PROVE  Sound'
  BY <1>4, OutcomeSound
<1>5. CASE UNCHANGED vars
  BY <1>5 DEF vars, Sound, ClaimSound, ClaimExclusive, OrderOnlyWhenPaid, RowSound, TaskSound,
  LinkedTo, Busy, Holds
<1> QED
  BY <1>2, <1>3, <1>4, <1>5, CrashSound DEF Next

-----------------------------------------------------------------------------
(* Every step keeps the orders of a checkout within what is allowed.       *)

\* What is allowed lies between the failures and one more.
LEMMA AllowedType ==
  ASSUME TypeOK, NEW c \in Checkouts
  PROVE  Allowed(c) \in Nat /\ Allowed(c) >= failures[c] /\ Allowed(c) <= failures[c] + 1
  BY DEF TypeOK, Allowed

\* The orders of a checkout stay as they are.
LEMMA BudgetKept ==
  ASSUME TypeOK, TypeOK', Budget, NEW c \in Checkouts,
         UNCHANGED OrdersOf(c),
         \/ failures'[c] \in {failures[c] + 1, failures[c] + 2}
         \/ failures'[c] = failures[c] /\ (OrderDue(c)' => OrderDue(c))
  PROVE  (Cardinality(OrdersOf(c)) <= Allowed(c))'
<1>1. Cardinality(OrdersOf(c)) \in Nat /\ Cardinality(OrdersOf(c)) <= Allowed(c)
  BY OrdersFinite DEF Budget
<1>2. failures[c] \in Nat /\ failures'[c] \in Nat
  BY DEF TypeOK
<1> QED
  BY <1>1, <1>2 DEF Allowed

\* A step of w on checkout c that neither adds an order nor fails.
LEMMA BudgetStep ==
  ASSUME TypeOK, TypeOK', Budget, NEW w \in Workers, NEW c \in Checkouts,
         UNCHANGED failures,
         \A d \in Checkouts : UNCHANGED OrdersOf(d),
         \A v \in Workers \ {w} : task'[v] = task[v],
         task'[w] # Idle => task'[w].checkout = c,
         \A d \in Checkouts \ {c} : checkouts'[d] = checkouts[d],
         OrderDue(c) \/ (checkouts'[c].status = "paid" /\ checkouts'[c] # NoRow),
         task'[w] # Idle /\ task'[w].at \in {"saveOrder", "release"} => OrderDue(c)
  PROVE  Budget'
<1> SUFFICES ASSUME NEW d \in Checkouts
             PROVE  (Cardinality(OrdersOf(d)) <= Allowed(d))'
  BY DEF Budget
<1>1. OrderDue(d)' => OrderDue(d)
  <2>1. \A v \in Workers : v # w /\ Holds(v, d)' /\ task'[v].at \in {"saveOrder", "release"}
          => OrderDue(d)
    BY DEF Holds, Busy, OrderDue
  <2>2. Holds(w, d)' => d = c /\ task'[w] # Idle
    BY DEF Holds, Busy
  <2> QED
    BY <2>1, <2>2 DEF OrderDue
<1> QED
  BY <1>1, BudgetKept DEF TypeOK

\* Orders that stay as they are stay with their checkouts.
LEMMA SameOrdersOf ==
  ASSUME UNCHANGED shopOrders, NEW d \in Checkouts PROVE UNCHANGED OrdersOf(d)
  BY DEF OrdersOf

\* A step of w that leaves the checkouts and the orders alone.
LEMMA BudgetMove ==
  ASSUME TypeOK, TypeOK', Budget, NEW w \in Workers, NEW c \in Checkouts,
         UNCHANGED checkouts, UNCHANGED shopOrders, UNCHANGED failures,
         \A v \in Workers \ {w} : task'[v] = task[v],
         task'[w] # Idle => /\ task'[w].checkout = c
                           /\ task'[w].at \notin {"saveOrder", "release"}
  PROVE  Budget'
<1>1. OrderDue(c) \/ (checkouts'[c].status = "paid" /\ checkouts'[c] # NoRow)
  BY DEF OrderDue
<1>2. \A d \in Checkouts : UNCHANGED OrdersOf(d)
  BY SameOrdersOf
<1> QED
  BY <1>1, <1>2, BudgetStep

\* Going on with the same checkout.
LEMMA GoToTask ==
  ASSUME TypeOK, NEW w \in Workers, task[w] # Idle, NEW s \in Steps, GoTo(w, s)
  PROVE  /\ task'[w].at = s /\ task'[w].checkout = task[w].checkout
         /\ \A v \in Workers \ {w} : task'[v] = task[v]
<1> DEFINE u == [at |-> s, checkout |-> task[w].checkout,
                 row |-> task[w].row, order |-> task[w].order]
<1>1. task' = [task EXCEPT ![w] = u]
  BY GoToChanges
<1>2. task'[w] = u /\ \A v \in Workers \ {w} : task'[v] = task[v]
  BY <1>1 DEF TypeOK
<1> QED
  BY <1>2

\* A request that ends leaves the other requests alone.
LEMMA DoneTask ==
  ASSUME TypeOK, NEW w \in Workers, Done(w)
  PROVE  task'[w] = Idle /\ \A v \in Workers \ {w} : task'[v] = task[v]
  BY DEF TypeOK, Done, Go

\* Every step of a request keeps the orders within what is allowed.
LEMMA ContinueBudget ==
  ASSUME IInv, TypeOK', NEW w \in Workers, Continue(w), NEW c, c = task[w].checkout
  PROVE  Budget'
<1> DEFINE t == task[w]
<1> USE DEF IInv
<1>1. {"open", "keepSession", "fetch", "claim", "close", "saveOrder", "saveItems",
       "savePayment", "link", "summary", "release"} \subseteq Steps
  BY DEF Steps, Claimed
<1>2. /\ t \in Task /\ t # Idle /\ c \in Checkouts /\ TaskSound(w, c) /\ RowSound(c)
      /\ checkouts[c] \in CheckoutRow /\ t.row \in CheckoutRow
      /\ t.at \in Claimed => Holds(w, c) /\ checkouts[c].status = "paid" /\ checkouts[c] # NoRow
  <2>1. t \in Task /\ t # Idle /\ At(w, t.at) /\ t.at \in Steps
    BY <1>1, AtIsBusy DEF Continue, OpenSession, KeepSession, Fetch, CloseCheckout,
         Claim, SaveShopOrder, SaveShopItems, SaveShopPayment, LinkOrder, TseSummary,
         Release, At
  <2> QED
    BY <2>1, AtStep DEF Holds, TaskSound
<1>3. CASE OpenSession(w)
  BY <1>1, <1>2, <1>3, GoToTask, BudgetMove DEF OpenSession
<1>4. CASE TseSummary(w)
  BY <1>2, <1>4, DoneTask, BudgetMove DEF TseSummary
<1>5. CASE SaveShopOrder(w)
  <2> DEFINE n == Len(shopOrders) + 1
  <2>1. /\ t.at = "saveOrder" /\ "saveOrder" \in Claimed
        /\ UNCHANGED checkouts /\ UNCHANGED failures
        /\ shopOrders' = Append(shopOrders, [checkout |-> c, items |-> FALSE, payment |-> FALSE])
    BY <1>5 DEF SaveShopOrder, At, Claimed
  <2>2. task' = [task EXCEPT ![w] = [at |-> "saveItems", checkout |-> c,
                                     row |-> t.row, order |-> n]]
    <3>1. n \in Nat
      BY LenProperties DEF TypeOK
    <3> QED
      BY <1>2, <1>5, <3>1, TaskSaved DEF SaveShopOrder, Go
  <2>3. task'[w].at = "saveItems" /\ \A v \in Workers \ {w} : task'[v] = task[v]
    BY <2>2 DEF TypeOK
  <2>4. [checkout |-> c, items |-> FALSE, payment |-> FALSE] \in ShopOrder
    BY <1>2 DEF ShopOrder
  <2>5. /\ DOMAIN shopOrders' = DOMAIN shopOrders \cup {n} /\ n \notin DOMAIN shopOrders
        /\ \A i \in DOMAIN shopOrders : shopOrders'[i] = shopOrders[i]
        /\ shopOrders'[n].checkout = c
    <3>1. shopOrders \in Seq(ShopOrder)
      BY DEF TypeOK
    <3>2. Len(shopOrders) \in Nat /\ DOMAIN shopOrders = 1 .. Len(shopOrders)
      BY <3>1, LenProperties
    <3>3. /\ shopOrders' \in Seq(ShopOrder) /\ Len(shopOrders') = n
          /\ \A i \in 1 .. Len(shopOrders) : shopOrders'[i] = shopOrders[i]
          /\ shopOrders'[n] = [checkout |-> c, items |-> FALSE, payment |-> FALSE]
      BY <2>1, <2>4, <3>1, AppendProperties
    <3>4. DOMAIN shopOrders' = 1 .. n
      BY <3>3, LenProperties
    <3> QED
      BY <3>2, <3>3, <3>4
  <2>6. OrdersOf(c)' = OrdersOf(c) \cup {n} /\ n \notin OrdersOf(c)
    BY <2>5 DEF OrdersOf
  <2>7. Cardinality(OrdersOf(c)') = Cardinality(OrdersOf(c)) + 1
    BY <1>2, <2>6, OrdersFinite, FS_AddElement
  <2>8. OrderDue(c) /\ ~ OrderDue(c)'
    <3>1. \A v \in Workers \ {w} : ~ Holds(v, c)
      BY <1>2, <2>1 DEF Sound, ClaimExclusive
    <3>2. \A v \in Workers : Holds(v, c)' => v = w
      BY <2>3, <3>1 DEF Holds, Busy
    <3> QED
      BY <1>2, <2>1, <2>3, <3>2 DEF OrderDue
  <2>9. (Cardinality(OrdersOf(c)) <= Allowed(c))'
    <3>1. Cardinality(OrdersOf(c)) \in Nat /\ Cardinality(OrdersOf(c)) <= failures[c]
          /\ failures[c] \in Nat
      BY <1>2, <2>8, OrdersFinite DEF Budget, Allowed, TypeOK
    <3> QED
      BY <2>1, <2>7, <2>8, <3>1 DEF Allowed
  <2>10. ASSUME NEW d \in Checkouts, d # c PROVE (Cardinality(OrdersOf(d)) <= Allowed(d))'
    <3>1. UNCHANGED OrdersOf(d)
      BY <2>5, <2>10 DEF OrdersOf
    <3>2. \A v \in Workers : Holds(v, d)' => v # w
      BY <2>2, <2>10 DEF Holds, Busy, TypeOK
    <3>3. OrderDue(d)' => OrderDue(d)
      BY <2>1, <2>3, <3>2 DEF OrderDue, Holds, Busy
    <3> QED
      BY <2>1, <3>1, <3>3, BudgetKept
  <2> QED
    BY <2>9, <2>10 DEF Budget
<1>6. CASE Fetch(w)
  <2>1. /\ UNCHANGED checkouts /\ UNCHANGED shopOrders /\ UNCHANGED failures
        /\ sessions[c] \in CheckoutStatus \cup {"none"}
    BY <1>2, <1>6 DEF Fetch, TypeOK
  <2>2. CASE sessions[c] = "paid"
    <3>1. GoTo(w, "claim")
      BY <1>6, <2>2 DEF Fetch, SumUpStatus
    <3> QED
      BY <1>1, <1>2, <2>1, <3>1, GoToTask, BudgetMove
  <2>3. CASE sessions[c] \in {"failed", "cancelled"}
    <3>1. Go(w, [t EXCEPT !.at = "close", !.row.status = sessions[c]])
      BY <1>6, <2>3 DEF Fetch, SumUpStatus
    <3>2. sessions[c] \in CheckoutStatus
      BY <2>3 DEF CheckoutStatus
    <3>3. task' = [task EXCEPT ![w] =
            [at |-> "close", checkout |-> c,
             row |-> [t.row EXCEPT !.status = sessions[c]], order |-> t.order]]
      BY <1>2, <3>1, <3>2, TaskClosing DEF Go
    <3>4. /\ task'[w].at = "close" /\ task'[w].checkout = c
          /\ \A v \in Workers \ {w} : task'[v] = task[v]
      BY <3>3 DEF TypeOK
    <3> QED
      BY <1>2, <2>1, <3>4, BudgetMove
  <2>4. CASE sessions[c] \notin {"paid", "failed", "cancelled"}
    <3>1. Done(w)
      BY <1>6, <2>4 DEF Fetch, SumUpStatus
    <3> QED
      BY <1>2, <2>1, <3>1, DoneTask, BudgetMove
  <2> QED
    BY <2>2, <2>3, <2>4
<1>7. CASE KeepSession(w) \/ CloseCheckout(w) \/ Release(w)
  <2>1. OrderDue(c)
    BY <1>2, <1>7 DEF KeepSession, CloseCheckout, Release, OrderDue, TaskSound, RowSound, At,
      Claimed
  <2>2. \A d \in Checkouts \ {c} : checkouts'[d] = checkouts[d]
    BY <1>2, <1>7 DEF KeepSession, CloseCheckout, Release, SaveCheckout, TypeOK
  <2>3. UNCHANGED <<shopOrders, failures>> /\ Done(w)
    BY <1>7 DEF KeepSession, CloseCheckout, Release
  <2>4. task'[w] = Idle /\ (\A v \in Workers \ {w} : task'[v] = task[v])
        /\ TypeOK /\ Budget /\ failures' = failures
    BY <2>3, DoneTask
  <2>5. \A d \in Checkouts : UNCHANGED OrdersOf(d)
    BY <2>3, SameOrdersOf
  <2> QED
    BY <1>2, <2>1, <2>2, <2>3, <2>4, <2>5, BudgetStep
<1>8. CASE Claim(w)
  <2>1. UNCHANGED shopOrders /\ UNCHANGED failures /\ \A d \in Checkouts : UNCHANGED OrdersOf(d)
    BY <1>8, SameOrdersOf DEF Claim
  <2>2. CASE Claimable(checkouts[c])
    <3>1. OrderDue(c)
      BY <2>2 DEF Claimable, OrderDue
    <3>2. \A d \in Checkouts \ {c} : checkouts'[d] = checkouts[d]
      BY <1>2, <1>8, <2>2 DEF Claim, SaveCheckout, TypeOK
    <3>3. GoTo(w, "saveOrder")
      BY <1>8, <2>2 DEF Claim
    <3> QED
      BY <1>1, <1>2, <2>1, <3>1, <3>2, <3>3, GoToTask, BudgetStep
  <2>3. CASE ~ Claimable(checkouts[c])
    BY <1>2, <1>8, <2>1, <2>3, DoneTask, BudgetMove DEF Claim
  <2> QED
    BY <2>2, <2>3
<1>9. CASE LinkOrder(w)
  <2> DEFINE row == [t.row EXCEPT !.status = "paid", !.order = t.order]
  <2>1. /\ UNCHANGED shopOrders /\ UNCHANGED failures /\ GoTo(w, "summary")
        /\ \A d \in Checkouts : UNCHANGED OrdersOf(d)
    BY <1>9, SameOrdersOf DEF LinkOrder
  <2>2. row \in CheckoutRow /\ row.status = "paid"
    BY <1>2, RowAfter DEF CheckoutRow, CheckoutStatus, Task
  <2>3. checkouts'[c] = row /\ \A d \in Checkouts \ {c} : checkouts'[d] = checkouts[d]
    BY <1>2, <1>9 DEF LinkOrder, SaveCheckout, TypeOK
  <2> HIDE DEF row
  <2>4. checkouts'[c].status = "paid" /\ checkouts'[c] # NoRow
    BY <2>2, <2>3, RowIsNotNoRow
  <2> QED
    BY <1>1, <1>2, <2>1, <2>3, <2>4, GoToTask, BudgetStep
<1>10. CASE SaveShopItems(w) \/ SaveShopPayment(w)
  <2>1. /\ UNCHANGED checkouts /\ UNCHANGED failures
        /\ GoTo(w, "savePayment") \/ GoTo(w, "link")
        /\ t.at \in {"saveItems", "savePayment"}
    BY <1>10 DEF SaveShopItems, SaveShopPayment, At
  <2>2. t.order \in DOMAIN shopOrders
    BY <1>2, <2>1 DEF TaskSound, Claimed
  <2>3. /\ DOMAIN shopOrders' = DOMAIN shopOrders
        /\ \A i \in DOMAIN shopOrders : shopOrders'[i].checkout = shopOrders[i].checkout
    <3> DEFINE n == t.order
               its == [shopOrders EXCEPT ![n].items = TRUE]
               pay == [shopOrders EXCEPT ![n].payment = TRUE]
    <3>1. /\ DOMAIN its = DOMAIN shopOrders /\ DOMAIN pay = DOMAIN shopOrders
          /\ \A i \in DOMAIN shopOrders \ {n} :
               its[i] = shopOrders[i] /\ pay[i] = shopOrders[i]
          /\ its[n] = [checkout |-> shopOrders[n].checkout, items |-> TRUE,
                       payment |-> shopOrders[n].payment]
          /\ pay[n] = [checkout |-> shopOrders[n].checkout,
                       items |-> shopOrders[n].items, payment |-> TRUE]
      BY <2>2, OrderRowSaved, Zenon
    <3>2. shopOrders' = its \/ shopOrders' = pay
      BY <1>10 DEF SaveShopItems, SaveShopPayment
    <3> HIDE DEF its, pay
    <3> QED
      BY <3>1, <3>2
  <2>4. \A d \in Checkouts : UNCHANGED OrdersOf(d)
    BY <2>3 DEF OrdersOf
  <2>5. OrderDue(c) \/ (checkouts'[c].status = "paid" /\ checkouts'[c] # NoRow)
    BY <2>1 DEF OrderDue
  <2>6. /\ task'[w].at \notin {"saveOrder", "release"} /\ task'[w].checkout = c
        /\ \A v \in Workers \ {w} : task'[v] = task[v]
    BY <1>1, <1>2, <2>1, GoToTask
  <2> QED
    BY <1>2, <2>1, <2>4, <2>5, <2>6, BudgetStep
<1> QED
  BY <1>3, <1>4, <1>5, <1>6, <1>7, <1>8, <1>9, <1>10 DEF Continue

\* Every step of the shop, and a crash, keeps the orders within what is
\* allowed.
LEMMA NextBudget == ASSUME IInv, [Next \/ Crash]_vars PROVE Budget'
<1> USE DEF IInv
<1>1. TypeOK'
  BY NextType DEF Sound
<1>2. ASSUME NEW w \in Workers, Continue(w) PROVE Budget'
  BY <1>1, <1>2, ContinueBudget
<1>3. ASSUME NEW w \in Workers, Fail(w) PROVE Budget'
  <2> SUFFICES ASSUME NEW d \in Checkouts
               PROVE  (Cardinality(OrdersOf(d)) <= Allowed(d))'
    BY DEF Budget
  <2>1. UNCHANGED checkouts /\ UNCHANGED OrdersOf(d)
    BY <1>3, SameOrdersOf DEF Fail
  <2>2. task[w] \in Task /\ task[w] # Idle /\ task[w].checkout \in Checkouts
    BY <1>3 DEF Fail, TypeOK, Task
  <2>3. CASE d = task[w].checkout
    <3>1. failures'[d] = failures[d] + 1
      BY <1>3, <2>2, <2>3 DEF Fail, TypeOK
    <3> QED
      BY <1>1, <2>1, <3>1, BudgetKept
  <2>4. CASE d # task[w].checkout
    <3>1. failures'[d] = failures[d]
      BY <1>3, <2>2, <2>4 DEF Fail, TypeOK
    <3>2. \A v \in Workers \ {w} : task'[v] = task[v]
      BY <1>3, <2>2 DEF Fail, GoTo, Done, Go, TypeOK
    <3>3. ~ Holds(w, d)'
      <4>1. "release" \in Steps
        BY DEF Steps, Claimed
      <4> QED
        BY <1>3, <2>2, <2>4, <4>1, GoToTask, DoneTask DEF Fail, Holds, Busy
    <3>4. OrderDue(d)' => OrderDue(d)
      BY <2>1, <3>2, <3>3 DEF OrderDue, Holds, Busy
    <3> QED
      BY <1>1, <2>1, <3>1, <3>4, BudgetKept
  <2> QED
    BY <2>3, <2>4
<1>4. ASSUME NEW w \in Workers, NEW c \in Checkouts, CreateCheckout(w, c) PROVE Budget'
  <2>1. UNCHANGED shopOrders /\ UNCHANGED failures /\ \A d \in Checkouts : UNCHANGED OrdersOf(d)
    BY <1>4, SameOrdersOf DEF CreateCheckout
  <2>2. OrderDue(c) /\ \A d \in Checkouts \ {c} : checkouts'[d] = checkouts[d]
    BY <1>4 DEF CreateCheckout, OrderDue, SaveCheckout, TypeOK
  <2>3. task'[w].checkout = c /\ \A v \in Workers \ {w} : task'[v] = task[v]
    BY <1>4 DEF CreateCheckout, Go, TypeOK
  <2> QED
    BY <1>1, <2>1, <2>2, <2>3, BudgetStep
<1>5. ASSUME NEW w \in Workers, NEW c \in Checkouts, Settle(w, c) PROVE Budget'
  <2>1. /\ UNCHANGED checkouts /\ UNCHANGED shopOrders /\ UNCHANGED failures
        /\ task[w] = Idle
    BY <1>5 DEF Settle
  <2>2. /\ \A v \in Workers \ {w} : task'[v] = task[v]
        /\ task'[w] # Idle => task'[w].checkout = c /\ task'[w].at = "fetch"
    BY <1>5, <2>1 DEF Settle, Start, Go, TypeOK
  <2> QED
    BY <1>1, <2>1, <2>2, BudgetMove
<1>6. ASSUME NEW c \in Checkouts, NEW s \in CheckoutStatus, Outcome(c, s) PROVE Budget'
  BY <1>6 DEF Outcome, Budget, Allowed, OrdersOf, OrderDue, Holds, Busy
<1>7. CASE Crash
  <2> SUFFICES ASSUME NEW d \in Checkouts
               PROVE  (Cardinality(OrdersOf(d)) <= Allowed(d))'
    BY DEF Budget
  <2>1. UNCHANGED checkouts /\ UNCHANGED OrdersOf(d)
    BY <1>7, SameOrdersOf DEF Crash
  <2>2. failures'[d] = failures[d] + 2 \/ failures'[d] = failures[d]
    BY <1>7 DEF Crash
  <2>3. OrderDue(d)' => OrderDue(d)
    BY <1>7, <2>1 DEF Crash, OrderDue, Holds, Busy
  <2> QED
    BY <1>1, <2>1, <2>2, <2>3, BudgetKept
<1>8. CASE UNCHANGED vars
  BY <1>8 DEF vars, Budget, Allowed, OrdersOf, OrderDue, Holds, Busy
<1> QED
  BY <1>2, <1>3, <1>4, <1>5, <1>6, <1>7, <1>8 DEF Next, VerifyCheckout, CheckoutWebhook

-----------------------------------------------------------------------------
(* The theorems.                                                           *)

\* The empty shop satisfies the inductive invariant.
LEMMA InitInv == Init => IInv
<1> SUFFICES ASSUME Init PROVE IInv
  OBVIOUS
<1>1. TypeOK
  BY InitType
<1>2. Sound
  BY DEF Init, Sound, ClaimSound, ClaimExclusive, OrderOnlyWhenPaid, RowSound, Busy, Holds
<1>3. ASSUME NEW c \in Checkouts PROVE Cardinality(OrdersOf(c)) <= Allowed(c)
  <2>1. OrdersOf(c) = {} /\ Allowed(c) \in Nat
    BY <1>1, AllowedType DEF Init, OrdersOf
  <2> QED
    BY <2>1, FS_EmptySet
<1> QED
  BY <1>1, <1>2, <1>3 DEF IInv, Budget

\* The inductive invariant holds in every state, crashes or not.
LEMMA Invariance == FaultSpec => []IInv
<1>1. IInv /\ [Next \/ Crash]_vars => IInv'
  BY NextType, NextSound, NextBudget DEF IInv, Sound
<1> QED
  BY InitInv, <1>1, PTL DEF FaultSpec

\* Every row and every request of a settling shop has its type, crashes or not.
THEOREM TypeCorrect == FaultSpec => []TypeOK
  BY Invariance, PTL DEF IInv

\* However many requests settle a checkout at once, and wherever they fail or the
\* process stops, the claim is held by one of them at a time.
THEOREM ClaimsExclusive == FaultSpec => []ClaimExclusive
<1>1. IInv => ClaimExclusive
  BY DEF IInv, Sound
<1> QED
  BY Invariance, <1>1, PTL

\* A checkout has one order, and one more at most for every step that failed.
THEOREM OrdersBounded == FaultSpec => []OrdersBoundedByFailures
<1>1. IInv => OrdersBoundedByFailures
  <2> SUFFICES ASSUME IInv, NEW c \in Checkouts
               PROVE  Cardinality(OrdersOf(c)) <= failures[c] + 1
    BY DEF OrdersBoundedByFailures
  <2>1. TypeOK /\ Cardinality(OrdersOf(c)) <= Allowed(c)
    BY DEF IInv, Budget
  <2> QED
    BY <2>1, OrdersFinite, AllowedType DEF TypeOK
<1> QED
  BY Invariance, <1>1, PTL

\* What SumUp did not report as paid never becomes an order.
THEOREM OrdersArePaid == FaultSpec => []OrderOnlyWhenPaid
<1>1. IInv => OrderOnlyWhenPaid
  BY DEF IInv, Sound
<1> QED
  BY Invariance, <1>1, PTL

\* The order shown to a shopper is complete: it has its items and its payment.
THEOREM LinkedOrdersComplete == FaultSpec => []LinkedOrderComplete
<1>1. IInv => LinkedOrderComplete
  BY DEF IInv, Sound, ClaimSound, RowSound, LinkedTo, LinkedOrderComplete
<1> QED
  BY Invariance, <1>1, PTL
=============================================================================
