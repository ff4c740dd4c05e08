----------------------------- MODULE OrderRows -----------------------------
(***************************************************************************)
(* The rows an order consists of (orders, order_items, payments) and the   *)
(* pure rules the handlers apply to them: totals, payment status, order    *)
(* status, and what TypeORM's save() does with a row kept in memory.       *)
(* Money is counted in units larger than the cents the handlers tolerate   *)
(* when they compare amounts (0.01 and 0.02), so a tolerance is equality.  *)
(* A price is the price of one unit with its options.                      *)
(***************************************************************************)
EXTENDS Integers, Sequences, FiniteSets

CONSTANTS
  Orders,      \* identifiers of orders
  Products,    \* products of the event
  Tracked,     \* products with trackInventory
  Stationed,   \* products prepared at a production station
  Price,       \* [Products -> Nat] price of one unit
  Deposit,     \* [Products -> Nat] Pfand of one unit
  OrphanCheck  \* TypeORM's save nulls the key of rows missing from an array

ASSUME ProductAssumption ==
  /\ Tracked \subseteq Products
  /\ Stationed \subseteq Products
  /\ Price \in [Products -> Nat]
  /\ Deposit \in [Products -> Nat]
  /\ OrphanCheck \in BOOLEAN

OrderStatus == {"open", "in_progress", "ready", "completed", "cancelled"}
PaymentStatus == {"unpaid", "partly_paid", "paid"}
ItemStatus == {"pending", "ready", "delivered", "cancelled"}
TseResult == {"none", "signed", "failed"}

OrderRow ==
  [status : OrderStatus, paymentStatus : PaymentStatus, total : Nat,
   paidAmount : Nat, discount : Nat, live : BOOLEAN]

ItemRow ==
  [order : Orders, product : Products, quantity : Nat, paidQuantity : Nat,
   status : ItemStatus, live : BOOLEAN]

\* reverses = 0 stands for reversesPaymentId = null; part names the one
\* order_item_payments row of a split payment, part.item = 0 when it has none.
PaymentRow ==
  [order : Orders, amount : Int, status : {"captured", "refunded"},
   reverses : Nat, part : [item : Nat, quantity : Nat], tse : TseResult]

\* An order that was not created yet.
NoRow == [status |-> "none"]

-----------------------------------------------------------------------------
(* The rows of an order.  live = FALSE is a removed or soft-deleted row,   *)
(* which no query of the handlers returns.                                 *)

ItemsOf(its, o) == {i \in DOMAIN its : its[i].order = o /\ its[i].live}

ActiveItems(its, o) == {i \in ItemsOf(its, o) : its[i].status # "cancelled"}

CapturedOf(pays, o) ==
  {k \in DOMAIN pays : pays[k].order = o /\ pays[k].status = "captured"}

\* The sum of f over the finite set S of natural numbers, counted unit by unit.
SumOver(S, f) == Cardinality(UNION {{x} \X (1 .. f[x]) : x \in S})

Subtotal(its, o) ==
  LET A == ActiveItems(its, o)
  IN  SumOver(A, [i \in A |-> Price[its[i].product] * its[i].quantity])

PfandTotal(its, o) ==
  LET A == ActiveItems(its, o)
  IN  SumOver(A, [i \in A |-> Deposit[its[i].product] * its[i].quantity])

Lesser(a, b) == IF a <= b THEN a ELSE b

\* recalculateOrderTotals: the discount is capped at the subtotal, for good.
Recalculated(row, its, o) ==
  LET subtotal == Subtotal(its, o)
      discount == Lesser(row.discount, subtotal)
  IN  [row EXCEPT !.discount = discount,
                  !.total = subtotal - discount + PfandTotal(its, o)]

\* updateOrderPaymentStatus
WithPaymentStatus(row) ==
  [row EXCEPT !.paymentStatus =
     IF row.paidAmount >= row.total THEN "paid"
     ELSE IF row.paidAmount > 0 THEN "partly_paid" ELSE "unpaid"]

\* updateOrderStatus: derived from the items, whatever the order's status was.
WithOrderStatus(row, its, o) ==
  LET A == ActiveItems(its, o)
  IN  [row EXCEPT !.status =
         IF A = {} THEN "open"
         ELSE IF \A i \in A : its[i].status = "delivered" THEN "ready"
         ELSE IF \E i \in A : its[i].status # "pending" THEN "in_progress"
         ELSE row.status]

\* A refund that takes everything back instead of its amount.
RepaidInFull(row, amount) == [row EXCEPT !.paidAmount = 0]

\* Taking an amount back out of paidAmount, never below zero.
Repaid(row, amount) ==
  [row EXCEPT !.paidAmount =
     IF row.paidAmount - amount < 0 THEN 0 ELSE row.paidAmount - amount]

-----------------------------------------------------------------------------
(* TypeORM.  save(order) writes every column of the copy in memory over    *)
(* the row, and the copies of its items with it (cascade: true).  A row of *)
(* a loaded one-to-many array that the table holds and the array does not  *)
(* would have its order_id set to NULL, which the column refuses: the save *)
(* fails and writes nothing.  That last rule is the library's default      *)
(* (orphanedRowAction nullify), so OrphanCheck lets the runs be made with  *)
(* and without it.                                                         *)

CascadedItems(its, lines, o) ==
  [i \in DOMAIN its |-> IF i \in ItemsOf(lines, o) THEN lines[i] ELSE its[i]]

SaveRefused(its, pays, o, lines, known) ==
  /\ OrphanCheck
  /\ \/ ~ (ItemsOf(its, o) \subseteq ItemsOf(lines, o))
     \/ \E k \in DOMAIN pays : pays[k].order = o /\ k \notin known
=============================================================================
