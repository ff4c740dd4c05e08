---------------------------- MODULE OrderLedger ----------------------------
(***************************************************************************)
(* Orders, their items, their payments and the stock of the products, as   *)
(* the handlers of OrdersService, PaymentsService and the device API read  *)
(* and write them.  A request is executed by a worker.  Node runs one      *)
(* request at a time between two awaits, so a handler is cut into steps:   *)
(* one step reads, another one writes what was computed from the read, and *)
(* between the two the other workers may run.  What was read stays in the  *)
(* task as the code keeps it in its local variables.  Writes that follow   *)
(* each other share a step, and so do a read and the insert of a new row.  *)
(***************************************************************************)
EXTENDS OrderRows

CONSTANTS
  Workers,       \* requests that may be in progress at the same time
  Enabled,       \* the operations the requests may ask for
  InitialStock,  \* [Products -> Nat]
  Carts,         \* carts an order may be created with: sequences of lines
  Quantities,    \* quantities an item may be added with or changed to
  Amounts,       \* amounts a payment may be created with
  Discounts,     \* discounts of an order
  MaxRequests,   \* bound: requests started
  MaxItems,      \* bound: rows of order_items
  MaxPayments    \* bound: rows of payments

Operations ==
  {"create", "posCreate", "update", "remove", "addItem", "updateItem",
   "removeItem", "ready", "deliver", "complete", "cancel", "posCancel",
   "forceCancel", "forceStatus", "pay", "posPay", "split", "posSplit",
   "refund", "forceRefund"}

Steps ==
  {"addLine", "takeStock", "recalculate", "saveTotals", "zeroTotal",
   "saveDiscount", "adjust", "saveStock", "saveItem", "restore", "restoreWrite",
   "mark", "status", "saveStatus", "autoComplete", "saveFinal",
   "cancelItem", "cancelWrite", "reverse", "forceReverse",
   "charge", "settle", "sign",
   "refundPayment", "refundOrder", "saveRefund", "forceRefund"}

CartLine == [product : Products, quantity : Nat]

ASSUME LedgerAssumption ==
  /\ Enabled \subseteq Operations
  /\ InitialStock \in [Products -> Nat]
  /\ Carts \subseteq Seq(CartLine)
  /\ Quantities \subseteq Nat \ {0}
  /\ Amounts \subseteq Nat \ {0}
  /\ Discounts \subseteq Nat
  /\ MaxRequests \in Nat /\ MaxItems \in Nat /\ MaxPayments \in Nat

VARIABLES
  orders,    \* table orders
  items,     \* table order_items; the index is the id
  payments,  \* table payments; the index is the id
  stock,     \* products.stock_quantity
  journal,   \* sum of the quantities in stock_movements, per product
  audit,     \* table order_audit_logs
  requests,  \* requests started
  task       \* what every worker is doing

tables == <<orders, items, payments, stock, journal, audit>>
vars == <<orders, items, payments, stock, journal, audit, requests, task>>

Idle == [op |-> "idle"]

Task ==
  [op : Operations,      \* the handler
   at : Steps,           \* its next step
   order : Orders,
   row : OrderRow,       \* the order entity in memory
   lines : Seq(ItemRow), \* the items in memory
   known : SUBSET Nat,   \* the payments in memory, all when not loaded
   item : Nat,           \* the item or the payment the request names
   amount : Nat,         \* the quantity, or the amount, it asks for
   part : [item : Nat, quantity : Nat], \* what a split payment pays
   cart : Seq(CartLine), \* lines still to be added
   held : Int,           \* stockQuantity as it was read
   todo : SUBSET Nat,    \* items or payments the loop has left
   tse : TseResult]      \* tseData as it was read

AuditRow == [action : {"cancel", "refund", "status"}, order : Orders, ok : BOOLEAN]

NoPart == [item |-> 0, quantity |-> 0]

Exists(o) == orders[o] # NoRow
Loadable(o) == Exists(o) /\ orders[o].live

\* The payments of an order in memory.  findOne of OrdersService loads items and
\* payments, the other queries only the items: then TypeORM does not compare
\* the payments on save.
WithPayments == {"update", "remove", "updateItem", "removeItem", "ready", "deliver",
                 "complete", "cancel", "forceCancel", "forceStatus"}

Known(op, o) ==
  IF op \in WithPayments THEN {k \in DOMAIN payments : payments[k].order = o}
                         ELSE 1 .. MaxPayments

\* The order, its items and payments are loaded.
Begin(op, at, o) ==
  [op |-> op, at |-> at, order |-> o, row |-> orders[o], lines |-> items,
   known |-> Known(op, o), item |-> 0, amount |-> 0, part |-> NoPart,
   cart |-> <<>>, held |-> 0, todo |-> {}, tse |-> "none"]

\* The order and its items are loaded again, without the payments, and row is
\* what the handler makes of the order.
Reloaded(t, at, row) ==
  [t EXCEPT !.at = at, !.row = row, !.lines = items, !.known = 1 .. MaxPayments]

Accept(w, op) ==
  /\ op \in Enabled
  /\ task[w] = Idle
  /\ requests < MaxRequests
  /\ requests' = requests + 1

At(w, step) == task[w] # Idle /\ task[w].at = step /\ UNCHANGED requests

Go(w, t) == task' = [task EXCEPT ![w] = t]
GoTo(w, step) == Go(w, [task[w] EXCEPT !.at = step])
Done(w) == Go(w, Idle)

Editable(o) == orders[o].status \notin {"completed", "cancelled"}

-----------------------------------------------------------------------------
(* Rows and writes.                                                        *)

NewOrder(discount) ==
  [status |-> "open", paymentStatus |-> "unpaid", total |-> 0,
   paidAmount |-> 0, discount |-> discount, live |-> TRUE]

NewItem(o, p, q) ==
  [order |-> o, product |-> p, quantity |-> q, paidQuantity |-> 0,
   status |-> "pending", live |-> TRUE]

NewPayment(o, amount, part) ==
  [order |-> o, amount |-> amount, status |-> "captured", reverses |-> 0,
   part |-> part, tse |-> "none"]

\* A reversal that books the amount instead of its negation.
UnnegatedReversal(k, tse) ==
  [order |-> payments[k].order, amount |-> payments[k].amount,
   status |-> "captured", reverses |-> k, part |-> NoPart, tse |-> tse]

Reversal(k, tse) ==
  [order |-> payments[k].order, amount |-> - payments[k].amount,
   status |-> "captured", reverses |-> k, part |-> NoPart, tse |-> tse]

SaveItem(i, row) == items' = [items EXCEPT ![i] = row]

\* orderRepository.save(order) of the order and the items in memory; a save
\* the database refuses ends the request.
Refused(t) == SaveRefused(items, payments, t.order, t.lines, t.known)

SaveOrder(o, row, lines) ==
  /\ orders' = [orders EXCEPT ![o] = row]
  /\ items' = CascadedItems(items, lines, o)

\* What follows the save of an order.
AfterSave(t) ==
  CASE t.at = "saveDiscount" -> "recalculate"
    [] t.at = "saveTotals" /\ t.op = "posCreate" -> "zeroTotal"
    [] t.at = "saveTotals" /\ t.op \in {"addItem", "removeItem"} -> "status"
    [] t.at = "saveStatus" /\ t.op = "deliver" -> "autoComplete"
    [] OTHER -> "done"

SaveRow(w, step) ==
  /\ At(w, step)
  /\ LET t == task[w]
         next == AfterSave(t)
     IN IF Refused(t)
        THEN UNCHANGED <<orders, items, audit>> /\ Done(w)
        ELSE /\ SaveOrder(t.order, t.row, t.lines)
             /\ audit' = IF t.op = "forceStatus"
                         THEN audit \cup {[action |-> "status", order |-> t.order, ok |-> TRUE]}
                         ELSE audit
             /\ IF next = "done" THEN Done(w) ELSE GoTo(w, next)
  /\ UNCHANGED <<payments, stock, journal>>

\* No check of the stock at all.
Unlimited(p, q) == TRUE

\* The check made before q units of p are sold.
Sufficient(p, q) == p \in Tracked => stock[p] >= q

\* Writes the movement and forgets the product.
MoveJournalOnly(p, held, q) ==
  /\ UNCHANGED stock
  /\ journal' = [journal EXCEPT ![p] = @ + q]

\* A product read with stockQuantity = held is saved with q units more, and a
\* stock movement is written.
MoveStock(p, held, q) ==
  IF p \in Tracked
  THEN /\ stock' = [stock EXCEPT ![p] = held + q]
       /\ journal' = [journal EXCEPT ![p] = @ + q]
  ELSE UNCHANGED <<stock, journal>>

-----------------------------------------------------------------------------
(* OrdersService.create and the device API's createOrder.                  *)

CreateOrder(w, op, o, discount, cart) ==
  /\ Accept(w, op)
  /\ op \in {"create", "posCreate"}
  /\ ~ Exists(o)
  /\ orders' = [orders EXCEPT ![o] = NewOrder(discount)]
  /\ IF op = "create" /\ cart = <<>>
     THEN UNCHANGED task
     ELSE Go(w, [Begin(op, IF cart = <<>> THEN "zeroTotal" ELSE "addLine", o)
                 EXCEPT !.row = NewOrder(discount), !.cart = cart])
  /\ UNCHANGED <<items, payments, stock, journal, audit>>

\* addItemToOrder up to the save of the item: the product is read here and
\* its stockQuantity kept.  Too little stock ends the request (and so does the
\* bound on items); the order and the lines saved before stay.
AddLine(w) ==
  /\ At(w, "addLine")
  /\ LET t == task[w]
         line == Head(t.cart)
     IN IF Sufficient(line.product, line.quantity) /\ Len(items) < MaxItems
        THEN /\ items' = Append(items, NewItem(t.order, line.product, line.quantity))
             /\ Go(w, [t EXCEPT !.at = "takeStock", !.held = stock[line.product]])
        ELSE UNCHANGED items /\ Done(w)
  /\ UNCHANGED <<orders, payments, stock, journal, audit>>

\* The rest of addItemToOrder: the product in memory is saved.  Only the
\* dashboard writes a stock movement.
TakeStock(w) ==
  /\ At(w, "takeStock")
  /\ LET t == task[w]
         line == Head(t.cart)
     IN /\ IF t.op = "posCreate"
           THEN /\ stock' = IF line.product \in Tracked
                            THEN [stock EXCEPT ![line.product] = t.held - line.quantity]
                            ELSE stock
                /\ UNCHANGED journal
           ELSE MoveStock(line.product, t.held, - line.quantity)
        /\ Go(w, [t EXCEPT !.cart = Tail(@),
                           !.at = IF Len(t.cart) > 1 THEN "addLine" ELSE "recalculate"])
  /\ UNCHANGED <<orders, items, payments, audit>>

\* recalculateOrderTotals and updateOrderStatus load the order again; they do
\* nothing for a deleted one, and the request ends when it looks for it.
Recalculate(w) ==
  /\ At(w, "recalculate")
  /\ LET o == task[w].order
     IN IF orders[o].live
        THEN Go(w, Reloaded(task[w], "saveTotals", Recalculated(orders[o], items, o)))
        ELSE Done(w)
  /\ UNCHANGED tables

UpdateStatus(w) ==
  /\ At(w, "status")
  /\ LET o == task[w].order
     IN IF orders[o].live
        THEN Go(w, Reloaded(task[w], "saveStatus", WithOrderStatus(orders[o], items, o)))
        ELSE Done(w)
  /\ UNCHANGED tables

\* The device API marks an order with nothing to pay as paid.
ZeroTotal(w) ==
  /\ At(w, "zeroTotal")
  /\ LET o == task[w].order
     IN IF orders[o].live /\ orders[o].total = 0
        THEN Go(w, Reloaded(task[w], "saveFinal",
                     [orders[o] EXCEPT !.paymentStatus = "paid", !.paidAmount = 0]))
        ELSE Done(w)
  /\ UNCHANGED tables

-----------------------------------------------------------------------------
(* OrdersService: editing an order.                                        *)

Update(w, o, discount) ==
  /\ Accept(w, "update")
  /\ Loadable(o) /\ Editable(o)
  /\ Go(w, [Begin("update", "saveDiscount", o) EXCEPT !.row.discount = discount])
  /\ UNCHANGED tables

AddItem(w, o, p, q) ==
  /\ Accept(w, "addItem")
  /\ Loadable(o) /\ Editable(o)
  /\ Go(w, [Begin("addItem", "addLine", o)
            EXCEPT !.cart = <<[product |-> p, quantity |-> q]>>])
  /\ UNCHANGED tables

UpdateItem(w, i, q) ==
  LET o == items[i].order
  IN /\ Accept(w, "updateItem")
     /\ Loadable(o) /\ Editable(o)
     /\ items[i].live /\ items[i].status = "pending" /\ q # items[i].quantity
     /\ Go(w, [Begin("updateItem", "adjust", o) EXCEPT !.item = i, !.amount = q])
     /\ UNCHANGED tables

\* The product is read and its stock checked against the difference.
Adjust(w) ==
  /\ At(w, "adjust")
  /\ LET t == task[w]
         line == t.lines[t.item]
     IN IF t.amount > line.quantity => Sufficient(line.product, t.amount - line.quantity)
        THEN Go(w, [t EXCEPT !.at = "saveStock", !.held = stock[line.product]])
        ELSE Done(w)
  /\ UNCHANGED tables

\* The product in memory is saved, and its movement ...
SaveAdjustment(w) ==
  /\ At(w, "saveStock")
  /\ LET t == task[w]
         line == t.lines[t.item]
     IN MoveStock(line.product, t.held, line.quantity - t.amount)
  /\ GoTo(w, "saveItem")
  /\ UNCHANGED <<orders, items, payments, audit>>

\* ... and, when the event was read for the notice, the item as it was read.
SaveUpdatedItem(w) ==
  /\ At(w, "saveItem")
  /\ LET t == task[w]
     IN SaveItem(t.item, [t.lines[t.item] EXCEPT !.quantity = t.amount])
  /\ GoTo(w, "recalculate")
  /\ UNCHANGED <<orders, payments, stock, journal, audit>>

RemoveItem(w, i) ==
  LET o == items[i].order
  IN /\ Accept(w, "removeItem")
     /\ Loadable(o) /\ Editable(o)
     /\ items[i].live /\ items[i].paidQuantity = 0
     /\ Go(w, [Begin("removeItem", "restore", o) EXCEPT !.item = i, !.todo = {i}])
     /\ UNCHANGED tables

\* Deleting an order puts the quantity of every item back, cancelled or not.
Remove(w, o) ==
  /\ Accept(w, "remove")
  /\ Loadable(o) /\ orders[o].paymentStatus = "unpaid"
  /\ Go(w, [Begin("remove", "restore", o) EXCEPT !.todo = ItemsOf(items, o)])
  /\ UNCHANGED tables

\* restoreStockForItem reads the product of the next item ...
ReadProduct(w, step, next) ==
  /\ At(w, step)
  /\ \E i \in task[w].todo :
       Go(w, [task[w] EXCEPT !.at = next, !.item = i, !.todo = @ \ {i},
                             !.held = stock[task[w].lines[i].product]])
  /\ UNCHANGED tables

\* ... and saves it.
RestoreItem(w) ==
  /\ At(w, "restoreWrite")
  /\ LET line == task[w].lines[task[w].item]
     IN MoveStock(line.product, task[w].held, line.quantity)
  /\ GoTo(w, "restore")
  /\ UNCHANGED <<orders, items, payments, audit>>

DeleteItem(w) ==
  /\ At(w, "restore") /\ task[w].todo = {} /\ task[w].op = "removeItem"
  /\ items' = [items EXCEPT ![task[w].item].live = FALSE]
  /\ GoTo(w, "recalculate")
  /\ UNCHANGED <<orders, payments, stock, journal, audit>>

SoftRemove(w) ==
  /\ At(w, "restore") /\ task[w].todo = {} /\ task[w].op = "remove"
  /\ LET t == task[w]
     IN IF Refused(t)
        THEN UNCHANGED <<orders, items>>
        ELSE /\ orders' = [orders EXCEPT ![t.order].live = FALSE]
             /\ items' = [i \in DOMAIN items |->
                            IF i \in ItemsOf(t.lines, t.order)
                            THEN [items[i] EXCEPT !.live = FALSE] ELSE items[i]]
  /\ Done(w)
  /\ UNCHANGED <<payments, stock, journal, audit>>

-----------------------------------------------------------------------------
(* OrdersService: the kitchen and the counter.                             *)

\* markItemReady and markItemReadyFromDevice; for a delivery no status of the
\* item or of the order is looked at.
MarkItem(w, op, i) ==
  /\ Accept(w, op)
  /\ op \in {"ready", "deliver"}
  /\ Loadable(items[i].order) /\ items[i].live
  /\ op = "ready" => items[i].status # "cancelled"
  /\ Go(w, [Begin(op, "mark", items[i].order) EXCEPT !.item = i])
  /\ UNCHANGED tables

SaveMarked(w) ==
  /\ At(w, "mark")
  /\ LET t == task[w]
     IN SaveItem(t.item, [t.lines[t.item] EXCEPT
          !.status = IF t.op = "ready" THEN "ready" ELSE "delivered"])
  /\ GoTo(w, "status")
  /\ UNCHANGED <<orders, payments, stock, journal, audit>>

\* markItemDelivered loads the order once more.
AutoComplete(w) ==
  /\ At(w, "autoComplete")
  /\ LET o == task[w].order
         A == ActiveItems(items, o)
     IN IF /\ orders[o].live
           /\ A # {} /\ \A i \in A : items[i].status = "delivered"
           /\ orders[o].paymentStatus = "paid"
        THEN Go(w, [Begin("deliver", "saveFinal", o) EXCEPT !.row.status = "completed"])
        ELSE Done(w)
  /\ UNCHANGED tables

CompleteOrder(w, o) ==
  /\ Accept(w, "complete")
  /\ Loadable(o) /\ Editable(o)
  /\ orders[o].paymentStatus = "paid"
  /\ Go(w, [Begin("complete", "saveFinal", o) EXCEPT !.row.status = "completed"])
  /\ UNCHANGED tables

-----------------------------------------------------------------------------
(* Cancelling: OrdersService.cancelOrder, the device API's cancelOrder and *)
(* OrdersService.forceCancelOrder.                                         *)

CancelOrder(w, o) ==
  /\ Accept(w, "cancel")
  /\ Loadable(o) /\ Editable(o)
  /\ Go(w, [Begin("cancel", "cancelItem", o) EXCEPT !.todo = ItemsOf(items, o)])
  /\ UNCHANGED tables

PosCancelOrder(w, o) ==
  /\ Accept(w, "posCancel")
  /\ Loadable(o) /\ Editable(o)
  /\ Go(w, [Begin("posCancel", "cancelItem", o) EXCEPT !.todo = ActiveItems(items, o)])
  /\ UNCHANGED tables

\* A completed order is accepted; the captured payments are read with it.
ForceCancelOrder(w, o) ==
  /\ Accept(w, "forceCancel")
  /\ Loadable(o) /\ orders[o].status # "cancelled"
  /\ Go(w, [Begin("forceCancel", "forceReverse", o) EXCEPT !.todo = CapturedOf(payments, o)])
  /\ UNCHANGED tables

\* One turn of the loop over the items, after the product was read: the product
\* is saved, then the item of the order in memory as cancelled.
CancelItem(w) ==
  /\ At(w, "cancelWrite")
  /\ LET t == task[w]
         line == [t.lines[t.item] EXCEPT !.status = "cancelled"]
     IN /\ MoveStock(line.product, t.held, line.quantity)
        /\ SaveItem(t.item, line)
        /\ Go(w, [t EXCEPT !.at = "cancelItem", !.lines = [@ EXCEPT ![t.item] = line]])
  /\ UNCHANGED <<orders, payments, audit>>

\* The order in memory is saved as cancelled.  Only then does a normal cancel
\* look for the captured payments to reverse; a forced one writes its audit row.
SaveCancelled(w) ==
  /\ At(w, "cancelItem") /\ task[w].todo = {}
  /\ LET t == task[w]
         cancelled == [t.row EXCEPT !.status = "cancelled"]
         forced == t.op = "forceCancel"
     IN IF Refused(t)
        THEN UNCHANGED <<orders, items, audit>> /\ Done(w)
        ELSE /\ SaveOrder(t.order, cancelled, t.lines)
             /\ IF forced
                THEN /\ audit' = audit \cup {[action |-> "cancel",
                                              order |-> t.order, ok |-> TRUE]}
                     /\ Done(w)
                ELSE /\ UNCHANGED audit
                     /\ Go(w, [t EXCEPT !.at = "reverse",
                                        !.todo = CapturedOf(payments, t.order)])
  /\ UNCHANGED <<payments, stock, journal>>

\* One turn of reverseCapturedPaymentsForOrder; an exception of the TSE call
\* is logged and the payment skipped.
ReversePayment(w) ==
  /\ At(w, "reverse")
  /\ \E k \in task[w].todo :
       /\ Len(payments) < MaxPayments
       /\ \/ \E tse \in TseResult : payments' = Append(payments, Reversal(k, tse))
          \/ UNCHANGED payments
       /\ Go(w, [task[w] EXCEPT !.todo = @ \ {k}])
  /\ UNCHANGED <<orders, items, stock, journal, audit>>

ReversalsDone(w) ==
  /\ At(w, "reverse") /\ task[w].todo = {}
  /\ Done(w)
  /\ UNCHANGED tables

\* A forced cancel that carries on whatever the TSE answered.
NeverAborts(tse) == FALSE

AbortsForceCancel(tse) == tse = "failed"

\* One turn of the loop of forceCancelOrder: the row is saved first, then a
\* failed signature aborts the request with an audit row.
ForceReversePayment(w) ==
  /\ At(w, "forceReverse")
  /\ \E k \in task[w].todo :
       /\ Len(payments) < MaxPayments
       /\ \E tse \in TseResult :
            /\ payments' = Append(payments, Reversal(k, tse))
            /\ IF AbortsForceCancel(tse)
               THEN /\ audit' = audit \cup {[action |-> "cancel",
                                             order |-> task[w].order, ok |-> FALSE]}
                    /\ Done(w)
               ELSE /\ UNCHANGED audit
                    /\ Go(w, [task[w] EXCEPT !.todo = @ \ {k}])
  /\ UNCHANGED <<orders, items, stock, journal>>

ForceReversalsDone(w) ==
  /\ At(w, "forceReverse") /\ task[w].todo = {}
  /\ Go(w, [task[w] EXCEPT !.at = "cancelItem",
                           !.todo = ItemsOf(task[w].lines, task[w].order)])
  /\ UNCHANGED tables

ForceUpdateStatus(w, o, s) ==
  /\ Accept(w, "forceStatus")
  /\ s # "cancelled"
  /\ Loadable(o) /\ orders[o].status # "cancelled"
  /\ Go(w, [Begin("forceStatus", "saveFinal", o) EXCEPT !.row.status = s])
  /\ UNCHANGED tables

-----------------------------------------------------------------------------
(* Payments: PaymentsService.create and createSplitPayment, and the device *)
(* API's createPayment and createSplitPayment.                             *)

CreatePayment(w, op, o, amount) ==
  /\ Accept(w, op)
  /\ op \in {"pay", "posPay"}
  /\ Loadable(o) /\ orders[o].paymentStatus # "paid"
  /\ amount <= orders[o].total - orders[o].paidAmount
  /\ Go(w, [Begin(op, "charge", o) EXCEPT !.amount = amount])
  /\ UNCHANGED tables

\* A split payment pays q units of one item at their price.  The dashboard
\* does not look at the payment status.
CreateSplitPayment(w, op, i, q) ==
  LET o == items[i].order
  IN /\ Accept(w, op)
     /\ op \in {"split", "posSplit"}
     /\ Loadable(o) /\ items[i].live
     /\ op = "posSplit" => orders[o].paymentStatus # "paid"
     /\ q <= items[i].quantity - items[i].paidQuantity
     /\ Price[items[i].product] * q > 0
     /\ Go(w, [Begin(op, "charge", o)
               EXCEPT !.amount = Price[items[i].product] * q,
                      !.part = [item |-> i, quantity |-> q]])
     /\ UNCHANGED tables

\* The payment row is saved; only the dashboard writes the order_item_payments
\* row of a split payment.  The id of the payment is kept in `item'.
Charge(w) ==
  /\ At(w, "charge")
  /\ Len(payments) < MaxPayments
  /\ LET t == task[w]
         i == t.part.item
         paidLine == [t.lines[i] EXCEPT !.paidQuantity = @ + t.part.quantity]
         charged == [t EXCEPT !.at = "settle", !.item = Len(payments) + 1]
     IN /\ payments' = Append(payments, NewPayment(t.order, t.amount,
                          IF t.op = "split" THEN t.part ELSE NoPart))
        /\ IF t.op \in {"split", "posSplit"}
           THEN /\ SaveItem(i, paidLine)
                /\ Go(w, [charged EXCEPT !.lines = [@ EXCEPT ![i] = paidLine]])
           ELSE UNCHANGED items /\ Go(w, charged)
  /\ UNCHANGED <<orders, stock, journal, audit>>

\* The items of a full payment are marked paid.
PaidLines(lines, o) ==
  [i \in DOMAIN lines |-> IF i \in ItemsOf(lines, o)
                          THEN [lines[i] EXCEPT !.paidQuantity = lines[i].quantity]
                          ELSE lines[i]]

\* The order in memory with the amount added; the device API completes it when
\* nothing of it is still on its way through a station.
SettledOrder(t) ==
  LET row == WithPaymentStatus([t.row EXCEPT !.paidAmount = @ + t.amount])
      workflowDone == \A i \in ActiveItems(t.lines, t.order) :
                        \/ t.lines[i].product \notin Stationed
                        \/ t.lines[i].status = "delivered"
  IN IF t.op \in {"posPay", "posSplit"} /\ row.paymentStatus = "paid" /\ workflowDone
     THEN [row EXCEPT !.status = "completed"] ELSE row

Settle(w) ==
  /\ At(w, "settle")
  /\ LET t == task[w]
         row == SettledOrder(t)
         lines == IF t.op \in {"pay", "posPay"} /\ row.paymentStatus = "paid"
                  THEN PaidLines(t.lines, t.order) ELSE t.lines
     IN IF Refused(t)
        THEN UNCHANGED <<orders, items>> /\ Done(w)
        ELSE /\ SaveOrder(t.order, row, lines)
             /\ GoTo(w, "sign")
  /\ UNCHANGED <<payments, stock, journal, audit>>

\* signPaymentWithTse: the payment in memory, still captured, is saved with
\* the signature; without a TSE, or when it throws, nothing is written.
SignPayment(w) ==
  /\ At(w, "sign")
  /\ \/ \E tse \in TseResult \ {"none"} :
          payments' = [payments EXCEPT ![task[w].item].status = "captured",
                                       ![task[w].item].tse = tse]
     \/ UNCHANGED payments
  /\ Done(w)
  /\ UNCHANGED <<orders, items, stock, journal, audit>>

-----------------------------------------------------------------------------
(* Refunds: PaymentsService.refund and forceRefund.                        *)

Refund(w, k) ==
  /\ Accept(w, "refund")
  /\ payments[k].status = "captured"
  /\ Loadable(payments[k].order)
  /\ Go(w, [Begin("refund", "refundPayment", payments[k].order)
            EXCEPT !.item = k, !.tse = payments[k].tse])
  /\ UNCHANGED tables

\* The payment in memory is saved as refunded.
RefundPayment(w) ==
  /\ At(w, "refundPayment")
  /\ payments' = [payments EXCEPT ![task[w].item].status = "refunded",
                                  ![task[w].item].tse = task[w].tse]
  /\ GoTo(w, "refundOrder")
  /\ UNCHANGED <<orders, items, stock, journal, audit>>

\* The items with the split payment's quantity taken out again.
UnpaidLines(lines, o, part) ==
  IF part.item \in ItemsOf(lines, o)
  THEN [lines EXCEPT ![part.item].paidQuantity =
          IF @ - part.quantity < 0 THEN 0 ELSE @ - part.quantity]
  ELSE lines

\* The order is loaded afresh; a deleted order is left alone and its reversal is
\* not signed.
RefundOrder(w) ==
  /\ At(w, "refundOrder")
  /\ LET t == task[w]
         o == t.order
         k == t.item
     IN IF orders[o].live
        THEN Go(w, [Reloaded(t, "saveRefund",
                      WithPaymentStatus(Repaid(orders[o], payments[k].amount)))
                    EXCEPT !.lines = UnpaidLines(items, o, payments[k].part)])
        ELSE Done(w)
  /\ UNCHANGED tables

\* The items of the split payment are saved before the order.
SaveRefundedItem(t) ==
  LET i == payments[t.item].part.item
  IN items' = IF i \in ItemsOf(t.lines, t.order)
              THEN [items EXCEPT ![i] = t.lines[i]] ELSE items

SaveRefund(w) ==
  /\ At(w, "saveRefund")
  /\ LET t == task[w]
     IN IF Refused(t)
        THEN SaveRefundedItem(t) /\ UNCHANGED orders /\ Done(w)
        ELSE /\ SaveOrder(t.order, t.row, t.lines)
             /\ Go(w, [t EXCEPT !.at = "reverse", !.todo = {t.item}])
  /\ UNCHANGED <<payments, stock, journal, audit>>

ForceRefund(w, k) ==
  /\ Accept(w, "forceRefund")
  /\ payments[k].status = "captured"
  /\ Loadable(payments[k].order)
  /\ LET o == payments[k].order
     IN Go(w, [Begin("forceRefund", "forceRefund", o)
               EXCEPT !.item = k, !.tse = payments[k].tse,
                      !.row = WithPaymentStatus(Repaid(orders[o], payments[k].amount)),
                      !.lines = UnpaidLines(items, o, payments[k].part)])
  /\ UNCHANGED tables

\* After the TSE answered: a failure only leaves an audit row; otherwise the
\* reversal, the payment in memory and the order in memory are saved.
FinishForceRefund(w) ==
  /\ At(w, "forceRefund")
  /\ LET t == task[w]
         log(ok) == audit \cup {[action |-> "refund", order |-> t.order, ok |-> ok]}
     IN \/ /\ audit' = log(FALSE)
           /\ UNCHANGED <<orders, items, payments>>
        \/ /\ Len(payments) < MaxPayments
           /\ \E tse \in TseResult \ {"failed"} :
                payments' = [Append(payments, Reversal(t.item, tse))
                             EXCEPT ![t.item].status = "refunded", ![t.item].tse = t.tse]
           /\ IF Refused(t)
              THEN SaveRefundedItem(t) /\ UNCHANGED <<orders, audit>>
              ELSE SaveOrder(t.order, t.row, t.lines) /\ audit' = log(TRUE)
  /\ Done(w)
  /\ UNCHANGED <<stock, journal>>

-----------------------------------------------------------------------------
Init ==
  /\ orders = [o \in Orders |-> NoRow]
  /\ items = <<>>
  /\ payments = <<>>
  /\ stock = InitialStock
  /\ journal = [p \in Products |-> 0]
  /\ audit = {}
  /\ requests = 0
  /\ task = [w \in Workers |-> Idle]

Request(w) ==
  \/ \E o \in Orders :
       \/ \E op \in {"create", "posCreate"}, d \in Discounts, cart \in Carts :
            CreateOrder(w, op, o, d, cart)
       \/ \E d \in Discounts : Update(w, o, d)
       \/ \E p \in Products, q \in Quantities : AddItem(w, o, p, q)
       \/ \E op \in {"pay", "posPay"}, a \in Amounts : CreatePayment(w, op, o, a)
       \/ \E s \in OrderStatus : ForceUpdateStatus(w, o, s)
       \/ Remove(w, o)
       \/ CompleteOrder(w, o)
       \/ CancelOrder(w, o)
       \/ PosCancelOrder(w, o)
       \/ ForceCancelOrder(w, o)
  \/ \E i \in DOMAIN items :
       \/ \E q \in Quantities : UpdateItem(w, i, q)
       \/ \E op \in {"split", "posSplit"}, q \in Quantities : CreateSplitPayment(w, op, i, q)
       \/ RemoveItem(w, i)
       \/ \E op \in {"ready", "deliver"} : MarkItem(w, op, i)
  \/ \E k \in DOMAIN payments : Refund(w, k) \/ ForceRefund(w, k)

Continue(w) ==
  \/ AddLine(w) \/ TakeStock(w) \/ Recalculate(w) \/ UpdateStatus(w) \/ ZeroTotal(w)
  \/ \E step \in {"saveDiscount", "saveTotals", "saveStatus", "saveFinal"} : SaveRow(w, step)
  \/ Adjust(w) \/ SaveAdjustment(w) \/ SaveUpdatedItem(w) \/ DeleteItem(w) \/ SaveMarked(w) \/ AutoComplete(w)
  \/ ReadProduct(w, "restore", "restoreWrite") \/ RestoreItem(w) \/ SoftRemove(w)
  \/ ReadProduct(w, "cancelItem", "cancelWrite") \/ CancelItem(w) \/ SaveCancelled(w)
  \/ ReversePayment(w) \/ ReversalsDone(w)
  \/ ForceReversePayment(w) \/ ForceReversalsDone(w)
  \/ Charge(w) \/ Settle(w) \/ SignPayment(w)
  \/ RefundPayment(w) \/ RefundOrder(w) \/ SaveRefund(w) \/ FinishForceRefund(w)

\* Nobody asks for anything.  A request in progress must be able to go on.
Rest ==
  /\ \A w \in Workers : task[w] = Idle
  /\ UNCHANGED vars

Next == (\E w \in Workers : Request(w) \/ Continue(w)) \/ Rest

Spec == Init /\ [][Next]_vars

\* A request may also end between two of its steps: the process restarts, or
\* a query fails.  No handler runs in a transaction, so what it wrote stays.
Interrupt(w) ==
  /\ task[w] # Idle
  /\ Done(w)
  /\ UNCHANGED <<tables, requests>>

FaultNext == Next \/ \E w \in Workers : Interrupt(w)

FaultSpec == Init /\ [][FaultNext]_vars

-----------------------------------------------------------------------------
(* What is checked.                                                        *)

\* What a request in progress kept in memory is still there for the step it goes
\* on with: its order, the items and payments it names, and the stock it read
\* covers what it is about to take.
TaskSound(t) ==
  /\ Exists(t.order)
  /\ Len(t.lines) <= Len(items)
  /\ t.held >= 0
  /\ t.at \in {"addLine", "takeStock"} => t.cart # <<>>
  /\ t.at = "takeStock" /\ Head(t.cart).product \in Tracked
       => t.held >= Head(t.cart).quantity
  /\ t.at \in {"adjust", "saveStock", "saveItem", "restoreWrite", "cancelWrite", "mark"}
       => t.item \in DOMAIN t.lines
  /\ t.at = "saveStock" /\ t.lines[t.item].product \in Tracked
       => t.held >= t.amount - t.lines[t.item].quantity
  /\ t.at = "restore" /\ t.op = "removeItem" => t.item \in DOMAIN t.lines
  /\ t.at = "restoreWrite" /\ t.op = "removeItem" => t.todo = {}
  /\ t.at \in {"restore", "restoreWrite", "cancelItem", "cancelWrite"}
       => t.todo \subseteq DOMAIN t.lines
  /\ t.at \in {"reverse", "forceReverse"} => t.todo \subseteq DOMAIN payments
  /\ t.at = "charge" /\ t.op \in {"split", "posSplit"} => t.part.item \in DOMAIN t.lines
  /\ t.at \in {"settle", "sign", "refundPayment", "refundOrder", "saveRefund", "forceRefund"}
       => t.item \in DOMAIN payments

\* The tables hold rows of their types, and every request in progress keeps an
\* order, the rows it read and a step it can go on with, whatever the others saved
\* since: no line takes more of a tracked product than the stock its request read
\* (addItem, updateItem, createForShop).
TypeOK ==
  /\ orders \in [Orders -> OrderRow \cup {NoRow}]
  /\ items \in Seq(ItemRow)
  /\ payments \in Seq(PaymentRow)
  /\ stock \in [Products -> Int]
  /\ journal \in [Products -> Int]
  /\ audit \subseteq AuditRow
  /\ requests \in Nat
  /\ task \in [Workers -> Task \cup {Idle}]
  /\ \A w \in Workers : task[w] # Idle => TaskSound(task[w])

\* Every reversal row (refund, cancel, their forced forms) points to an older
\* payment of the same order and carries exactly the inverted amount.
ReversalMirrorsTarget ==
  \A k \in DOMAIN payments :
    LET q == payments[k].reverses
    IN q # 0 => /\ q < k
                /\ payments[q].order = payments[k].order
                /\ payments[q].amount = - payments[k].amount

Quiet == \A w \in Workers : task[w] = Idle

SumOfAmounts(S) ==
  LET In == {k \in S : payments[k].amount > 0}
      Out == {k \in S : payments[k].amount < 0}
  IN  SumOver(In, [k \in In |-> payments[k].amount])
        - SumOver(Out, [k \in Out |-> - payments[k].amount])

\* A reversal row points to an original payment, never to another reversal.
ReversalTargetsOriginal ==
  \A k \in DOMAIN payments :
    payments[k].reverses # 0 => payments[payments[k].reverses].reverses = 0

\* Between requests, what an order says was paid is what was captured for it
\* less what was refunded, however payments, splits, refunds, cancels and
\* aborted forced cancels follow each other.  Once a reversal was reversed
\* itself, the floor of refund at zero may leave paidAmount above that.
PaidAmountMatchesLedger ==
  Quiet => \A o \in Orders :
    Loadable(o) =>
      LET P == {k \in DOMAIN payments : payments[k].order = o}
          ledger == SumOfAmounts({k \in P : payments[k].reverses = 0})
                      - SumOfAmounts({k \in P : payments[k].status = "refunded"})
      IN /\ orders[o].paidAmount >= ledger
         /\ ReversalTargetsOriginal => orders[o].paidAmount = ledger

\* Between requests that run to their end one after another, no unit of a tracked
\* product disappears: what is not in stock is in an item that was neither cancelled
\* nor removed.
NoStockLost ==
  Quiet => \A p \in Tracked :
    LET sold == {i \in DOMAIN items :
                   /\ items[i].product = p /\ items[i].live
                   /\ items[i].status # "cancelled"}
    IN stock[p] + SumOver(sold, [i \in sold |-> items[i].quantity]) >= InitialStock[p]

\* No updateItem is interrupted between the save of the product and that of the item.
EndsWhole == \A w \in Workers : Interrupt(w) => task[w].at # "saveItem"
UpdatesEndWhole == [][EndsWhole]_vars

\* A forced cancel ends with the order cancelled only when every captured
\* payment of the order has a reversal the TSE did not reject.
ForceCancelReversesAll ==
  [][\A w \in Workers :
       LET t == task[w]
       IN /\ t # Idle /\ t.op = "forceCancel" /\ t.at = "cancelItem"
          /\ orders[t.order].status # "cancelled"
          /\ orders'[t.order].status = "cancelled"
          => \A k \in CapturedOf(payments, t.order) :
               payments[k].reverses = 0 =>
                 \E r \in DOMAIN payments :
                   payments[r].reverses = k /\ payments[r].tse # "failed"]_vars

=============================================================================
