--------------------------- MODULE TableOrdering ---------------------------
(* Orders of guests at a table (src/src/modules/online-orders, qr-codes and the
   PayPal and SumUp providers): a scan of a QR code opens a session with a cart,
   the cart is submitted as an order, the order is paid online and the payment is
   confirmed by the guest's browser.

   Amounts are quantities; prices, options, names and order numbers are left out,
   as are requests that change nothing: the menu, the status, a refused request,
   a second confirmation, and the start of a session without a QR code, which
   the database refuses because a session must have one.                     *)
EXTENDS Requests, SequencesExt

CONSTANTS
  Products,
  MaxQuantity,     \* of one cart line
  MaxCodes, MaxSessions, MaxOrders, MaxPayments,   \* rows ever made
  None

ASSUME TableOrderingAssumption ==
  /\ {MaxQuantity, MaxCodes, MaxSessions} \subseteq Nat \ {0}
  /\ {MaxOrders, MaxPayments} \subseteq Nat
  /\ None \notin Nat

VARIABLES
  codes,        \* is the QR code active
  sessions,     \* id to [code, status, cart]
  expired,      \* sessions whose two hours are over
  menu,         \* the products that were not deleted
  orders, items,
  payments,
  provider,     \* what PayPal or SumUp knows of the order opened for each payment
  next,         \* the id the next row gets
  taken,        \* history: the PayPal orders captured, and for which payment each was
  cut,          \* history: PayPal orders captured whose booking stopped half way
  crossed       \* history: orders with two confirmations at a time

rows == <<codes, sessions, expired, menu, orders, items, payments, provider, taken, next>>
vars == <<requests, rows, cut, crossed>>

SessionIds == 1..MaxSessions
OrderIds == 1..MaxOrders
PaymentIds == 1..MaxPayments
Providers == {"paypal", "sumup"}

Lines == [product : Products, quantity : 1..MaxQuantity]
Session == [code : 1..MaxCodes, status : {"active", "ordering", "expired"}, cart : Seq(Lines)]
Order == [session : SessionIds \cup {None}, total : Nat, paid : Nat,
          status : {"unpaid", "partly_paid", "paid"}]
Payment == [order : OrderIds, amount : Nat, provider : Providers, status : {"pending", "captured"}]

Rows(table, ids, type) == DOMAIN table \subseteq ids /\ \A i \in DOMAIN table : table[i] \in type

TypeOK ==
  /\ RequestsOK
  /\ Rows(codes, 1..MaxCodes, BOOLEAN)
  /\ Rows(sessions, SessionIds, Session)
  /\ expired \subseteq SessionIds /\ menu \subseteq Products
  /\ Rows(orders, OrderIds, Order)
  /\ \A i \in DOMAIN items : items[i] \in [order : OrderIds, product : Products, amount : Nat]
  /\ Rows(payments, PaymentIds, Payment)
  /\ provider \in [DOMAIN payments -> {"open", "approved", "captured"}]
  /\ Rows(taken, PaymentIds, PaymentIds) /\ cut \subseteq PaymentIds /\ crossed \subseteq OrderIds

Empty == [k \in {} |-> None]

(* Nothing yet, or a session of the first code with a cart.  *)
Init ==
  /\ RequestsInit
  /\ \/ codes = Empty /\ sessions = Empty
     \/ /\ codes = [c \in {1} |-> TRUE]
        /\ \E cart \in {<<>>} \cup {<<l>> : l \in Lines} \cup {<<k, l>> : k, l \in Lines} :
             /\ Len(cart) = 2 => cart[1].product # cart[2].product
             /\ sessions = [s \in {1} |-> [code |-> 1, cart |-> cart,
                              status |-> IF cart = <<>> THEN "active" ELSE "ordering"]]
  /\ expired = {} /\ menu = Products
  /\ orders = Empty /\ items = <<>> /\ payments = Empty /\ provider = Empty /\ taken = Empty
  /\ next = [code |-> Cardinality(DOMAIN codes) + 1, session |-> Cardinality(DOMAIN sessions) + 1,
             order |-> 1, payment |-> 1]
  /\ cut = {} /\ crossed = {}

----------------------------------------------------------------------------
(* Requests of the organizer about QR codes.  *)

SaveCode(c, active) == [do |-> "saveCode", code |-> c, active |-> active]
SaveSession(s, row) == [do |-> "saveSession", session |-> s, row |-> row]

CreateCode(w) ==
  /\ next.code <= MaxCodes
  /\ Start(w, <<SaveCode(next.code, TRUE)>>)
  /\ next' = [next EXCEPT !.code = @ + 1]

UpdateCode(w, c) == Start(w, <<SaveCode(c, ~codes[c])>>) /\ UNCHANGED next

RemoveCode(w, c) == Start(w, <<[do |-> "removeCode", code |-> c]>>) /\ UNCHANGED next

(* Requests of guests.  The scan is counted on the code as it was read.  *)

StartSession(w, c) ==
  /\ codes[c] /\ next.session <= MaxSessions
  /\ Start(w, <<SaveCode(c, TRUE),
                SaveSession(next.session, [code |-> c, status |-> "active", cart |-> <<>>])>>)
  /\ next' = [next EXCEPT !.session = @ + 1]

(* getSession of a session whose time is over only notes that.  *)
GetExpired(w, s) ==
  /\ s \in expired
  /\ Start(w, <<SaveSession(s, [sessions[s] EXCEPT !.status = "expired"])>>)
  /\ UNCHANGED next

(* A change of the cart, saved with the session as it was read.  *)
ChangeCart(w, s, cart, status) ==
  /\ s \notin expired
  /\ Start(w, <<SaveSession(s, [sessions[s] EXCEPT !.cart = cart, !.status = status])>>)
  /\ UNCHANGED next

AddToCart(w, s, line) ==
  LET cart == sessions[s].cart
      same == {i \in DOMAIN cart : cart[i].product = line.product}
      sum == {i \in same : cart[i].quantity + line.quantity <= MaxQuantity}
  IN  /\ line.product \in menu
      /\ \/ /\ same = {}
            /\ ChangeCart(w, s, Append(cart, line), "ordering")
         \/ \E i \in sum : ChangeCart(w, s, [cart EXCEPT ![i].quantity = @ + line.quantity], "ordering")

(* By the place in the cart; none of it takes the line out.  *)
UpdateCartItem(w, s, i, quantity) ==
  LET cart == sessions[s].cart
  IN  ChangeCart(w, s, IF quantity = 0 THEN RemoveAt(cart, i) ELSE [cart EXCEPT ![i].quantity = quantity],
                 sessions[s].status)

ClearCart(w, s) == ChangeCart(w, s, <<>>, "active")

(* The order, its items one by one, its total, and the session; the cart stays.  *)
SubmitOrder(w, s) ==
  /\ s \notin expired /\ sessions[s].cart # <<>>
  /\ next.order <= MaxOrders
  /\ Start(w, <<[do |-> "newOrder", order |-> next.order, session |-> s],
                [do |-> "fill", order |-> next.order, session |-> s, lines |-> sessions[s].cart, subtotal |-> 0],
                SaveSession(s, [sessions[s] EXCEPT !.status = "ordering"])>>)
  /\ next' = [next EXCEPT !.order = @ + 1]

Unpaid(s) == {o \in DOMAIN orders : orders[o].session = s /\ orders[o].status = "unpaid"}

(* The newest unpaid order, for the total it has now.  *)
InitiatePayment(w, s, by) ==
  LET o == CHOOSE i \in Unpaid(s) : \A j \in Unpaid(s) : j <= i
  IN  /\ s \notin expired /\ Unpaid(s) # {}
      /\ next.payment <= MaxPayments
      /\ Start(w, <<[do |-> "checkout", payment |-> next.payment, row |->
                     [order |-> o, amount |-> orders[o].total, provider |-> by, status |-> "pending"]]>>)
      /\ next' = [next EXCEPT !.payment = @ + 1]

(* Somebody is confirming a payment of order o.  *)
Confirming(w, o) == \E i \in DOMAIN task[w] : task[w][i].do \in {"capture", "book"} /\ task[w][i].order = o

(* Mutant: the newest order of the session is booked.  *)
ConfirmNewest(w, p, q) ==
  LET mine == {i \in DOMAIN orders : orders[i].session = orders[payments[p].order].session}
      o == CHOOSE i \in mine : \A j \in mine : j <= i
  IN  /\ payments[p].status = "pending" /\ payments[p].provider = "paypal"
      /\ payments[q].provider = "paypal"
      /\ orders[o].session # None /\ orders[o].session \notin expired
      /\ Start(w, <<[do |-> "capture", payment |-> p, paypal |-> q, order |-> o, read |-> orders[o]]>>)
      /\ crossed' = IF \E v \in Workers : Confirming(v, o) THEN crossed \cup {o} ELSE crossed
      /\ UNCHANGED <<rows, cut>>

(* The request names the payment p and, beside it, the PayPal order to capture:
   any order PayPal knows, here the one opened for payment q, since nobody compares
   it with the order opened for p.  Only a PayPal payment is captured here: for
   SumUp there is nothing to do.  The order is read with the payment.  *)
ConfirmPayment(w, p, q) ==
  LET o == payments[p].order
  IN  /\ payments[p].status = "pending" /\ payments[p].provider = "paypal"
      /\ payments[q].provider = "paypal"
      /\ orders[o].session # None /\ orders[o].session \notin expired
      /\ Start(w, <<[do |-> "capture", payment |-> p, paypal |-> q, order |-> o, read |-> orders[o]]>>)
      /\ crossed' = IF \E v \in Workers : Confirming(v, o) THEN crossed \cup {o} ELSE crossed
      /\ UNCHANGED <<rows, cut>>

----------------------------------------------------------------------------
(* Statements.  *)

(* save() puts back a code that was removed, and undoes what was changed.  *)
StoreCode(w) ==
  /\ At(w, "saveCode")
  /\ codes' = With(codes, Now(w).code, Now(w).active)
  /\ Done(w)
  /\ UNCHANGED <<sessions, expired, menu, orders, items, payments, provider, taken, next, cut, crossed>>

(* The sessions of a code go with it, their orders stay without a session.  *)
DropCode(w) ==
  LET mine == {s \in DOMAIN sessions : sessions[s].code = Now(w).code}
  IN  /\ At(w, "removeCode")
      /\ codes' = [c \in DOMAIN codes \ {Now(w).code} |-> codes[c]]
      /\ sessions' = [s \in DOMAIN sessions \ mine |-> sessions[s]]
      /\ orders' = [o \in DOMAIN orders |->
           IF orders[o].session \in mine THEN [orders[o] EXCEPT !.session = None] ELSE orders[o]]
      /\ Done(w)
      /\ UNCHANGED <<expired, menu, items, payments, provider, taken, next, cut, crossed>>

StoreSession(w) ==
  /\ At(w, "saveSession")
  /\ IF Now(w).row.code \notin DOMAIN codes
     THEN Fail(w) /\ UNCHANGED sessions
     ELSE Done(w) /\ sessions' = With(sessions, Now(w).session, Now(w).row)
  /\ UNCHANGED <<codes, expired, menu, orders, items, payments, provider, taken, next, cut, crossed>>

(* The order row as the handler has it; its session must exist.  *)
StoreOrder(w, total) ==
  LET s == Now(w).session
      row == [session |-> s, total |-> total, paid |-> 0, status |-> "unpaid"]
  IN  IF s \notin DOMAIN sessions
      THEN Fail(w) /\ UNCHANGED orders
      ELSE Done(w) /\ orders' = With(orders, Now(w).order, row)

InsertOrder(w) ==
  /\ At(w, "newOrder") /\ StoreOrder(w, 0)
  /\ UNCHANGED <<codes, sessions, expired, menu, items, payments, provider, taken, next, cut, crossed>>

(* Mutant: the subtotal is raised before the product is looked up.  *)
InsertItemLate(w) ==
  LET line == Head(Now(w).lines)
      found == line.product \in menu
  IN  /\ At(w, "fill") /\ Now(w).lines # <<>>
      /\ items' = IF found THEN Append(items, [order |-> Now(w).order, product |-> line.product,
                                               amount |-> line.quantity]) ELSE items
      /\ Then(w, <<[Now(w) EXCEPT !.lines = Tail(@), !.subtotal = @ + line.quantity]>>)
      /\ UNCHANGED <<codes, sessions, expired, menu, orders, payments, provider, taken, next, cut, crossed>>

(* The next line of the cart; one whose product is gone is passed over.  *)
InsertItem(w) ==
  LET line == Head(Now(w).lines)
      found == line.product \in menu
  IN  /\ At(w, "fill") /\ Now(w).lines # <<>>
      /\ items' = IF found THEN Append(items, [order |-> Now(w).order, product |-> line.product,
                                               amount |-> line.quantity]) ELSE items
      /\ Then(w, <<[Now(w) EXCEPT !.lines = Tail(@), !.subtotal = @ + (IF found THEN line.quantity ELSE 0)]>>)
      /\ UNCHANGED <<codes, sessions, expired, menu, orders, payments, provider, taken, next, cut, crossed>>

SaveTotals(w) ==
  /\ At(w, "fill") /\ Now(w).lines = <<>>
  /\ StoreOrder(w, Now(w).subtotal)
  /\ UNCHANGED <<codes, sessions, expired, menu, items, payments, provider, taken, next, cut, crossed>>

(* The provider refuses, as it does an amount of zero, or opens a payment.  *)
OpenPayment(w) ==
  LET p == Now(w).payment
  IN  /\ At(w, "checkout")
      /\ \/ Fail(w) /\ UNCHANGED <<payments, provider>>
         \/ /\ Now(w).row.amount > 0
            /\ payments' = With(payments, p, Now(w).row)
            /\ provider' = With(provider, p, "open")
            /\ Done(w)
      /\ UNCHANGED <<codes, sessions, expired, menu, orders, items, taken, next, cut, crossed>>

(* What is left to do with the money of the PayPal order of `now`.  *)
Bookings(now) ==
  <<[do |-> "captured", payment |-> now.payment, paypal |-> now.paypal],
    [do |-> "book", payment |-> now.payment, paypal |-> now.paypal, order |-> now.order, read |-> now.read]>>

(* Mutant: an answer that is not ok is taken for a capture.  *)
CaptureUnchecked(w) ==
  /\ At(w, "capture")
  /\ Then(w, Bookings(Now(w)))
  /\ UNCHANGED <<codes, sessions, expired, menu, orders, items, payments, provider, taken, next, cut, crossed>>

(* PayPal captures an order its payer approved, once, and refuses anything else.
   Its answer may be lost on the way back.  *)
Capture(w) ==
  LET q == Now(w).paypal
  IN  /\ At(w, "capture")
      /\ \/ provider[q] # "approved" /\ Fail(w) /\ UNCHANGED <<provider, taken, cut>>
         \/ /\ provider[q] = "approved"
            /\ provider' = [provider EXCEPT ![q] = "captured"]
            /\ taken' = With(taken, q, Now(w).payment)
            /\ \/ Then(w, Bookings(Now(w))) /\ UNCHANGED cut
               \/ Fail(w) /\ cut' = cut \cup {q}
      /\ UNCHANGED <<codes, sessions, expired, menu, orders, items, payments, next, crossed>>

StorePayment(w) ==
  /\ At(w, "captured")
  /\ payments' = [payments EXCEPT ![Now(w).payment].status = "captured"]
  /\ Done(w)
  /\ UNCHANGED <<codes, sessions, expired, menu, orders, items, provider, taken, next, cut, crossed>>

Paid(order, amount) ==
  LET paid == order.paid + amount
  IN  [order EXCEPT !.paid = paid, !.status = IF paid >= order.total THEN "paid" ELSE "partly_paid"]

(* The order as it was read before the capture; its session must still exist.  *)
BookOrder(w) ==
  LET p == Now(w).payment
      o == Now(w).order
  IN  /\ At(w, "book")
      /\ IF Now(w).read.session \notin DOMAIN sessions
         THEN Fail(w) /\ cut' = cut \cup {Now(w).paypal} /\ UNCHANGED orders
         ELSE Done(w) /\ orders' = [orders EXCEPT ![o] = Paid(Now(w).read, payments[p].amount)] /\ UNCHANGED cut
      /\ UNCHANGED <<codes, sessions, expired, menu, items, payments, provider, taken, next, crossed>>

----------------------------------------------------------------------------
(* The guest approves the payment at the provider, where SumUp takes the money at
   once; two hours pass; a product is deleted; the process restarts.  *)

Approve(p) ==
  /\ provider[p] = "open"
  /\ provider' = [provider EXCEPT ![p] = "approved"]
  /\ UNCHANGED <<requests, codes, sessions, expired, menu, orders, items, payments, taken, next, cut, crossed>>

Expire(s) ==
  /\ s \notin expired /\ expired' = expired \cup {s}
  /\ UNCHANGED <<requests, codes, sessions, menu, orders, items, payments, provider, taken, next, cut, crossed>>

DeleteProduct(p) ==
  /\ p \in menu /\ menu' = menu \ {p}
  /\ UNCHANGED <<requests, codes, sessions, expired, orders, items, payments, provider, taken, next, cut, crossed>>

Restart ==
  /\ Crash
  /\ cut' = cut \cup {Now(w).paypal : w \in {v \in Workers : At(v, "captured") \/ At(v, "book")}}
  /\ UNCHANGED <<rows, crossed>>

CodeRequest(w) == CreateCode(w) \/ \E c \in DOMAIN codes : UpdateCode(w, c) \/ RemoveCode(w, c)

Request(w) ==
  \/ CodeRequest(w)
  \/ \E c \in DOMAIN codes : StartSession(w, c)
  \/ \E s \in DOMAIN sessions :
       \/ GetExpired(w, s) \/ ClearCart(w, s) \/ SubmitOrder(w, s)
       \/ \E line \in Lines : AddToCart(w, s, line)
       \/ \E i \in DOMAIN sessions[s].cart, quantity \in 0..MaxQuantity : UpdateCartItem(w, s, i, quantity)
       \/ \E by \in Providers : InitiatePayment(w, s, by)

Statement(w) ==
  \/ StoreCode(w) \/ DropCode(w) \/ StoreSession(w) \/ InsertOrder(w) \/ InsertItem(w) \/ SaveTotals(w)
  \/ OpenPayment(w) \/ Capture(w) \/ StorePayment(w) \/ BookOrder(w)

Next ==
  \/ \E w \in Workers :
       \/ /\ Request(w)
          /\ UNCHANGED <<codes, sessions, expired, menu, orders, items, payments, provider, taken, cut, crossed>>
       \/ \E p, q \in DOMAIN payments : ConfirmPayment(w, p, q)
       \/ Statement(w)
  \/ \E p \in DOMAIN payments : Approve(p)
  \/ \E s \in DOMAIN sessions : Expire(s)
  \/ \E p \in Products : DeleteProduct(p)
  \/ Restart

Spec == Init /\ [][Next]_vars

----------------------------------------------------------------------------
(* The items of order o, and what they come to.  *)
ItemsOf(o) == {i \in DOMAIN items : items[i].order = o}
ItemTotal(o) == SumFunctionOnSet([i \in DOMAIN items |-> items[i].amount], ItemsOf(o))

(* A worker has the money of PayPal order q and has still to book it.  *)
InFlight(q) == \E w \in Workers : (At(w, "captured") \/ At(w, "book")) /\ Now(w).paypal = q

(* The payments of order o for which money was taken and booked, and what they
   come to.  *)
Booked(o) == {p \in DOMAIN payments : /\ payments[p].order = o
                                       /\ \E q \in DOMAIN taken \ cut : taken[q] = p /\ ~InFlight(q)}
Received(o) == SumFunctionOnSet([p \in DOMAIN payments |-> payments[p].amount], Booked(o))

(* Money is booked once, on the payment it was captured for: what PayPal took is
   on that payment, or is being put there, every payment called captured was paid
   with money PayPal took, and what an order has been paid is the sum of its
   payments that were captured, also when the guest opened several payments and
   submitted several orders, in any order of confirmations and repetitions and
   whichever PayPal order each names (confirmPayment).  Left out are bookings that
   were cut off and orders two of whose payments were confirmed at a time.  That
   the PayPal order was opened for this payment, and for its amount, is not
   promised: nobody compares them.  *)
MoneyIsBooked ==
  /\ \A q \in DOMAIN taken : payments[taken[q]].status = "captured" \/ InFlight(q) \/ q \in cut
  /\ \A p \in DOMAIN payments :
       payments[p].status = "captured" => \E q \in DOMAIN taken : taken[q] = p
  /\ \A o \in DOMAIN orders \ crossed : orders[o].paid = Received(o)

(* An order that is paid in full was paid for all its items and nothing else
   (submitOrder, initiatePayment): no payment starts from a total that is not
   complete, whatever products disappear, and when a submission stops half way.  *)
PaidIsWhatWasOrdered ==
  \A o \in DOMAIN orders : orders[o].status = "paid" =>
    /\ orders[o].paid >= orders[o].total
    /\ orders[o].total = ItemTotal(o)
=============================================================================
