---------------------------- MODULE ShopCheckout ----------------------------
(***************************************************************************)
(* The online shop of an event: a checkout is paid at SumUp and becomes an *)
(* order when somebody settles it, the shopper's return page (verify) or   *)
(* SumUp's webhook, possibly both at once and possibly several times.      *)
(* EventsShopCheckoutController runs no transaction: its handlers are cut  *)
(* at their awaits, and a step may fail as a query or a call fails.        *)
(* SumUp (sessions, webhooks) is an external service.                      *)
(***************************************************************************)
EXTENDS Integers, Sequences, FiniteSets

CONSTANTS
  Checkouts,      \* identifiers of checkouts
  Workers,        \* requests that may be in progress at the same time
  TestOrderLimit, \* billing.testEventMaxOrders; the event is in TEST status
  MaxFailures     \* bound: failing steps per checkout

ASSUME ShopAssumption ==
  /\ IsFiniteSet(Workers)
  /\ TestOrderLimit \in Nat
  /\ MaxFailures \in Nat

VARIABLES
  checkouts,  \* table shop_checkouts
  shopOrders, \* the orders of the shop, with their items and payments
  sessions,   \* SumUp's checkouts
  webhooks,   \* checkouts SumUp still has to report
  failures,   \* steps that failed, per checkout
  task        \* what every worker is doing

vars == <<checkouts, shopOrders, sessions, webhooks, failures, task>>

CheckoutStatus == {"pending", "paid", "failed", "cancelled"}

\* sumup: sumupCheckoutId is set; order = 0 stands for orderId = null.
CheckoutRow ==
  [status : CheckoutStatus, sumup : BOOLEAN, order : Nat, paidAt : BOOLEAN]

NoRow == [status |-> "none"]

ShopOrder == [checkout : Checkouts, items : BOOLEAN, payment : BOOLEAN]

\* The steps of settleCheckout from the claim to the release of the claim.
Claimed == {"saveOrder", "saveItems", "savePayment", "link", "summary", "release"}

Steps == {"open", "keepSession", "fetch", "claim", "close"} \cup Claimed

\* row is the checkout entity in memory, order the id of the order just saved.
Task == [at : Steps, checkout : Checkouts, row : CheckoutRow, order : Nat]

Idle == [at |-> "idle"]

TypeOK ==
  /\ checkouts \in [Checkouts -> CheckoutRow \cup {NoRow}]
  /\ shopOrders \in Seq(ShopOrder)
  /\ sessions \in [Checkouts -> CheckoutStatus \cup {"none"}]
  /\ webhooks \subseteq Checkouts
  /\ failures \in [Checkouts -> Nat]
  /\ task \in [Workers -> Task \cup {Idle}]

At(w, step) == task[w].at = step

Go(w, t) == task' = [task EXCEPT ![w] = t]
GoTo(w, step) == Go(w, [task[w] EXCEPT !.at = step])
Done(w) == Go(w, Idle)

\* The checkout is loaded.
Start(w, step, c) ==
  Go(w, [at |-> step, checkout |-> c, row |-> checkouts[c], order |-> 0])

SaveCheckout(c, row) == checkouts' = [checkouts EXCEPT ![c] = row]

-----------------------------------------------------------------------------
(* createCheckout                                                          *)

NewCheckout == [status |-> "pending", sumup |-> FALSE, order |-> 0, paidAt |-> FALSE]

CreateCheckout(w, c) ==
  /\ task[w] = Idle
  /\ checkouts[c] = NoRow
  /\ Len(shopOrders) < TestOrderLimit
  /\ SaveCheckout(c, NewCheckout)
  /\ Go(w, [at |-> "open", checkout |-> c, row |-> NewCheckout, order |-> 0])
  /\ UNCHANGED <<shopOrders, sessions, webhooks, failures>>

\* createOnlineCheckout of the SumUp API.
OpenSession(w) ==
  /\ At(w, "open")
  /\ sessions' = [sessions EXCEPT ![task[w].checkout] = "pending"]
  /\ GoTo(w, "keepSession")
  /\ UNCHANGED <<checkouts, shopOrders, webhooks, failures>>

KeepSession(w) ==
  /\ At(w, "keepSession")
  /\ SaveCheckout(task[w].checkout, [task[w].row EXCEPT !.sumup = TRUE])
  /\ Done(w)
  /\ UNCHANGED <<shopOrders, sessions, webhooks, failures>>

-----------------------------------------------------------------------------
(* SumUp.  Only the answer of createCheckout tells the shopper where to    *)
(* pay; an unpaid session may fail, expire or be cancelled at any time.    *)
(* Every outcome is final and is reported to the webhook.                  *)

Outcome(c, status) ==
  /\ sessions[c] = "pending"
  /\ status = "paid" => checkouts[c].sumup
  /\ sessions' = [sessions EXCEPT ![c] = status]
  /\ webhooks' = webhooks \cup {c}
  /\ UNCHANGED <<checkouts, shopOrders, failures, task>>

-----------------------------------------------------------------------------
(* settleCheckout: the checkout is loaded, SumUp is asked, and a paid      *)
(* checkout is claimed before its order is created.                        *)

NeedsSettling(row) == ~ (row.status = "paid" /\ row.order # 0) /\ row.sumup

Settle(w, c) ==
  /\ task[w] = Idle
  /\ checkouts[c] # NoRow
  /\ IF NeedsSettling(checkouts[c]) THEN Start(w, "fetch", c) ELSE UNCHANGED task
  /\ UNCHANGED <<checkouts, shopOrders, sessions, failures>>

\* The shopper's return page polls.
VerifyCheckout(w, c) == Settle(w, c) /\ UNCHANGED webhooks

\* Whatever settling comes to, the webhook answers 200 and SumUp is done.
CheckoutWebhook(w, c) ==
  /\ c \in webhooks
  /\ Settle(w, c)
  /\ webhooks' = webhooks \ {c}

\* A status that is believed before SumUp was asked for it.
TrustedStatus(c) == "paid"

\* GET /v0.1/checkouts/{id}
SumUpStatus(c) == sessions[c]

Fetch(w) ==
  /\ At(w, "fetch")
  /\ LET status == SumUpStatus(task[w].checkout)
     IN CASE status = "paid" -> GoTo(w, "claim")
          [] status \in {"failed", "cancelled"} ->
               Go(w, [task[w] EXCEPT !.at = "close", !.row.status = status])
          [] OTHER -> Done(w)
  /\ UNCHANGED <<checkouts, shopOrders, sessions, webhooks, failures>>

\* A failed or cancelled checkout is saved from memory, whole.
CloseCheckout(w) ==
  /\ At(w, "close")
  /\ SaveCheckout(task[w].checkout, task[w].row)
  /\ Done(w)
  /\ UNCHANGED <<shopOrders, sessions, webhooks, failures>>

\* A claim by whoever finds no order yet.
ClaimableUntilLinked(row) == row.order = 0

\* The condition of the UPDATE that claims the checkout.
Claimable(row) == row.status = "pending"

Claim(w) ==
  /\ At(w, "claim")
  /\ LET c == task[w].checkout
     IN IF Claimable(checkouts[c])
        THEN /\ SaveCheckout(c, [checkouts[c] EXCEPT !.status = "paid", !.paidAt = TRUE])
             /\ GoTo(w, "saveOrder")
        ELSE UNCHANGED checkouts /\ Done(w)
  /\ UNCHANGED <<shopOrders, sessions, webhooks, failures>>

-----------------------------------------------------------------------------
(* createOrderFromCheckout and the end of settleCheckout.                  *)

SaveShopOrder(w) ==
  /\ At(w, "saveOrder")
  /\ shopOrders' = Append(shopOrders,
       [checkout |-> task[w].checkout, items |-> FALSE, payment |-> FALSE])
  /\ Go(w, [task[w] EXCEPT !.at = "saveItems", !.order = Len(shopOrders) + 1])
  /\ UNCHANGED <<checkouts, sessions, webhooks, failures>>

SaveShopItems(w) ==
  /\ At(w, "saveItems")
  /\ shopOrders' = [shopOrders EXCEPT ![task[w].order].items = TRUE]
  /\ GoTo(w, "savePayment")
  /\ UNCHANGED <<checkouts, sessions, webhooks, failures>>

\* A payment that is not waited for, and that fails.
UnsavedPayment(w) ==
  /\ At(w, "savePayment")
  /\ GoTo(w, "link")
  /\ UNCHANGED <<checkouts, shopOrders, sessions, webhooks, failures>>

\* The TSE signature and the prints that follow never fail the settlement.
SaveShopPayment(w) ==
  /\ At(w, "savePayment")
  /\ shopOrders' = [shopOrders EXCEPT ![task[w].order].payment = TRUE]
  /\ GoTo(w, "link")
  /\ UNCHANGED <<checkouts, sessions, webhooks, failures>>

\* The checkout in memory is saved; it was loaded before the claim, so the
\* time of the payment the claim wrote is overwritten with null.
LinkOrder(w) ==
  /\ At(w, "link")
  /\ SaveCheckout(task[w].checkout,
       [task[w].row EXCEPT !.status = "paid", !.order = task[w].order])
  /\ GoTo(w, "summary")
  /\ UNCHANGED <<shopOrders, sessions, webhooks, failures>>

\* getTseSummary, still inside the try block.
TseSummary(w) ==
  /\ At(w, "summary")
  /\ Done(w)
  /\ UNCHANGED <<checkouts, shopOrders, sessions, webhooks, failures>>

\* A release that is forgotten.
StaysClaimed(row) == row

Released(row) == [row EXCEPT !.status = "pending", !.paidAt = FALSE]

Release(w) ==
  /\ At(w, "release")
  /\ SaveCheckout(task[w].checkout, Released(checkouts[task[w].checkout]))
  /\ Done(w)
  /\ UNCHANGED <<shopOrders, sessions, webhooks, failures>>

\* The next call or query of a request throws.  Inside the try block the claim
\* is released, anywhere else the request ends; an unreachable SumUp ends it too.
Fail(w) ==
  /\ task[w] # Idle
  /\ LET c == task[w].checkout
     IN /\ failures[c] < MaxFailures
        /\ failures' = [failures EXCEPT ![c] = @ + 1]
        /\ IF task[w].at \in Claimed \ {"release"} THEN GoTo(w, "release") ELSE Done(w)
  /\ UNCHANGED <<checkouts, shopOrders, sessions, webhooks>>

-----------------------------------------------------------------------------
Init ==
  /\ checkouts = [c \in Checkouts |-> NoRow]
  /\ shopOrders = <<>>
  /\ sessions = [c \in Checkouts |-> "none"]
  /\ webhooks = {}
  /\ failures = [c \in Checkouts |-> 0]
  /\ task = [w \in Workers |-> Idle]

Continue(w) ==
  \/ OpenSession(w) \/ KeepSession(w) \/ Fetch(w) \/ CloseCheckout(w) \/ Claim(w)
  \/ SaveShopOrder(w) \/ SaveShopItems(w) \/ SaveShopPayment(w)
  \/ LinkOrder(w) \/ TseSummary(w) \/ Release(w)

Next ==
  \/ \E w \in Workers, c \in Checkouts :
       CreateCheckout(w, c) \/ VerifyCheckout(w, c) \/ CheckoutWebhook(w, c)
  \/ \E w \in Workers : Continue(w) \/ Fail(w)
  \/ \E c \in Checkouts, s \in CheckoutStatus \ {"pending"} : Outcome(c, s)

Spec == Init /\ [][Next]_vars

\* The process stops: every request in progress is gone, the rows stay.  For
\* its checkout that is two failures, of its step and of what would clean up.
Crash ==
  /\ \E w \in Workers : task[w] # Idle
  /\ LET hit == {task[w].checkout : w \in {v \in Workers : task[v] # Idle}}
     IN /\ \A c \in hit : failures[c] + 2 <= MaxFailures
        /\ failures' = [c \in Checkouts |-> IF c \in hit THEN failures[c] + 2 ELSE failures[c]]
  /\ task' = [w \in Workers |-> Idle]
  /\ UNCHANGED <<checkouts, shopOrders, sessions, webhooks>>

FaultSpec == Init /\ [][Next \/ Crash]_vars

\* Node goes on with every request it accepted.
Progress == \A w \in Workers : WF_vars(Continue(w))

\* The return page asks again and again; nothing is assumed of the webhook.
Polls == \A c \in Checkouts : SF_vars(\E w \in Workers : VerifyCheckout(w, c))

FairFaultSpec == FaultSpec /\ Progress /\ Polls

-----------------------------------------------------------------------------
(* What every request, row and claim can rely on.                          *)

Busy(w, c) == task[w] # Idle /\ task[w].checkout = c

\* A request that holds the claim of checkout c.
Holds(w, c) == Busy(w, c) /\ task[w].at \in Claimed

LinkedTo(c, i) ==
  /\ i \in DOMAIN shopOrders
  /\ shopOrders[i] = [checkout |-> c, items |-> TRUE, payment |-> TRUE]

\* A request that creates a checkout has it for itself; every other request
\* works on a checkout that has its session, and saves an order it completed.
TaskSound(w, c) ==
  LET t == task[w]
  IN /\ checkouts[c] # NoRow
     /\ t.at \in {"open", "keepSession"} =>
          /\ t.row = NewCheckout /\ ~ checkouts[c].sumup
          /\ t.at = "open" => sessions[c] = "none"
          /\ \A v \in Workers : Busy(v, c) => v = w
     /\ t.at \notin {"open", "keepSession"} => t.row.sumup /\ checkouts[c].sumup
     /\ t.at = "close" => sessions[c] = t.row.status /\ sessions[c] \in {"failed", "cancelled"}
     /\ t.at = "claim" \/ t.at \in Claimed => sessions[c] = "paid"
     /\ t.row.order # 0 => LinkedTo(c, t.row.order)
     /\ t.at \in Claimed \ {"saveOrder", "release"} =>
          /\ t.order \in DOMAIN shopOrders /\ shopOrders[t.order].checkout = c
          /\ t.at # "saveItems" => shopOrders[t.order].items
          /\ t.at \notin {"saveItems", "savePayment"} => LinkedTo(c, t.order)

\* A paid checkout was paid at SumUp; the order it links to is complete.
RowSound(c) ==
  IF checkouts[c] = NoRow THEN sessions[c] = "none"
  ELSE /\ checkouts[c].status = "paid" => checkouts[c].sumup /\ sessions[c] = "paid"
       /\ checkouts[c].order # 0 => LinkedTo(c, checkouts[c].order)

\* What the requests, the rows and the claims can rely on, whatever happens.
ClaimSound ==
  /\ \A c \in Checkouts : RowSound(c)
  /\ \A w \in Workers, c \in Checkouts : Busy(w, c) => TaskSound(w, c)

\* A claimed checkout is paid, and no two requests ever hold the claim of the
\* same checkout.
ClaimExclusive ==
  \A c \in Checkouts, w \in Workers :
    Holds(w, c) => /\ checkouts[c].status = "paid"
                   /\ \A v \in Workers : Holds(v, c) => v = w

-----------------------------------------------------------------------------
(* What is checked.                                                        *)

OrdersOf(c) == {i \in DOMAIN shopOrders : shopOrders[i].checkout = c}

\* However many requests settle a checkout at once, it gets one order, and one
\* more at most for every time a step failed.
OrdersBoundedByFailures ==
  \A c \in Checkouts : Cardinality(OrdersOf(c)) <= failures[c] + 1

\* Only what SumUp says was paid becomes an order.
OrderOnlyWhenPaid ==
  \A i \in DOMAIN shopOrders : sessions[shopOrders[i].checkout] = "paid"

\* The order a checkout shows to its shopper is one of its own and has its
\* items and its payment.
LinkedOrderComplete ==
  \A c \in Checkouts :
    checkouts[c] # NoRow /\ checkouts[c].order # 0 =>
      LET i == checkouts[c].order
      IN /\ i \in DOMAIN shopOrders
         /\ shopOrders[i] = [checkout |-> c, items |-> TRUE, payment |-> TRUE]

Settled(c) ==
  checkouts[c] # NoRow /\ checkouts[c].status = "paid" /\ checkouts[c].order # 0

\* A single failing step never costs the shopper the order: a paid checkout is
\* settled as long as the return page polls, unless failures came in pairs.
SettledDespiteOneFailure ==
  \A c \in Checkouts : sessions[c] = "paid" ~> Settled(c) \/ failures[c] >= 2
=============================================================================
