---------------------------- MODULE EventBilling ----------------------------
(* Events of one organization and their billing (src/src/modules/events,
   src/src/modules/stripe, the event part of src/src/modules/admin): an event is
   unlocked by an invoice, by a Stripe payment or by the platform for free, may
   then be activated, and at most one event of the organization is live.

   A handler reads rows first and writes them later, one awaited statement at a
   time and without a transaction.  A worker's `todo` holds the statements its
   handler has still to run, computed from what it read; statements of other
   workers come in between.  A repository save writes the whole row as it was
   read, with the handler's changes.  The catalogue that copyFromEvent fills
   and the texts of events are left out.                                    *)
EXTENDS Integers, Sequences, FiniteSets

CONSTANTS
  MaxWorkers,    \* requests handled at the same time
  Events, Null,
  MaxDays,       \* the longest event, in days
  MaxRequests,   \* requests of users and administrators ever started
  MaxSessions,   \* checkout sessions ever created at Stripe
  MaxCrashes     \* restarts of the server

ASSUME DaysAssumption == MaxDays \in Nat \ {0}

VARIABLES events, org, sessions, notices, task, overlapped, used

billingVars == <<events, org, sessions, notices, task, overlapped, used>>
stripe == <<sessions, notices>>

Workers == 1..MaxWorkers
Unlocked == {"paid", "invoice", "waived"}
SessionIds == 1..MaxSessions
Customers == 1..MaxRequests

(* `unlockedFor` remembers the days of the event when it was paid or ordered.  *)
EventRow == [status : {"inactive", "active", "test"},
             billing : {"none", "pending", "paid", "invoice", "waived"},
             session : SessionIds \cup {Null}, price : Nat \cup {Null},
             days : 1..MaxDays, unlockedFor : 0..MaxDays]

OrganizationRow == [customer : Customers \cup {Null}, mode : {"prepaid", "invoice"}]

(* Stripe's checkout session: `shown` once its page was handed out, `known` as
   long as Stripe remembers the idempotency key, which is the price.  *)
CheckoutSession == [event : Events, amount : Nat, customer : Customers,
                    status : {"open", "paid", "expired"}, shown : BOOLEAN, known : BOOLEAN]

BillingOK ==
  /\ events \in [Events -> EventRow \cup {Null}]
  /\ org \in OrganizationRow
  /\ DOMAIN sessions \subseteq SessionIds
  /\ \A s \in DOMAIN sessions : sessions[s] \in CheckoutSession
  /\ notices \subseteq SessionIds
  /\ DOMAIN task = Workers
  /\ overlapped \in BOOLEAN
  /\ used \in [requests : 0..MaxRequests, customers : 0..MaxRequests, crashes : 0..MaxCrashes]

Exists(e) == events[e] # Null
LiveIn(table) == {e \in Events : table[e] # Null /\ table[e].status # "inactive"}
Live == LiveIn(events)

Fresh(days) == [status |-> "inactive", billing |-> "none", session |-> Null, price |-> Null,
                days |-> days, unlockedFor |-> 0]

FirstEvent == CHOOSE e \in Events : TRUE

(* One event, new or unlocked for free and live.  *)
BillingInit ==
  /\ \E row \in {Fresh(1), [Fresh(MaxDays) EXCEPT !.billing = "waived", !.status = "active"]} :
       events = [e \in Events |-> IF e = FirstEvent THEN row ELSE Null]
  /\ org \in [customer : {Null}, mode : {"prepaid", "invoice"}]
  /\ sessions = <<>> /\ notices = {}
  /\ task = [w \in Workers |-> <<>>]
  /\ overlapped = FALSE
  /\ used = [requests |-> 0, customers |-> 0, crashes |-> 0]

----------------------------------------------------------------------------
(* The price: five units a day, a fifth less for the first billed event.  *)

HasBilledEventBefore(e) ==
  \E o \in Events \ {e} : Exists(o) /\ events[o].billing \in {"paid", "invoice"}

ResolvePrice(e) == events[e].days * (IF HasBilledEventBefore(e) THEN 5 ELSE 4)

----------------------------------------------------------------------------
(* What a handler reads and the statements it will run.  *)

(* A request takes the first worker that is free.  *)
Handle(w, todo) ==
  /\ task[w] = <<>> /\ \A o \in 1..(w - 1) : task[o] # <<>>
  /\ task' = [task EXCEPT ![w] = todo]
  /\ overlapped' = (overlapped \/ \E o \in Workers \ {w} : task[o] # <<>>)
  /\ UNCHANGED <<events, org, stripe>>

Request(w, todo) ==
  /\ used.requests < MaxRequests
  /\ used' = [used EXCEPT !.requests = @ + 1]
  /\ Handle(w, todo)

SaveEvents(rows) == [do |-> "saveEvents", rows |-> rows]
SaveEvent(e, row) == SaveEvents([x \in {e} |-> row])
SaveOrganization(row) == [do |-> "saveOrganization", row |-> row]
Settle(s) == [do |-> "settle", session |-> s]

Create(w, e) ==
  /\ ~Exists(e)
  /\ \E days \in 1..MaxDays :
       Request(w, <<SaveEvent(e, Fresh(days))>>)

(* Mutant: only paid events are checked. *)
AssertPaidOnly(row, days) == row.billing = "paid" => days <= row.days

(* An event that is paid or invoiced must not become longer; one that is
   waived or pending may.  *)
AssertPaidDurationNotExtended(row, days) ==
  row.billing \in {"paid", "invoice"} => days <= row.days

Update(w, e) ==
  /\ Exists(e)
  /\ \E days \in 1..MaxDays :
       /\ AssertPaidDurationNotExtended(events[e], days)
       /\ Request(w, <<SaveEvent(e, [events[e] EXCEPT !.days = days])>>)

(* Event has no column for a soft deletion: softRemove is refused.  *)
Remove(w, e) ==
  /\ Exists(e) /\ events[e].status # "active"
  /\ Request(w, <<[do |-> "softRemove", event |-> e]>>)

(* Deactivates the live events that were read, in one save, before `e`.  *)
GoLive(w, e, status) ==
  LET siblings == [o \in Live \ {e} |-> [events[o] EXCEPT !.status = "inactive"]]
      save == SaveEvent(e, [events[e] EXCEPT !.status = status])
  IN  Request(w, IF Live \ {e} = {} THEN <<save>> ELSE <<SaveEvents(siblings), save>>)

Activate(w, e) ==
  /\ Exists(e) /\ events[e].status # "active"
  /\ events[e].billing \in Unlocked
  /\ GoLive(w, e, "active")

SetTestMode(w, e) ==
  /\ Exists(e) /\ events[e].status # "test"
  /\ GoLive(w, e, "test")

Deactivate(w, e) ==
  /\ Exists(e) /\ events[e].status # "inactive"
  /\ Request(w, <<SaveEvent(e, [events[e] EXCEPT !.status = "inactive"])>>)

(* The target is read before the catalogue is copied and saved after it.  *)
CopyFromEvent(w, e) ==
  /\ \E source \in Events : Exists(source)
  /\ Exists(e) /\ Request(w, <<SaveEvent(e, events[e])>>)

OrderInvoice(w, e) ==
  /\ Exists(e) /\ events[e].billing \notin Unlocked
  /\ org.mode = "invoice"
  /\ Request(w, <<SaveOrganization(org),
                  SaveEvent(e, [events[e] EXCEPT !.billing = "invoice", !.price = ResolvePrice(e),
                                                 !.unlockedFor = events[e].days])>>)

(* Mutant: the checkout of an unlocked event is not refused.  *)
CheckoutAgain(w, e) ==
  /\ Exists(e)
  /\ Request(w, <<[do |-> "ensureCustomer", event |-> e, row |-> events[e],
                   price |-> ResolvePrice(e), org |-> org]>>)

CreateStripeCheckout(w, e) ==
  /\ Exists(e) /\ events[e].billing \notin Unlocked
  /\ Request(w, <<[do |-> "ensureCustomer", event |-> e, row |-> events[e],
                   price |-> ResolvePrice(e), org |-> org]>>)

SyncStripePayment(w, e) ==
  /\ Exists(e) /\ events[e].session # Null /\ events[e].billing = "pending"
  /\ Request(w, <<Settle(events[e].session)>>)

(* Mutant: the notification is acknowledged before the payment is settled.  *)
AcknowledgeFirst(w, s) ==
  /\ s \in notices
  /\ Handle(w, <<[do |-> "acknowledge", session |-> s], Settle(s)>>)
  /\ UNCHANGED used

(* Stripe repeats a notification until it is acknowledged.  *)
HandleWebhook(w, s) ==
  /\ s \in notices
  /\ Handle(w, <<Settle(s), [do |-> "acknowledge", session |-> s]>>)
  /\ UNCHANGED used

(* markInvoiced and unmarkInvoiced change fields that nothing here reads.  *)
MarkInvoiced(w, e) == Exists(e) /\ Request(w, <<SaveEvent(e, events[e])>>)
UnmarkInvoiced(w, e) == MarkInvoiced(w, e)

Waive(w, e) ==
  /\ Exists(e)
  /\ Request(w, <<SaveEvent(e, [events[e] EXCEPT !.billing = "waived"])>>)

UpdateOrganization(w) ==
  \E mode \in {"prepaid", "invoice"} \ {org.mode} :
    Request(w, <<SaveOrganization([org EXCEPT !.mode = mode])>>)

----------------------------------------------------------------------------
(* Statements.  *)

Now(w) == Head(task[w])
At(w, kind) == task[w] # <<>> /\ Now(w).do = kind
Then(w, todo) == task' = [task EXCEPT ![w] = todo \o Tail(@)]
Done(w) == Then(w, <<>>)
Fail(w) == task' = [task EXCEPT ![w] = <<>>]

(* The index events_one_active_per_org: a save that would make a second event
   of the organization live is refused.  *)
OneLive(table) == \A e, o \in LiveIn(table) : e = o

StoreEvents(w) ==
  LET rows == Now(w).rows
      stored == [e \in Events |-> IF e \in DOMAIN rows THEN rows[e] ELSE events[e]]
  IN  /\ At(w, "saveEvents")
      /\ IF OneLive(stored) THEN Done(w) /\ events' = stored ELSE Fail(w) /\ UNCHANGED events
      /\ UNCHANGED <<org, stripe, overlapped, used>>

RefuseSoftRemove(w) ==
  /\ At(w, "softRemove") /\ Fail(w)
  /\ UNCHANGED <<events, org, stripe, overlapped, used>>

StoreOrganization(w) ==
  /\ At(w, "saveOrganization") /\ Done(w)
  /\ org' = Now(w).row
  /\ UNCHANGED <<events, stripe, overlapped, used>>

OpenSession(w, customer) ==
  <<[do |-> "createSession", event |-> Now(w).event, row |-> Now(w).row,
     price |-> Now(w).price, customer |-> customer]>>

(* A customer that the organization read earlier lacks is created and saved
   with the organization as it was read.  *)
EnsureCustomer(w) ==
  /\ At(w, "ensureCustomer")
  /\ IF Now(w).org.customer # Null
     THEN Then(w, OpenSession(w, Now(w).org.customer)) /\ UNCHANGED <<org, used>>
     ELSE LET customer == used.customers + 1
          IN  /\ used' = [used EXCEPT !.customers = customer]
              /\ org' = [Now(w).org EXCEPT !.customer = customer]
              /\ Then(w, OpenSession(w, customer))
  /\ UNCHANGED <<events, stripe, overlapped>>

Shown(s, row) == [do |-> "showPage", session |-> s,
                  row |-> [row EXCEPT !.billing = "pending", !.session = s]]

(* The sessions Stripe remembers under the key of this event and price.  *)
SameKey(event, price) ==
  {s \in DOMAIN sessions : /\ sessions[s].known
                           /\ sessions[s].event = event /\ sessions[s].amount = price}

(* Stripe returns the session of a key it remembers, and refuses the key when
   the other parameters differ.  *)
CreateSession(w) ==
  LET now == Now(w)
      same == SameKey(now.event, now.price)
      new == Len(sessions) + 1
  IN  /\ At(w, "createSession")
      /\ \/ /\ same = {} /\ new \in SessionIds
            /\ sessions' = Append(sessions,
                 [event |-> now.event, amount |-> now.price, customer |-> now.customer,
                  status |-> "open", shown |-> FALSE, known |-> TRUE])
            /\ Then(w, <<Shown(new, now.row)>>)
         \/ \E s \in same :
              /\ IF sessions[s].customer = now.customer THEN Then(w, <<Shown(s, now.row)>>) ELSE Fail(w)
              /\ UNCHANGED sessions
         \/ same = {} /\ new \notin SessionIds /\ Fail(w) /\ UNCHANGED sessions
      /\ UNCHANGED <<events, org, notices, overlapped, used>>

(* The event is saved as pending and the page is handed out.  *)
StorePending(w) ==
  LET s == Now(w).session
      stored == [e \in Events |-> IF e = sessions[s].event THEN Now(w).row ELSE events[e]]
  IN  /\ At(w, "showPage")
      /\ IF OneLive(stored)
         THEN Done(w) /\ events' = stored /\ sessions' = [sessions EXCEPT ![s].shown = TRUE]
         ELSE Fail(w) /\ UNCHANGED <<events, sessions>>
      /\ UNCHANGED <<org, notices, overlapped, used>>

Paid(row, s) ==
  [row EXCEPT !.billing = "paid", !.session = s, !.price = sessions[s].amount, !.unlockedFor = row.days]

(* Mutant: nobody asks Stripe whether the session was paid.  *)
SettleUnpaid(w) ==
  LET s == Now(w).session
      e == sessions[s].event
  IN  /\ At(w, "settle")
      /\ IF Exists(e) /\ events[e].billing \notin Unlocked
         THEN Then(w, <<SaveEvent(e, Paid(events[e], s))>>)
         ELSE Done(w)
      /\ UNCHANGED <<events, org, stripe, overlapped, used>>

(* settleStripePayment: the session is asked for at Stripe and the event read;
   an unknown event and one that is unlocked already are left alone.  *)
SettleStripePayment(w) ==
  LET s == Now(w).session
      e == sessions[s].event
  IN  /\ At(w, "settle")
      /\ IF sessions[s].status = "paid" /\ Exists(e) /\ events[e].billing \notin Unlocked
         THEN Then(w, <<SaveEvent(e, Paid(events[e], s))>>)
         ELSE Done(w)
      /\ UNCHANGED <<events, org, stripe, overlapped, used>>

Acknowledge(w) ==
  /\ At(w, "acknowledge") /\ Done(w)
  /\ notices' = notices \ {Now(w).session}
  /\ UNCHANGED <<events, org, sessions, overlapped, used>>

Statement(w) ==
  \/ StoreEvents(w) \/ RefuseSoftRemove(w) \/ StoreOrganization(w)
  \/ EnsureCustomer(w) \/ CreateSession(w) \/ StorePending(w)
  \/ SettleStripePayment(w) \/ Acknowledge(w)

----------------------------------------------------------------------------
(* Stripe and the process.  *)

CustomerPays(s) ==
  /\ sessions[s].status = "open" /\ sessions[s].shown
  /\ sessions' = [sessions EXCEPT ![s].status = "paid"]
  /\ notices' = notices \cup {s}
  /\ UNCHANGED <<events, org, task, overlapped, used>>

(* After a day an open page closes and the idempotency key is forgotten.  *)
SessionAges(s) ==
  /\ sessions[s].known
  /\ sessions' = [sessions EXCEPT ![s].known = FALSE,
                                  ![s].status = IF @ = "open" THEN "expired" ELSE @]
  /\ UNCHANGED <<events, org, notices, task, overlapped, used>>

Crash ==
  /\ used.crashes < MaxCrashes
  /\ \E w \in Workers : task[w] # <<>>
  /\ used' = [used EXCEPT !.crashes = @ + 1]
  /\ task' = [w \in Workers |-> <<>>]
  /\ UNCHANGED <<events, org, stripe, overlapped>>

EventRequest(w, e) ==
  \/ Create(w, e) \/ Update(w, e) \/ Remove(w, e) \/ CopyFromEvent(w, e)
  \/ Activate(w, e) \/ SetTestMode(w, e) \/ Deactivate(w, e)
  \/ OrderInvoice(w, e) \/ CreateStripeCheckout(w, e) \/ SyncStripePayment(w, e)
  \/ MarkInvoiced(w, e) \/ UnmarkInvoiced(w, e) \/ Waive(w, e)

Webhook(w) == \E s \in notices : HandleWebhook(w, s)

BillingNext ==
  \/ \E w \in Workers :
       \/ \E e \in Events : EventRequest(w, e)
       \/ UpdateOrganization(w) \/ Webhook(w) \/ Statement(w)
  \/ \E s \in DOMAIN sessions : CustomerPays(s) \/ SessionAges(s)
  \/ Crash

BillingSpec == BillingInit /\ [][BillingNext]_billingVars

(* Node runs every handler to its end, and Stripe repeats a notification until
   it is acknowledged; nobody has to send a request or to pay.  *)
Handled == \E w \in Workers : Statement(w)
Notified == \E w \in Workers : Webhook(w)
FairBilling == BillingSpec /\ WF_billingVars(Handled) /\ WF_billingVars(Notified)

----------------------------------------------------------------------------
(* Only an unlocked event is ever live for real, although every handler writes
   back a row it read earlier (activate's check of billingStatus).  *)
ActiveIsUnlocked ==
  \A e \in Live : events[e].status = "active" => events[e].billing \in Unlocked

(* A paid event names a session of its own that was paid, at that price
   (settleStripePayment, called by the webhook and by the return page).  *)
PaidHasProof ==
  \A e \in Events : Exists(e) /\ events[e].billing = "paid" =>
    LET s == events[e].session
    IN  /\ s \in DOMAIN sessions
        /\ sessions[s].status = "paid" /\ sessions[s].event = e
        /\ events[e].price = sessions[s].amount

(* However requests overlap, an event that is paid or invoiced is never longer
   than it was when it was unlocked (assertPaidDurationNotExtended).  *)
PaidNotExtended ==
  \A e \in Events : Exists(e) /\ events[e].billing \in {"paid", "invoice"} =>
    events[e].days <= events[e].unlockedFor

(* As long as no two requests overlapped, whoever paid gets the event unlocked,
   without returning to the page and despite a restart.  *)
PaidUnlocks ==
  []<>(overlapped \/ \A s \in DOMAIN sessions :
         sessions[s].status = "paid" => events[sessions[s].event].billing \in Unlocked)

=============================================================================
