--------------------------- MODULE FiscalRecords ---------------------------
(* The fiscal records of one till (src/src/modules/tse, src/src/modules/dsfinvk):
   the security device (TSE) of the organization is set up, sales and refunds are
   signed by it, and the till is closed and archived as DSFinV-K exports.

   How an order is edited is in OrderLedger; here it has what the taxes and the
   export read: its items by tax rate, their deposits, what was taken off and put on.
   The organization is not exempt from taxes.  Device registration, credentials,
   texts and the columns of the exported tables are left out, the rows that go into
   them are kept.  *)
EXTENDS Requests, SequencesExt, VatSplit

CONSTANTS
  Events,
  Baskets,          \* tax compositions of an order that is not free
  Deposits,         \* deposits (Pfand) on the items of an order, by their rate
  Extras,           \* a discount and a tip
  MaxOrders, MaxPayments, MaxClosings, MaxTss,
  MaxTime,          \* ticks of the clock
  ArchiveAge,       \* ARCHIVE_MAX_AGE_DAYS, in ticks
  None, Local, Failed

Rates == {0, 7, 19}

ASSUME FiscalAssumption ==
  /\ {None, Local, Failed} \cap Int = {} /\ Cardinality({None, Local, Failed}) = 3
  /\ \A basket \in Baskets : SplitSum(basket) > 0 /\ \E sold \in SUBSET Rates : basket \in [sold -> Nat]
  /\ Deposits \subseteq [Rates -> Nat] /\ Extras \subseteq [discount : Nat, tip : Nat]
  /\ {MaxOrders, MaxPayments, MaxClosings, MaxTss, MaxTime, ArchiveAge} \subseteq Nat

VARIABLES
  tse,          \* of the organization's settings: None, Local, or a TSS of fiskaly
  tss,          \* at fiskaly: how far each TSS was set up
  ledger,       \* transactions at the TSE: [amount, splits, state]
  registered,   \* the till has a client at the TSE (device.settings.tseClientId)
  clock,
  orders,       \* [event, created, basket, deposit, extra, cancelled]
  payments,     \* id to [order, amount, splits, created, reverses, status, tse]
  closings, archives,
  next,         \* the id the next payment and the next TSS get
  history       \* payments nothing had to sign or that were never tried; reversals
                \* made before their sale was signed; that two closings overlapped

rows == <<tse, tss, ledger, registered, clock, orders, payments, closings, archives, next>>
vars == <<requests, rows, history>>

PaymentIds == 1..MaxPayments
OrderIds == 1..MaxOrders
TssIds == 1..MaxTss

OrderRow == [event : Events, created : 0..MaxTime, basket : Baskets, deposit : Deposits, extra : Extras,
             cancelled : SUBSET Rates]

(* How far a TSS is; the last step sets its PIN and logs in with it.  *)
Setup == <<"created", "uninitialized", "initialized">>
IsRow(p) ==
  /\ p.order \in DOMAIN orders /\ p.amount \in Int /\ p.created \in 0..MaxTime
  /\ DOMAIN p.splits \subseteq Rates /\ \A r \in DOMAIN p.splits : p.splits[r] \in Int
  /\ p.reverses \in DOMAIN payments \cup {None} /\ p.status \in {"captured", "refunded"}
  /\ p.tse \in {None, Failed} \cup DOMAIN ledger
IsClosing(z) ==
  /\ z.event \in Events /\ z.start \in 0..MaxTime /\ z.end \in 0..MaxTime /\ z.content \subseteq DOMAIN payments
  /\ DOMAIN z.turnover = Rates /\ z.paid \in Int

TypeOK ==
  /\ RequestsOK
  /\ tse \in {None, Local} \cup TssIds
  /\ DOMAIN tss \subseteq TssIds /\ \A t \in DOMAIN tss : tss[t] \in DOMAIN Setup
  /\ \A n \in DOMAIN ledger : ledger[n].state \in {"active", "finished"}
  /\ registered \in BOOLEAN /\ clock \in 0..MaxTime
  /\ \A o \in DOMAIN orders : orders[o] \in OrderRow
  /\ DOMAIN payments \subseteq PaymentIds /\ \A p \in DOMAIN payments : IsRow(payments[p])
  /\ \A z \in DOMAIN closings : IsClosing(closings[z])
  /\ \A a \in DOMAIN archives : archives[a] \in [closing : DOMAIN closings, content : SUBSET PaymentIds,
                                                 created : 0..MaxTime]
  /\ history \in [excused : SUBSET PaymentIds, early : SUBSET PaymentIds, raced : BOOLEAN]

Empty == [k \in {} |-> None]

(* No TSE yet, a local one, or a TSS that was set up before.  *)
Init ==
  /\ RequestsInit
  /\ tse \in {None, Local, 1}
  /\ tss = IF tse = 1 THEN [t \in {1} |-> Len(Setup)] ELSE Empty
  /\ ledger = <<>> /\ registered = FALSE /\ clock = 0
  /\ orders = <<>> /\ payments = Empty /\ closings = <<>> /\ archives = <<>>
  /\ next = [payment |-> 1, tss |-> Cardinality(DOMAIN tss) + 1]
  /\ history = [excused |-> {}, early |-> {}, raced |-> FALSE]

----------------------------------------------------------------------------
(* The set-up of a TSS (createTss, activatePlatformTse).  *)

ProvisionTss(w) ==
  /\ next.tss <= MaxTss
  /\ Start(w, <<[do |-> "setUp", tss |-> next.tss], [do |-> "settings", tss |-> next.tss]>>)
  /\ next' = [next EXCEPT !.tss = @ + 1]
  /\ UNCHANGED <<tse, tss, ledger, registered, clock, orders, payments, closings, archives, history>>

(* The next request of the set-up; it may fail, with or without having had its
   effect, and nothing takes the set-up on again.  *)
SetUpTss(w) ==
  LET t == Now(w).tss
      done == IF t \in DOMAIN tss THEN tss[t] ELSE 0
  IN  /\ At(w, "setUp")
      /\ \/ Fail(w) /\ tss' \in {tss, With(tss, t, done + 1)}
         \/ tss' = With(tss, t, done + 1) /\ (IF done + 1 = Len(Setup) THEN Done(w) ELSE UNCHANGED requests)
      /\ UNCHANGED <<tse, ledger, registered, clock, orders, payments, closings, archives, next, history>>

SaveSettings(w) ==
  /\ At(w, "settings") /\ tse' = Now(w).tss /\ Done(w)
  /\ UNCHANGED <<tss, ledger, registered, clock, orders, payments, closings, archives, next, history>>

----------------------------------------------------------------------------
(* Sales and refunds.  *)

PlaceOrder(e, basket, deposit, extra) ==
  /\ Len(orders) < MaxOrders
  /\ orders' = Append(orders, [event |-> e, created |-> clock, basket |-> basket, deposit |-> deposit,
                               extra |-> extra, cancelled |-> {}])
  /\ UNCHANGED <<requests, tse, tss, ledger, registered, clock, payments, closings, archives, next, history>>

(* Another discount or tip (update), and items that a cancellation which was cut off
   left cancelled in an order that goes on.  *)
EditOrder(w, o) ==
  \E extra \in Extras, cancelled \in SUBSET DOMAIN orders[o].basket :
    /\ orders[o].cancelled \subseteq cancelled
    /\ Start(w, <<>>)
    /\ orders' = [orders EXCEPT ![o].extra = extra, ![o].cancelled = cancelled]
    /\ UNCHANGED <<tse, tss, ledger, registered, clock, payments, closings, archives, next, history>>

(* recalculateOrderTotals: the discount is capped, items that are cancelled are not
   owed, nor are their deposits.  *)
Owed(o) ==
  LET row == orders[o]
      live == DOMAIN row.basket \ row.cancelled
      subtotal == SplitSum([r \in live |-> row.basket[r]])
      off == IF row.extra.discount > subtotal THEN subtotal ELSE row.extra.discount
  IN  subtotal - off + row.extra.tip + SplitSum([r \in live |-> row.deposit[r]])

Kept(o) == {p \in DOMAIN payments : payments[p].order = o /\ payments[p].status = "captured"
                                    /\ payments[p].reverses = None}
Open(o) == Owed(o) - SplitSum([p \in Kept(o) |-> payments[p].amount])

(* A row that goes through the TSE of the settings, if there is one, before it is
   saved with what came of it; `must` is that the refund is an administrator's.  *)
Sign(id, row, must) ==
  [do |-> "sign", stage |-> "client", payment |-> id, row |-> row, number |-> 0, at |-> None, must |-> must]

Row(o, amount, splits, reverses) ==
  [order |-> o, amount |-> amount, splits |-> splits, created |-> clock, reverses |-> reverses,
   status |-> "captured", tse |-> None]

(* The payment is saved before it is signed.  A split payment is composed of the
   items it pays, another one like the whole order.  *)
PayOrder(w, o, amount, base) ==
  LET row == Row(o, amount, AllocateToAmount(base, amount), None)
  IN  /\ next.payment <= MaxPayments
      /\ payments' = With(payments, next.payment, row)
      /\ Start(w, <<Sign(next.payment, row, FALSE)>>)
      /\ next' = [next EXCEPT !.payment = @ + 1]
      /\ UNCHANGED <<tse, tss, ledger, registered, clock, orders, closings, archives, history>>

PayPart(w, o) == \E amount \in 1..Open(o) : PayOrder(w, o, amount, orders[o].basket)

(* The items of a split payment are compared with what is paid of them, not with what
   is still owed.  *)
PayItems(w, o) ==
  \E r \in DOMAIN orders[o].basket :
    LET item == [q \in {r} |-> orders[o].basket[q]]
    IN  /\ item[r] > 0 /\ \A p \in Kept(o) : payments[p].splits # item
        /\ PayOrder(w, o, item[r], item)

(* What was signed, inverted, or else the order.  *)
ReversalSplits(payment) ==
  IF payment.tse # None /\ DOMAIN payment.splits # {} THEN Negated(payment.splits)
  ELSE AllocateToAmount(orders[payment.order].basket, -payment.amount)

(* refund marks the original, then signs its reversal and inserts it; forceRefund
   signs first, and marks the original last.  *)
Refund(w, p, forced) ==
  LET sale == payments[p]
      id == next.payment
      sign == Sign(id, Row(sale.order, -sale.amount, ReversalSplits(sale), p), forced)
      mark == [do |-> "refund", payment |-> p]
  IN  /\ sale.status = "captured" /\ sale.reverses = None /\ id <= MaxPayments
      /\ Start(w, IF forced THEN <<sign, mark>> ELSE <<mark, sign>>)
      /\ next' = [next EXCEPT !.payment = @ + 1]
      /\ history' = [history EXCEPT !.early = IF sale.tse = None THEN @ \cup {id} ELSE @]
      /\ UNCHANGED <<tse, tss, ledger, registered, clock, orders, payments, closings, archives>>

StoreRefund(w) ==
  /\ At(w, "refund")
  /\ payments' = [payments EXCEPT ![Now(w).payment].status = "refunded"]
  /\ Done(w)
  /\ UNCHANGED <<tse, tss, ledger, registered, clock, orders, closings, archives, next, history>>

(* recordTransaction: a failure of any step is caught and ends as a failed mark.  *)
Signing(w, stage) == At(w, "sign") /\ Now(w).stage = stage
GoOn(w, stage) == Then(w, <<[Now(w) EXCEPT !.stage = stage]>>)
GiveUp(w) == Then(w, <<[Now(w) EXCEPT !.stage = "keep", !.row.tse = Failed]>>)

(* Without a TSE there is nothing to sign.  The till's client id is saved on the
   device, then registered.  *)
NothingToSign(w) ==
  /\ Signing(w, "client") /\ tse = None
  /\ GoOn(w, "keep")
  /\ history' = [history EXCEPT !.excused = @ \cup {Now(w).payment}]
  /\ UNCHANGED rows

(* The settings and the client are looked up outside of what is caught: a database
   error leaves a sale without a mark and a refund without its reversal.  *)
LookupFails(w) ==
  /\ Signing(w, "client")
  /\ (IF Now(w).must THEN Fail(w) ELSE Done(w))
  /\ history' = [history EXCEPT !.excused = @ \cup {Now(w).payment}]
  /\ UNCHANGED rows

EnsureClient(w) ==
  /\ Signing(w, "client") /\ tse # None
  /\ registered' = TRUE
  /\ \/ GiveUp(w)
     \/ Then(w, <<[Now(w) EXCEPT !.stage = IF tse = Local THEN "job" ELSE "start", !.at = tse]>>)
  /\ UNCHANGED <<tse, tss, ledger, clock, orders, payments, closings, archives, next, history>>

Entry(row, state) == [amount |-> row.amount, splits |-> row.splits, state |-> state]

(* A request of the signing: it may not reach the TSE, and its answer may not come
   back.  *)
Answered(w, number, stage) ==
  \/ GiveUp(w)
  \/ Then(w, <<[Now(w) EXCEPT !.stage = stage, !.number = number,
                              !.row.tse = IF stage = "keep" THEN number ELSE None]>>)

StartTransaction(w) ==
  /\ Signing(w, "start")
  /\ \/ GiveUp(w) /\ UNCHANGED ledger
     \/ /\ tss[Now(w).at] = Len(Setup)
        /\ ledger' = Append(ledger, Entry(Now(w).row, "active"))
        /\ Answered(w, Len(ledger) + 1, "finish")
  /\ UNCHANGED <<tse, tss, registered, clock, orders, payments, closings, archives, next, history>>

(* Mutant: the newest transaction is finished.  *)
FinishNewest(w) ==
  /\ Signing(w, "finish")
  /\ \/ GiveUp(w) /\ UNCHANGED ledger
     \/ /\ ledger' = [ledger EXCEPT ![Len(ledger)].state = "finished"]
        /\ Answered(w, Len(ledger), "keep")
  /\ UNCHANGED <<tse, tss, registered, clock, orders, payments, closings, archives, next, history>>

(* The serial number is asked for after the signature: without it the signature
   that was made is not kept.  *)
FinishTransaction(w) ==
  /\ Signing(w, "finish")
  /\ \/ GiveUp(w) /\ UNCHANGED ledger
     \/ /\ ledger' = [ledger EXCEPT ![Now(w).number].state = "finished"]
        /\ Answered(w, Now(w).number, "keep")
  /\ UNCHANGED <<tse, tss, registered, clock, orders, payments, closings, archives, next, history>>

(* The agent of a local TSE does it all in one job.  *)
SignLocally(w) ==
  /\ Signing(w, "job")
  /\ \/ GiveUp(w) /\ UNCHANGED ledger
     \/ /\ ledger' = Append(ledger, Entry(Now(w).row, "finished"))
        /\ Answered(w, Len(ledger) + 1, "keep")
  /\ UNCHANGED <<tse, tss, registered, clock, orders, payments, closings, archives, next, history>>

(* Mutant: a failed signature leaves the payment as it was.  *)
KeepSigned(w) ==
  LET id == Now(w).payment
      row == Now(w).row
  IN  /\ Signing(w, "keep")
      /\ payments' = IF row.tse \in {None, Failed} /\ row.reverses = None THEN payments ELSE With(payments, id, row)
      /\ Done(w)
      /\ UNCHANGED <<tse, tss, ledger, registered, clock, orders, closings, archives, next, history>>

(* A sale is saved again when there is something to add; a reversal is inserted,
   unless an administrator's could not be signed.  A sale refunded meanwhile is
   captured again.  *)
Keep(w) ==
  LET id == Now(w).payment
      row == Now(w).row
  IN  /\ Signing(w, "keep")
      /\ IF Now(w).must /\ row.tse = Failed THEN Fail(w) /\ UNCHANGED payments
         ELSE /\ payments' = IF row.tse = None /\ row.reverses = None THEN payments
                             ELSE With(payments, id, IF row.reverses = None THEN row ELSE [row EXCEPT !.created = clock])
              /\ Done(w)
      /\ UNCHANGED <<tse, tss, ledger, registered, clock, orders, closings, archives, next, history>>

----------------------------------------------------------------------------
(* Closings.  *)

(* Mutant: the period starts with the first closing.  *)
FirstEnd(unknown) == IF closings = <<>> THEN unknown ELSE Head(closings).start

LastEnd(unknown) == IF closings = <<>> THEN unknown ELSE Last(closings).end
Within(time, start, end) == start <= time /\ time <= end

(* Captured payments of orders made in the period, and reversals made in it.  *)
Qualifying(e, start, end) ==
  {p \in DOMAIN payments :
     LET o == orders[payments[p].order]
     IN  /\ o.event = e
         /\ IF payments[p].reverses = None
            THEN payments[p].status = "captured" /\ Within(o.created, start, end)
            ELSE Within(payments[p].created, start, end)}

GenerateExport(w, e) ==
  /\ Start(w, <<[do |-> "export", event |-> e, archive |-> FALSE]>>)
  /\ UNCHANGED <<rows, history>>

(* handleArchival, for a till that is due: one export per event that has orders
   since the last closing, in any order.  The job does not overtake itself.  *)
HandleArchival(w) ==
  LET since == LastEnd(-1)
      due == {orders[o].event : o \in {n \in DOMAIN orders : orders[n].created > since}}
  IN  /\ registered /\ due # {}
      /\ archives # <<>> => Last(archives).created <= clock - ArchiveAge
      /\ \A v \in Busy : ~\E i \in DOMAIN task[v] : task[v][i].do \in {"export", "close"} /\ task[v][i].archive
      /\ \E e \in [1..Cardinality(due) -> due] :
           /\ IsInjective(e)
           /\ Start(w, [i \in DOMAIN e |-> [do |-> "export", event |-> e[i], archive |-> TRUE]])
      /\ UNCHANGED <<rows, history>>

(* The period and its rows are read; an empty period ends an export and is passed
   over by the archival.  *)
ReadPeriod(w) ==
  LET e == Now(w).event
      start == LastEnd(0)
      content == Qualifying(e, start, clock)
  IN  /\ At(w, "export")
      /\ IF content = {} THEN (IF Now(w).archive THEN Done(w) ELSE Fail(w))
         ELSE Then(w, <<[do |-> "close", event |-> e, start |-> start, end |-> clock, content |-> content,
                         seen |-> Len(closings), archive |-> Now(w).archive]>>)
      /\ UNCHANGED <<rows, history>>

SalesIn(content) == {p \in content : payments[p].reverses = None}

(* The lines of an order, one per item, those of cancelled items like the others, and
   one per deposit, at the standard rate.  *)
ItemLines(o, r) == IF r \in DOMAIN orders[o].basket THEN orders[o].basket[r] ELSE 0
DepositLines(o) == SplitSum([r \in DOMAIN orders[o].basket |-> orders[o].deposit[r]])
Lines(o) == SplitSum(orders[o].basket) + DepositLines(o)

(* Mutant: the reversals do not lower the turnover.  *)
SalesOnly(content) ==
  LET sold == {payments[p].order : p \in SalesIn(content)}
  IN  [r \in Rates |-> SplitSum([o \in sold |-> ItemLines(o, r)])
                       + (IF r = 19 THEN SplitSum([o \in sold |-> DepositLines(o)]) ELSE 0)]

(* businesscases.csv: the lines of the orders, and every reversal in one sum at the
   standard rate.  *)
BusinessCases(content) ==
  LET sold == {payments[p].order : p \in SalesIn(content)}
      items(r) == SplitSum([o \in sold |-> ItemLines(o, r)])
      standard == SplitSum([o \in sold |-> DepositLines(o)])
                  + SplitSum([p \in content \ SalesIn(content) |-> payments[p].amount])
  IN  [r \in Rates |-> items(r) + (IF r = 19 THEN standard ELSE 0)]

(* payment.csv *)
PaymentTotal(content) == SplitSum([p \in content |-> payments[p].amount])

(* allocateClosing: the next number of the till, in one statement; the tables
   follow from what was read before.  *)
AllocateClosing(w) ==
  LET content == Now(w).content
      row == [event |-> Now(w).event, start |-> Now(w).start, end |-> Now(w).end, content |-> content,
              turnover |-> BusinessCases(content), paid |-> PaymentTotal(content)]
  IN  /\ At(w, "close") /\ Len(closings) < MaxClosings
      /\ closings' = Append(closings, row)
      /\ history' = [history EXCEPT !.raced = @ \/ Len(closings) # Now(w).seen]
      /\ IF Now(w).archive THEN Then(w, <<[do |-> "archive", content |-> Now(w).content]>>) ELSE Done(w)
      /\ UNCHANGED <<tse, tss, ledger, registered, clock, orders, payments, archives, next>>

(* persistArchive takes the newest closing of the till for the one it made.  *)
PersistArchive(w) ==
  /\ At(w, "archive")
  /\ archives' = Append(archives, [closing |-> Len(closings), content |-> Now(w).content, created |-> clock])
  /\ Done(w)
  /\ UNCHANGED <<tse, tss, ledger, registered, clock, orders, payments, closings, next, history>>

----------------------------------------------------------------------------
Tick ==
  /\ clock < MaxTime /\ clock' = clock + 1
  /\ UNCHANGED <<requests, tse, tss, ledger, registered, orders, payments, closings, archives, next, history>>

(* A restart loses what was being signed; a reversal is not even inserted.  *)
Restart ==
  /\ Crash
  /\ history' = [history EXCEPT !.excused = @ \cup {Last(task[w]).payment : w \in {v \in Busy : Last(task[v]).do = "sign"}}
                                             \cup {Now(w).payment : w \in {v \in Busy : Now(v).do = "sign"}}]
  /\ UNCHANGED rows

Next ==
  \/ \E w \in Workers :
       \/ ProvisionTss(w) \/ SetUpTss(w) \/ SaveSettings(w)
       \/ \E o \in DOMAIN orders : PayPart(w, o) \/ PayItems(w, o)
       \/ \E p \in DOMAIN payments, forced \in BOOLEAN : Refund(w, p, forced)
       \/ \E o \in DOMAIN orders : EditOrder(w, o)
       \/ StoreRefund(w) \/ NothingToSign(w) \/ LookupFails(w) \/ EnsureClient(w)
       \/ StartTransaction(w) \/ FinishTransaction(w) \/ SignLocally(w) \/ Keep(w)
       \/ \E e \in Events : GenerateExport(w, e)
       \/ HandleArchival(w) \/ ReadPeriod(w) \/ AllocateClosing(w) \/ PersistArchive(w)
  \/ \E e \in Events, basket \in Baskets, deposit \in Deposits, extra \in Extras :
       PlaceOrder(e, basket, deposit, extra)
  \/ Tick \/ Restart

Spec == Init /\ [][Next]_vars

----------------------------------------------------------------------------
InSigning(p) == \E w \in Workers : \E i \in DOMAIN task[w] : task[w][i].do = "sign" /\ task[w][i].payment = p

(* A payment of a till with a TSE is signed or says that it could not be: no
   interleaving of sales, refunds and set-up leaves an unmarked gap, except for what
   was being signed when the process stopped and where the database failed before the
   till's client was known.  The signature a payment carries is a
   finished transaction over its amount and its taxes, and no other payment's
   (signPaymentWithTse, tseData).  *)
SignedOrMarked ==
  \A p \in DOMAIN payments :
    LET n == payments[p].tse
    IN  /\ n = None => p \in history.excused \/ InSigning(p)
        /\ n \in Nat => /\ ledger[n] = Entry(payments[p], "finished")
                        /\ \A q \in DOMAIN payments \ {p} : payments[q].tse # n

(* Whatever is signed has taxes that add up to its amount, to the cent, and the
   reversal of a signed sale undoes exactly them, also that of a split payment
   (allocateToAmount, negateSplits).  *)
SplitsFoot ==
  /\ \A n \in DOMAIN ledger : SplitSum(ledger[n].splits) = ledger[n].amount
  /\ \A p \in DOMAIN payments :
       payments[p].reverses # None /\ p \notin history.early =>
         payments[p].splits = Negated(payments[payments[p].reverses].splits)

(* As long as no two exports of the till overlapped, a row is closed once; what is
   as old as a closing to the tick may be in the next one too.  *)
ClosedOnce ==
  \A y, z \in DOMAIN closings : \A p \in closings[y].content \cap closings[z].content :
    y < z /\ ~history.raced => closings[z].start \in {payments[p].created, orders[payments[p].order].created}

(* The turnover of a closing is what was paid in it, reversals on both sides, and
   what the lines of its orders come to over their payments, whatever was edited,
   refunded or paid since.  So it is what was paid where the orders were paid what
   their lines come to; discounts and tips have no line, and cancelled items have
   one (buildBusinessCaseRows, buildPaymentRows).  *)
ClosingFoots ==
  \A z \in DOMAIN closings :
    LET sales == SalesIn(closings[z].content)
        sold == {payments[p].order : p \in sales}
        paid(o) == SplitSum([p \in {q \in sales : payments[q].order = o} |-> payments[p].amount])
    IN  SplitSum(closings[z].turnover) = closings[z].paid + SplitSum([o \in sold |-> Lines(o) - paid(o)])

(* A closing of orders that were paid in full, none with a tip or a cancelled item,
   has the turnover that was paid: the comment on classifyDiscount says that a
   discount is booked as a line of its own.  *)
DiscountsAreBooked ==
  [][\A z \in DOMAIN closings' \ DOMAIN closings :
       (\A p \in SalesIn(closings'[z].content) :
          LET o == payments[p].order
          IN  Open(o) = 0 /\ orders[o].cancelled = {} /\ orders[o].extra.tip = 0)
       => SplitSum(closings'[z].turnover) = closings'[z].paid]_vars

(* An export made now covers everything since the till's last closing, as the
   comment on DsfinvkExportService says.  *)
EverythingIsClosed ==
  \A p \in DOMAIN payments :
    payments[p].status = "captured" /\ payments[p].created > LastEnd(-1) =>
      p \in Qualifying(orders[payments[p].order].event, LastEnd(0), clock)
=============================================================================
