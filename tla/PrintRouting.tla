---------------------------- MODULE PrintRouting ----------------------------
(***************************************************************************)
(* Which tickets an order prints, and where: PrintRoutingService and       *)
(* OrderPrintService.  A flow is what the organisation, the stations and   *)
(* the till that took the order are configured to do, and the lines of the *)
(* order.  What a ticket says is left out, except which lines it lists.    *)
(***************************************************************************)
EXTENDS Integers, Sequences, FiniteSets

CONSTANTS
  Printers,
  Stations, \* production stations
  MaxLines, \* bound: lines of an order
  None

Modes == {"per_order", "per_item", "per_station"}

LineIds == 1 .. MaxLines

\* lines: the station of every line of the order, or None.  kitchen, orderTicket
\* and receipt are the enabled flags; the first counts as set unless it is false.
Flow ==
  [kitchen : BOOLEAN, mode : Modes, kitchenPrinter : Printers \cup {None},
   orderTicket : BOOLEAN, orderPrinter : Printers \cup {None},
   receipt : BOOLEAN, receiptPrinter : Printers \cup {None},
   defaultPrinter : Printers \cup {None}, fixed : BOOLEAN,
   stationPrinter : [Stations -> Printers \cup {None}],
   active : SUBSET Printers, lines : Seq(Stations \cup {None})]

Lines(flow) == DOMAIN flow.lines

Ticket == [kind : {"kitchen", "order", "receipt", "manual"}, printer : Printers,
           lines : SUBSET LineIds]

OrElse(printer, fallback) == IF printer # None THEN printer ELSE fallback

\* resolveItemPrinter: station (skipped by a till with a fixed printer), till,
\* organisation.
StationPrinter(flow, i) ==
  IF flow.fixed \/ flow.lines[i] = None THEN None
  ELSE flow.stationPrinter[flow.lines[i]]

ItemPrinter(flow, i) ==
  OrElse(StationPrinter(flow, i), OrElse(flow.defaultPrinter, flow.kitchenPrinter))

\* resolveOrderPrinter; order tickets know no till.
KitchenPrinter(flow) == OrElse(flow.defaultPrinter, flow.kitchenPrinter)
ReceiptPrinter(flow) == OrElse(flow.defaultPrinter, flow.receiptPrinter)

\* At most one ticket, none without a printer.
TicketFor(kind, printer, lines) ==
  IF printer = None THEN <<>>
  ELSE <<[kind |-> kind, printer |-> printer, lines |-> lines]>>

-----------------------------------------------------------------------------
(* Kitchen tickets                                                         *)

\* Buckets per printer, whatever the station.
PrinterBucket(flow, i) == <<ItemPrinter(flow, i)>>

\* The bucket of a line: one ticket per printer and station.
Bucket(flow, i) == <<ItemPrinter(flow, i), flow.lines[i]>>

\* The lines i shares a ticket with.
SharesTicket(flow, i) ==
  IF flow.mode = "per_item" THEN {i}
  ELSE {j \in Lines(flow) : Bucket(flow, j) = Bucket(flow, i)}

KitchenTicket(flow, i) ==
  [kind |-> "kitchen", printer |-> ItemPrinter(flow, i), lines |-> SharesTicket(flow, i)]

\* A ticket for every line that shows its whole group.
OpensAlways(flow, i) == ItemPrinter(flow, i) # None

\* Line i reaches a printer, and is the first of those it shares a ticket with.
OpensTicket(flow, i) ==
  ItemPrinter(flow, i) # None /\ \A j \in SharesTicket(flow, i) : i <= j

\* The tickets of the first n lines, one per group, in the order of the lines.
TicketsUpTo(flow) ==
  LET upTo[n \in 0 .. Len(flow.lines)] ==
        IF n = 0 THEN <<>>
        ELSE IF OpensTicket(flow, n) THEN Append(upTo[n - 1], KitchenTicket(flow, n))
        ELSE upTo[n - 1]
  IN upTo

KitchenTickets(flow) ==
  IF flow.mode = "per_order" THEN TicketFor("kitchen", KitchenPrinter(flow), Lines(flow))
  ELSE TicketsUpTo(flow)[Len(flow.lines)]

-----------------------------------------------------------------------------
(* What a handler of OrderPrintService prints                              *)

\* handleOrderCreated: a till with a printer of its own prints its kitchen
\* tickets even if the organisation has switched them off.
CreatedTickets(flow) ==
  (IF flow.kitchen \/ flow.defaultPrinter # None THEN KitchenTickets(flow) ELSE <<>>)
  \o (IF flow.orderTicket THEN TicketFor("order", flow.orderPrinter, {}) ELSE <<>>)

\* handlePaymentReceived
PaidTickets(flow) ==
  IF flow.receipt THEN TicketFor("receipt", ReceiptPrinter(flow), {}) ELSE <<>>
=============================================================================
