-------------------------- MODULE MCPrintDelivery ---------------------------
(***************************************************************************)
(* An instance of PrintDelivery for TLC: a kitchen and a bar printer on an *)
(* agent, a printer at the counter that the agent serves without being     *)
(* assigned to it, and two spare printers nobody has set up yet, to which  *)
(* most of the configurations route.                                       *)
(***************************************************************************)
EXTENDS PrintDelivery, TLC

CONSTANTS kitchen, bar, counter, spare1, spare2, food, drinks, agent

MCPrinters == {kitchen, bar, counter, spare1, spare2}
MCStations == {food, drinks}
MCAgents == {agent}
MCAgentOf == [p \in MCPrinters |-> IF p \in {kitchen, bar} THEN agent ELSE None]
MCServes == agent :> {kitchen, bar, counter}
MCManualUse == {counter, spare2}

\* Meals are printed in the kitchen, drinks at the bar.
PerStation ==
  [kitchen |-> TRUE, mode |-> "per_station", kitchenPrinter |-> kitchen,
   orderTicket |-> FALSE, orderPrinter |-> None,
   receipt |-> FALSE, receiptPrinter |-> None,
   defaultPrinter |-> None, fixed |-> FALSE,
   stationPrinter |-> (food :> kitchen) @@ (drinks :> bar),
   active |-> MCPrinters \ {spare2}, lines |-> <<food, drinks, food>>]

Spare == [PerStation EXCEPT !.kitchenPrinter = spare1, !.receipt = TRUE,
            !.stationPrinter = (food :> spare1) @@ (drinks :> spare1),
            !.lines = <<food, food>>]

PerOrder ==
  [Spare EXCEPT !.mode = "per_order", !.orderTicket = TRUE, !.orderPrinter = spare1]

PerLine == [Spare EXCEPT !.mode = "per_item", !.lines = <<food, drinks>>]

\* The bar's printer is switched off.
BarOff == [PerLine EXCEPT !.stationPrinter = (food :> spare1) @@ (drinks :> spare2)]

\* A till with a printer of its own, the organisation's tickets switched off.
FixedTill ==
  [Spare EXCEPT !.kitchen = FALSE, !.fixed = TRUE, !.defaultPrinter = counter,
            !.lines = <<food, drinks, food>>]

\* Nobody prints the meals.
NoMealPrinter ==
  [Spare EXCEPT !.kitchenPrinter = None,
                !.stationPrinter = (food :> None) @@ (drinks :> spare1),
                !.lines = <<food, drinks>>]

MCFlows == {PerStation, Spare, PerOrder, PerLine, BarOff, FixedTill, NoMealPrinter}
=============================================================================
