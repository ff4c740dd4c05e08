--------------------------- MODULE MCOrderLedger ---------------------------
(***************************************************************************)
(* Instances of OrderLedger for TLC: one order, one product whose stock is *)
(* tracked and one that is prepared at a station and carries a deposit.    *)
(***************************************************************************)
EXTENDS OrderLedger, TLC

CONSTANTS beer, meal

MCPrice == [p \in Products |-> 1]
MCDeposit == [p \in Products |-> IF p = meal THEN 1 ELSE 0]
MCStock == [p \in Products |-> 2]

Line(p, q) == [product |-> p, quantity |-> q]

\* The third cart asks for more beer than there is once its first line is taken.
MCCarts == {<<>>, <<Line(beer, 1)>>, <<Line(beer, 1), Line(beer, 2)>>, <<Line(meal, 1)>>}

\* The requests of an instance are interchangeable.
WorkerSymmetry == Permutations(Workers)

SmallCarts == {<<Line(beer, 1)>>, <<Line(beer, 2)>>}
=============================================================================
