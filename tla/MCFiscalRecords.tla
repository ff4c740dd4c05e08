--------------------------- MODULE MCFiscalRecords ---------------------------
EXTENDS FiscalRecords

(* One item at 7 % and one at 19 %: half of one of them has to be rounded.  *)
MCBaskets == {[r \in {7, 19} |-> 1]}

(* A deposit on one of them.  *)
MCDeposits == {[r \in {0, 7, 19} |-> IF r = 7 THEN 1 ELSE 0]}

MCExtras == {[discount |-> 0, tip |-> 0], [discount |-> 1, tip |-> 0]}

WorkerSymmetry == Permutations(Workers)
=============================================================================
