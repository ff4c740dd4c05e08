------------------------------ MODULE VatSplit ------------------------------
(* The tax composition of a payment (src/src/modules/payments/vat-split.ts):
   cents per tax rate, a function whose domain are the rates that occur.  The
   code divides in floating point; amounts here are small enough for its
   remainders to be told apart, so the quotient and the rest are exact.      *)
EXTENDS Integers, FiniteSets, Functions, FiniteSetsExt

SplitSum(splits) == SumFunction(splits)

Abs(n) == IF n < 0 THEN -n ELSE n

Negated(splits) == [r \in DOMAIN splits |-> -splits[r]]

(* Mutant: every share is rounded down and the rest is dropped.  *)
RoundedDown(splits, target) ==
  LET clean == {r \in DOMAIN splits : splits[r] # 0}
      total == SplitSum(splits)
  IN  [r \in clean |-> (IF target < 0 THEN -1 ELSE 1) * ((splits[r] * Abs(target)) \div total)]

(* allocateToAmount: shares of the target in proportion to the splits, rounded
   down; the cents that are left go to the largest remainders, ties to the lowest
   rate.  *)
AllocateToAmount(splits, target) ==
  LET clean == {r \in DOMAIN splits : splits[r] # 0}
      total == SplitSum(splits)
      exact(r) == Abs(splits[r]) * Abs(target)
      floor(r) == exact(r) \div Abs(total)
      rest(r) == exact(r) % Abs(total)
      left == Abs(target) - SplitSum([r \in clean |-> floor(r)])
      before(r) == {q \in clean : rest(q) > rest(r) \/ (rest(q) = rest(r) /\ q < r)}
      share(r) == floor(r) + (IF Cardinality(before(r)) < left THEN 1 ELSE 0)
  IN  IF clean = {} \/ (total = 0 /\ target # 0) THEN [r \in {} |-> 0]
      ELSE IF total = target THEN [r \in clean |-> splits[r]]
      ELSE [r \in clean |-> (IF target < 0 THEN -1 ELSE 1) * share(r)]
=============================================================================
