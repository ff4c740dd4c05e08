-------------------------- MODULE MCTableOrdering --------------------------
(* Workers and products whose names do not matter.                                  *)
EXTENDS TableOrdering

Symmetry == Permutations(Workers) \cup Permutations(Products)
=============================================================================
