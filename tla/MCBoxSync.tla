------------------------------ MODULE MCBoxSync ------------------------------
(* An order and a print job on the box.  *)
EXTENDS BoxSync

CONSTANTS order, job

MCRows == {order, job}
=============================================================================
