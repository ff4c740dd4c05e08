--------------------------- MODULE MCEventBilling ---------------------------
(* Two events of one organization.  *)
EXTENDS EventBilling

CONSTANTS fair, party

MCEvents == {fair, party}
=============================================================================
