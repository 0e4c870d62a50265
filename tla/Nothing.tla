------------------------------ MODULE Nothing -------------------------------
(* What is not there: no reservation, no content, no failure.  Parts that are   *)
(* checked or composed together share the value.                                *)
CONSTANT None
=============================================================================
