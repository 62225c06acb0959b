------------------------------ MODULE MCCalls ------------------------------
(* The instance of Calls for TLC. *)
EXTENDS Calls
=============================================================================
