------------------------------ MODULE MCSends ------------------------------
(* The instance of Sends for TLC. *)
EXTENDS Sends
=============================================================================
