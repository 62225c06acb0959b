------------------------------ MODULE MCBlast ------------------------------
(* The instance of Blast for TLC. *)
EXTENDS Blast
=============================================================================
