------------------------------- MODULE Cloud -------------------------------
(***************************************************************************)
(* What the modules of a Cloud session share: the accounts it is attached  *)
(* to, one after the other (cloud_credentials of its row), and how often   *)
(* something fails.                                                        *)
(***************************************************************************)
EXTENDS Naturals

CONSTANTS
  Accounts,     \* what connect_cloud attaches: a number, its token, its app
  MaxConnects,  \* bound: accounts attached
  MaxFaults     \* bound: failed statements, 5xx, lost or unreadable answers, crashes

VARIABLES connects, faults

None == "none"

\* Bound on what goes wrong.
Fault == faults < MaxFaults /\ faults' = faults + 1
NoFault == UNCHANGED faults
=============================================================================
