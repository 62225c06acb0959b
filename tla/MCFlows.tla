------------------------------ MODULE MCFlows ------------------------------
(* Small instances of Flows for TLC. *)
EXTENDS Flows

\* Two numbers of one app, and the first one under another app.
ThreeAccounts == {"a1", "a2", "a3"}
TwoNumbers == [a \in ThreeAccounts |-> IF a = "a2" THEN "n2" ELSE "n1"]
TwoApps == [a \in ThreeAccounts |-> IF a = "a3" THEN "p2" ELSE "p1"]
=============================================================================
