--------------------------- MODULE MCCloudAccount ---------------------------
(* Small instances of CloudAccount for TLC. *)
EXTENDS CloudAccount

\* Two accounts; the second one was attached without business and app, and its token, of the
\* same business, reaches the first one's number and WABA too.
TwoAccounts == {"a1", "a2"}
TwoIds ==
  [a \in TwoAccounts |->
    IF a = "a1" THEN [number |-> "n1", waba |-> "w1", business |-> "b1", app |-> "p1"]
    ELSE [number |-> "n2", waba |-> "w2", business |-> "none", app |-> "none"]]
TwoTokens ==
  [a \in TwoAccounts |->
    IF a = "a1" THEN {"n1", "w1", "b1", "p1"} ELSE {"n2", "w2", "n1", "w1"}]
=============================================================================
