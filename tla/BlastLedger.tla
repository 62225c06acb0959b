---------------------------- MODULE BlastLedger ----------------------------
(***************************************************************************)
(* What a blast promises about each (job, recipient) pair, with no worker, *)
(* no batches and no handlers: a pair is queued once, is handed to         *)
(* WhatsApp while it is queued, and ends `delivered` or, after exactly Cap *)
(* recorded failures, `dead`.  Only a requeue brings a dead pair back, and *)
(* nothing brings a delivered one back.  Handing over and recording are    *)
(* two steps, so a pair can be handed over again if the record was lost:   *)
(* the promise is at least once, never twice after it is recorded.         *)
(***************************************************************************)
EXTENDS Integers

CONSTANTS Jobs, Recipients, Cap

VARIABLES
  state,     \* state[j][r]: what the ledger says of the pair
  failures,  \* failures[j][r]: failed attempts recorded since it was queued
  handed     \* handed[j][r]: copies WhatsApp accepted

ledger == <<state, failures, handed>>

PairState == {"absent", "queued", "delivered", "dead", "skipped"}

LedgerTypeOK ==
  /\ state \in [Jobs -> [Recipients -> PairState]]
  /\ failures \in [Jobs -> [Recipients -> 0..Cap]]
  /\ handed \in [Jobs -> [Recipients -> Nat]]

LedgerInit ==
  /\ state = [j \in Jobs |-> [r \in Recipients |-> "absent"]]
  /\ failures = [j \in Jobs |-> [r \in Recipients |-> 0]]
  /\ handed = [j \in Jobs |-> [r \in Recipients |-> 0]]

\* The pair enters the ledger, to be sent or as a known duplicate.
Enter(j, r) ==
  /\ state[j][r] = "absent"
  /\ \E s \in {"queued", "skipped"} : state' = [state EXCEPT ![j][r] = s]
  /\ UNCHANGED <<failures, handed>>

HandOver(j, r) ==
  /\ state[j][r] = "queued"
  /\ handed' = [handed EXCEPT ![j][r] = @ + 1]
  /\ UNCHANGED <<state, failures>>

RecordDelivery(j, r) ==
  /\ state[j][r] = "queued"
  /\ handed[j][r] > 0
  /\ state' = [state EXCEPT ![j][r] = "delivered"]
  /\ UNCHANGED <<failures, handed>>

RecordFailure(j, r) ==
  /\ state[j][r] = "queued"
  /\ failures' = [failures EXCEPT ![j][r] = @ + 1]
  /\ state' = [state EXCEPT ![j][r] = IF failures[j][r] + 1 = Cap THEN "dead" ELSE "queued"]
  /\ UNCHANGED handed

\* The dead pairs of one job are queued again, with a clean record.
Requeue(j) ==
  LET dead == {r \in Recipients : state[j][r] = "dead"} IN
  /\ dead # {}
  /\ state' = [state EXCEPT ![j] = [r \in Recipients |-> IF r \in dead THEN "queued" ELSE @[r]]]
  /\ failures' = [failures EXCEPT ![j] = [r \in Recipients |-> IF r \in dead THEN 0 ELSE @[r]]]
  /\ UNCHANGED handed

LedgerNext ==
  \E j \in Jobs :
    \/ Requeue(j)
    \/ \E r \in Recipients :
         Enter(j, r) \/ HandOver(j, r) \/ RecordDelivery(j, r) \/ RecordFailure(j, r)

LedgerSpec == LedgerInit /\ [][LedgerNext]_ledger
=============================================================================
