----------------------------- MODULE Scheduler -----------------------------
(***************************************************************************)
(* Scheduled sends: rows of scheduled_messages, the poll loop that claims  *)
(* and dispatches due rows, and the endpoint that cancels a pending one.   *)
(*                                                                         *)
(* Every action is one SQL statement or one call to WhatsApp.  The process *)
(* runs one loop; the comments speak of a second poller on the same        *)
(* database, so the loops are a constant set.  The clock counts seconds    *)
(* and never goes back.                                                    *)
(*                                                                         *)
(* Left out: the immediate path of the send endpoints (send_at absent or   *)
(* within the grace), bodies and endpoint names, listing.                  *)
(***************************************************************************)
EXTENDS Integers, FiniteSets

CONSTANTS
  Messages,   \* ids of rows that can be parked
  NoMessage,  \* a loop or a client holds no row
  Pollers,    \* dispatch loops on the database
  Clients,    \* concurrent cancel requests
  Limit,      \* DUE_BATCH_LIMIT
  Grace,      \* SCHEDULE_GRACE, in seconds
  MaxClock,   \* bound: the last second
  MaxFaults,  \* bound: crashes, failed statements, lost answers
  MaxCancels  \* bound: cancel requests

ASSUME SchedulerAssumption ==
  /\ NoMessage \notin Messages
  /\ Limit \in Nat \ {0}
  /\ Grace \in Nat
  /\ MaxClock \in Nat
  /\ MaxFaults \in Nat
  /\ MaxCancels \in Nat

Status == {"pending", "sending", "sent", "failed", "cancelled"}
Absent == "absent"
Settled == {"sent", "failed", "cancelled"}
Events == {"scheduled_sent", "scheduled_failed"}

VARIABLES
  clock,
  status, sendAt,        \* scheduled_messages
  ppc, batch, current,   \* each loop: program counter and locals of process_due
  cancelling,            \* each client: the row its cancel has read as pending
  accepted, refused,     \* observations: copies WhatsApp took, cancels answered 200
  events, stranded,      \* events broadcast, rows whose settlement was lost
  faults, cancels

rowVars == <<status, sendAt>>
loopVars == <<ppc, batch, current>>
seenVars == <<accepted, refused, events, stranded>>
vars == <<clock, rowVars, loopVars, cancelling, seenVars, faults, cancels>>

PollerPC == {"idle", "claim", "dispatch", "mark_sent", "mark_failed",
             "announce_sent", "announce_failed"}

TypeOK ==
  /\ clock \in 0..MaxClock
  /\ status \in [Messages -> Status \cup {Absent}]
  /\ sendAt \in [Messages -> 0..MaxClock]
  /\ ppc \in [Pollers -> PollerPC]
  /\ batch \in [Pollers -> SUBSET Messages]
  /\ current \in [Pollers -> Messages \cup {NoMessage}]
  /\ cancelling \in [Clients -> Messages \cup {NoMessage}]
  /\ accepted \in [Messages -> Nat]
  /\ refused \in SUBSET Messages
  /\ events \in [Messages -> [Events -> Nat]]
  /\ stranded \in SUBSET Messages
  /\ faults \in 0..MaxFaults
  /\ cancels \in 0..MaxCancels

Init ==
  /\ clock = 0
  /\ status = [m \in Messages |-> Absent]
  /\ sendAt = [m \in Messages |-> 0]
  /\ ppc = [p \in Pollers |-> "idle"]
  /\ batch = [p \in Pollers |-> {}]
  /\ current = [p \in Pollers |-> NoMessage]
  /\ cancelling = [c \in Clients |-> NoMessage]
  /\ accepted = [m \in Messages |-> 0]
  /\ refused = {}
  /\ events = [m \in Messages |-> [e \in Events |-> 0]]
  /\ stranded = {}
  /\ faults = 0
  /\ cancels = 0

SetStatus(m, st) == status' = [status EXCEPT ![m] = st]

-----------------------------------------------------------------------------
(* The endpoints.                                                          *)

\* should_schedule: further in the future than the grace.
ShouldSchedule(t) == t > clock + Grace

\* maybe_schedule: insert a pending row.
Park(m, t) ==
  /\ status[m] = Absent
  /\ ShouldSchedule(t)
  /\ SetStatus(m, "pending")
  /\ sendAt' = [sendAt EXCEPT ![m] = t]
  /\ UNCHANGED <<clock, loopVars, cancelling, seenVars, faults, cancels>>

\* cancel_scheduled: the row is read and is pending; other rows answer 400.
CancelRead(c, m) ==
  /\ cancelling[c] = NoMessage
  /\ cancels < MaxCancels
  /\ status[m] = "pending"
  /\ cancelling' = [cancelling EXCEPT ![c] = m]
  /\ cancels' = cancels + 1
  /\ UNCHANGED <<clock, rowVars, loopVars, seenVars, faults>>

\* cancel_pending: UPDATE .. WHERE status = 'pending'
Cancellable(m) == status[m] = "pending"

\* A row claimed meanwhile answers 400.
CancelWrite(c) ==
  LET m == cancelling[c] IN
  /\ m # NoMessage
  /\ IF Cancellable(m)
     THEN SetStatus(m, "cancelled") /\ refused' = refused \cup {m}
     ELSE UNCHANGED <<status, refused>>
  /\ cancelling' = [cancelling EXCEPT ![c] = NoMessage]
  /\ UNCHANGED <<clock, sendAt, loopVars, accepted, events, stranded, faults, cancels>>

\* The client of a cancel hangs up, or its UPDATE fails.
CancelDropped(c) ==
  /\ cancelling[c] # NoMessage
  /\ faults < MaxFaults
  /\ faults' = faults + 1
  /\ cancelling' = [cancelling EXCEPT ![c] = NoMessage]
  /\ UNCHANGED <<clock, rowVars, loopVars, seenVars, cancels>>

-----------------------------------------------------------------------------
(* process_due.                                                            *)

\* ORDER BY send_at ASC
Before(m, k) == sendAt[m] < sendAt[k]

Due(m) == status[m] = "pending" /\ sendAt[m] <= clock

\* due_pending: the Limit oldest due rows; rows of one second come in any order.
Oldest(S, B) ==
  /\ B \subseteq S
  /\ \A m \in B, k \in S \ B : ~Before(k, m)
  /\ Cardinality(B) <= Limit
  /\ B # S => Cardinality(B) = Limit

Poll(p) ==
  LET due == {m \in Messages : Due(m)} IN
  /\ ppc[p] = "idle"
  /\ due # {}
  /\ \E B \in SUBSET due : Oldest(due, B) /\ batch' = [batch EXCEPT ![p] = B]
  /\ ppc' = [ppc EXCEPT ![p] = "claim"]
  /\ UNCHANGED <<clock, rowVars, current, cancelling, seenVars, faults, cancels>>

\* Mutant: a tick does not end when its batch is used up.
NextPC_Stays(B) == "claim"

\* The next row of the batch, or the end of the tick.
NextPC(B) == IF B = {} THEN "idle" ELSE "claim"

\* Mutant: the claim does not look at the row again.
Claimable_Any(m) == TRUE

\* claim: UPDATE .. WHERE status = 'pending'
Claimable(m) == status[m] = "pending"

\* A row another loop claimed, or a client cancelled, is skipped.
Claim(p) ==
  /\ ppc[p] = "claim"
  /\ \E m \in batch[p] :
       /\ \A k \in batch[p] : ~Before(k, m)
       /\ batch' = [batch EXCEPT ![p] = @ \ {m}]
       /\ IF Claimable(m)
          THEN /\ SetStatus(m, "sending")
               /\ current' = [current EXCEPT ![p] = m]
               /\ ppc' = [ppc EXCEPT ![p] = "dispatch"]
          ELSE /\ UNCHANGED <<status, current>>
               /\ ppc' = [ppc EXCEPT ![p] = NextPC(batch[p] \ {m})]
  /\ UNCHANGED <<clock, sendAt, cancelling, seenVars, faults, cancels>>

\* The claim's statement fails: `?` ends the tick, the rest of the batch waits.
ClaimFails(p) ==
  /\ ppc[p] = "claim"
  /\ faults < MaxFaults
  /\ faults' = faults + 1
  /\ ppc' = [ppc EXCEPT ![p] = "idle"]
  /\ batch' = [batch EXCEPT ![p] = {}]
  /\ UNCHANGED <<clock, rowVars, current, cancelling, seenVars, cancels>>

\* dispatch: accepted and reported, refused, or accepted with the answer lost.
Dispatch(p) ==
  \E taken, reported \in BOOLEAN :
    /\ ppc[p] = "dispatch"
    /\ reported => taken
    /\ taken /\ ~reported => faults < MaxFaults
    /\ faults' = IF taken /\ ~reported THEN faults + 1 ELSE faults
    /\ accepted' = IF taken THEN [accepted EXCEPT ![current[p]] = @ + 1] ELSE accepted
    /\ ppc' = [ppc EXCEPT ![p] = IF reported THEN "mark_sent" ELSE "mark_failed"]
    /\ UNCHANGED <<clock, rowVars, batch, current, cancelling, refused, events,
                   stranded, cancels>>

\* Mutant: mark_sent and mark_failed are swapped.
Mark_Swapped(m, st) == SetStatus(m, IF st = "sent" THEN "failed" ELSE "sent")

\* mark_sent and mark_failed: by id, whatever the row's status is.
Mark(m, st) == SetStatus(m, st)

MarkSent(p) ==
  /\ ppc[p] = "mark_sent"
  /\ Mark(current[p], "sent")
  /\ ppc' = [ppc EXCEPT ![p] = "announce_sent"]
  /\ UNCHANGED <<clock, sendAt, batch, current, cancelling, seenVars, faults, cancels>>

MarkFailed(p) ==
  /\ ppc[p] = "mark_failed"
  /\ Mark(current[p], "failed")
  /\ ppc' = [ppc EXCEPT ![p] = "announce_failed"]
  /\ UNCHANGED <<clock, sendAt, batch, current, cancelling, seenVars, faults, cancels>>

\* A mark's statement fails: logged, and the event goes out all the same.
MarkLost(p) ==
  /\ ppc[p] \in {"mark_sent", "mark_failed"}
  /\ faults < MaxFaults
  /\ faults' = faults + 1
  /\ stranded' = stranded \cup {current[p]}
  /\ ppc' = [ppc EXCEPT ![p] = IF ppc[p] = "mark_sent" THEN "announce_sent"
                               ELSE "announce_failed"]
  /\ UNCHANGED <<clock, rowVars, batch, current, cancelling, accepted, refused,
                 events, cancels>>

\* broadcast_to_webhooks, then the next row.
Announce(p) ==
  /\ ppc[p] \in {"announce_sent", "announce_failed"}
  /\ LET e == IF ppc[p] = "announce_sent" THEN "scheduled_sent" ELSE "scheduled_failed"
     IN events' = [events EXCEPT ![current[p]][e] = @ + 1]
  /\ current' = [current EXCEPT ![p] = NoMessage]
  /\ ppc' = [ppc EXCEPT ![p] = NextPC(batch[p])]
  /\ UNCHANGED <<clock, rowVars, batch, cancelling, accepted, refused, stranded,
                 faults, cancels>>

\* The process of a loop dies and comes back: its batch is gone and the row it
\* held stays as it is, for nothing ever takes a row out of `sending` but its
\* own settlement.
Crash(p) ==
  /\ ppc[p] # "idle"
  /\ faults < MaxFaults
  /\ faults' = faults + 1
  /\ stranded' = IF current[p] = NoMessage THEN stranded
                 ELSE stranded \cup {current[p]}
  /\ ppc' = [ppc EXCEPT ![p] = "idle"]
  /\ batch' = [batch EXCEPT ![p] = {}]
  /\ current' = [current EXCEPT ![p] = NoMessage]
  /\ UNCHANGED <<clock, rowVars, cancelling, accepted, refused, events, cancels>>

Second ==
  /\ clock < MaxClock
  /\ clock' = clock + 1
  /\ UNCHANGED <<rowVars, loopVars, cancelling, seenVars, faults, cancels>>

-----------------------------------------------------------------------------
Loop(p) ==
  Poll(p) \/ Claim(p) \/ Dispatch(p) \/ MarkSent(p) \/ MarkFailed(p) \/ Announce(p)

Failure ==
  \/ \E p \in Pollers : ClaimFails(p) \/ MarkLost(p) \/ Crash(p)
  \/ \E c \in Clients : CancelDropped(c)

Next ==
  \/ \E m \in Messages, t \in 0..MaxClock : Park(m, t)
  \/ \E c \in Clients, m \in Messages : CancelRead(c, m)
  \/ \E c \in Clients : CancelWrite(c)
  \/ \E p \in Pollers : Loop(p)
  \/ Failure
  \/ Second

Spec == Init /\ [][Next]_vars

\* Each loop is spawned for the life of its process and woken by an interval;
\* time passes.
Fairness ==
  /\ \A p \in Pollers : WF_vars(Loop(p))
  /\ WF_vars(Second)

FairSpec == Spec /\ Fairness

-----------------------------------------------------------------------------
(* Properties.                                                             *)

\* At most once: no scheduled message reaches WhatsApp twice, with any number
\* of loops, crashes, failed statements and lost answers.
AtMostOnce == \A m \in Messages : accepted[m] <= 1

\* A message whose cancel was answered 200 is never sent, even if a loop already
\* holds it in its batch.
CancelHonoured ==
  \A m \in refused : accepted[m] = 0 /\ status[m] = "cancelled"

\* `sent` rows were accepted, and a row nobody claimed was not.
RowsTellTheTruth ==
  \A m \in Messages :
    /\ status[m] = "sent" => accepted[m] = 1
    /\ status[m] \in {"pending", "cancelled", Absent} => accepted[m] = 0

\* What is told of a message is true: a cancel that was answered 200, and the events that
\* webhooks hear - one at most, of a delivery only if the message was accepted, and
\* never of a settlement other than the row's.
ToldTheTruth ==
  /\ CancelHonoured
  /\ \A m \in Messages :
       /\ events[m]["scheduled_sent"] + events[m]["scheduled_failed"] <= 1
       /\ events[m]["scheduled_sent"] = 1 => accepted[m] = 1 /\ status[m] # "failed"
       /\ events[m]["scheduled_failed"] = 1 => status[m] # "sent"

\* A row leaves `pending` for `sending` oldest first, although loops work
\* through batches read earlier: nothing parked later can be older.
OldestFirst ==
  [][\A m, k \in Messages :
       status[m] = "pending" /\ status'[m] = "sending" /\ status[k] = "pending"
         => sendAt[m] <= sendAt[k]]_vars

\* No message goes out before its send_at.
NeverEarly ==
  [][\A m \in Messages : accepted'[m] # accepted[m] => sendAt[m] <= clock]_vars

\* A settled row never changes again.
SettledIsFinal ==
  [][\A m \in Messages : status[m] \in Settled => status'[m] = status[m]]_vars

\* Every parked message is settled in the end, unless its settlement was lost.
EveryMessageSettles ==
  \A m \in Messages :
    status[m] = "pending" ~> status[m] \in Settled \/ m \in stranded

-----------------------------------------------------------------------------
(* The inductive invariant the safety properties rest on.                  *)

Holding == {"dispatch", "mark_sent", "mark_failed"}
Owning == Holding \cup {"announce_sent", "announce_failed"}

\* A claimed row belongs to one loop, and stays `sending` in its hands.
OwnersAreUnique ==
  /\ \A p \in Pollers : ppc[p] \in Owning =>
       /\ current[p] \in Messages
       /\ status[current[p]] \in {"sending", "sent", "failed"}
       /\ sendAt[current[p]] <= clock
  /\ \A p \in Pollers : ppc[p] \in Holding => status[current[p]] = "sending"
  /\ \A p, q \in Pollers :
       ppc[p] \in Owning /\ ppc[q] \in Owning /\ current[p] = current[q] => p = q

\* Each step of a claimed row's life knows whether WhatsApp has the message.
CopiesFollowTheLoop ==
  /\ \A m \in Messages :
       status[m] \in {"pending", "cancelled", Absent} => accepted[m] = 0
  /\ \A m \in Messages : status[m] = "sent" => accepted[m] = 1
  /\ \A p \in Pollers :
       /\ ppc[p] = "dispatch" => accepted[current[p]] = 0
       /\ ppc[p] = "mark_sent" => accepted[current[p]] = 1

\* What is left of a batch is due and no younger than any pending row outside it.
BatchesAreOldest ==
  \A p \in Pollers : \A m \in batch[p] :
    /\ status[m] # Absent
    /\ sendAt[m] <= clock
    /\ \A k \in Messages \ batch[p] : status[k] = "pending" => ~Before(k, m)

LoopInv ==
  /\ OwnersAreUnique
  /\ CopiesFollowTheLoop
  /\ BatchesAreOldest
  /\ AtMostOnce
  /\ CancelHonoured
=============================================================================
