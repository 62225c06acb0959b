--------------------------- MODULE SendingProofs ---------------------------
(***************************************************************************)
(* The safety theorems of what sends later, Scheduler, for every number of *)
(* messages, loops, clients and failures; and of what sends, Sends: a      *)
(* request goes out once, a command is acked when it is done, and every    *)
(* copy of one has a failure behind it.                                    *)
(***************************************************************************)
EXTENDS Scheduler, Sends, FiniteSetTheorems, TLAPS

LEMMA InitTypeOK == Init => TypeOK
BY SchedulerAssumption DEF Init, TypeOK, PollerPC, Absent

\* A counter of events keeps its type.
LEMMA EventsTyped ==
  ASSUME events \in [Messages -> [Events -> Nat]], NEW m, NEW e \in Events
  PROVE  [events EXCEPT ![m][e] = @ + 1] \in [Messages -> [Events -> Nat]]
<1>1. CASE m \in Messages
  BY <1>1
<1>2. CASE m \notin Messages
  BY <1>2
<1>3. QED
  BY <1>1, <1>2

LEMMA CopiesTyped ==
  ASSUME accepted \in [Messages -> Nat], NEW m
  PROVE  [accepted EXCEPT ![m] = @ + 1] \in [Messages -> Nat]
<1>1. CASE m \in Messages
  BY <1>1
<1>2. CASE m \notin Messages
  BY <1>2
<1>3. QED
  BY <1>1, <1>2

\* Every step keeps every variable in its type.
LEMMA TypeStep == TypeOK /\ OwnersAreUnique /\ [Next]_vars => TypeOK'
<1> SUFFICES ASSUME TypeOK, OwnersAreUnique, [Next]_vars PROVE TypeOK'
  OBVIOUS
<1> USE SchedulerAssumption DEF TypeOK, rowVars, loopVars, seenVars
<1>1. CASE UNCHANGED vars
  BY <1>1, Zenon DEF vars
<1>2. ASSUME NEW m \in Messages, NEW t \in 0..MaxClock, Park(m, t) PROVE TypeOK'
  BY <1>2 DEF Park, SetStatus, Status
<1>3. ASSUME NEW c \in Clients, NEW m \in Messages, CancelRead(c, m) PROVE TypeOK'
  BY <1>3 DEF CancelRead
<1>4. ASSUME NEW c \in Clients, CancelWrite(c) \/ CancelDropped(c) PROVE TypeOK'
  <2>1. CASE CancelWrite(c) /\ Cancellable(cancelling[c])
    BY <2>1 DEF CancelWrite, SetStatus, Status
  <2>2. CASE CancelWrite(c) /\ ~Cancellable(cancelling[c])
    BY <2>2 DEF CancelWrite
  <2>3. CASE CancelDropped(c)
    BY <2>3 DEF CancelDropped
  <2>4. QED
    BY <1>4, <2>1, <2>2, <2>3
<1>5. ASSUME NEW p \in Pollers, Loop(p) PROVE TypeOK'
  <2>1. CASE Poll(p)
    <3>1. PICK B \in SUBSET Messages : batch' = [batch EXCEPT ![p] = B]
      BY <2>1 DEF Poll
    <3>2. batch' \in [Pollers -> SUBSET Messages]
      BY <3>1
    <3>3. QED
      BY <2>1, <3>2 DEF Poll, PollerPC
  <2>2. CASE Claim(p)
    <3>1. PICK m \in batch[p] :
            /\ batch' = [batch EXCEPT ![p] = @ \ {m}]
            /\ \/ /\ SetStatus(m, "sending")
                  /\ current' = [current EXCEPT ![p] = m]
                  /\ ppc' = [ppc EXCEPT ![p] = "dispatch"]
               \/ /\ UNCHANGED <<status, current>>
                  /\ ppc' = [ppc EXCEPT ![p] = NextPC(batch[p] \ {m})]
      BY <2>2 DEF Claim
    <3>2. batch' \in [Pollers -> SUBSET Messages] /\ m \in Messages
      BY <3>1
    <3>3. status' \in [Messages -> Status \cup {Absent}]
      BY <3>1, <3>2 DEF SetStatus, Status
    <3>4. current' \in [Pollers -> Messages \cup {NoMessage}]
      BY <3>1, <3>2
    <3>5. ppc' \in [Pollers -> PollerPC]
      BY <3>1 DEF NextPC, PollerPC
    <3>6. QED
      BY <2>2, <3>2, <3>3, <3>4, <3>5 DEF Claim
  <2>3. CASE Dispatch(p)
    <3>1. faults' \in 0..MaxFaults
      BY <2>3 DEF Dispatch
    <3>2. accepted' \in [Messages -> Nat]
      BY <2>3, CopiesTyped DEF Dispatch
    <3>3. ppc' \in [Pollers -> PollerPC]
      BY <2>3 DEF Dispatch, PollerPC
    <3>4. QED
      BY <2>3, <3>1, <3>2, <3>3 DEF Dispatch
  <2>4. CASE MarkSent(p) \/ MarkFailed(p)
    BY <2>4 DEF MarkSent, MarkFailed, Mark, SetStatus, Status, PollerPC
  <2>5. CASE Announce(p)
    <3>1. events' \in [Messages -> [Events -> Nat]]
      <4>1. PICK e \in Events : events' = [events EXCEPT ![current[p]][e] = @ + 1]
        BY <2>5 DEF Announce, Events
      <4>2. QED
        BY <4>1, EventsTyped
    <3>2. QED
      BY <2>5, <3>1 DEF Announce, NextPC, PollerPC
  <2>6. QED
    BY <1>5, <2>1, <2>2, <2>3, <2>4, <2>5 DEF Loop
<1>6. ASSUME NEW p \in Pollers, ClaimFails(p) \/ MarkLost(p) \/ Crash(p) PROVE TypeOK'
  <2>1. CASE ClaimFails(p)
    BY <2>1 DEF ClaimFails, PollerPC
  <2>2. CASE MarkLost(p)
    <3>1. stranded' \in SUBSET Messages
      BY <2>2 DEF MarkLost, OwnersAreUnique, Owning, Holding
    <3>2. QED
      BY <2>2, <3>1 DEF MarkLost, PollerPC
  <2>3. CASE Crash(p)
    <3>1. stranded' \in SUBSET Messages
      BY <2>3 DEF Crash
    <3>2. QED
      BY <2>3, <3>1 DEF Crash, PollerPC
  <2>4. QED
    BY <1>6, <2>1, <2>2, <2>3
<1>7. CASE Second
  BY <1>7 DEF Second
<1>8. QED
  BY <1>1, <1>2, <1>3, <1>4, <1>5, <1>6, <1>7 DEF Next, Failure

-----------------------------------------------------------------------------
(* The inductive step.                                                     *)

LEMMA InitLoopInv == Init => LoopInv
BY SchedulerAssumption
   DEF Init, LoopInv, OwnersAreUnique, Owning, Holding, CopiesFollowTheLoop,
       BatchesAreOldest, AtMostOnce, CancelHonoured, Absent

\* Steps that end a loop's claim or move it on touch no row.
LEMMA LoopMovesOn ==
  ASSUME TypeOK, LoopInv,
         NEW p \in Pollers, NEW b, NEW x, NEW st \in PollerPC \ Holding,
         b = batch[p] \/ b = {},
         st \in Owning => ppc[p] \in Owning /\ x = current[p],
         UNCHANGED <<clock, status, sendAt, accepted, refused>>,
         ppc' = [ppc EXCEPT ![p] = st],
         batch' = [batch EXCEPT ![p] = b],
         current' = [current EXCEPT ![p] = x]
  PROVE  LoopInv'
<1> USE DEF LoopInv, OwnersAreUnique, CopiesFollowTheLoop, BatchesAreOldest, AtMostOnce,
            CancelHonoured
<1>1. \A q \in Pollers : /\ ppc'[q] = IF q = p THEN st ELSE ppc[q]
                         /\ batch'[q] = IF q = p THEN b ELSE batch[q]
                         /\ current'[q] = IF q = p THEN x ELSE current[q]
  BY DEF TypeOK
<1>2. OwnersAreUnique' /\ CopiesFollowTheLoop' /\ AtMostOnce' /\ CancelHonoured'
  BY <1>1 DEF Holding, Owning
<1>3. BatchesAreOldest'
  BY <1>1 DEF Before
<1>4. QED
  BY <1>2, <1>3

LEMMA LoopInvStep == TypeOK /\ LoopInv /\ [Next]_vars => LoopInv'
<1> SUFFICES ASSUME TypeOK, LoopInv, [Next]_vars PROVE LoopInv'
  OBVIOUS
<1> USE SchedulerAssumption
    DEF LoopInv, OwnersAreUnique, CopiesFollowTheLoop, BatchesAreOldest, AtMostOnce,
        CancelHonoured, rowVars, loopVars, seenVars
<1>1. CASE UNCHANGED vars
  BY <1>1 DEF vars, Before
\* A row parked now is younger than anything already due.
<1>2. ASSUME NEW x \in Messages, NEW t \in 0..MaxClock, Park(x, t) PROVE LoopInv'
  <2>1. /\ UNCHANGED <<clock, ppc, batch, current, accepted, refused>>
        /\ status[x] = Absent /\ t > clock
        /\ \A m \in Messages : /\ status'[m] = IF m = x THEN "pending" ELSE status[m]
                               /\ sendAt'[m] = IF m = x THEN t ELSE sendAt[m]
    BY <1>2 DEF Park, SetStatus, ShouldSchedule, TypeOK
  <2>2. \A p \in Pollers : ppc[p] \in Owning => current[p] # x
    BY <2>1 DEF Absent
  <2>3. \A p \in Pollers : batch[p] \in SUBSET Messages
    BY DEF TypeOK
  <2>4. OwnersAreUnique'
    BY <2>1, <2>2 DEF Holding, Owning
  <2>5. CopiesFollowTheLoop' /\ AtMostOnce' /\ CancelHonoured'
    BY <2>1 DEF Absent, TypeOK
  <2>6. ASSUME NEW p \in Pollers, NEW m \in batch[p]
        PROVE  /\ status'[m] # Absent /\ sendAt'[m] <= clock
               /\ \A k \in Messages \ batch[p] : status'[k] = "pending" => ~(sendAt'[k] < sendAt'[m])
    <3>1. m \in Messages /\ m # x /\ status[m] # Absent /\ sendAt[m] <= clock
      BY <2>1, <2>3
    <3>2. status'[m] = status[m] /\ sendAt'[m] = sendAt[m]
      BY <2>1, <3>1
    <3>3. ASSUME NEW k \in Messages \ batch[p], status'[k] = "pending"
          PROVE  ~(sendAt'[k] < sendAt'[m])
      <4>1. CASE k = x
        BY <2>1, <3>1, <3>2, <4>1 DEF TypeOK
      <4>2. CASE k # x
        BY <2>1, <3>2, <3>3, <4>2 DEF Before
      <4>3. QED
        BY <4>1, <4>2
    <3>4. QED
      BY <3>1, <3>2, <3>3
  <2>7. BatchesAreOldest'
    BY <2>1, <2>6 DEF Before
  <2>8. QED
    BY <2>4, <2>5, <2>7
<1>3. ASSUME NEW c \in Clients, NEW x \in Messages, CancelRead(c, x) PROVE LoopInv'
  BY <1>3 DEF CancelRead, Before
<1>4. ASSUME NEW c \in Clients, CancelWrite(c) \/ CancelDropped(c) PROVE LoopInv'
  <2>1. CASE CancelWrite(c) /\ Cancellable(cancelling[c])
    <3> DEFINE x == cancelling[c]
    <3>1. /\ UNCHANGED <<clock, ppc, batch, current, accepted, sendAt>>
          /\ x \in Messages /\ status[x] = "pending"
          /\ refused' = refused \cup {x}
          /\ \A m \in Messages : status'[m] = IF m = x THEN "cancelled" ELSE status[m]
      BY <2>1 DEF CancelWrite, Cancellable, SetStatus, TypeOK
    <3>2. OwnersAreUnique'
      BY <3>1 DEF Holding, Owning
    <3>3. CopiesFollowTheLoop' /\ AtMostOnce'
      BY <3>1 DEF Absent
    <3>4. CancelHonoured'
      BY <3>1 DEF TypeOK
    <3>5. BatchesAreOldest'
      BY <3>1 DEF Before, Absent, TypeOK
    <3>6. QED
      BY <3>2, <3>3, <3>4, <3>5
  <2>2. CASE CancelDropped(c) \/ (CancelWrite(c) /\ ~Cancellable(cancelling[c]))
    <3>1. UNCHANGED <<clock, status, sendAt, ppc, batch, current, accepted, refused>>
      BY <2>2 DEF CancelDropped, CancelWrite
    <3>2. QED
      BY <3>1 DEF Before
  <2>3. QED
    BY <1>4, <2>1, <2>2
<1>5. ASSUME NEW p \in Pollers, Poll(p) PROVE LoopInv'
  <2>1. PICK B \in SUBSET {m \in Messages : Due(m)} :
          /\ \A m \in B, k \in {m \in Messages : Due(m)} \ B : ~Before(k, m)
          /\ batch' = [batch EXCEPT ![p] = B]
    BY <1>5 DEF Poll, Oldest
  <2>2. /\ UNCHANGED <<clock, status, sendAt, current, accepted, refused>>
        /\ \A q \in Pollers : batch'[q] = IF q = p THEN B ELSE batch[q]
        /\ \A q \in Pollers : ppc'[q] = IF q = p THEN "claim" ELSE ppc[q]
    BY <1>5, <2>1 DEF Poll, TypeOK
  <2>3. OwnersAreUnique'
    BY <2>2 DEF Holding, Owning
  <2>4. CopiesFollowTheLoop' /\ AtMostOnce' /\ CancelHonoured'
    BY <2>2
  <2>5. ASSUME NEW m \in B
        PROVE  /\ status[m] # Absent /\ sendAt[m] <= clock
               /\ \A k \in Messages \ B : status[k] = "pending" => ~Before(k, m)
    <3>1. m \in Messages /\ status[m] = "pending" /\ sendAt[m] <= clock
      BY <2>5 DEF Due
    <3>2. ASSUME NEW k \in Messages \ B, status[k] = "pending" PROVE ~Before(k, m)
      <4>1. CASE Due(k)
        BY <2>1, <2>5, <3>2, <4>1
      <4>2. CASE ~Due(k)
        BY <3>1, <3>2, <4>2 DEF Due, Before, TypeOK
      <4>3. QED
        BY <4>1, <4>2
    <3>3. QED
      BY <3>1, <3>2 DEF Absent
  <2>6. BatchesAreOldest'
    BY <2>2, <2>5 DEF Before
  <2>7. QED
    BY <2>3, <2>4, <2>6
<1>6. ASSUME NEW p \in Pollers, Claim(p) PROVE LoopInv'
  <2>1. PICK x \in batch[p] :
          /\ \A k \in batch[p] : ~Before(k, x)
          /\ batch' = [batch EXCEPT ![p] = @ \ {x}]
          /\ \/ /\ Claimable(x)
                /\ SetStatus(x, "sending")
                /\ current' = [current EXCEPT ![p] = x]
                /\ ppc' = [ppc EXCEPT ![p] = "dispatch"]
             \/ /\ ~Claimable(x)
                /\ UNCHANGED <<status, current>>
                /\ ppc' = [ppc EXCEPT ![p] = NextPC(batch[p] \ {x})]
    BY <1>6 DEF Claim
  <2>2. /\ UNCHANGED <<clock, sendAt, accepted, refused>>
        /\ x \in Messages /\ ppc[p] = "claim" /\ sendAt[x] <= clock
        /\ \A q \in Pollers : batch'[q] = IF q = p THEN batch[p] \ {x} ELSE batch[q]
    BY <1>6, <2>1 DEF Claim, TypeOK
  <2>3. CASE Claimable(x)
    <3>1. /\ status[x] = "pending"
          /\ \A m \in Messages : status'[m] = IF m = x THEN "sending" ELSE status[m]
          /\ \A q \in Pollers : /\ current'[q] = IF q = p THEN x ELSE current[q]
                                /\ ppc'[q] = IF q = p THEN "dispatch" ELSE ppc[q]
      BY <2>1, <2>2, <2>3 DEF Claimable, SetStatus, TypeOK
    <3>2. \A q \in Pollers : ppc[q] \in Owning => current[q] # x
      BY <3>1
    <3>3. OwnersAreUnique'
      BY <2>2, <3>1, <3>2 DEF Holding, Owning
    <3>4. CopiesFollowTheLoop' /\ AtMostOnce'
      <4>1. accepted[x] = 0
        BY <2>2, <3>1
      <4>2. \A m \in Messages : status'[m] \in {"pending", "cancelled", Absent} \/ status'[m] = "sent"
              => status'[m] = status[m]
        BY <3>1 DEF Absent
      <4>3. ppc'[p] = "dispatch" /\ current'[p] = x
        BY <3>1
      <4>4. ASSUME NEW q \in Pollers, ppc'[q] = "dispatch" PROVE accepted'[current'[q]] = 0
        <5>1. CASE q = p
          BY <2>2, <4>1, <4>3, <5>1
        <5>2. CASE q # p
          BY <2>2, <3>1, <4>4, <5>2
        <5>3. QED
          BY <5>1, <5>2
      <4>5. ASSUME NEW q \in Pollers, ppc'[q] = "mark_sent" PROVE accepted'[current'[q]] = 1
        <5>1. q # p
          BY <4>3, <4>5
        <5>2. QED
          BY <2>2, <3>1, <4>5, <5>1
      <4>6. \A m \in Messages :
              /\ status'[m] \in {"pending", "cancelled", Absent} => accepted'[m] = 0
              /\ status'[m] = "sent" => accepted'[m] = 1
        BY <2>2, <4>2
      <4>7. CopiesFollowTheLoop'
        BY <4>4, <4>5, <4>6, Zenon
      <4>8. AtMostOnce'
        BY <2>2
      <4>9. QED
        BY <4>7, <4>8, Zenon
    <3>5. CancelHonoured'
      BY <2>2, <3>1 DEF TypeOK
    <3>6. BatchesAreOldest'
      <4>1. ASSUME NEW q \in Pollers, NEW m \in batch'[q]
            PROVE  m \in batch[q] /\ m \in Messages /\ status'[m] # Absent /\ sendAt[m] <= clock
        BY <2>2, <3>1, <4>1 DEF Absent, TypeOK
      <4>2. ASSUME NEW q \in Pollers, NEW m \in batch'[q], NEW k \in Messages \ batch'[q],
                   status'[k] = "pending"
            PROVE  ~Before(k, m)
        <5>1. status[k] = "pending" /\ k # x
          BY <3>1, <4>2
        <5>2. k \notin batch[q]
          BY <2>2, <4>2, <5>1
        <5>3. QED
          BY <4>1, <4>2, <5>1, <5>2
      <4>3. QED
        BY <2>2, <4>1, <4>2 DEF Before
    <3>7. QED
      BY <3>3, <3>4, <3>5, <3>6
  <2>4. CASE ~Claimable(x)
    <3>1. /\ status[x] # "pending" /\ UNCHANGED <<status, current>>
          /\ \A q \in Pollers : ppc'[q] = IF q = p THEN NextPC(batch[p] \ {x}) ELSE ppc[q]
          /\ NextPC(batch[p] \ {x}) \in {"idle", "claim"}
      BY <2>1, <2>3, <2>4 DEF Claimable, NextPC, TypeOK
    <3>2. OwnersAreUnique' /\ CopiesFollowTheLoop' /\ AtMostOnce' /\ CancelHonoured'
      BY <2>2, <3>1 DEF Holding, Owning
    <3>3. BatchesAreOldest'
      BY <2>2, <3>1 DEF Before, TypeOK
    <3>4. QED
      BY <3>2, <3>3
  <2>5. QED
    BY <2>3, <2>4
<1>7. ASSUME NEW p \in Pollers, Dispatch(p) PROVE LoopInv'
  <2>1. PICK took, reported \in BOOLEAN :
          /\ reported => took
          /\ accepted' = IF took THEN [accepted EXCEPT ![current[p]] = @ + 1]
                         ELSE accepted
          /\ ppc' = [ppc EXCEPT ![p] = IF reported THEN "mark_sent" ELSE "mark_failed"]
    BY <1>7 DEF Dispatch
  <2>2. /\ UNCHANGED <<clock, status, sendAt, batch, current, refused>>
        /\ ppc[p] = "dispatch" /\ current[p] \in Messages
        /\ status[current[p]] = "sending" /\ accepted[current[p]] = 0
    BY <1>7 DEF Dispatch, Holding, Owning
  <2>3. /\ \A m \in Messages : accepted'[m] = IF took /\ m = current[p] THEN 1
                                              ELSE accepted[m]
        /\ \A q \in Pollers : ppc'[q] = IF q = p THEN (IF reported THEN "mark_sent"
                                                       ELSE "mark_failed")
                                        ELSE ppc[q]
    BY <2>1, <2>2 DEF TypeOK
  <2>4. OwnersAreUnique'
    BY <2>2, <2>3 DEF Holding, Owning
  <2>5. CopiesFollowTheLoop'
    BY <2>1, <2>2, <2>3 DEF Holding, Owning, Absent
  <2>6. AtMostOnce' /\ CancelHonoured' /\ BatchesAreOldest'
    BY <2>2, <2>3 DEF Before, TypeOK
  <2>7. QED
    BY <2>4, <2>5, <2>6
<1>8. ASSUME NEW p \in Pollers, MarkSent(p) \/ MarkFailed(p) PROVE LoopInv'
  <2>1. PICK st \in {"sent", "failed"} :
          /\ SetStatus(current[p], st)
          /\ ppc[p] = IF st = "sent" THEN "mark_sent" ELSE "mark_failed"
          /\ ppc' = [ppc EXCEPT ![p] = IF st = "sent" THEN "announce_sent"
                                       ELSE "announce_failed"]
    BY <1>8 DEF MarkSent, MarkFailed, Mark
  <2>2. /\ UNCHANGED <<clock, sendAt, batch, current, accepted, refused>>
        /\ current[p] \in Messages /\ status[current[p]] = "sending"
        /\ st = "sent" => accepted[current[p]] = 1
    BY <1>8, <2>1 DEF MarkSent, MarkFailed, Holding, Owning
  <2>3. /\ \A m \in Messages : status'[m] = IF m = current[p] THEN st ELSE status[m]
        /\ \A q \in Pollers : ppc'[q] = IF q = p THEN (IF st = "sent" THEN "announce_sent"
                                                       ELSE "announce_failed")
                                        ELSE ppc[q]
    BY <2>1, <2>2 DEF SetStatus, TypeOK
  <2>4. OwnersAreUnique'
    BY <2>1, <2>2, <2>3 DEF Holding, Owning
  <2>5. CopiesFollowTheLoop' /\ AtMostOnce'
    BY <2>1, <2>2, <2>3 DEF Absent
  <2>6. CancelHonoured' /\ BatchesAreOldest'
    BY <2>2, <2>3 DEF Before, Absent, TypeOK
  <2>7. QED
    BY <2>4, <2>5, <2>6
<1>9. ASSUME NEW p \in Pollers, Announce(p) PROVE LoopInv'
  <2>1. /\ ppc' = [ppc EXCEPT ![p] = NextPC(batch[p])]
        /\ NextPC(batch[p]) \in (PollerPC \ Holding) \ Owning
        /\ batch' = [batch EXCEPT ![p] = batch[p]]
        /\ current' = [current EXCEPT ![p] = NoMessage]
        /\ UNCHANGED <<clock, status, sendAt, accepted, refused>>
    BY <1>9 DEF Announce, NextPC, PollerPC, Holding, Owning, TypeOK
  <2>2. QED
    BY <2>1, LoopMovesOn
<1>10. ASSUME NEW p \in Pollers, ClaimFails(p) \/ Crash(p) PROVE LoopInv'
  <2>1. PICK x : /\ ppc' = [ppc EXCEPT ![p] = "idle"]
                 /\ batch' = [batch EXCEPT ![p] = {}]
                 /\ current' = [current EXCEPT ![p] = x]
                 /\ UNCHANGED <<clock, status, sendAt, accepted, refused>>
    <3>1. current = [current EXCEPT ![p] = current[p]]
      BY DEF TypeOK
    <3>2. QED
      BY <1>10, <3>1 DEF ClaimFails, Crash
  <2>2. "idle" \in (PollerPC \ Holding) \ Owning
    BY DEF PollerPC, Holding, Owning
  <2>3. {} \subseteq batch[p] /\ "idle" \in PollerPC \ Holding /\ "idle" \notin Owning
    BY <2>2
  <2>4. QED
    BY <2>1, <2>3, LoopMovesOn
<1>11. ASSUME NEW p \in Pollers, MarkLost(p) PROVE LoopInv'
  <2>1. PICK st \in {"announce_sent", "announce_failed"} : ppc' = [ppc EXCEPT ![p] = st]
    BY <1>11 DEF MarkLost
  <2>2. /\ st \in PollerPC \ Holding /\ ppc[p] \in Owning
        /\ batch' = [batch EXCEPT ![p] = batch[p]]
        /\ current' = [current EXCEPT ![p] = current[p]]
        /\ UNCHANGED <<clock, status, sendAt, accepted, refused>>
    BY <1>11 DEF MarkLost, PollerPC, Holding, Owning, TypeOK
  <2>3. QED
    BY <2>1, <2>2, LoopMovesOn
<1>12. CASE Second
  BY <1>12 DEF Second, Before, TypeOK
<1>13. QED
  BY <1>1, <1>2, <1>3, <1>4, <1>5, <1>6, <1>7, <1>8, <1>9, <1>10, <1>11, <1>12
     DEF Next, Loop, Failure

\* The invariant: a claimed row has one owner, who knows whether WhatsApp has it.
THEOREM LoopInvariant == Spec => [](TypeOK /\ LoopInv)
<1>1. TypeOK /\ LoopInv /\ [Next]_vars => TypeOK' /\ LoopInv'
  BY TypeStep, LoopInvStep DEF LoopInv
<1>2. QED
  BY <1>1, InitTypeOK, InitLoopInv, PTL DEF Spec

\* The messages the invariant is about are sent at most once.
THEOREM MessagesGoOutOnce == Spec => []AtMostOnce
BY LoopInvariant, PTL DEF LoopInv

\* A cancel that was answered 200 keeps its message from ever being sent.
THEOREM CancelsAreHonoured == Spec => []CancelHonoured
BY LoopInvariant, PTL DEF LoopInv

\* A `sent` row was accepted, an unclaimed one was not.
THEOREM RowsAreTruthful == Spec => []RowsTellTheTruth
<1>1. LoopInv => RowsTellTheTruth
  BY DEF LoopInv, CopiesFollowTheLoop, RowsTellTheTruth
<1>2. QED
  BY <1>1, LoopInvariant, PTL

-----------------------------------------------------------------------------
(* The action properties.                                                  *)

\* Which steps write a status, and over which.
LEMMA StatusWrites ==
  ASSUME TypeOK, LoopInv, [Next]_vars, NEW m \in Messages, status'[m] # status[m]
  PROVE  status[m] \in {Absent, "pending", "sending"}
<1> USE DEF rowVars, loopVars, seenVars, SetStatus, TypeOK
<1>1. CASE UNCHANGED vars
  BY <1>1 DEF vars
<1>2. ASSUME NEW k \in Messages, NEW t \in 0..MaxClock, Park(k, t)
      PROVE  status[m] = Absent
  BY <1>2 DEF Park
<1>3. ASSUME NEW c \in Clients, NEW k \in Messages, CancelRead(c, k) PROVE FALSE
  BY <1>3 DEF CancelRead
<1>4. ASSUME NEW c \in Clients, CancelWrite(c) \/ CancelDropped(c)
      PROVE  status[m] = "pending"
  BY <1>4 DEF CancelWrite, CancelDropped, Cancellable
<1>5. ASSUME NEW p \in Pollers, Claim(p) PROVE status[m] = "pending"
  <2>1. PICK k \in batch[p] : (Claimable(k) /\ SetStatus(k, "sending")) \/ UNCHANGED status
    BY <1>5 DEF Claim
  <2>2. QED
    BY <2>1 DEF Claimable
<1>6. ASSUME NEW p \in Pollers, MarkSent(p) \/ MarkFailed(p) PROVE status[m] = "sending"
  <2>1. status[current[p]] = "sending"
    BY <1>6 DEF MarkSent, MarkFailed, LoopInv, OwnersAreUnique, Holding
  <2>2. QED
    BY <1>6, <2>1 DEF MarkSent, MarkFailed, Mark
<1>7. ASSUME NEW p \in Pollers, Poll(p) \/ Dispatch(p) \/ Announce(p) PROVE FALSE
  BY <1>7 DEF Poll, Dispatch, Announce
<1>8. CASE Failure \/ Second
  BY <1>8 DEF Failure, ClaimFails, MarkLost, Crash, CancelDropped, Second
<1>9. QED
  BY <1>1, <1>2, <1>3, <1>4, <1>5, <1>6, <1>7, <1>8 DEF Next, Loop

\* A settled row never changes again: every writer finds its row unsettled.
THEOREM SettlementIsFinal == Spec => SettledIsFinal
<1>1. ASSUME TypeOK, LoopInv, [Next]_vars, NEW m \in Messages, status[m] \in Settled
      PROVE  status'[m] = status[m]
  BY <1>1, StatusWrites DEF Settled, Absent
<1>2. TypeOK /\ LoopInv /\ [Next]_vars
        => [\A m \in Messages : status[m] \in Settled => status'[m] = status[m]]_vars
  BY <1>1
<1>3. QED
  BY <1>2, LoopInvariant, PTL DEF Spec, SettledIsFinal

\* Only a dispatch hands a message to WhatsApp, and its row was due when claimed.
THEOREM NothingGoesOutEarly == Spec => NeverEarly
<1>1. ASSUME TypeOK, LoopInv, [Next]_vars, NEW m \in Messages, accepted'[m] # accepted[m]
      PROVE  sendAt[m] <= clock
  <2>1. ASSUME NEW p \in Pollers, Dispatch(p) PROVE sendAt[m] <= clock
    <3>1. m = current[p]
      BY <1>1, <2>1 DEF Dispatch, TypeOK
    <3>2. QED
      BY <1>1, <2>1, <3>1 DEF Dispatch, LoopInv, OwnersAreUnique, Owning, Holding
  <2>2. CASE UNCHANGED accepted
    BY <1>1, <2>2
  <2>3. (\E p \in Pollers : Dispatch(p)) \/ UNCHANGED accepted
    BY <1>1 DEF Next, Loop, Failure, Park, CancelRead, CancelWrite, CancelDropped, Poll,
       Claim, ClaimFails, MarkSent, MarkFailed, MarkLost, Announce, Crash, Second, vars,
       seenVars
  <2>4. QED
    BY <2>1, <2>2, <2>3
<1>2. TypeOK /\ LoopInv /\ [Next]_vars
        => [\A m \in Messages : accepted'[m] # accepted[m] => sendAt[m] <= clock]_vars
  BY <1>1
<1>3. QED
  BY <1>2, LoopInvariant, PTL DEF Spec, NeverEarly

\* Rows are claimed oldest first, although batches are read before they are used.
THEOREM OldestGoesFirst == Spec => OldestFirst
<1>1. ASSUME TypeOK, LoopInv, [Next]_vars, NEW m \in Messages, NEW k \in Messages,
             status[m] = "pending", status'[m] = "sending", status[k] = "pending"
      PROVE  sendAt[m] <= sendAt[k]
  <2>1. PICK p \in Pollers : Claim(p)
    <3> USE DEF rowVars, loopVars, seenVars, SetStatus, TypeOK
    <3>1. UNCHANGED vars => FALSE
      BY <1>1 DEF vars
    <3>2. ASSUME NEW x \in Messages, NEW t \in 0..MaxClock, Park(x, t) PROVE FALSE
      BY <1>1, <3>2 DEF Park, Absent
    <3>3. ASSUME NEW c \in Clients, CancelWrite(c) PROVE FALSE
      BY <1>1, <3>3 DEF CancelWrite
    <3>4. ASSUME NEW p \in Pollers, MarkSent(p) \/ MarkFailed(p) PROVE FALSE
      BY <1>1, <3>4 DEF MarkSent, MarkFailed, Mark
    <3>5. QED
      BY <1>1, <3>1, <3>2, <3>3, <3>4
         DEF Next, Loop, Failure, CancelRead, CancelDropped, Poll, Dispatch, Announce,
             ClaimFails, MarkLost, Crash, Second
  <2>2. PICK x \in batch[p] : /\ \A y \in batch[p] : ~Before(y, x)
                              /\ (SetStatus(x, "sending") \/ UNCHANGED status)
    BY <2>1 DEF Claim
  <2>3. m = x
    BY <1>1, <2>2 DEF SetStatus, TypeOK
  <2>4. ~Before(k, m)
    BY <1>1, <2>2, <2>3 DEF LoopInv, BatchesAreOldest
  <2>5. QED
    BY <1>1, <2>4 DEF Before, TypeOK
<1>2. TypeOK /\ LoopInv /\ [Next]_vars
        => [\A m, k \in Messages :
              status[m] = "pending" /\ status'[m] = "sending" /\ status[k] = "pending"
                => sendAt[m] <= sendAt[k]]_vars
  BY <1>1
<1>3. QED
  BY <1>2, LoopInvariant, PTL DEF Spec, OldestFirst
-----------------------------------------------------------------------------
(* What webhooks are told.                                                 *)

\* Nothing has been told of a message.
Untold(m) == events[m]["scheduled_sent"] = 0 /\ events[m]["scheduled_failed"] = 0

\* A row nobody claimed, and one in the hands of a loop, is untold; a loop about to
\* announce knows what became of its row.
EventsFollowTheLoop ==
  /\ \A m \in Messages : status[m] \in {"pending", "cancelled", Absent} => Untold(m)
  /\ \A p \in Pollers :
       /\ ppc[p] \in Owning => Untold(current[p])
       /\ ppc[p] = "announce_sent" => accepted[current[p]] = 1 /\ status[current[p]] # "failed"
       /\ ppc[p] = "announce_failed" => status[current[p]] # "sent"

EventsAreTrue ==
  \A m \in Messages :
    /\ events[m]["scheduled_sent"] + events[m]["scheduled_failed"] <= 1
    /\ events[m]["scheduled_sent"] = 1 => accepted[m] = 1 /\ status[m] # "failed"
    /\ events[m]["scheduled_failed"] = 1 => status[m] # "sent"

TellInv == EventsFollowTheLoop /\ EventsAreTrue

LEMMA InitTellInv == Init => TellInv
BY DEF Init, TellInv, EventsFollowTheLoop, EventsAreTrue, Untold, Events, Owning, Holding

\* A step that tells nothing and rewrites only rows of which nothing was told.
LEMMA TellsNothing ==
  ASSUME TypeOK, LoopInv, LoopInv', TellInv, UNCHANGED events,
         \A m \in Messages :
           accepted'[m] # accepted[m] \/ status'[m] # status[m] => Untold(m),
         \A m \in Messages :
           status'[m] \in {"pending", "cancelled", Absent} => Untold(m),
         \A p \in Pollers :
           /\ ppc'[p] \in Owning => Untold(current'[p])
           /\ ppc'[p] = "announce_sent" =>
                accepted'[current'[p]] = 1 /\ status'[current'[p]] # "failed"
           /\ ppc'[p] = "announce_failed" => status'[current'[p]] # "sent"
  PROVE  TellInv'
<1>1. EventsFollowTheLoop'
  BY DEF EventsFollowTheLoop, Untold
<1>2. EventsAreTrue'
  BY DEF TellInv, EventsAreTrue, Untold
<1>3. QED
  BY <1>1, <1>2 DEF TellInv

LEMMA TellInvStep ==
  TypeOK /\ LoopInv /\ TellInv /\ [Next]_vars /\ TypeOK' /\ LoopInv' => TellInv'
<1> SUFFICES ASSUME TypeOK, LoopInv, TellInv, [Next]_vars, TypeOK', LoopInv' PROVE TellInv'
  OBVIOUS
<1>a. /\ \A m \in Messages : status[m] \in {"pending", "cancelled", Absent} => Untold(m)
      /\ \A p \in Pollers :
           /\ ppc[p] \in Owning => Untold(current[p]) /\ current[p] \in Messages
           /\ ppc[p] = "announce_sent" =>
                accepted[current[p]] = 1 /\ status[current[p]] # "failed"
           /\ ppc[p] = "announce_failed" => status[current[p]] # "sent"
  BY DEF TellInv, EventsFollowTheLoop, LoopInv, OwnersAreUnique
<1> USE DEF rowVars, loopVars, seenVars, SetStatus
<1>1. CASE UNCHANGED vars
  BY <1>1, <1>a, TellsNothing DEF vars
<1>2. ASSUME NEW x \in Messages, NEW t \in 0..MaxClock, Park(x, t) PROVE TellInv'
  <2>1. /\ UNCHANGED <<ppc, current, accepted, events>> /\ status[x] = Absent
        /\ \A m \in Messages : status'[m] = IF m = x THEN "pending" ELSE status[m]
    BY <1>2 DEF Park, TypeOK
  <2>2. \A p \in Pollers : ppc[p] \in Owning => current[p] # x
    BY <2>1 DEF LoopInv, OwnersAreUnique, Absent
  <2>3. QED
    BY <1>a, <2>1, <2>2, TellsNothing DEF Owning
<1>3. ASSUME NEW c \in Clients, NEW x \in Messages, CancelRead(c, x) PROVE TellInv'
  BY <1>3, <1>a, TellsNothing DEF CancelRead
<1>4. ASSUME NEW c \in Clients, CancelWrite(c) \/ CancelDropped(c) PROVE TellInv'
  <2> DEFINE x == cancelling[c]
  <2>1. /\ UNCHANGED <<ppc, current, accepted, events>>
        /\ \/ UNCHANGED status
           \/ /\ x \in Messages /\ status[x] = "pending"
              /\ \A m \in Messages : status'[m] = IF m = x THEN "cancelled" ELSE status[m]
    BY <1>4 DEF CancelWrite, CancelDropped, Cancellable, TypeOK
  <2>2. CASE UNCHANGED status
    BY <1>a, <2>1, <2>2, TellsNothing
  <2>3. CASE /\ x \in Messages /\ status[x] = "pending"
             /\ \A m \in Messages : status'[m] = IF m = x THEN "cancelled" ELSE status[m]
    <3>1. \A p \in Pollers : ppc[p] \in Owning => current[p] # x
      BY <2>3 DEF LoopInv, OwnersAreUnique
    <3>2. QED
      BY <1>a, <2>1, <2>3, <3>1, TellsNothing DEF Owning
  <2>4. QED
    BY <2>1, <2>2, <2>3
<1>5. ASSUME NEW p \in Pollers, Poll(p) PROVE TellInv'
  <2>1. /\ UNCHANGED <<status, current, accepted, events>>
        /\ \A q \in Pollers : ppc'[q] = IF q = p THEN "claim" ELSE ppc[q]
    BY <1>5 DEF Poll, TypeOK
  <2>2. QED
    BY <1>a, <2>1, TellsNothing DEF Owning, Holding
<1>6. ASSUME NEW p \in Pollers, Claim(p) PROVE TellInv'
  <2>1. PICK x \in batch[p] :
          \/ /\ Claimable(x)
             /\ SetStatus(x, "sending")
             /\ current' = [current EXCEPT ![p] = x]
             /\ ppc' = [ppc EXCEPT ![p] = "dispatch"]
          \/ /\ UNCHANGED <<status, current>>
             /\ ppc' = [ppc EXCEPT ![p] = NextPC(batch[p] \ {x})]
    BY <1>6 DEF Claim
  <2>2. UNCHANGED <<accepted, events>> /\ x \in Messages
    BY <1>6, <2>1 DEF Claim, TypeOK
  <2>3. CASE /\ Claimable(x)
             /\ SetStatus(x, "sending")
             /\ current' = [current EXCEPT ![p] = x]
             /\ ppc' = [ppc EXCEPT ![p] = "dispatch"]
    <3>1. /\ status[x] = "pending"
          /\ \A m \in Messages : status'[m] = IF m = x THEN "sending" ELSE status[m]
          /\ \A q \in Pollers : /\ current'[q] = IF q = p THEN x ELSE current[q]
                                /\ ppc'[q] = IF q = p THEN "dispatch" ELSE ppc[q]
      BY <2>2, <2>3 DEF Claimable, TypeOK
    <3>2. \A q \in Pollers : ppc[q] \in Owning => current[q] # x
      BY <3>1 DEF LoopInv, OwnersAreUnique
    <3>3. QED
      BY <1>a, <2>2, <3>1, <3>2, TellsNothing DEF Owning, Absent
  <2>4. CASE /\ UNCHANGED <<status, current>>
             /\ ppc' = [ppc EXCEPT ![p] = NextPC(batch[p] \ {x})]
    <3>1. \A q \in Pollers : ppc'[q] = ppc[q] \/ ppc'[q] \in {"idle", "claim"}
      BY <2>4 DEF NextPC, TypeOK
    <3>2. QED
      BY <1>a, <2>2, <2>4, <3>1, TellsNothing DEF Owning, Holding
  <2>5. QED
    BY <2>1, <2>3, <2>4
<1>7. ASSUME NEW p \in Pollers, Dispatch(p) PROVE TellInv'
  <2>1. /\ UNCHANGED <<status, current, events>> /\ ppc[p] = "dispatch"
        /\ \A m \in Messages : m # current[p] => accepted'[m] = accepted[m]
        /\ \A q \in Pollers :
             ppc'[q] = ppc[q] \/ (q = p /\ ppc'[q] \in {"mark_sent", "mark_failed"})
    BY <1>7 DEF Dispatch, TypeOK
  <2>2. \A q \in Pollers : q # p /\ ppc[q] \in Owning => current[q] # current[p]
    BY <2>1 DEF LoopInv, OwnersAreUnique, Owning, Holding
  <2>3. Untold(current[p]) /\ current[p] \in Messages
    BY <1>a, <2>1 DEF Owning, Holding
  <2>4. QED
    BY <1>a, <2>1, <2>2, <2>3, TellsNothing DEF Owning, Holding
<1>8. ASSUME NEW p \in Pollers, MarkSent(p) \/ MarkFailed(p) PROVE TellInv'
  <2>1. PICK st \in {"sent", "failed"} :
          /\ SetStatus(current[p], st)
          /\ ppc[p] = IF st = "sent" THEN "mark_sent" ELSE "mark_failed"
          /\ ppc' = [ppc EXCEPT ![p] = IF st = "sent" THEN "announce_sent"
                                       ELSE "announce_failed"]
    BY <1>8 DEF MarkSent, MarkFailed, Mark
  <2>2. /\ UNCHANGED <<current, accepted, events>> /\ current[p] \in Messages
        /\ Untold(current[p])
        /\ st = "sent" => accepted[current[p]] = 1
    BY <1>8, <1>a, <2>1 DEF MarkSent, MarkFailed, Holding, Owning, LoopInv, CopiesFollowTheLoop
  <2>3. /\ \A m \in Messages : status'[m] = IF m = current[p] THEN st ELSE status[m]
        /\ \A q \in Pollers : ppc'[q] = IF q = p THEN (IF st = "sent" THEN "announce_sent"
                                                       ELSE "announce_failed")
                                        ELSE ppc[q]
    BY <2>1, <2>2 DEF TypeOK
  <2>4. \A q \in Pollers : q # p /\ ppc[q] \in Owning => current[q] # current[p]
    BY <2>1 DEF LoopInv, OwnersAreUnique, Owning, Holding
  <2>5. QED
    BY <1>a, <2>2, <2>3, <2>4, TellsNothing DEF Owning, Holding, Absent
<1>9. ASSUME NEW p \in Pollers, Announce(p) PROVE TellInv'
  <2> DEFINE m == current[p]
             e == IF ppc[p] = "announce_sent" THEN "scheduled_sent" ELSE "scheduled_failed"
  <2>1. /\ UNCHANGED <<status, accepted>> /\ ppc[p] \in {"announce_sent", "announce_failed"}
        /\ events' = [events EXCEPT ![m][e] = @ + 1]
        /\ \A q \in Pollers :
             IF q = p THEN ppc'[q] \in {"idle", "claim"}
             ELSE ppc'[q] = ppc[q] /\ current'[q] = current[q]
    BY <1>9 DEF Announce, NextPC, TypeOK
  <2>2. /\ m \in Messages /\ Untold(m)
        /\ status[m] \in {"sending", "sent", "failed"}
        /\ \A q \in Pollers : q # p /\ ppc[q] \in Owning => current[q] \in Messages \ {m}
    BY <1>a, <2>1 DEF LoopInv, OwnersAreUnique, Owning
  <2>3. /\ \A k \in Messages \ {m} : events'[k] = events[k]
        /\ events'[m]["scheduled_sent"] = IF e = "scheduled_sent" THEN 1 ELSE 0
        /\ events'[m]["scheduled_failed"] = IF e = "scheduled_sent" THEN 0 ELSE 1
    BY <2>1, <2>2 DEF TypeOK, Events, Untold
  <2>4. EventsFollowTheLoop'
    BY <1>a, <2>1, <2>2, <2>3 DEF EventsFollowTheLoop, Untold, Owning, Holding, Absent
  <2>5. EventsAreTrue'
    <3> SUFFICES ASSUME NEW k \in Messages
                 PROVE  /\ events'[k]["scheduled_sent"] + events'[k]["scheduled_failed"] <= 1
                        /\ events'[k]["scheduled_sent"] = 1 =>
                             accepted'[k] = 1 /\ status'[k] # "failed"
                        /\ events'[k]["scheduled_failed"] = 1 => status'[k] # "sent"
      BY DEF EventsAreTrue
    <3>1. CASE k = m
      BY <1>a, <2>1, <2>3, <3>1
    <3>2. CASE k # m
      BY <2>1, <2>3, <3>2 DEF TellInv, EventsAreTrue
    <3>3. QED
      BY <3>1, <3>2
  <2>6. QED
    BY <2>4, <2>5 DEF TellInv
<1>10. ASSUME NEW p \in Pollers, ClaimFails(p) \/ Crash(p) PROVE TellInv'
  <2>1. /\ UNCHANGED <<status, accepted, events>>
        /\ \A q \in Pollers :
             IF q = p THEN ppc'[q] = "idle" ELSE ppc'[q] = ppc[q] /\ current'[q] = current[q]
    BY <1>10 DEF ClaimFails, Crash, TypeOK
  <2>2. QED
    BY <1>a, <2>1, TellsNothing DEF Owning, Holding
<1>11. ASSUME NEW p \in Pollers, MarkLost(p) PROVE TellInv'
  <2>1. /\ UNCHANGED <<status, current, accepted, events>>
        /\ ppc[p] \in {"mark_sent", "mark_failed"}
        /\ \A q \in Pollers :
             ppc'[q] = IF q # p THEN ppc[q]
                       ELSE IF ppc[p] = "mark_sent" THEN "announce_sent" ELSE "announce_failed"
    BY <1>11 DEF MarkLost, TypeOK
  <2>2. /\ status[current[p]] = "sending"
        /\ ppc[p] = "mark_sent" => accepted[current[p]] = 1
    BY <2>1 DEF LoopInv, OwnersAreUnique, CopiesFollowTheLoop, Holding
  <2>3. QED
    BY <1>a, <2>1, <2>2, TellsNothing DEF Owning, Holding
<1>12. CASE Second
  BY <1>12, <1>a, TellsNothing DEF Second
<1>13. QED
  BY <1>1, <1>2, <1>3, <1>4, <1>5, <1>6, <1>7, <1>8, <1>9, <1>10, <1>11, <1>12
     DEF Next, Loop, Failure

\* What clients and webhooks are told of a message is true, and they are told once.
THEOREM TellsTheTruth == Spec => []ToldTheTruth
<1>1. TypeOK /\ LoopInv /\ [Next]_vars => TypeOK' /\ LoopInv'
  BY TypeStep, LoopInvStep DEF LoopInv
<1>2. TypeOK /\ LoopInv /\ TellInv /\ [Next]_vars => (TypeOK /\ LoopInv /\ TellInv)'
  BY <1>1, TellInvStep
<1>3. LoopInv /\ TellInv => ToldTheTruth
  BY DEF LoopInv, TellInv, EventsAreTrue, ToldTheTruth
<1>4. QED
  BY <1>2, <1>3, InitTypeOK, InitLoopInv, InitTellInv, PTL DEF Spec

-----------------------------------------------------------------------------
(* Sends.                                                                  *)

\* A script with one send, and one without.
OneSend(s) ==
  \E i \in 1..Len(s) : /\ s[i] = "send"
                       /\ \A j \in 1..Len(s) : s[j] = "send" => j = i
NoSend(s) == \A i \in 1..Len(s) : s[i] # "send"

\* What is left of a command: its send is the last step.
SendLast(s) ==
  s # <<>> => /\ s[Len(s)] = "send"
              /\ \A i \in 1..Len(s) : s[i] = "send" => i = Len(s)

\* A step left that looks at the recipient.
Looks(s) == \E i \in DOMAIN s : s[i] \in {"admit", "store"}

Script == [todo : Seq(Steps), to : Chats \cup {NoChat}]

\* Types, with that of script.
FieldTypes ==
  /\ cloud \in BOOLEAN
  /\ started \subseteq Chats \ Groups
  /\ messaged \subseteq Chats \ Groups
  /\ parked \subseteq Requests
  /\ queue \in [Commands -> {"new", "ready", "out", "acked"}]
  /\ delivery \in [Commands -> 0..MaxDeliver]
  /\ script \in [Commands -> Script]
  /\ results \in [Commands -> SUBSET {"ok", "refused"}]
  /\ phase \in [Tasks -> Phases]
  /\ todo \in [Tasks -> Seq(Steps)]
  /\ to \in [Tasks -> Chats \cup {NoChat}]
  /\ counted \in [Tasks -> BOOLEAN]
  /\ outcome \in [Tasks -> Outcomes]
  /\ taken \in [Orders -> Nat]
  /\ failures \in 0..MaxFailures

\* A step that looks at a recipient has one.
RecipientsAreKnown ==
  /\ \A t \in Tasks : Looks(todo[t]) => to[t] \in Chats
  /\ \A c \in Commands : Looks(script[c].todo) => script[c].to \in Chats

SendTypes == FieldTypes /\ RecipientsAreKnown

\* The outcome of a task at each of its places; deliveries to come are idle.
OutcomesFollow ==
  /\ \A t \in Tasks :
       /\ phase[t] \in {"idle", "parked"} => ~counted[t]
       /\ phase[t] \in {"idle", "parked", "run"} => outcome[t] = "none"
       /\ phase[t] \in {"publish", "ack"} => outcome[t] \in {"ok", "refused"}
       /\ phase[t] \in {"undo", "nak"} => outcome[t] = "failed"
       /\ phase[t] \notin {"run", "parked"} => todo[t] = <<>>
       /\ phase[t] \in {"parked"} => t \in Requests
       /\ phase[t] \in {"publish", "ack", "nak"} => t \in Deliveries
  /\ \A c \in Commands, n \in 1..MaxDeliver :
       n > delivery[c] => phase[<<c, n>>] = "idle"

\* A command that is out has been handed over.
OutIsDelivered == \A c \in Commands : queue[c] = "out" => delivery[c] \in 1..MaxDeliver

\* A command was acked by a delivery that ended well; its result is missing only if
\* something failed.
AckedIsEarned ==
  /\ \A c \in Commands :
       queue[c] = "acked" =>
         \E n \in 1..MaxDeliver : outcome[<<c, n>>] \in {"ok", "refused"}
  /\ \A c \in Commands : queue[c] = "acked" /\ failures = 0 => results[c] # {}
  /\ \A c \in Commands, n \in 1..MaxDeliver :
       phase[<<c, n>>] = "ack" /\ failures = 0 => results[c] # {}

\* What is left of a request and what WhatsApp has of it make one send; what is left of a
\* delivery is to be sent, or has been.
RequestFollows(r) ==
  /\ taken[r] <= 1
  /\ phase[r] \in {"idle", "parked"} => taken[r] = 0
  /\ phase[r] \in {"parked", "run"} =>
       \/ taken[r] = 0 /\ OneSend(todo[r])
       \/ taken[r] = 1 /\ NoSend(todo[r])
CommandFollows(c) ==
  /\ queue[c] \in {"ready", "out"} => script[c].todo # <<>> /\ SendLast(script[c].todo)
  /\ \A n \in 1..MaxDeliver :
       phase[<<c, n>>] = "run" =>
         SendLast(todo[<<c, n>>]) /\ (todo[<<c, n>>] = <<>> => taken[c] > 0)
  /\ "ok" \in results[c] => taken[c] > 0
CopiesFollow ==
  /\ \A r \in Requests : RequestFollows(r)
  /\ \A c \in Commands : CommandFollows(c)
  /\ \A t \in Tasks : outcome[t] = "ok" => taken[OrderOf(t)] > 0

\* Deliveries of command c that may still send it, or ask for another delivery.
Live(c) ==
  {n \in 1..MaxDeliver :
     \/ phase[<<c, n>>] = "run" /\ todo[<<c, n>>] # <<>>
     \/ phase[<<c, n>>] \in {"undo", "nak"}}

\* The stream hands command c over once more although nothing else goes wrong.
Again(c) ==
  \/ queue[c] \in {"new", "ready"}
  \/ queue[c] = "out" /\ phase[<<c, delivery[c]>>] \in Ended

\* Each copy, and each copy to come, but one is paid for by a fault.
Owed(c) == Cardinality(Live(c)) + (IF Again(c) THEN 1 ELSE 0)
Paid(c) == taken[c] + Owed(c) <= 1 + failures
CopiesArePaid == \A c \in Commands : Paid(c)

SendsInv ==
  /\ SendTypes /\ OutcomesFollow /\ OutIsDelivered /\ AckedIsEarned
  /\ CopiesFollow /\ CopiesArePaid /\ FailuresLeaveNoChat


\* What never goes back: an outcome, a result, a copy, a fault.
Frame ==
  /\ \A t \in Tasks : outcome[t] # "none" => outcome'[t] = outcome[t]
  /\ \A c \in Commands : results[c] \subseteq results'[c]
  /\ \A o \in Orders : taken[o] \in Nat /\ taken'[o] \in Nat /\ taken'[o] >= taken[o]
  /\ failures \in Nat /\ failures' \in Nat /\ failures' >= failures

\* What task t is to do is what it was to do, less a step that sends nothing; or it begins.
Moved(t) ==
  \/ phase[t] \in {"run", "parked"} /\ todo'[t] = todo[t]
  \/ /\ phase[t] \in {"run", "parked"} /\ todo[t] # <<>>
     /\ Head(todo[t]) # "send" /\ todo'[t] = Tail(todo[t])
  \/ t \in Requests /\ phase[t] = "idle" /\ OneSend(todo'[t])
  \/ t \notin Requests /\ queue[t[1]] = "ready" /\ todo'[t] = script[t[1]].todo

\* Nothing is handed over.
Steady ==
  /\ UNCHANGED taken
  /\ \A t \in Tasks : phase'[t] \in {"run", "parked"} => Moved(t)
  /\ \A t \in Tasks : phase'[t] \in {"idle", "parked"} => phase[t] \in {"idle", "parked"}
  /\ \A c \in Commands : queue'[c] \in {"ready", "out"} =>
       \/ queue[c] \in {"ready", "out"} /\ script'[c] = script[c]
       \/ script'[c].todo # <<>> /\ SendLast(script'[c].todo)
  /\ \A c \in Commands : "ok" \in results'[c] =>
       "ok" \in results[c] \/ \E n \in 1..MaxDeliver : outcome[<<c, n>>] = "ok"
  /\ \A t \in Tasks : outcome'[t] = "ok" =>
       outcome[t] = "ok" \/ (phase[t] = "run" /\ todo[t] = <<>>)
Endpoints == Openers \cup InChat \cup Statuses
CommandScripts == CommandOpeners \cup CommandsInChat

-----------------------------------------------------------------------------
(* Scripts.                                                                *)

\* A script and its rest.
LEMMA TailFacts ==
  ASSUME NEW s \in Seq(Steps), s # <<>>
  PROVE  /\ Len(s) \in Nat \ {0} /\ Head(s) = s[1] /\ Head(s) \in Steps
         /\ Tail(s) \in Seq(Steps) /\ Len(Tail(s)) = Len(s) - 1
         /\ \A i \in 1..Len(Tail(s)) : Tail(s)[i] = s[i + 1] /\ i + 1 \in 1..Len(s)
OBVIOUS

\* A script as a function.
LEMMA EmptyFacts ==
  ASSUME NEW s \in Seq(Steps)
  PROVE  (s = <<>> <=> Len(s) = 0) /\ Len(s) \in Nat /\ DOMAIN s = 1..Len(s)
OBVIOUS

\* What the rest looks at, the script does.
LEMMA TailLooks ==
  ASSUME NEW s \in Seq(Steps), s # <<>>, Looks(Tail(s))
  PROVE  Looks(s)
<1>1. PICK i \in 1..Len(Tail(s)) : Tail(s)[i] \in {"admit", "store"}
  BY TailFacts, EmptyFacts DEF Looks
<1>2. s[i + 1] \in {"admit", "store"} /\ i + 1 \in 1..Len(s)
  BY <1>1, TailFacts
<1> QED BY <1>2, EmptyFacts DEF Looks

\* So for its first step.
LEMMA HeadLooks ==
  ASSUME NEW s \in Seq(Steps), s # <<>>, Head(s) \in {"admit", "store"}
  PROVE  Looks(s)
  BY TailFacts, EmptyFacts DEF Looks

\* No step, no look.
LEMMA NothingLooks == ~Looks(<<>>)
  BY DEF Looks

\* What a step takes off a script with one send, or none.
LEMMA TailSends ==
  ASSUME NEW s \in Seq(Steps), s # <<>>
  PROVE  /\ NoSend(s) => Head(s) # "send" /\ NoSend(Tail(s))
         /\ OneSend(s) /\ Head(s) # "send" => OneSend(Tail(s))
         /\ OneSend(s) /\ Head(s) = "send" => NoSend(Tail(s))
<1>1. /\ Len(s) \in Nat \ {0} /\ Head(s) = s[1] /\ Len(Tail(s)) = Len(s) - 1
      /\ \A i \in 1..Len(Tail(s)) : Tail(s)[i] = s[i + 1] /\ i + 1 \in 1..Len(s)
  BY TailFacts
<1>2. ASSUME NoSend(s)
      PROVE  Head(s) # "send" /\ NoSend(Tail(s))
  BY <1>1, <1>2 DEF NoSend
<1>3. ASSUME OneSend(s)
      PROVE  /\ Head(s) # "send" => OneSend(Tail(s))
             /\ Head(s) = "send" => NoSend(Tail(s))
  <2>1. PICK i \in 1..Len(s) :
          s[i] = "send" /\ \A j \in 1..Len(s) : s[j] = "send" => j = i
    BY <1>3 DEF OneSend
  <2>2. ASSUME Head(s) # "send"
        PROVE  OneSend(Tail(s))
    <3>1. i - 1 \in 1..Len(Tail(s)) /\ Tail(s)[i - 1] = "send"
      BY <1>1, <2>1, <2>2
    <3>2. \A j \in 1..Len(Tail(s)) : Tail(s)[j] = "send" => j = i - 1
      BY <1>1, <2>1
    <3> QED BY <3>1, <3>2 DEF OneSend
  <2>3. ASSUME Head(s) = "send"
        PROVE  NoSend(Tail(s))
    BY <1>1, <2>1, <2>3 DEF NoSend
  <2> QED BY <2>2, <2>3
<1> QED BY <1>2, <1>3

\* The send of a command stays its last step.
LEMMA TailLast ==
  ASSUME NEW s \in Seq(Steps), s # <<>>, SendLast(s)
  PROVE  SendLast(Tail(s)) /\ (Tail(s) = <<>> <=> Head(s) = "send")
<1>1. /\ Len(s) \in Nat \ {0} /\ Head(s) = s[1] /\ Len(Tail(s)) = Len(s) - 1
      /\ \A i \in 1..Len(Tail(s)) : Tail(s)[i] = s[i + 1] /\ i + 1 \in 1..Len(s)
      /\ Tail(s) \in Seq(Steps)
  BY TailFacts
<1>2. s[Len(s)] = "send" /\ \A i \in 1..Len(s) : s[i] = "send" => i = Len(s)
  BY DEF SendLast
<1>3. Tail(s) = <<>> <=> Len(s) = 1
  <2>1. Tail(s) = <<>> <=> Len(Tail(s)) = 0
    BY <1>1, EmptyFacts
  <2> QED BY <1>1, <2>1
<1>4. Head(s) = "send" <=> Len(s) = 1
  <2>1. 1 \in 1..Len(s)
    BY <1>1
  <2>2. s[1] = "send" => 1 = Len(s)
    BY <1>2, <2>1
  <2>3. Len(s) = 1 => s[1] = "send"
    BY <1>2
  <2> QED BY <1>1, <2>2, <2>3
<1>5. SendLast(Tail(s))
  <2> SUFFICES ASSUME Tail(s) # <<>>
               PROVE  /\ Tail(s)[Len(Tail(s))] = "send"
                      /\ \A i \in 1..Len(Tail(s)) : Tail(s)[i] = "send" => i = Len(Tail(s))
    BY DEF SendLast
  <2>1. Len(Tail(s)) \in 1..Len(Tail(s)) /\ Len(Tail(s)) + 1 = Len(s)
    BY <1>1, <1>3
  <2>2. Tail(s)[Len(Tail(s))] = s[Len(s)]
    BY <1>1, <2>1
  <2>3. ASSUME NEW i \in 1..Len(Tail(s)), Tail(s)[i] = "send"
        PROVE  i = Len(Tail(s))
    <3>1. s[i + 1] = "send" /\ i + 1 \in 1..Len(s)
      BY <1>1, <2>3
    <3>2. i + 1 = Len(Tail(s)) + 1
      BY <1>2, <2>1, <3>1
    <3>3. i \in Nat /\ Len(Tail(s)) \in Nat
      BY <1>1
    <3> QED BY <3>2, <3>3
  <2> QED BY <1>2, <2>2, <2>3
<1> QED BY <1>3, <1>4, <1>5

\* A script is good for a request, and for a command.
LEMMA ShapesOfScripts ==
  /\ \A s \in {Plain, Checked, Reply, <<"send">>, <<"check", "send">>,
               <<"client", "admit", "send">>, <<"client", "check", "send", "store">>,
               <<"client", "send">>, <<"client", "check", "send">>,
               <<"client", "admit", "check", "send">>} :
       s \in Seq(Steps) /\ s # <<>> /\ OneSend(s)
  /\ \A s \in {PlainArm, MediaArm, <<"client", "send">>, <<"client", "check", "send">>} :
       s \in Seq(Steps) /\ s # <<>> /\ SendLast(s)
BY DEF Plain, Checked, Reply, PlainArm, MediaArm, Steps, OneSend, SendLast

\* Every endpoint sends once, whichever way it takes.
LEMMA EndpointsSendOnce ==
  ASSUME NEW e \in Endpoints
  PROVE  /\ e.web \in Seq(Steps) /\ OneSend(e.web)
         /\ e.cloud \in Seq(Steps) /\ (e.cloud # <<>> => OneSend(e.cloud))
<1> DEFINE webs == {Plain, Checked, Reply, <<"client", "admit", "send">>,
                    <<"client", "check", "send", "store">>, <<"client", "send">>,
                    <<"client", "check", "send">>}
           clouds == {<<"send">>, <<"check", "send">>, <<>>}
<1>1. \A s \in webs : s \in Seq(Steps) /\ OneSend(s)
  BY ShapesOfScripts
<1>2. \A s \in clouds : s \in Seq(Steps) /\ (s # <<>> => OneSend(s))
  <2>1. <<>> \in Seq(Steps)
    OBVIOUS
  <2> QED BY <2>1, ShapesOfScripts
<1> DEFINE Fits(x) == x.web \in webs /\ x.cloud \in clouds
<1>3. \A p \in BOOLEAN, s \in clouds, w \in webs : Fits(Endpoint(p, s, w))
  <2> HIDE DEF webs, clouds
  <2> QED BY DEF Endpoint
<1>4. \A x \in Openers : Fits(x)
  <2> HIDE DEF Fits
  <2> QED BY <1>3 DEF Openers, Text, Image, Video, Audio, Document, Sticker,
     Location, Contact, Forward, Comment, ScheduledCall, ScheduledCallEdit,
     AdminInvite, FollowerInvite, NewsletterForward, Order, Invoice, PaymentInvite,
     Payment, RequestPayment, CancelPayment, DeclinePayment, PollMessage, Interactive,
     HighlyStructured, Buttons, List, CtaUrl, QuickReply
<1>5. \A x \in InChat \cup Statuses : Fits(x)
  <2> HIDE DEF Fits
  <2> QED BY <1>3 DEF InChat, Statuses, PollUpdate, ButtonsResponse, ListResponse,
     InteractiveResponse, TemplateButtonReply, Vote, Pin, Reaction, Edit, Read,
     Revoke, StatusReaction, TextStatus, ImageStatus, RevokeStatus
<1>6. Fits(e)
  BY <1>4, <1>5 DEF Endpoints
<1> HIDE DEF webs, clouds
<1> QED BY <1>1, <1>2, <1>6

\* A command sends last.
LEMMA CommandsSendLast ==
  ASSUME NEW s \in CommandScripts
  PROVE  s \in Seq(Steps) /\ s # <<>> /\ SendLast(s)
<1>1. s \in {PlainArm, MediaArm, <<"client", "send">>, <<"client", "check", "send">>}
  BY DEF CommandScripts, CommandOpeners, CommandsInChat, TextCommand, ImageCommand,
     VideoCommand, AudioCommand, DocumentCommand, StickerCommand, LocationCommand,
     ContactCommand, PollCommand, ButtonsCommand, ListCommand, InteractiveCommand,
     ReactionCommand, EditCommand, RevokeCommand, ReadCommand
<1> QED BY <1>1, ShapesOfScripts

\* So does the route a session takes.
LEMMA RoutesSendOnce ==
  ASSUME NEW e \in Endpoints
  PROVE  Route(e) \in Seq(Steps) /\ OneSend(Route(e))
  BY EndpointsSendOnce DEF Route

\* The recipient a script needs.
LEMMA RecipientTyped ==
  ASSUME NEW s \in Seq(Steps), NEW c \in Chats \cup {NoChat}, Looks(s) => c \in Chats
  PROVE  /\ Recipient(s, c) \in Chats \cup {NoChat}
         /\ Looks(s) => Recipient(s, c) \in Chats
  BY DEF Recipient, Looks

-----------------------------------------------------------------------------
(* Tasks.                                                                  *)

\* Requests, commands and their deliveries.
LEMMA TasksAre ==
  /\ Requests \subseteq Tasks /\ Requests \subseteq Orders
  /\ Commands \subseteq Orders
  /\ \A r \in Requests : r \notin Deliveries /\ OrderOf(r) = r
  /\ \A r \in Requests : r \notin Commands
  /\ \A c \in Commands, n \in 1..MaxDeliver :
       /\ <<c, n>> \in Deliveries /\ <<c, n>> \in Tasks /\ <<c, n>> \notin Requests
       /\ OrderOf(<<c, n>>) = c
  /\ \A t \in Tasks : OrderOf(t) \in Orders
  /\ \A t \in Tasks : t \notin Requests =>
       /\ t \in Deliveries /\ OrderOf(t) \in Commands /\ OrderOf(t) = t[1]
       /\ t[1] \in Commands /\ t[2] \in 1..MaxDeliver /\ t = <<t[1], t[2]>>
BY SendsAssumption DEF Tasks, Orders, Deliveries, OrderOf

\* The steps of the specification.
LEMMA NextCases ==
  ASSUME [SendsNext]_sendsVars
  PROVE  \/ UNCHANGED sendsVars
         \/ \E r \in Requests, c \in Chats, e \in Endpoints : Arrive(r, e, c)
         \/ \E r \in Requests, c \in Chats, e \in Endpoints : ParkRequest(r, e, c)
         \/ \E r \in Requests : Replay(r) \/ HangUp(r)
         \/ \E c \in Commands, d \in Chats, s \in CommandScripts : Enqueue(c, s, d)
         \/ \E c \in Commands : Deliver(c) \/ AckWait(c)
         \/ \E t \in Tasks :
              \/ Client(t) \/ Check(t) \/ Admit(t) \/ Send(t) \/ Store(t)
              \/ Succeed(t) \/ Undo(t) \/ Publish(t) \/ Ack(t) \/ Nak(t)
         \/ ProcessDies
<1>1. Groups \subseteq Chats
  BY SendsAssumption
<1> QED BY <1>1 DEF SendsNext, TaskStep, Endpoints, CommandScripts

-----------------------------------------------------------------------------
(* The moves that the steps of tasks amount to.                            *)

\* Something may have gone wrong.
Pays == failures' \in 0..MaxFailures /\ failures' >= failures

\* Task t goes on to the rest of its script; it fails.
Advances(t) ==
  /\ phase[t] = "run" /\ todo[t] # <<>>
  /\ todo' = [todo EXCEPT ![t] = Tail(todo[t])]
  /\ UNCHANGED <<phase, outcome, to>>
Fails(t) ==
  /\ phase[t] = "run" /\ todo[t] # <<>>
  /\ phase' = [phase EXCEPT ![t] = "undo"]
  /\ todo' = [todo EXCEPT ![t] = <<>>]
  /\ outcome' = [outcome EXCEPT ![t] = "failed"]
  /\ UNCHANGED <<to, counted>>

Aside == <<cloud, parked, queue, delivery, script, results>>

\* A step before or after the send that went well.
Passes(t) ==
  /\ Advances(t) /\ Head(todo[t]) # "send"
  /\ messaged' \subseteq Chats \ Groups
  /\ UNCHANGED <<Aside, started, counted, taken>> /\ Pays

\* A step that failed and handed nothing over.
Stops(t) == Fails(t) /\ UNCHANGED <<Aside, started, messaged, taken>> /\ Pays

\* A new chat is counted.
Records(t) ==
  /\ Advances(t) /\ Head(todo[t]) = "admit"
  /\ to[t] \in Chats \ Groups
  /\ started' = started \cup {to[t]}
  /\ counted' = [counted EXCEPT ![t] = TRUE]
  /\ UNCHANGED <<Aside, messaged, taken, failures>>

\* WhatsApp takes the message, and the answer arrives or does not.
Hands(t) ==
  /\ Head(todo[t]) = "send"
  /\ taken' = [taken EXCEPT ![OrderOf(t)] = @ + 1]
  /\ \/ Advances(t) /\ UNCHANGED counted /\ failures' = failures
     \/ Fails(t) /\ failures' = failures + 1
  /\ UNCHANGED <<Aside, started, messaged>> /\ Pays

\* The send is over: it went well, or the limit refused it.
Ends(t) ==
  /\ phase[t] = "run"
  /\ \E o \in {"ok", "refused"} :
       /\ outcome' = [outcome EXCEPT ![t] = o]
       /\ o = "ok" => todo[t] = <<>>
       /\ o = "refused" => todo[t] # <<>>
  /\ phase' = [phase EXCEPT ![t] = IF t \in Requests THEN "done" ELSE "publish"]
  /\ todo' = [todo EXCEPT ![t] = <<>>]
  /\ to' = [to EXCEPT ![t] = IF counted[t] THEN @ ELSE NoChat]
  /\ UNCHANGED <<Aside, started, messaged, counted, taken, failures>>

\* Handlers under way are dropped.
Dies(T) ==
  /\ \A t \in T : t \in Tasks /\ phase[t] \notin {"idle", "parked", "done", "dead"}
  /\ failures' = failures + 1 /\ Pays
  /\ phase' = [t \in Tasks |-> IF t \in T THEN "dead" ELSE phase[t]]
  /\ todo' = [t \in Tasks |-> IF t \in T THEN <<>> ELSE todo[t]]
  /\ to' = [t \in Tasks |-> IF t \in T /\ ~counted[t] THEN NoChat ELSE to[t]]
  /\ UNCHANGED <<Aside, started, messaged, counted, outcome, taken>>

\* A request comes in, to run or to be parked.
Comes(r) ==
  /\ phase[r] = "idle"
  /\ \E p \in {"run", "parked"}, s \in Seq(Steps), d \in Chats \cup {NoChat} :
       /\ OneSend(s) /\ (Looks(s) => d \in Chats)
       /\ phase' = [phase EXCEPT ![r] = p]
       /\ todo' = [todo EXCEPT ![r] = s]
       /\ to' = [to EXCEPT ![r] = d]
       /\ parked' = IF p = "parked" THEN parked \cup {r} ELSE parked
  /\ UNCHANGED <<cloud, queue, delivery, script, results, started, messaged, counted,
                 outcome, taken, failures>>

\* A command is published; the stream hands it over.
Enqueues(c) ==
  /\ queue[c] = "new"
  /\ queue' = [queue EXCEPT ![c] = "ready"]
  /\ \E s \in Seq(Steps), d \in Chats \cup {NoChat} :
       /\ s # <<>> /\ SendLast(s) /\ (Looks(s) => d \in Chats)
       /\ script' = [script EXCEPT ![c] = [todo |-> s, to |-> d]]
  /\ UNCHANGED <<cloud, chatVars, parked, delivery, results, taskVars, taken, failures>>
Delivers(c) ==
  /\ queue[c] = "ready" /\ delivery[c] < MaxDeliver
  /\ queue' = [queue EXCEPT ![c] = "out"]
  /\ delivery' = [delivery EXCEPT ![c] = @ + 1]
  /\ phase' = [phase EXCEPT ![<<c, delivery[c] + 1>>] = "run"]
  /\ todo' = [todo EXCEPT ![<<c, delivery[c] + 1>>] = script[c].todo]
  /\ \E d \in Chats \cup {NoChat} :
       /\ Looks(script[c].todo) => d \in Chats
       /\ to' = [to EXCEPT ![<<c, delivery[c] + 1>>] = d]
  /\ UNCHANGED <<cloud, chatVars, parked, script, results, counted, outcome, taken, failures>>

\* What a failed task recorded is forgotten, unless it is a replay, and the failure answered.
Undoes(t) ==
  /\ phase[t] = "undo"
  /\ IF counted[t] /\ t \notin parked
     THEN started' = started \ {to[t]} /\ counted' = [counted EXCEPT ![t] = FALSE]
     ELSE UNCHANGED <<started, counted>>
  /\ phase' = [phase EXCEPT ![t] = IF t \in Requests THEN "done" ELSE "nak"]
  /\ to' = [to EXCEPT ![t] = IF counted'[t] THEN @ ELSE NoChat]
  /\ UNCHANGED <<Aside, messaged, todo, outcome, taken, failures>>

\* Delivery n of command c publishes its result, acks, or asks for another delivery.
Publishes(c, n) ==
  /\ phase[<<c, n>>] = "publish"
  /\ phase' = [phase EXCEPT ![<<c, n>>] = "ack"]
  /\ \/ results' = [results EXCEPT ![c] = @ \cup {outcome[<<c, n>>]}] /\ failures' = failures
     \/ UNCHANGED results /\ failures' = failures + 1
  /\ UNCHANGED <<cloud, chatVars, parked, queue, delivery, script, todo, to, counted,
                 outcome, taken>> /\ Pays
Acks(c, n) ==
  /\ phase[<<c, n>>] = "ack"
  /\ phase' = [phase EXCEPT ![<<c, n>>] = "done"]
  /\ \/ /\ queue' = [queue EXCEPT ![c] = "acked"]
        /\ script' = [script EXCEPT ![c] = Nothing]
        /\ failures' = failures
     \/ UNCHANGED <<queue, script>> /\ failures' = failures + 1
  /\ UNCHANGED <<cloud, chatVars, parked, delivery, results, todo, to, counted,
                 outcome, taken>> /\ Pays
Naks(c, n) ==
  /\ phase[<<c, n>>] = "nak"
  /\ phase' = [phase EXCEPT ![<<c, n>>] = "done"]
  /\ \/ queue[c] = "out" /\ queue' = [queue EXCEPT ![c] = "ready"] /\ failures' = failures
     \/ (queue[c] # "out" \/ n # delivery[c]) /\ UNCHANGED queue /\ failures' = failures
     \/ UNCHANGED queue /\ failures' = failures + 1
  /\ UNCHANGED <<cloud, chatVars, parked, delivery, script, results, todo, to, counted,
                 outcome, taken>> /\ Pays

\* ack_wait of command c is over.
Waits(c) ==
  /\ queue[c] = "out"
  /\ queue' = [queue EXCEPT ![c] = "ready"]
  /\ IF phase[<<c, delivery[c]>>] \in Ended THEN failures' = failures
     ELSE failures' = failures + 1
  /\ UNCHANGED <<cloud, chatVars, parked, delivery, script, results, taskVars, taken>>
  /\ Pays

\* What a step may do to the count of failures.
LEMMA FaultsPay ==
  ASSUME SendTypes
  PROVE  /\ NoFault => failures' = failures /\ Pays
         /\ Fault => failures' = failures + 1 /\ Pays
         /\ UNCHANGED failures => Pays
  BY SendsAssumption DEF SendTypes, FieldTypes, NoFault, Fault, Pays

\* A task about to look at its recipient has one.
LEMMA RecipientLooks ==
  ASSUME SendTypes, NEW t \in Tasks, todo[t] # <<>>,
         Head(todo[t]) \in {"admit", "store"}
  PROVE  to[t] \in Chats
<1>1. todo[t] \in Seq(Steps)
  BY DEF SendTypes, FieldTypes
<1> QED BY <1>1, HeadLooks DEF SendTypes, RecipientsAreKnown

\* What the steps of a script amount to.
LEMMA StepsAreMoves ==
  ASSUME SendTypes, NEW t \in Tasks
  PROVE  /\ Client(t) => Passes(t) \/ Stops(t)
         /\ Check(t) => Passes(t) \/ Stops(t)
         /\ Admit(t) => Passes(t) \/ Records(t) \/ Ends(t)
         /\ Send(t) => Hands(t) \/ Stops(t)
         /\ Store(t) => Passes(t)
         /\ Succeed(t) => Ends(t)
<1>1. /\ messaged \subseteq Chats \ Groups
      /\ phase \in [Tasks -> Phases] /\ todo \in [Tasks -> Seq(Steps)]
  BY DEF SendTypes, FieldTypes
<1>2. Client(t) => Passes(t) \/ Stops(t)
  BY <1>1, FaultsPay DEF Client, At, Advance, Fail, chatVars, queueVars,
     Passes, Stops, Advances, Fails, Aside
<1>3. Check(t) => Passes(t) \/ Stops(t)
  BY <1>1, FaultsPay DEF Check, At, Advance, Fail, chatVars, queueVars,
     Passes, Stops, Advances, Fails, Aside
<1>4. ASSUME Admit(t)
      PROVE  Passes(t) \/ Records(t) \/ Ends(t)
  <2>1. /\ phase[t] = "run" /\ todo[t] # <<>> /\ Head(todo[t]) = "admit"
        /\ UNCHANGED <<Aside, messaged, taken>>
    BY <1>4 DEF Admit, At, queueVars, Aside
  <2>2. to[t] \in Chats
    BY <2>1, RecipientLooks
  <2>3. \/ Advance(t) /\ UNCHANGED <<started, counted, to, failures>>
        \/ /\ Direct(to[t]) /\ started' = started \cup {to[t]}
           /\ counted' = [counted EXCEPT ![t] = TRUE]
           /\ Advance(t) /\ NoFault /\ UNCHANGED to
        \/ Refuse(t) /\ UNCHANGED <<started, counted, failures>>
        \/ Fault /\ Advance(t) /\ UNCHANGED <<started, counted, to>>
    BY <1>4 DEF Admit
  <2>4. Refuse(t) /\ UNCHANGED <<started, counted, failures>> => Ends(t)
    BY <2>1 DEF Refuse, Close, Ends
  <2>5. Advance(t) /\ UNCHANGED <<started, counted, to>> /\ Pays => Passes(t)
    BY <1>1, <2>1 DEF Advance, Passes, Advances
  <2>6. /\ Direct(to[t]) /\ started' = started \cup {to[t]}
        /\ counted' = [counted EXCEPT ![t] = TRUE]
        /\ Advance(t) /\ NoFault /\ UNCHANGED to
        => Records(t)
    BY <2>1, <2>2, FaultsPay DEF Advance, Direct, Records, Advances
  <2> QED BY <2>3, <2>4, <2>5, <2>6, FaultsPay
<1>5. Send(t) => Hands(t) \/ Stops(t)
  BY FaultsPay DEF Send, At, Advance, Fail, chatVars, queueVars,
     Hands, Stops, Advances, Fails, Aside
<1>6. ASSUME Store(t)
      PROVE  Passes(t)
  <2>1. /\ phase[t] = "run" /\ todo[t] # <<>> /\ Head(todo[t]) = "store"
        /\ Advance(t) /\ UNCHANGED <<Aside, started, to, counted, taken>> /\ Pays
    BY <1>6, FaultsPay DEF Store, At, queueVars, Aside
  <2>2. messaged' \subseteq Chats \ Groups
    BY <1>1, <1>6, <2>1, RecipientLooks DEF Store
  <2> QED BY <2>1, <2>2 DEF Passes, Advances, Advance
<1>7. Succeed(t) => Ends(t)
  <2>1. Succeed(t) => todo' = [todo EXCEPT ![t] = <<>>]
    BY <1>1 DEF Succeed
  <2> QED BY <2>1 DEF Succeed, Close, chatVars, queueVars, Ends, Aside
<1> QED BY <1>2, <1>3, <1>4, <1>5, <1>6, <1>7

\* A hang-up and a crash.
LEMMA DeathsAreMoves ==
  ASSUME SendTypes
  PROVE  /\ \A r \in Requests : HangUp(r) => Dies({r})
         /\ ProcessDies => Dies({t \in Tasks : Running(t)})
<1>1. \A T : Kill(T) /\ Fault /\ UNCHANGED <<Aside, started, messaged, taken>>
             /\ (\A t \in T : t \in Tasks /\ Running(t)) => Dies(T)
  BY FaultsPay DEF Kill, Dies, Running, Ended
<1>2. \A r \in Requests : HangUp(r) => Dies({r})
  BY <1>1, TasksAre DEF HangUp, chatVars, queueVars, Aside
<1>3. ProcessDies => Dies({t \in Tasks : Running(t)})
  BY <1>1 DEF ProcessDies, chatVars, queueVars, Aside
<1> QED BY <1>2, <1>3

\* How requests and commands come in.
LEMMA StartsAreMoves ==
  ASSUME SendTypes
  PROVE  /\ \A r \in Requests, c \in Chats, e \in Endpoints :
              Arrive(r, e, c) \/ ParkRequest(r, e, c) => Comes(r)
         /\ \A c \in Commands, d \in Chats, s \in CommandScripts :
              Enqueue(c, s, d) => Enqueues(c)
         /\ \A c \in Commands : Deliver(c) => Delivers(c)
<1>1. ASSUME NEW r \in Requests, NEW c \in Chats, NEW e \in Endpoints,
             Arrive(r, e, c) \/ ParkRequest(r, e, c)
      PROVE  Comes(r)
  <2> DEFINE s == Route(e)
             d == Recipient(s, c)
  <2>1. s \in Seq(Steps) /\ OneSend(s)
    BY RoutesSendOnce
  <2>2. d \in Chats \cup {NoChat} /\ (Looks(s) => d \in Chats)
    <3> HIDE DEF s
    <3> QED BY <2>1, RecipientTyped
  <2>3. CASE Arrive(r, e, c)
    <3>1. /\ phase[r] = "idle" /\ phase' = [phase EXCEPT ![r] = "run"]
          /\ todo' = [todo EXCEPT ![r] = s] /\ to' = [to EXCEPT ![r] = d]
          /\ UNCHANGED <<cloud, parked, queue, delivery, script, results, started, messaged,
                         counted, outcome, taken, failures>>
      BY <2>3 DEF Arrive, Begin, chatVars, queueVars
    <3> HIDE DEF s, d
    <3> QED BY <2>1, <2>2, <3>1 DEF Comes
  <2>4. CASE ParkRequest(r, e, c)
    <3>1. /\ phase[r] = "idle" /\ phase' = [phase EXCEPT ![r] = "parked"]
          /\ todo' = [todo EXCEPT ![r] = s] /\ to' = [to EXCEPT ![r] = d]
          /\ parked' = parked \cup {r}
          /\ UNCHANGED <<cloud, queue, delivery, script, results, started, messaged,
                         counted, outcome, taken, failures>>
      BY <2>4 DEF ParkRequest, Begin, chatVars, queueVars
    <3> HIDE DEF s, d
    <3> QED BY <2>1, <2>2, <3>1 DEF Comes
  <2> QED BY <1>1, <2>3, <2>4
<1>2. ASSUME NEW c \in Commands, NEW d \in Chats, NEW s \in CommandScripts,
             Enqueue(c, s, d)
      PROVE  Enqueues(c)
  <2>1. s \in Seq(Steps) /\ s # <<>> /\ SendLast(s)
    BY CommandsSendLast
  <2>2. /\ Recipient(s, d) \in Chats \cup {NoChat}
        /\ Looks(s) => Recipient(s, d) \in Chats
    BY <2>1, RecipientTyped
  <2> QED BY <1>2, <2>1, <2>2 DEF Enqueue, Enqueues
<1>3. ASSUME NEW c \in Commands, Deliver(c)
      PROVE  Delivers(c)
  <2> DEFINE s == script[c].todo
             d == Recipient(s, script[c].to)
  <2>1. s \in Seq(Steps) /\ script[c].to \in Chats \cup {NoChat}
    BY DEF SendTypes, FieldTypes, Script
  <2>2. Looks(s) => script[c].to \in Chats
    BY DEF SendTypes, RecipientsAreKnown
  <2>3. d \in Chats \cup {NoChat} /\ (Looks(s) => d \in Chats)
    <3> HIDE DEF s
    <3> QED BY <2>1, <2>2, RecipientTyped
  <2>4. delivery'[c] = delivery[c] + 1
    BY <1>3 DEF Deliver, SendTypes, FieldTypes
  <2>5. /\ phase' = [phase EXCEPT ![<<c, delivery[c] + 1>>] = "run"]
        /\ todo' = [todo EXCEPT ![<<c, delivery[c] + 1>>] = s]
        /\ to' = [to EXCEPT ![<<c, delivery[c] + 1>>] = d]
    BY <1>3, <2>4 DEF Deliver, Begin
  <2> HIDE DEF d
  <2> QED BY <1>3, <2>3, <2>5 DEF Deliver, Delivers
<1> QED BY <1>1, <1>2, <1>3

\* How they are answered.
LEMMA AnswersAreMoves ==
  ASSUME SendTypes, OutcomesFollow
  PROVE  /\ \A t \in Tasks : Undo(t) => Undoes(t)
         /\ \A t \in Tasks : Publish(t) \/ Ack(t) \/ Nak(t) =>
              \E c \in Commands, n \in 1..MaxDeliver :
                Publishes(c, n) \/ Acks(c, n) \/ Naks(c, n)
         /\ \A c \in Commands : AckWait(c) => Waits(c)
<1>1. ASSUME NEW t \in Tasks, Undo(t)
      PROVE  Undoes(t)
  <2>1. counted \in [Tasks -> BOOLEAN]
    BY DEF SendTypes, FieldTypes
  <2>2. CASE counted[t] /\ t \notin parked
    BY <1>1, <2>1, <2>2 DEF Undo, MustForget, Scoped, queueVars, Undoes, Aside
  <2>3. CASE ~(counted[t] /\ t \notin parked)
    <3>1. counted' = counted /\ started' = started
      BY <1>1, <2>1, <2>3 DEF Undo, MustForget, Scoped
    <3> QED BY <1>1, <2>3, <3>1 DEF Undo, queueVars, Undoes, Aside
  <2> QED BY <2>2, <2>3
<1>2. ASSUME NEW t \in Tasks, Publish(t) \/ Ack(t) \/ Nak(t)
      PROVE  \E c \in Commands, n \in 1..MaxDeliver :
               Publishes(c, n) \/ Acks(c, n) \/ Naks(c, n)
  <2>1. t \in Deliveries
    BY <1>2 DEF Publish, Ack, Nak, OutcomesFollow
  <2>2. PICK c \in Commands, n \in 1..MaxDeliver : t = <<c, n>>
    BY <2>1 DEF Deliveries
  <2>3. OrderOf(t) = c /\ t[2] = n
    BY <2>2, TasksAre
  <2>4. Publish(t) => Publishes(c, n)
    BY <2>2, <2>3, FaultsPay DEF Publish, Publishes
  <2>5. Ack(t) => Acks(c, n)
    BY <2>2, <2>3, FaultsPay DEF Ack, Acks
  <2>6. Nak(t) => Naks(c, n)
    BY <2>2, <2>3, FaultsPay DEF Nak, Naks
  <2> QED BY <1>2, <2>4, <2>5, <2>6
<1>3. \A c \in Commands : AckWait(c) => Waits(c)
  BY FaultsPay DEF AckWait, Waits
<1> QED BY <1>1, <1>2, <1>3

\* Every step of the specification is one of these moves.
LEMMA NextMoves ==
  ASSUME SendTypes, OutcomesFollow, [SendsNext]_sendsVars
  PROVE  \/ UNCHANGED sendsVars
         \/ \E r \in Requests : Comes(r)
         \/ \E r \in Requests : Replay(r)
         \/ \E c \in Commands : Enqueues(c)
         \/ \E c \in Commands : Delivers(c)
         \/ \E c \in Commands : Waits(c)
         \/ \E t \in Tasks : Passes(t)
         \/ \E t \in Tasks : Stops(t)
         \/ \E t \in Tasks : Records(t)
         \/ \E t \in Tasks : Hands(t)
         \/ \E t \in Tasks : Ends(t)
         \/ \E T \in SUBSET Tasks : Dies(T)
         \/ \E t \in Tasks : Undoes(t)
         \/ \E c \in Commands, n \in 1..MaxDeliver : Publishes(c, n)
         \/ \E c \in Commands, n \in 1..MaxDeliver : Acks(c, n)
         \/ \E c \in Commands, n \in 1..MaxDeliver : Naks(c, n)
<1>1. \A T : Dies(T) => T \in SUBSET Tasks
  BY DEF Dies
<1>2. ASSUME NEW t \in Tasks,
             \/ Client(t) \/ Check(t) \/ Admit(t) \/ Send(t) \/ Store(t)
             \/ Succeed(t)
      PROVE  Passes(t) \/ Stops(t) \/ Records(t) \/ Hands(t) \/ Ends(t)
  BY <1>2, StepsAreMoves
<1>3. ASSUME NEW t \in Tasks, Undo(t) \/ Publish(t) \/ Ack(t) \/ Nak(t)
      PROVE  \/ Undoes(t)
             \/ \E c \in Commands, n \in 1..MaxDeliver :
                  Publishes(c, n) \/ Acks(c, n) \/ Naks(c, n)
  BY <1>3, AnswersAreMoves
<1>4. \A c \in Commands : AckWait(c) => Waits(c)
  BY AnswersAreMoves
<1>5. \A r \in Requests : HangUp(r) => \E T \in SUBSET Tasks : Dies(T)
  BY <1>1, DeathsAreMoves
<1>6. ProcessDies => \E T \in SUBSET Tasks : Dies(T)
  BY <1>1, DeathsAreMoves
<1>7. /\ \A r \in Requests, c \in Chats, e \in Endpoints :
           Arrive(r, e, c) \/ ParkRequest(r, e, c) => Comes(r)
      /\ \A c \in Commands, d \in Chats, s \in CommandScripts :
           Enqueue(c, s, d) => Enqueues(c)
      /\ \A c \in Commands : Deliver(c) => Delivers(c)
  BY StartsAreMoves
<1> QED BY <1>2, <1>3, <1>4, <1>5, <1>6, <1>7, NextCases

\* What is left of a task is a script.
LEMMA TodoTyped ==
  ASSUME SendTypes, NEW t \in Tasks
  PROVE  todo[t] \in Seq(Steps) /\ (todo[t] # <<>> => Tail(todo[t]) \in Seq(Steps))
<1>1. todo[t] \in Seq(Steps)
  BY DEF SendTypes, FieldTypes
<1> QED BY <1>1, TailFacts

\* So is nothing.
LEMMA EmptyTyped == <<>> \in Seq(Steps)
OBVIOUS

\* The counters are numbers.
LEMMA CountersAre ==
  ASSUME SendTypes
  PROVE  /\ \A o \in Orders : taken[o] \in Nat /\ taken[o] + 1 \in Nat
         /\ failures \in Nat /\ failures + 1 \in Nat /\ 0..MaxFailures \subseteq Nat
  BY SendsAssumption DEF SendTypes, FieldTypes

\* Types, move by move.
LEMMA FieldsStep ==
  ASSUME SendTypes, OutcomesFollow, [SendsNext]_sendsVars
  PROVE  FieldTypes'
<1>1. CASE UNCHANGED sendsVars
  BY <1>1, SendsAssumption DEF SendTypes, FieldTypes, Phases, Ended, Outcomes, Pays,
     OutcomesFollow, sendsVars, chatVars, queueVars, taskVars
<1>2. ASSUME NEW r \in Requests, Comes(r)
      PROVE  FieldTypes'
  BY <1>2, TasksAre, TodoTyped, EmptyTyped, FaultsPay, SendsAssumption DEF Comes, Aside,
     SendTypes, FieldTypes, Phases, Ended, Outcomes, Pays, OutcomesFollow
<1>3. ASSUME NEW r \in Requests, Replay(r)
      PROVE  FieldTypes'
  BY <1>3, TasksAre, TodoTyped, EmptyTyped, FaultsPay, SendsAssumption DEF Replay, chatVars,
     queueVars, SendTypes, FieldTypes, Phases, Ended, Outcomes, Pays, OutcomesFollow
<1>4. ASSUME NEW c \in Commands, Enqueues(c)
      PROVE  FieldTypes'
  <2>1. script' \in [Commands -> Script]
    BY <1>4 DEF Enqueues, SendTypes, FieldTypes, Script
  <2> QED BY <1>4, <2>1 DEF Enqueues, chatVars, taskVars, SendTypes, FieldTypes
<1>5. ASSUME NEW c \in Commands, Delivers(c)
      PROVE  FieldTypes'
  <2> DEFINE n == delivery[c] + 1
  <2>1. n \in 1..MaxDeliver
    BY <1>5, SendsAssumption DEF Delivers, SendTypes, FieldTypes
  <2>2. <<c, n>> \in Tasks /\ n \in 0..MaxDeliver
    BY <2>1, TasksAre
  <2>3. script[c].todo \in Seq(Steps)
    BY DEF SendTypes, FieldTypes, Script
  <2> HIDE DEF n
  <2>4. /\ phase' = [phase EXCEPT ![<<c, n>>] = "run"]
        /\ todo' = [todo EXCEPT ![<<c, n>>] = script[c].todo]
        /\ delivery' = [delivery EXCEPT ![c] = n]
        /\ \E d \in Chats \cup {NoChat} : to' = [to EXCEPT ![<<c, n>>] = d]
    BY <1>5 DEF Delivers, n
  <2>5. todo' \in [Tasks -> Seq(Steps)] /\ delivery' \in [Commands -> 0..MaxDeliver]
    BY <2>2, <2>3, <2>4 DEF SendTypes, FieldTypes
  <2>6. phase' \in [Tasks -> Phases] /\ to' \in [Tasks -> Chats \cup {NoChat}]
    BY <2>2, <2>4 DEF SendTypes, FieldTypes, Phases
  <2>7. queue' \in [Commands -> {"new", "ready", "out", "acked"}]
    BY <1>5 DEF Delivers, SendTypes, FieldTypes
  <2> QED BY <1>5, <2>5, <2>6, <2>7 DEF Delivers, chatVars, SendTypes, FieldTypes
<1>6. ASSUME NEW c \in Commands, Waits(c)
      PROVE  FieldTypes'
  BY <1>6, TasksAre, TodoTyped, EmptyTyped, FaultsPay, SendsAssumption DEF Waits, chatVars,
     taskVars, SendTypes, FieldTypes, Phases, Ended, Outcomes, Pays, OutcomesFollow
<1>7. ASSUME NEW t \in Tasks, Passes(t)
      PROVE  FieldTypes'
  BY <1>7, TasksAre, TodoTyped, EmptyTyped, FaultsPay, SendsAssumption DEF Passes, Advances,
     Aside, SendTypes, FieldTypes, Phases, Ended, Outcomes, Pays, OutcomesFollow
<1>8. ASSUME NEW t \in Tasks, Stops(t)
      PROVE  FieldTypes'
  BY <1>8, TasksAre, TodoTyped, EmptyTyped, FaultsPay, SendsAssumption DEF Stops, Fails,
     Aside, SendTypes, FieldTypes, Phases, Ended, Outcomes, Pays, OutcomesFollow
<1>9. ASSUME NEW t \in Tasks, Records(t)
      PROVE  FieldTypes'
  BY <1>9, TasksAre, TodoTyped, EmptyTyped, FaultsPay, SendsAssumption DEF Records, Advances,
     Aside, SendTypes, FieldTypes, Phases, Ended, Outcomes, Pays, OutcomesFollow
<1>10. ASSUME NEW t \in Tasks, Hands(t)
      PROVE  FieldTypes'
  <2> DEFINE o == OrderOf(t)
  <2>1. o \in Orders /\ taken \in [Orders -> Nat]
    BY TasksAre DEF SendTypes, FieldTypes
  <2>2. taken' \in [Orders -> Nat]
    <3> HIDE DEF o
    <3>1. taken' = [taken EXCEPT ![o] = taken[o] + 1]
      BY <1>10 DEF Hands, o
    <3> QED BY <2>1, <3>1
  <2>3. Tail(todo[t]) \in Seq(Steps) \/ todo[t] = <<>>
    BY TodoTyped
  <2>4. failures' \in 0..MaxFailures
    BY <1>10 DEF Hands, Pays
  <2>5. todo' \in [Tasks -> Seq(Steps)]
    BY <1>10, <2>3, EmptyTyped DEF Hands, Advances, Fails, SendTypes, FieldTypes
  <2>6. phase' \in [Tasks -> Phases] /\ outcome' \in [Tasks -> Outcomes]
    BY <1>10 DEF Hands, Advances, Fails, SendTypes, FieldTypes, Phases, Outcomes
  <2>7. UNCHANGED <<Aside, started, messaged, to, counted>>
    BY <1>10 DEF Hands, Advances, Fails, Aside
  <2> QED BY <2>2, <2>4, <2>5, <2>6, <2>7 DEF Aside, SendTypes, FieldTypes
<1>11. ASSUME NEW t \in Tasks, Ends(t)
      PROVE  FieldTypes'
  BY <1>11, TasksAre, TodoTyped, EmptyTyped, FaultsPay, SendsAssumption DEF Ends, Aside,
     SendTypes, FieldTypes, Phases, Ended, Outcomes, Pays, OutcomesFollow
<1>12. ASSUME NEW T \in SUBSET Tasks, Dies(T)
      PROVE  FieldTypes'
  BY <1>12, TasksAre, TodoTyped, EmptyTyped, FaultsPay, SendsAssumption DEF Dies, Aside,
     SendTypes, FieldTypes, Phases, Ended, Outcomes, Pays, OutcomesFollow
<1>13. ASSUME NEW t \in Tasks, Undoes(t)
      PROVE  FieldTypes'
  <2>1. started' \subseteq Chats \ Groups /\ counted' \in [Tasks -> BOOLEAN]
    <3>1. \/ started' = started \ {to[t]} /\ counted' = [counted EXCEPT ![t] = FALSE]
          \/ UNCHANGED <<started, counted>>
      BY <1>13 DEF Undoes
    <3>2. started \subseteq Chats \ Groups /\ counted \in [Tasks -> BOOLEAN]
      BY DEF SendTypes, FieldTypes
    <3> QED BY <3>1, <3>2
  <2>2. phase' \in [Tasks -> Phases]
    BY <1>13 DEF Undoes, SendTypes, FieldTypes, Phases, Ended
  <2>3. to' \in [Tasks -> Chats \cup {NoChat}]
    <3>1. \/ to' = [to EXCEPT ![t] = @]
          \/ to' = [to EXCEPT ![t] = NoChat]
      BY <1>13 DEF Undoes
    <3> QED BY <3>1 DEF SendTypes, FieldTypes
  <2> QED BY <1>13, <2>1, <2>2, <2>3 DEF Undoes, Aside, SendTypes, FieldTypes
<1>14. ASSUME NEW c \in Commands, NEW n \in 1..MaxDeliver, Publishes(c, n)
      PROVE  FieldTypes'
  <2>1. <<c, n>> \in Tasks
    BY TasksAre
  <2>2. phase' \in [Tasks -> Phases]
    BY <1>14 DEF Publishes, SendTypes, FieldTypes, Phases
  <2>3. outcome[<<c, n>>] \in {"ok", "refused"}
    BY <1>14, <2>1 DEF Publishes, OutcomesFollow
  <2>4. results' \in [Commands -> SUBSET {"ok", "refused"}]
    <3>1. results[c] \cup {outcome[<<c, n>>]} \in SUBSET {"ok", "refused"}
      BY <2>3 DEF SendTypes, FieldTypes
    <3> QED BY <1>14, <3>1 DEF Publishes, SendTypes, FieldTypes
  <2> QED BY <1>14, <2>2, <2>4 DEF Publishes, Pays, chatVars, SendTypes, FieldTypes
<1>15. ASSUME NEW c \in Commands, NEW n \in 1..MaxDeliver, Acks(c, n)
      PROVE  FieldTypes'
  <2>1. Nothing \in Script
    BY EmptyTyped DEF Nothing, Script
  <2>2. /\ script' \in [Commands -> Script]
        /\ queue' \in [Commands -> {"new", "ready", "out", "acked"}]
    BY <1>15, <2>1 DEF Acks, SendTypes, FieldTypes
  <2>3. phase' \in [Tasks -> Phases]
    BY <1>15 DEF Acks, SendTypes, FieldTypes, Phases, Ended
  <2> QED BY <1>15, <2>2, <2>3 DEF Acks, Pays, chatVars, SendTypes, FieldTypes
<1>16. ASSUME NEW c \in Commands, NEW n \in 1..MaxDeliver, Naks(c, n)
      PROVE  FieldTypes'
  <2>1. phase' \in [Tasks -> Phases]
    BY <1>16 DEF Naks, SendTypes, FieldTypes, Phases, Ended
  <2>2. queue' \in [Commands -> {"new", "ready", "out", "acked"}]
    BY <1>16 DEF Naks, SendTypes, FieldTypes
  <2> QED BY <1>16, <2>1, <2>2 DEF Naks, Pays, chatVars, SendTypes, FieldTypes
<1> QED BY <1>1, <1>2, <1>3, <1>4, <1>5, <1>6, <1>7, <1>8, <1>9, <1>10, <1>11, <1>12, <1>13,
   <1>14, <1>15, <1>16, NextMoves

\* A step that looks at a recipient finds one.
LEMMA RecipientsStep ==
  ASSUME SendTypes, OutcomesFollow, [SendsNext]_sendsVars
  PROVE  RecipientsAreKnown'
<1>1. CASE UNCHANGED sendsVars
  BY <1>1 DEF SendTypes, RecipientsAreKnown, FieldTypes, sendsVars, chatVars, queueVars,
     taskVars
<1>2. ASSUME NEW r \in Requests, Comes(r)
      PROVE  RecipientsAreKnown'
  BY <1>2, TasksAre, NothingLooks, TailLooks, TodoTyped DEF Comes, Aside, SendTypes,
     RecipientsAreKnown, FieldTypes
<1>3. ASSUME NEW r \in Requests, Replay(r)
      PROVE  RecipientsAreKnown'
  BY <1>3, TasksAre, NothingLooks, TailLooks, TodoTyped DEF Replay, chatVars, queueVars,
     SendTypes, RecipientsAreKnown, FieldTypes
<1>4. ASSUME NEW c \in Commands, Enqueues(c)
      PROVE  RecipientsAreKnown'
  BY <1>4, TasksAre, NothingLooks, TailLooks, TodoTyped DEF Enqueues, chatVars, taskVars,
     SendTypes, RecipientsAreKnown, FieldTypes
<1>5. ASSUME NEW c \in Commands, Delivers(c)
      PROVE  RecipientsAreKnown'
  BY <1>5, TasksAre, NothingLooks, TailLooks, TodoTyped DEF Delivers, chatVars, SendTypes,
     RecipientsAreKnown, FieldTypes
<1>6. ASSUME NEW c \in Commands, Waits(c)
      PROVE  RecipientsAreKnown'
  BY <1>6, TasksAre, NothingLooks, TailLooks, TodoTyped DEF Waits, chatVars, taskVars,
     SendTypes, RecipientsAreKnown, FieldTypes
<1>7. ASSUME NEW t \in Tasks, Passes(t)
      PROVE  RecipientsAreKnown'
  BY <1>7, TasksAre, NothingLooks, TailLooks, TodoTyped DEF Passes, Advances, Aside, SendTypes,
     RecipientsAreKnown, FieldTypes
<1>8. ASSUME NEW t \in Tasks, Stops(t)
      PROVE  RecipientsAreKnown'
  BY <1>8, TasksAre, NothingLooks, TailLooks, TodoTyped DEF Stops, Fails, Aside, SendTypes,
     RecipientsAreKnown, FieldTypes
<1>9. ASSUME NEW t \in Tasks, Records(t)
      PROVE  RecipientsAreKnown'
  BY <1>9, TasksAre, NothingLooks, TailLooks, TodoTyped DEF Records, Advances, Aside, SendTypes,
     RecipientsAreKnown, FieldTypes
<1>10. ASSUME NEW t \in Tasks, Hands(t)
      PROVE  RecipientsAreKnown'
  <2>1. CASE Advances(t)
    BY <1>10, <2>1, TailLooks, TodoTyped DEF Hands, Advances, Aside, SendTypes,
       RecipientsAreKnown, FieldTypes
  <2>2. CASE Fails(t)
    BY <1>10, <2>2, NothingLooks DEF Hands, Fails, Aside, SendTypes, RecipientsAreKnown,
       FieldTypes
  <2> QED BY <1>10, <2>1, <2>2 DEF Hands
<1>11. ASSUME NEW t \in Tasks, Ends(t)
      PROVE  RecipientsAreKnown'
  BY <1>11, TasksAre, NothingLooks, TailLooks, TodoTyped DEF Ends, Aside, SendTypes,
     RecipientsAreKnown, FieldTypes
<1>12. ASSUME NEW T \in SUBSET Tasks, Dies(T)
      PROVE  RecipientsAreKnown'
  BY <1>12, TasksAre, NothingLooks, TailLooks, TodoTyped DEF Dies, Aside, SendTypes,
     RecipientsAreKnown, FieldTypes
<1>13. ASSUME NEW t \in Tasks, Undoes(t)
      PROVE  RecipientsAreKnown'
  <2>1. todo[t] = <<>>
    BY <1>13 DEF Undoes, OutcomesFollow
  <2>2. ~Looks(todo[t])
    BY <2>1, NothingLooks
  <2>3. \A u \in Tasks \ {t} : to'[u] = to[u]
    BY <1>13 DEF Undoes, SendTypes, FieldTypes
  <2> QED BY <1>13, <2>2, <2>3 DEF Undoes, Aside, SendTypes, RecipientsAreKnown
<1>14. ASSUME NEW c \in Commands, NEW n \in 1..MaxDeliver, Publishes(c, n)
      PROVE  RecipientsAreKnown'
  BY <1>14, TasksAre, NothingLooks, TailLooks, TodoTyped DEF Publishes, chatVars, SendTypes,
     RecipientsAreKnown, FieldTypes
<1>15. ASSUME NEW c \in Commands, NEW n \in 1..MaxDeliver, Acks(c, n)
      PROVE  RecipientsAreKnown'
  <2>1. Nothing.todo = <<>>
    BY DEF Nothing
  <2>2. \A d \in Commands : script'[d] \in {script[d], Nothing}
    BY <1>15 DEF Acks, SendTypes, FieldTypes
  <2>3. \A d \in Commands : Looks(script'[d].todo) => script'[d].to \in Chats
    BY <2>1, <2>2, NothingLooks DEF SendTypes, RecipientsAreKnown
  <2> QED BY <1>15, <2>3 DEF Acks, SendTypes, RecipientsAreKnown
<1>16. ASSUME NEW c \in Commands, NEW n \in 1..MaxDeliver, Naks(c, n)
      PROVE  RecipientsAreKnown'
  BY <1>16, TasksAre, NothingLooks, TailLooks, TodoTyped DEF Naks, chatVars, SendTypes,
     RecipientsAreKnown, FieldTypes
<1> QED BY <1>1, <1>2, <1>3, <1>4, <1>5, <1>6, <1>7, <1>8, <1>9, <1>10, <1>11, <1>12, <1>13,
   <1>14, <1>15, <1>16, NextMoves

\* A task has the outcome of its place.
LEMMA OutcomesStep ==
  ASSUME SendTypes, OutcomesFollow, [SendsNext]_sendsVars
  PROVE  OutcomesFollow'
<1>1. CASE UNCHANGED sendsVars
  BY <1>1 DEF OutcomesFollow, SendTypes, FieldTypes, sendsVars, chatVars, queueVars, taskVars
<1>2. ASSUME NEW r \in Requests, Comes(r)
      PROVE  OutcomesFollow'
  BY <1>2, TasksAre DEF Comes, Aside, OutcomesFollow, SendTypes, FieldTypes
<1>3. ASSUME NEW r \in Requests, Replay(r)
      PROVE  OutcomesFollow'
  BY <1>3, TasksAre DEF Replay, chatVars, queueVars, OutcomesFollow, SendTypes, FieldTypes
<1>4. ASSUME NEW c \in Commands, Enqueues(c)
      PROVE  OutcomesFollow'
  BY <1>4, TasksAre DEF Enqueues, chatVars, taskVars, OutcomesFollow, SendTypes, FieldTypes
<1>5. ASSUME NEW c \in Commands, Delivers(c)
      PROVE  OutcomesFollow'
  <2> DEFINE n == delivery[c] + 1
  <2>1. n \in 1..MaxDeliver /\ n > delivery[c]
    BY <1>5, SendsAssumption DEF Delivers, SendTypes, FieldTypes
  <2>2. <<c, n>> \in Tasks /\ n \in 0..MaxDeliver
    BY <2>1, TasksAre
  <2>3. phase[<<c, n>>] = "idle"
    BY <2>1 DEF OutcomesFollow
  <2> HIDE DEF n
  <2>4. /\ \A u \in Tasks : phase'[u] = IF u = <<c, n>> THEN "run" ELSE phase[u]
        /\ \A u \in Tasks : u # <<c, n>> => todo'[u] = todo[u]
        /\ \A d \in Commands : delivery'[d] = IF d = c THEN n ELSE delivery[d]
        /\ UNCHANGED <<counted, outcome>>
    <3>1. /\ phase' = [phase EXCEPT ![<<c, n>>] = "run"]
          /\ todo' = [todo EXCEPT ![<<c, n>>] = script[c].todo]
          /\ delivery' = [delivery EXCEPT ![c] = n]
          /\ UNCHANGED <<counted, outcome>>
      BY <1>5 DEF Delivers, n
    <3>2. /\ phase \in [Tasks -> Phases] /\ todo \in [Tasks -> Seq(Steps)]
          /\ delivery \in [Commands -> 0..MaxDeliver]
      BY DEF SendTypes, FieldTypes
    <3> QED BY <3>1, <3>2
  <2>5. /\ \A d \in Commands : delivery[d] \in Nat /\ delivery'[d] >= delivery[d]
        /\ delivery'[c] = n
    <3>1. \A d \in Commands : delivery[d] \in Nat
      BY SendsAssumption DEF SendTypes, FieldTypes
    <3>2. n > delivery[c] /\ n \in Nat
      BY <3>1 DEF n
    <3> QED BY <2>4, <3>1, <3>2
  <2>6. \A d \in Commands, m \in 1..MaxDeliver :
          m > delivery'[d] => m > delivery[d] /\ <<d, m>> # <<c, n>> /\ <<d, m>> \in Tasks
    <3>1. n \in Nat
      BY <2>2
    <3> QED BY <2>5, TasksAre, <2>4, <3>1
  <2>7. \A u \in Tasks :
          /\ phase'[u] \in {"idle", "parked"} => ~counted'[u]
          /\ phase'[u] \in {"idle", "parked", "run"} => outcome'[u] = "none"
          /\ phase'[u] \in {"publish", "ack"} => outcome'[u] \in {"ok", "refused"}
          /\ phase'[u] \in {"undo", "nak"} => outcome'[u] = "failed"
          /\ phase'[u] \notin {"run", "parked"} => todo'[u] = <<>>
          /\ phase'[u] \in {"parked"} => u \in Requests
          /\ phase'[u] \in {"publish", "ack", "nak"} => u \in Deliveries
    BY <2>2, <2>3, <2>4, SendsAssumption DEF OutcomesFollow
  <2>8. \A d \in Commands, m \in 1..MaxDeliver : m > delivery'[d] => phase'[<<d, m>>] = "idle"
    BY <2>4, <2>6, SendsAssumption DEF OutcomesFollow
  <2> QED BY <2>7, <2>8 DEF OutcomesFollow
<1>6. ASSUME NEW c \in Commands, Waits(c)
      PROVE  OutcomesFollow'
  BY <1>6, TasksAre DEF Waits, chatVars, taskVars, OutcomesFollow, SendTypes, FieldTypes
<1>7. ASSUME NEW t \in Tasks, Passes(t)
      PROVE  OutcomesFollow'
  BY <1>7, TasksAre DEF Passes, Advances, Aside, OutcomesFollow, SendTypes, FieldTypes
<1>8. ASSUME NEW t \in Tasks, Stops(t)
      PROVE  OutcomesFollow'
  BY <1>8, TasksAre DEF Stops, Fails, Aside, OutcomesFollow, SendTypes, FieldTypes
<1>9. ASSUME NEW t \in Tasks, Records(t)
      PROVE  OutcomesFollow'
  BY <1>9, TasksAre DEF Records, Advances, Aside, OutcomesFollow, SendTypes, FieldTypes
<1>10. ASSUME NEW t \in Tasks, Hands(t)
      PROVE  OutcomesFollow'
  BY <1>10, TasksAre DEF Hands, Advances, Fails, Aside, OutcomesFollow, SendTypes, FieldTypes
<1>11. ASSUME NEW t \in Tasks, Ends(t)
      PROVE  OutcomesFollow'
  BY <1>11, TasksAre DEF Ends, Aside, OutcomesFollow, SendTypes, FieldTypes
<1>12. ASSUME NEW T \in SUBSET Tasks, Dies(T)
      PROVE  OutcomesFollow'
  BY <1>12, TasksAre DEF Dies, Aside, OutcomesFollow, SendTypes, FieldTypes
<1>13. ASSUME NEW t \in Tasks, Undoes(t)
      PROVE  OutcomesFollow'
  BY <1>13, TasksAre DEF Undoes, Aside, OutcomesFollow, SendTypes, FieldTypes
<1>14. ASSUME NEW c \in Commands, NEW n \in 1..MaxDeliver, Publishes(c, n)
      PROVE  OutcomesFollow'
  <2>1. <<c, n>> \in Tasks /\ <<c, n>> \in Deliveries
    BY TasksAre
  <2>2. /\ outcome[<<c, n>>] \in {"ok", "refused"} /\ n <= delivery[c]
        /\ \A u \in Tasks : phase'[u] = IF u = <<c, n>> THEN "ack" ELSE phase[u]
        /\ UNCHANGED <<counted, outcome, todo, delivery>>
    BY <1>14, <2>1 DEF Publishes, OutcomesFollow, SendTypes, FieldTypes
  <2>3. \A d \in Commands, m \in 1..MaxDeliver :
          m > delivery[d] => <<d, m>> # <<c, n>> /\ <<d, m>> \in Tasks
    BY <2>2, TasksAre DEF SendTypes, FieldTypes
  <2> QED BY <2>1, <2>2, <2>3 DEF OutcomesFollow
<1>15. ASSUME NEW c \in Commands, NEW n \in 1..MaxDeliver, Acks(c, n)
      PROVE  OutcomesFollow'
  <2>1. <<c, n>> \in Tasks
    BY TasksAre
  <2>2. /\ \A u \in Tasks : phase'[u] = IF u = <<c, n>> THEN "done" ELSE phase[u]
        /\ phase[<<c, n>>] = "ack" /\ UNCHANGED <<counted, outcome, todo, delivery>>
    BY <1>15, <2>1 DEF Acks, SendTypes, FieldTypes
  <2>3. n <= delivery[c] /\ todo[<<c, n>>] = <<>>
    BY <2>1, <2>2, SendsAssumption DEF OutcomesFollow, SendTypes, FieldTypes
  <2>4. \A d \in Commands, m \in 1..MaxDeliver :
          m > delivery[d] => <<d, m>> # <<c, n>> /\ <<d, m>> \in Tasks
    BY <2>3, TasksAre DEF SendTypes, FieldTypes
  <2> QED BY <2>1, <2>2, <2>3, <2>4 DEF OutcomesFollow
<1>16. ASSUME NEW c \in Commands, NEW n \in 1..MaxDeliver, Naks(c, n)
      PROVE  OutcomesFollow'
  <2>1. <<c, n>> \in Tasks
    BY TasksAre
  <2>2. /\ \A u \in Tasks : phase'[u] = IF u = <<c, n>> THEN "done" ELSE phase[u]
        /\ phase[<<c, n>>] = "nak" /\ UNCHANGED <<counted, outcome, todo, delivery>>
    BY <1>16, <2>1 DEF Naks, SendTypes, FieldTypes
  <2>3. n <= delivery[c] /\ todo[<<c, n>>] = <<>>
    BY <2>1, <2>2, SendsAssumption DEF OutcomesFollow, SendTypes, FieldTypes
  <2>4. \A d \in Commands, m \in 1..MaxDeliver :
          m > delivery[d] => <<d, m>> # <<c, n>> /\ <<d, m>> \in Tasks
    BY <2>3, TasksAre DEF SendTypes, FieldTypes
  <2> QED BY <2>1, <2>2, <2>3, <2>4 DEF OutcomesFollow
<1> QED BY <1>1, <1>2, <1>3, <1>4, <1>5, <1>6, <1>7, <1>8, <1>9, <1>10, <1>11, <1>12, <1>13,
   <1>14, <1>15, <1>16, NextMoves

\* What is out was handed over.
LEMMA OutStep ==
  ASSUME SendTypes, OutcomesFollow, OutIsDelivered, [SendsNext]_sendsVars
  PROVE  OutIsDelivered'
<1>1. CASE UNCHANGED sendsVars
  BY <1>1 DEF OutIsDelivered, SendTypes, FieldTypes, sendsVars, chatVars, queueVars, taskVars
<1>2. ASSUME NEW r \in Requests, Comes(r)
      PROVE  OutIsDelivered'
  BY <1>2 DEF Comes, Aside, OutIsDelivered, SendTypes, FieldTypes
<1>3. ASSUME NEW r \in Requests, Replay(r)
      PROVE  OutIsDelivered'
  BY <1>3 DEF Replay, chatVars, queueVars, OutIsDelivered, SendTypes, FieldTypes
<1>4. ASSUME NEW c \in Commands, Enqueues(c)
      PROVE  OutIsDelivered'
  BY <1>4 DEF Enqueues, chatVars, taskVars, OutIsDelivered, SendTypes, FieldTypes
<1>5. ASSUME NEW c \in Commands, Delivers(c)
      PROVE  OutIsDelivered'
  BY <1>5, SendsAssumption DEF Delivers, chatVars, OutIsDelivered, SendTypes, FieldTypes
<1>6. ASSUME NEW c \in Commands, Waits(c)
      PROVE  OutIsDelivered'
  BY <1>6 DEF Waits, chatVars, taskVars, OutIsDelivered, SendTypes, FieldTypes
<1>7. ASSUME NEW t \in Tasks, Passes(t)
      PROVE  OutIsDelivered'
  BY <1>7 DEF Passes, Advances, Aside, OutIsDelivered, SendTypes, FieldTypes
<1>8. ASSUME NEW t \in Tasks, Stops(t)
      PROVE  OutIsDelivered'
  BY <1>8 DEF Stops, Fails, Aside, OutIsDelivered, SendTypes, FieldTypes
<1>9. ASSUME NEW t \in Tasks, Records(t)
      PROVE  OutIsDelivered'
  BY <1>9 DEF Records, Advances, Aside, OutIsDelivered, SendTypes, FieldTypes
<1>10. ASSUME NEW t \in Tasks, Hands(t)
      PROVE  OutIsDelivered'
  BY <1>10 DEF Hands, Advances, Fails, Aside, OutIsDelivered, SendTypes, FieldTypes
<1>11. ASSUME NEW t \in Tasks, Ends(t)
      PROVE  OutIsDelivered'
  BY <1>11 DEF Ends, Aside, OutIsDelivered, SendTypes, FieldTypes
<1>12. ASSUME NEW T \in SUBSET Tasks, Dies(T)
      PROVE  OutIsDelivered'
  BY <1>12 DEF Dies, Aside, OutIsDelivered, SendTypes, FieldTypes
<1>13. ASSUME NEW t \in Tasks, Undoes(t)
      PROVE  OutIsDelivered'
  BY <1>13 DEF Undoes, Aside, OutIsDelivered, SendTypes, FieldTypes
<1>14. ASSUME NEW c \in Commands, NEW n \in 1..MaxDeliver, Publishes(c, n)
      PROVE  OutIsDelivered'
  BY <1>14 DEF Publishes, chatVars, OutIsDelivered, SendTypes, FieldTypes
<1>15. ASSUME NEW c \in Commands, NEW n \in 1..MaxDeliver, Acks(c, n)
      PROVE  OutIsDelivered'
  BY <1>15 DEF Acks, chatVars, OutIsDelivered, SendTypes, FieldTypes
<1>16. ASSUME NEW c \in Commands, NEW n \in 1..MaxDeliver, Naks(c, n)
      PROVE  OutIsDelivered'
  BY <1>16 DEF Naks, chatVars, OutIsDelivered, SendTypes, FieldTypes
<1> QED BY <1>1, <1>2, <1>3, <1>4, <1>5, <1>6, <1>7, <1>8, <1>9, <1>10, <1>11, <1>12, <1>13,
   <1>14, <1>15, <1>16, NextMoves

\* Nothing is taken back.
LEMMA FrameStep ==
  ASSUME SendTypes, OutcomesFollow, [SendsNext]_sendsVars
  PROVE  Frame
<1>1. CASE UNCHANGED sendsVars
  BY <1>1, TasksAre, CountersAre DEF Frame, SendTypes, FieldTypes, Pays, OutcomesFollow,
     sendsVars,
     chatVars, queueVars, taskVars
<1>2. ASSUME NEW r \in Requests, Comes(r)
      PROVE  Frame
  BY <1>2, TasksAre, CountersAre DEF Comes, Aside, Frame, SendTypes, FieldTypes, Pays,
     OutcomesFollow
<1>3. ASSUME NEW r \in Requests, Replay(r)
      PROVE  Frame
  BY <1>3, TasksAre, CountersAre DEF Replay, chatVars, queueVars, Frame, SendTypes,
     FieldTypes, Pays, OutcomesFollow
<1>4. ASSUME NEW c \in Commands, Enqueues(c)
      PROVE  Frame
  BY <1>4, TasksAre, CountersAre DEF Enqueues, chatVars, taskVars, Frame, SendTypes,
     FieldTypes, Pays, OutcomesFollow
<1>5. ASSUME NEW c \in Commands, Delivers(c)
      PROVE  Frame
  BY <1>5, TasksAre, CountersAre DEF Delivers, chatVars, Frame, SendTypes, FieldTypes, Pays,
     OutcomesFollow
<1>6. ASSUME NEW c \in Commands, Waits(c)
      PROVE  Frame
  BY <1>6, TasksAre, CountersAre DEF Waits, chatVars, taskVars, Frame, SendTypes,
     FieldTypes, Pays, OutcomesFollow
<1>7. ASSUME NEW t \in Tasks, Passes(t)
      PROVE  Frame
  BY <1>7, TasksAre, CountersAre DEF Passes, Advances, Aside, Frame, SendTypes, FieldTypes,
     Pays, OutcomesFollow
<1>8. ASSUME NEW t \in Tasks, Stops(t)
      PROVE  Frame
  BY <1>8, TasksAre, CountersAre DEF Stops, Fails, Aside, Frame, SendTypes, FieldTypes, Pays,
     OutcomesFollow
<1>9. ASSUME NEW t \in Tasks, Records(t)
      PROVE  Frame
  BY <1>9, TasksAre, CountersAre DEF Records, Advances, Aside, Frame, SendTypes, FieldTypes,
     Pays, OutcomesFollow
<1>10. ASSUME NEW t \in Tasks, Hands(t)
      PROVE  Frame
  BY <1>10, TasksAre, CountersAre DEF Hands, Advances, Fails, Aside, Frame, SendTypes,
     FieldTypes, Pays, OutcomesFollow
<1>11. ASSUME NEW t \in Tasks, Ends(t)
      PROVE  Frame
  BY <1>11, TasksAre, CountersAre DEF Ends, Aside, Frame, SendTypes, FieldTypes, Pays,
     OutcomesFollow
<1>12. ASSUME NEW T \in SUBSET Tasks, Dies(T)
      PROVE  Frame
  BY <1>12, TasksAre, CountersAre DEF Dies, Aside, Frame, SendTypes, FieldTypes, Pays,
     OutcomesFollow
<1>13. ASSUME NEW t \in Tasks, Undoes(t)
      PROVE  Frame
  BY <1>13, TasksAre, CountersAre DEF Undoes, Aside, Frame, SendTypes, FieldTypes, Pays,
     OutcomesFollow
<1>14. ASSUME NEW c \in Commands, NEW n \in 1..MaxDeliver, Publishes(c, n)
      PROVE  Frame
  <2>1. <<c, n>> \in Tasks
    BY TasksAre
  <2>2. \A d \in Commands : results[d] \subseteq results'[d]
    BY <1>14 DEF Publishes, SendTypes, FieldTypes
  <2>3. failures' \in Nat /\ failures' >= failures /\ UNCHANGED <<outcome, taken>>
    BY <1>14, CountersAre DEF Publishes, Pays
  <2> QED BY <2>2, <2>3, CountersAre DEF Frame
<1>15. ASSUME NEW c \in Commands, NEW n \in 1..MaxDeliver, Acks(c, n)
      PROVE  Frame
  BY <1>15, TasksAre, CountersAre DEF Acks, chatVars, Frame, SendTypes, FieldTypes, Pays,
     OutcomesFollow
<1>16. ASSUME NEW c \in Commands, NEW n \in 1..MaxDeliver, Naks(c, n)
      PROVE  Frame
  BY <1>16, TasksAre, CountersAre DEF Naks, chatVars, Frame, SendTypes, FieldTypes, Pays,
     OutcomesFollow
<1> QED BY <1>1, <1>2, <1>3, <1>4, <1>5, <1>6, <1>7, <1>8, <1>9, <1>10, <1>11, <1>12, <1>13,
   <1>14, <1>15, <1>16, NextMoves

\* Whoever acks a command, and whoever is about to, is no other than before.
LEMMA AckedKept ==
  ASSUME SendTypes, AckedIsEarned, Frame,
         \A c \in Commands : queue'[c] = "acked" => queue[c] = "acked",
         \A t \in Tasks : phase'[t] = "ack" => phase[t] = "ack"
  PROVE  AckedIsEarned'
<1>1. failures' = 0 => failures = 0
  BY DEF Frame
<1>2. \A c \in Commands, n \in 1..MaxDeliver :
        /\ phase'[<<c, n>>] = "ack" => phase[<<c, n>>] = "ack"
        /\ outcome[<<c, n>>] \in {"ok", "refused"} => outcome'[<<c, n>>] = outcome[<<c, n>>]
  BY TasksAre DEF Frame
<1>3. \A c \in Commands : results[c] # {} => results'[c] # {}
  BY DEF Frame
<1>4. \A c \in Commands : queue'[c] = "acked" =>
        \E n \in 1..MaxDeliver : outcome'[<<c, n>>] \in {"ok", "refused"}
  BY <1>2 DEF AckedIsEarned
<1>5. \A c \in Commands : queue'[c] = "acked" /\ failures' = 0 => results'[c] # {}
  BY <1>1, <1>3 DEF AckedIsEarned
<1>6. \A c \in Commands, n \in 1..MaxDeliver :
        phase'[<<c, n>>] = "ack" /\ failures' = 0 => results'[c] # {}
  BY <1>1, <1>2, <1>3 DEF AckedIsEarned
<1> QED BY <1>4, <1>5, <1>6 DEF AckedIsEarned

\* Acked commands stay earned.
LEMMA AckedStep ==
  ASSUME SendTypes, OutcomesFollow, AckedIsEarned, [SendsNext]_sendsVars
  PROVE  AckedIsEarned'
<1>1. CASE UNCHANGED sendsVars
  BY <1>1 DEF AckedIsEarned, Frame, OutcomesFollow, SendTypes, FieldTypes, Ended, sendsVars,
     chatVars, queueVars, taskVars
<1>2. ASSUME NEW r \in Requests, Comes(r)
      PROVE  AckedIsEarned'
  <2>1. \A d \in Commands : queue'[d] = "acked" => queue[d] = "acked"
    BY <1>2 DEF Comes, Aside, SendTypes, FieldTypes
  <2>2. \A u \in Tasks : phase'[u] = "ack" => phase[u] = "ack"
    BY <1>2, TasksAre DEF Comes, Aside, SendTypes, FieldTypes
  <2> QED BY <2>1, <2>2, FrameStep, AckedKept
<1>3. ASSUME NEW r \in Requests, Replay(r)
      PROVE  AckedIsEarned'
  <2>1. \A d \in Commands : queue'[d] = "acked" => queue[d] = "acked"
    BY <1>3 DEF Replay, chatVars, queueVars, SendTypes, FieldTypes
  <2>2. \A u \in Tasks : phase'[u] = "ack" => phase[u] = "ack"
    BY <1>3, TasksAre DEF Replay, chatVars, queueVars, SendTypes, FieldTypes
  <2> QED BY <2>1, <2>2, FrameStep, AckedKept
<1>4. ASSUME NEW c \in Commands, Enqueues(c)
      PROVE  AckedIsEarned'
  <2>1. \A d \in Commands : queue'[d] = "acked" => queue[d] = "acked"
    BY <1>4 DEF Enqueues, chatVars, taskVars, SendTypes, FieldTypes
  <2>2. \A u \in Tasks : phase'[u] = "ack" => phase[u] = "ack"
    BY <1>4, TasksAre DEF Enqueues, chatVars, taskVars, SendTypes, FieldTypes
  <2> QED BY <2>1, <2>2, FrameStep, AckedKept
<1>5. ASSUME NEW c \in Commands, Delivers(c)
      PROVE  AckedIsEarned'
  <2>1. \A d \in Commands : queue'[d] = "acked" => queue[d] = "acked"
    BY <1>5 DEF Delivers, chatVars, SendTypes, FieldTypes
  <2>2. \A u \in Tasks : phase'[u] = "ack" => phase[u] = "ack"
    BY <1>5, TasksAre DEF Delivers, chatVars, SendTypes, FieldTypes
  <2> QED BY <2>1, <2>2, FrameStep, AckedKept
<1>6. ASSUME NEW c \in Commands, Waits(c)
      PROVE  AckedIsEarned'
  <2>1. \A d \in Commands : queue'[d] = "acked" => queue[d] = "acked"
    BY <1>6 DEF Waits, chatVars, taskVars, SendTypes, FieldTypes
  <2>2. \A u \in Tasks : phase'[u] = "ack" => phase[u] = "ack"
    BY <1>6, TasksAre DEF Waits, chatVars, taskVars, SendTypes, FieldTypes
  <2> QED BY <2>1, <2>2, FrameStep, AckedKept
<1>7. ASSUME NEW t \in Tasks, Passes(t)
      PROVE  AckedIsEarned'
  <2>1. \A d \in Commands : queue'[d] = "acked" => queue[d] = "acked"
    BY <1>7 DEF Passes, Advances, Aside, SendTypes, FieldTypes
  <2>2. \A u \in Tasks : phase'[u] = "ack" => phase[u] = "ack"
    BY <1>7, TasksAre DEF Passes, Advances, Aside, SendTypes, FieldTypes
  <2> QED BY <2>1, <2>2, FrameStep, AckedKept
<1>8. ASSUME NEW t \in Tasks, Stops(t)
      PROVE  AckedIsEarned'
  <2>1. \A d \in Commands : queue'[d] = "acked" => queue[d] = "acked"
    BY <1>8 DEF Stops, Fails, Aside, SendTypes, FieldTypes
  <2>2. \A u \in Tasks : phase'[u] = "ack" => phase[u] = "ack"
    BY <1>8, TasksAre DEF Stops, Fails, Aside, SendTypes, FieldTypes
  <2> QED BY <2>1, <2>2, FrameStep, AckedKept
<1>9. ASSUME NEW t \in Tasks, Records(t)
      PROVE  AckedIsEarned'
  <2>1. \A d \in Commands : queue'[d] = "acked" => queue[d] = "acked"
    BY <1>9 DEF Records, Advances, Aside, SendTypes, FieldTypes
  <2>2. \A u \in Tasks : phase'[u] = "ack" => phase[u] = "ack"
    BY <1>9, TasksAre DEF Records, Advances, Aside, SendTypes, FieldTypes
  <2> QED BY <2>1, <2>2, FrameStep, AckedKept
<1>10. ASSUME NEW t \in Tasks, Hands(t)
      PROVE  AckedIsEarned'
  <2>1. \A d \in Commands : queue'[d] = "acked" => queue[d] = "acked"
    BY <1>10 DEF Hands, Advances, Fails, Aside, SendTypes, FieldTypes
  <2>2. \A u \in Tasks : phase'[u] = "ack" => phase[u] = "ack"
    BY <1>10, TasksAre DEF Hands, Advances, Fails, Aside, SendTypes, FieldTypes
  <2> QED BY <2>1, <2>2, FrameStep, AckedKept
<1>11. ASSUME NEW t \in Tasks, Ends(t)
      PROVE  AckedIsEarned'
  <2>1. \A d \in Commands : queue'[d] = "acked" => queue[d] = "acked"
    BY <1>11 DEF Ends, Aside, SendTypes, FieldTypes
  <2>2. \A u \in Tasks : phase'[u] = "ack" => phase[u] = "ack"
    BY <1>11, TasksAre DEF Ends, Aside, SendTypes, FieldTypes
  <2> QED BY <2>1, <2>2, FrameStep, AckedKept
<1>12. ASSUME NEW T \in SUBSET Tasks, Dies(T)
      PROVE  AckedIsEarned'
  <2>1. \A d \in Commands : queue'[d] = "acked" => queue[d] = "acked"
    BY <1>12 DEF Dies, Aside, SendTypes, FieldTypes
  <2>2. \A u \in Tasks : phase'[u] = "ack" => phase[u] = "ack"
    BY <1>12, TasksAre DEF Dies, Aside, SendTypes, FieldTypes
  <2> QED BY <2>1, <2>2, FrameStep, AckedKept
<1>13. ASSUME NEW t \in Tasks, Undoes(t)
      PROVE  AckedIsEarned'
  <2>1. \A d \in Commands : queue'[d] = "acked" => queue[d] = "acked"
    BY <1>13 DEF Undoes, Aside, SendTypes, FieldTypes
  <2>2. \A u \in Tasks : phase'[u] = "ack" => phase[u] = "ack"
    BY <1>13, TasksAre DEF Undoes, Aside, SendTypes, FieldTypes
  <2> QED BY <2>1, <2>2, FrameStep, AckedKept
<1>14. ASSUME NEW c \in Commands, NEW n \in 1..MaxDeliver, Publishes(c, n)
      PROVE  AckedIsEarned'
  <2>1. <<c, n>> \in Tasks /\ UNCHANGED queue
    BY <1>14, TasksAre DEF Publishes
  <2>2. \A u \in Tasks : u # <<c, n>> => (phase'[u] = "ack" => phase[u] = "ack")
    BY <1>14 DEF Publishes, SendTypes, FieldTypes
  <2>3. failures' = 0 => results'[c] # {}
    <3>1. failures + 1 # 0 /\ failures \in Nat
      BY CountersAre
    <3> DEFINE x == results[c] \cup {outcome[<<c, n>>]}
    <3>2. results' = [results EXCEPT ![c] = x] => results'[c] # {}
      <4>1. x # {} /\ results \in [Commands -> SUBSET {"ok", "refused"}]
        BY DEF SendTypes, FieldTypes
      <4> HIDE DEF x
      <4> QED BY <4>1
    <3> QED BY <1>14, <3>1, <3>2 DEF Publishes
  <2>4. \A d \in Commands, m \in 1..MaxDeliver :
          <<d, m>> \in Tasks /\ (<<d, m>> = <<c, n>> => d = c)
    BY TasksAre
  <2>5. \A d \in Commands, m \in 1..MaxDeliver :
          phase'[<<d, m>>] = "ack" /\ failures' = 0 => results'[d] # {}
    BY <2>2, <2>3, <2>4, FrameStep DEF Frame, AckedIsEarned
  <2>6. \A d \in Commands : queue'[d] = "acked" /\ failures' = 0 => results'[d] # {}
    BY <2>1, FrameStep DEF Frame, AckedIsEarned
  <2>7. \A d \in Commands : queue'[d] = "acked" =>
          \E m \in 1..MaxDeliver : outcome'[<<d, m>>] \in {"ok", "refused"}
    BY <1>14, <2>1 DEF Publishes, AckedIsEarned
  <2> QED BY <2>5, <2>6, <2>7 DEF AckedIsEarned
<1>15. ASSUME NEW c \in Commands, NEW n \in 1..MaxDeliver, Acks(c, n)
      PROVE  AckedIsEarned'
  <2>1. <<c, n>> \in Tasks /\ UNCHANGED <<outcome, results>>
    BY <1>15, TasksAre DEF Acks
  <2>2. \A d \in Commands : queue'[d] = "acked" => queue[d] = "acked" \/ d = c
    BY <1>15 DEF Acks, SendTypes, FieldTypes
  <2>3. \A u \in Tasks : phase'[u] = "ack" => phase[u] = "ack"
    BY <1>15 DEF Acks, SendTypes, FieldTypes
  <2>4. phase[<<c, n>>] = "ack" /\ outcome[<<c, n>>] \in {"ok", "refused"}
    BY <1>15, <2>1 DEF Acks, OutcomesFollow
  <2>5. failures' = 0 => failures = 0
    BY FrameStep DEF Frame
  <2>6. \A d \in Commands, m \in 1..MaxDeliver :
          phase'[<<d, m>>] = "ack" /\ failures' = 0 => results'[d] # {}
    BY <2>1, <2>3, <2>5, TasksAre DEF AckedIsEarned
  <2>7. \A d \in Commands : queue'[d] = "acked" /\ failures' = 0 => results'[d] # {}
    BY <2>1, <2>2, <2>4, <2>5 DEF AckedIsEarned
  <2>8. \A d \in Commands : queue'[d] = "acked" =>
          \E m \in 1..MaxDeliver : outcome'[<<d, m>>] \in {"ok", "refused"}
    BY <2>1, <2>2, <2>4 DEF AckedIsEarned
  <2> QED BY <2>6, <2>7, <2>8 DEF AckedIsEarned
<1>16. ASSUME NEW c \in Commands, NEW n \in 1..MaxDeliver, Naks(c, n)
      PROVE  AckedIsEarned'
  <2>1. \A d \in Commands : queue'[d] = "acked" => queue[d] = "acked"
    BY <1>16 DEF Naks, chatVars, SendTypes, FieldTypes
  <2>2. \A u \in Tasks : phase'[u] = "ack" => phase[u] = "ack"
    BY <1>16, TasksAre DEF Naks, chatVars, SendTypes, FieldTypes
  <2> QED BY <2>1, <2>2, FrameStep, AckedKept
<1> QED BY <1>1, <1>2, <1>3, <1>4, <1>5, <1>6, <1>7, <1>8, <1>9, <1>10, <1>11, <1>12, <1>13,
   <1>14, <1>15, <1>16, NextMoves

\* Scripts with nothing left.
LEMMA EmptySends == ~OneSend(<<>>) /\ NoSend(<<>>) /\ SendLast(<<>>)
  BY DEF OneSend, NoSend, SendLast

\* As long as nothing is handed over, what is left to do and what was done fit together.
LEMMA CopiesKept ==
  ASSUME SendTypes, OutcomesFollow, CopiesFollow, Frame, Steady
  PROVE  CopiesFollow'
<1>1. ASSUME NEW t \in Tasks, phase[t] \in {"run", "parked"}
      PROVE  todo[t] \in Seq(Steps) /\ (todo[t] = <<>> => taken[OrderOf(t)] > 0)
  <2>1. todo[t] \in Seq(Steps)
    BY TodoTyped
  <2>2. CASE t \in Requests
    BY <1>1, <2>1, <2>2, TasksAre, EmptySends DEF CopiesFollow, RequestFollows
  <2>3. CASE t \notin Requests
    <3>1. PICK c \in Commands, n \in 1..MaxDeliver : t = <<c, n>> /\ OrderOf(t) = c
      BY <2>3, TasksAre
    <3>2. phase[t] = "run"
      BY <1>1, <2>3 DEF OutcomesFollow
    <3> QED BY <2>1, <3>1, <3>2 DEF CopiesFollow, CommandFollows
  <2> QED BY <2>2, <2>3
<1>2. ASSUME NEW r \in Requests
      PROVE  RequestFollows(r)'
  <2>1. r \in Tasks /\ taken'[r] = taken[r] /\ RequestFollows(r)
    BY TasksAre DEF CopiesFollow, Steady
  <2>2. phase'[r] \in {"idle", "parked"} => taken'[r] = 0
    BY <2>1 DEF RequestFollows, Steady
  <2>3. ASSUME phase'[r] \in {"parked", "run"}
        PROVE  \/ taken'[r] = 0 /\ OneSend(todo'[r])
               \/ taken'[r] = 1 /\ NoSend(todo'[r])
    <3>1. Moved(r)
      BY <2>1, <2>3 DEF Steady
    <3>2. CASE phase[r] \in {"run", "parked"} /\ todo'[r] = todo[r]
      BY <2>1, <3>2 DEF RequestFollows
    <3>3. CASE /\ phase[r] \in {"run", "parked"} /\ todo[r] # <<>>
               /\ Head(todo[r]) # "send" /\ todo'[r] = Tail(todo[r])
      BY <1>1, <2>1, <3>3, TailSends DEF RequestFollows
    <3>4. CASE phase[r] = "idle" /\ OneSend(todo'[r])
      BY <2>1, <3>4 DEF RequestFollows
    <3> QED BY <3>1, <3>2, <3>3, <3>4 DEF Moved
  <2> QED BY <2>1, <2>2, <2>3 DEF RequestFollows
<1>3. ASSUME NEW c \in Commands
      PROVE  CommandFollows(c)'
  <2>1. CommandFollows(c) /\ taken'[c] = taken[c]
    BY DEF CopiesFollow, Steady
  <2>2. ASSUME NEW n \in 1..MaxDeliver, phase'[<<c, n>>] = "run"
        PROVE  /\ SendLast(todo'[<<c, n>>])
               /\ todo'[<<c, n>>] = <<>> => taken'[c] > 0
    <3> DEFINE t == <<c, n>>
    <3>1. t \in Tasks /\ t \notin Requests /\ t[1] = c
      BY TasksAre
    <3>2. Moved(t)
      BY <2>2, <3>1 DEF Steady
    <3>3. phase[t] \in {"run", "parked"} => phase[t] = "run" /\ todo[t] \in Seq(Steps)
      BY <1>1, <3>1 DEF OutcomesFollow
    <3>4. CASE phase[t] \in {"run", "parked"} /\ todo'[t] = todo[t]
      BY <2>1, <3>3, <3>4 DEF CommandFollows
    <3>5. CASE /\ phase[t] \in {"run", "parked"} /\ todo[t] # <<>>
               /\ Head(todo[t]) # "send" /\ todo'[t] = Tail(todo[t])
      <4>1. SendLast(todo[t])
        BY <2>1, <3>3, <3>5 DEF CommandFollows
      <4> HIDE DEF t
      <4>2. SendLast(Tail(todo[t])) /\ Tail(todo[t]) # <<>>
        BY <3>3, <3>5, <4>1, TailLast
      <4> QED BY <3>5, <4>2 DEF t
    <3>6. CASE queue[c] = "ready" /\ todo'[t] = script[c].todo
      BY <2>1, <3>6 DEF CommandFollows
    <3> QED BY <3>1, <3>2, <3>4, <3>5, <3>6 DEF Moved
  <2>3. "ok" \in results'[c] => taken'[c] > 0
    <3>1. \A n \in 1..MaxDeliver : outcome[<<c, n>>] = "ok" => taken[c] > 0
      <4>1. \A n \in 1..MaxDeliver : <<c, n>> \in Tasks /\ OrderOf(<<c, n>>) = c
        BY TasksAre
      <4> QED BY <4>1 DEF CopiesFollow
    <3> QED BY <2>1, <3>1 DEF CommandFollows, Steady
  <2>4. queue'[c] \in {"ready", "out"} => script'[c].todo # <<>> /\ SendLast(script'[c].todo)
    BY <2>1 DEF CommandFollows, Steady
  <2> QED BY <2>2, <2>3, <2>4 DEF CommandFollows
<1>4. \A t \in Tasks : outcome'[t] = "ok" => taken'[OrderOf(t)] > 0
  BY <1>1 DEF CopiesFollow, Steady
<1> QED BY <1>2, <1>3, <1>4 DEF CopiesFollow

\* Scripts and copies stay together.
LEMMA CopiesStep ==
  ASSUME SendTypes, OutcomesFollow, CopiesFollow, [SendsNext]_sendsVars
  PROVE  CopiesFollow'
<1>1. CASE UNCHANGED sendsVars
  BY <1>1 DEF CopiesFollow, RequestFollows, CommandFollows, SendTypes, FieldTypes, sendsVars,
     chatVars, queueVars, taskVars
<1>2. ASSUME NEW r \in Requests, Comes(r)
      PROVE  CopiesFollow'
  <2>1. \A u \in Tasks : phase'[u] \in {"run", "parked"} => Moved(u)
    BY <1>2, TasksAre DEF Comes, Aside, Moved, SendTypes, FieldTypes, Ended
  <2>2. \A u \in Tasks : phase'[u] \in {"idle", "parked"} => phase[u] \in {"idle", "parked"}
    BY <1>2, TasksAre DEF Comes, Aside, SendTypes, FieldTypes, Ended
  <2>3. \A d \in Commands : queue'[d] \in {"ready", "out"} =>
          queue[d] \in {"ready", "out"} /\ script'[d] = script[d]
    BY <1>2 DEF Comes, Aside, SendTypes, FieldTypes
  <2>4. \A d \in Commands : "ok" \in results'[d] => "ok" \in results[d]
    BY <1>2 DEF Comes, Aside
  <2>5. \A u \in Tasks : outcome'[u] = "ok" => outcome[u] = "ok"
    BY <1>2 DEF Comes, Aside, SendTypes, FieldTypes, OutcomesFollow
  <2>6. UNCHANGED taken
    BY <1>2 DEF Comes, Aside
  <2>7. Steady
    BY <2>1, <2>2, <2>3, <2>4, <2>5, <2>6 DEF Steady
  <2> QED BY <2>7, FrameStep, CopiesKept
<1>3. ASSUME NEW r \in Requests, Replay(r)
      PROVE  CopiesFollow'
  <2>1. \A u \in Tasks : phase'[u] \in {"run", "parked"} => Moved(u)
    BY <1>3, TasksAre DEF Replay, chatVars, queueVars, Moved, SendTypes, FieldTypes,
       Ended
  <2>2. \A u \in Tasks : phase'[u] \in {"idle", "parked"} => phase[u] \in {"idle", "parked"}
    BY <1>3, TasksAre DEF Replay, chatVars, queueVars, SendTypes, FieldTypes, Ended
  <2>3. \A d \in Commands : queue'[d] \in {"ready", "out"} =>
          queue[d] \in {"ready", "out"} /\ script'[d] = script[d]
    BY <1>3 DEF Replay, chatVars, queueVars, SendTypes, FieldTypes
  <2>4. \A d \in Commands : "ok" \in results'[d] => "ok" \in results[d]
    BY <1>3 DEF Replay, chatVars, queueVars
  <2>5. \A u \in Tasks : outcome'[u] = "ok" => outcome[u] = "ok"
    BY <1>3 DEF Replay, chatVars, queueVars, SendTypes, FieldTypes, OutcomesFollow
  <2>6. UNCHANGED taken
    BY <1>3 DEF Replay, chatVars, queueVars
  <2>7. Steady
    BY <2>1, <2>2, <2>3, <2>4, <2>5, <2>6 DEF Steady
  <2> QED BY <2>7, FrameStep, CopiesKept
<1>4. ASSUME NEW c \in Commands, Enqueues(c)
      PROVE  CopiesFollow'
  <2>1. \A u \in Tasks : phase'[u] \in {"run", "parked"} => Moved(u)
    BY <1>4, TasksAre DEF Enqueues, chatVars, taskVars, Moved, SendTypes, FieldTypes,
       Ended
  <2>2. \A u \in Tasks : phase'[u] \in {"idle", "parked"} => phase[u] \in {"idle", "parked"}
    BY <1>4, TasksAre DEF Enqueues, chatVars, taskVars, SendTypes, FieldTypes, Ended
  <2>3. \A d \in Commands : queue'[d] \in {"ready", "out"} =>
          \/ queue[d] \in {"ready", "out"} /\ script'[d] = script[d]
          \/ script'[d].todo # <<>> /\ SendLast(script'[d].todo)
    BY <1>4 DEF Enqueues, chatVars, taskVars, SendTypes, FieldTypes
  <2>4. \A d \in Commands : "ok" \in results'[d] => "ok" \in results[d]
    BY <1>4 DEF Enqueues, chatVars, taskVars
  <2>5. \A u \in Tasks : outcome'[u] = "ok" => outcome[u] = "ok"
    BY <1>4 DEF Enqueues, chatVars, taskVars, SendTypes, FieldTypes, OutcomesFollow
  <2>6. UNCHANGED taken
    BY <1>4 DEF Enqueues, chatVars, taskVars
  <2>7. Steady
    BY <2>1, <2>2, <2>3, <2>4, <2>5, <2>6 DEF Steady
  <2> QED BY <2>7, FrameStep, CopiesKept
<1>5. ASSUME NEW c \in Commands, Delivers(c)
      PROVE  CopiesFollow'
  <2>0. /\ delivery[c] + 1 \in 1..MaxDeliver /\ <<c, delivery[c] + 1>>[1] = c
        /\ <<c, delivery[c] + 1>> \in Tasks \ Requests
    <3>1. delivery[c] + 1 \in 1..MaxDeliver
      BY <1>5, SendsAssumption DEF Delivers, SendTypes, FieldTypes
    <3> QED BY <3>1, TasksAre
  <2>1. \A u \in Tasks : phase'[u] \in {"run", "parked"} => Moved(u)
    <3> DEFINE v == <<c, delivery[c] + 1>>
    <3>1. /\ v \in Tasks \ Requests /\ v[1] = c
          /\ queue[c] = "ready" /\ phase' = [phase EXCEPT ![v] = "run"]
          /\ todo' = [todo EXCEPT ![v] = script[c].todo]
      BY <1>5, <2>0 DEF Delivers
    <3> HIDE DEF v
    <3> QED BY <3>1 DEF Moved, SendTypes, FieldTypes
  <2>2. \A u \in Tasks : phase'[u] \in {"idle", "parked"} => phase[u] \in {"idle", "parked"}
    BY <1>5, <2>0, TasksAre DEF Delivers, chatVars, SendTypes, FieldTypes, Ended
  <2>3. \A d \in Commands : queue'[d] \in {"ready", "out"} =>
          queue[d] \in {"ready", "out"} /\ script'[d] = script[d]
    BY <1>5 DEF Delivers, chatVars, SendTypes, FieldTypes
  <2>4. \A d \in Commands : "ok" \in results'[d] => "ok" \in results[d]
    BY <1>5 DEF Delivers, chatVars
  <2>5. \A u \in Tasks : outcome'[u] = "ok" => outcome[u] = "ok"
    BY <1>5 DEF Delivers, chatVars, SendTypes, FieldTypes, OutcomesFollow
  <2>6. UNCHANGED taken
    BY <1>5 DEF Delivers, chatVars
  <2>7. Steady
    BY <2>1, <2>2, <2>3, <2>4, <2>5, <2>6 DEF Steady
  <2> QED BY <2>7, FrameStep, CopiesKept
<1>6. ASSUME NEW c \in Commands, Waits(c)
      PROVE  CopiesFollow'
  <2>1. \A u \in Tasks : phase'[u] \in {"run", "parked"} => Moved(u)
    BY <1>6, TasksAre DEF Waits, chatVars, taskVars, Moved, SendTypes, FieldTypes, Ended
  <2>2. \A u \in Tasks : phase'[u] \in {"idle", "parked"} => phase[u] \in {"idle", "parked"}
    BY <1>6, TasksAre DEF Waits, chatVars, taskVars, SendTypes, FieldTypes, Ended
  <2>3. \A d \in Commands : queue'[d] \in {"ready", "out"} =>
          queue[d] \in {"ready", "out"} /\ script'[d] = script[d]
    BY <1>6 DEF Waits, chatVars, taskVars, SendTypes, FieldTypes
  <2>4. \A d \in Commands : "ok" \in results'[d] => "ok" \in results[d]
    BY <1>6 DEF Waits, chatVars, taskVars
  <2>5. \A u \in Tasks : outcome'[u] = "ok" => outcome[u] = "ok"
    BY <1>6 DEF Waits, chatVars, taskVars, SendTypes, FieldTypes, OutcomesFollow
  <2>6. UNCHANGED taken
    BY <1>6 DEF Waits, chatVars, taskVars
  <2>7. Steady
    BY <2>1, <2>2, <2>3, <2>4, <2>5, <2>6 DEF Steady
  <2> QED BY <2>7, FrameStep, CopiesKept
<1>7. ASSUME NEW t \in Tasks, Passes(t)
      PROVE  CopiesFollow'
  <2>1. \A u \in Tasks : phase'[u] \in {"run", "parked"} => Moved(u)
    BY <1>7, TasksAre DEF Passes, Advances, Aside, Moved, SendTypes, FieldTypes, Ended
  <2>2. \A u \in Tasks : phase'[u] \in {"idle", "parked"} => phase[u] \in {"idle", "parked"}
    BY <1>7, TasksAre DEF Passes, Advances, Aside, SendTypes, FieldTypes, Ended
  <2>3. \A d \in Commands : queue'[d] \in {"ready", "out"} =>
          queue[d] \in {"ready", "out"} /\ script'[d] = script[d]
    BY <1>7 DEF Passes, Advances, Aside, SendTypes, FieldTypes
  <2>4. \A d \in Commands : "ok" \in results'[d] => "ok" \in results[d]
    BY <1>7 DEF Passes, Advances, Aside
  <2>5. \A u \in Tasks : outcome'[u] = "ok" => outcome[u] = "ok"
    BY <1>7 DEF Passes, Advances, Aside, SendTypes, FieldTypes, OutcomesFollow
  <2>6. UNCHANGED taken
    BY <1>7 DEF Passes, Advances, Aside
  <2>7. Steady
    BY <2>1, <2>2, <2>3, <2>4, <2>5, <2>6 DEF Steady
  <2> QED BY <2>7, FrameStep, CopiesKept
<1>8. ASSUME NEW t \in Tasks, Stops(t)
      PROVE  CopiesFollow'
  <2>1. \A u \in Tasks : phase'[u] \in {"run", "parked"} => Moved(u)
    BY <1>8, TasksAre DEF Stops, Fails, Aside, Moved, SendTypes, FieldTypes, Ended
  <2>2. \A u \in Tasks : phase'[u] \in {"idle", "parked"} => phase[u] \in {"idle", "parked"}
    BY <1>8, TasksAre DEF Stops, Fails, Aside, SendTypes, FieldTypes, Ended
  <2>3. \A d \in Commands : queue'[d] \in {"ready", "out"} =>
          queue[d] \in {"ready", "out"} /\ script'[d] = script[d]
    BY <1>8 DEF Stops, Fails, Aside, SendTypes, FieldTypes
  <2>4. \A d \in Commands : "ok" \in results'[d] => "ok" \in results[d]
    BY <1>8 DEF Stops, Fails, Aside
  <2>5. \A u \in Tasks : outcome'[u] = "ok" => outcome[u] = "ok"
    BY <1>8 DEF Stops, Fails, Aside, SendTypes, FieldTypes, OutcomesFollow
  <2>6. UNCHANGED taken
    BY <1>8 DEF Stops, Fails, Aside
  <2>7. Steady
    BY <2>1, <2>2, <2>3, <2>4, <2>5, <2>6 DEF Steady
  <2> QED BY <2>7, FrameStep, CopiesKept
<1>9. ASSUME NEW t \in Tasks, Records(t)
      PROVE  CopiesFollow'
  <2>1. \A u \in Tasks : phase'[u] \in {"run", "parked"} => Moved(u)
    BY <1>9, TasksAre DEF Records, Advances, Aside, Moved, SendTypes, FieldTypes, Ended
  <2>2. \A u \in Tasks : phase'[u] \in {"idle", "parked"} => phase[u] \in {"idle", "parked"}
    BY <1>9, TasksAre DEF Records, Advances, Aside, SendTypes, FieldTypes, Ended
  <2>3. \A d \in Commands : queue'[d] \in {"ready", "out"} =>
          queue[d] \in {"ready", "out"} /\ script'[d] = script[d]
    BY <1>9 DEF Records, Advances, Aside, SendTypes, FieldTypes
  <2>4. \A d \in Commands : "ok" \in results'[d] => "ok" \in results[d]
    BY <1>9 DEF Records, Advances, Aside
  <2>5. \A u \in Tasks : outcome'[u] = "ok" => outcome[u] = "ok"
    BY <1>9 DEF Records, Advances, Aside, SendTypes, FieldTypes, OutcomesFollow
  <2>6. UNCHANGED taken
    BY <1>9 DEF Records, Advances, Aside
  <2>7. Steady
    BY <2>1, <2>2, <2>3, <2>4, <2>5, <2>6 DEF Steady
  <2> QED BY <2>7, FrameStep, CopiesKept
<1>10. ASSUME NEW t \in Tasks, Hands(t)
      PROVE  CopiesFollow'
  <2> DEFINE o == OrderOf(t)
  <2>1. phase[t] = "run" /\ todo[t] # <<>> /\ Head(todo[t]) = "send" /\ todo[t] \in Seq(Steps)
    BY <1>10, TodoTyped DEF Hands, Advances, Fails
  <2>2. o \in Orders /\ taken[o] \in Nat /\ taken[o] + 1 > 0
    BY TasksAre, CountersAre
  <2>3. \A p \in Orders : taken'[p] = IF p = o THEN taken[o] + 1 ELSE taken[p]
    <3>1. taken' = [taken EXCEPT ![o] = @ + 1] /\ taken \in [Orders -> Nat]
      BY <1>10 DEF Hands, SendTypes, FieldTypes
    <3> HIDE DEF o
    <3> QED BY <2>2, <3>1
  <2>4. \A u \in Tasks \ {t} : UNCHANGED <<phase[u], todo[u], outcome[u]>>
    BY <1>10 DEF Hands, Advances, Fails, SendTypes, FieldTypes
  <2>5. \/ phase'[t] = "run" /\ todo'[t] = Tail(todo[t]) /\ outcome'[t] = outcome[t]
        \/ phase'[t] = "undo" /\ outcome'[t] = "failed"
    BY <1>10 DEF Hands, Advances, Fails, SendTypes, FieldTypes
  <2>6. UNCHANGED <<queue, script, results>>
    BY <1>10 DEF Hands, Aside
  <2>7. ASSUME NEW r \in Requests
        PROVE  RequestFollows(r)'
    <3>1. CASE r = t
      <4>1. o = r /\ taken[r] = 0 /\ OneSend(todo[r])
        <5>1. ~NoSend(todo[r])
          BY <2>1, <3>1, TailSends
        <5> QED BY <2>1, <3>1, <5>1, TasksAre DEF CopiesFollow, RequestFollows
      <4>2. taken'[r] = 1 /\ NoSend(Tail(todo[r]))
        BY <2>1, <2>2, <2>3, <3>1, <4>1, TailSends
      <4> QED BY <2>5, <3>1, <4>2 DEF RequestFollows
    <3>2. CASE r # t
      <4>1. r # o
        BY <3>2, TasksAre
      <4>2. taken'[r] = taken[r]
        BY <2>3, <4>1, TasksAre
      <4> QED BY <2>4, <3>2, <4>2, TasksAre DEF CopiesFollow, RequestFollows
    <3> QED BY <3>1, <3>2
  <2>8. ASSUME NEW c \in Commands
        PROVE  CommandFollows(c)'
    <3>1. taken[c] > 0 => taken'[c] > 0
      BY <2>2, <2>3, TasksAre, CountersAre
    <3>2. ASSUME NEW n \in 1..MaxDeliver, phase'[<<c, n>>] = "run"
          PROVE  /\ SendLast(todo'[<<c, n>>])
                 /\ todo'[<<c, n>>] = <<>> => taken'[c] > 0
      <4>1. <<c, n>> \in Tasks /\ OrderOf(<<c, n>>) = c
        BY TasksAre
      <4>2. CASE <<c, n>> = t
        <5>1. taken'[c] > 0
          BY <2>2, <2>3, <4>1, <4>2
        <5>2. SendLast(todo[t])
          BY <2>1, <4>2 DEF CopiesFollow, CommandFollows
        <5>3. SendLast(Tail(todo[t]))
          BY <2>1, <5>2, TailLast
        <5> QED BY <2>5, <3>2, <4>2, <5>1, <5>3
      <4>3. CASE <<c, n>> # t
        BY <2>4, <3>1, <3>2, <4>1, <4>3 DEF CopiesFollow, CommandFollows
      <4> QED BY <4>2, <4>3
    <3>3. "ok" \in results'[c] => taken'[c] > 0
      BY <2>6, <3>1 DEF CopiesFollow, CommandFollows
    <3> QED BY <2>6, <3>2, <3>3 DEF CopiesFollow, CommandFollows
  <2>9. ASSUME NEW u \in Tasks, outcome'[u] = "ok"
        PROVE  taken'[OrderOf(u)] > 0
    <3>1. outcome[u] = "ok"
      BY <2>4, <2>5, <2>9
    <3> QED BY <2>2, <2>3, <3>1, TasksAre, CountersAre DEF CopiesFollow
  <2> QED BY <2>7, <2>8, <2>9 DEF CopiesFollow
<1>11. ASSUME NEW t \in Tasks, Ends(t)
      PROVE  CopiesFollow'
  <2>1. \A u \in Tasks : phase'[u] \in {"run", "parked"} => Moved(u)
    BY <1>11, TasksAre DEF Ends, Aside, Moved, SendTypes, FieldTypes, Ended
  <2>2. \A u \in Tasks : phase'[u] \in {"idle", "parked"} => phase[u] \in {"idle", "parked"}
    BY <1>11, TasksAre DEF Ends, Aside, SendTypes, FieldTypes, Ended
  <2>3. \A d \in Commands : queue'[d] \in {"ready", "out"} =>
          queue[d] \in {"ready", "out"} /\ script'[d] = script[d]
    BY <1>11 DEF Ends, Aside, SendTypes, FieldTypes
  <2>4. \A d \in Commands : "ok" \in results'[d] => "ok" \in results[d]
    BY <1>11 DEF Ends, Aside
  <2>5. \A u \in Tasks : outcome'[u] = "ok" =>
          outcome[u] = "ok" \/ (phase[u] = "run" /\ todo[u] = <<>>)
    BY <1>11 DEF Ends, Aside, SendTypes, FieldTypes, OutcomesFollow
  <2>6. UNCHANGED taken
    BY <1>11 DEF Ends, Aside
  <2>7. Steady
    BY <2>1, <2>2, <2>3, <2>4, <2>5, <2>6 DEF Steady
  <2> QED BY <2>7, FrameStep, CopiesKept
<1>12. ASSUME NEW T \in SUBSET Tasks, Dies(T)
      PROVE  CopiesFollow'
  <2>1. \A u \in Tasks : phase'[u] \in {"run", "parked"} => Moved(u)
    BY <1>12, TasksAre DEF Dies, Aside, Moved, SendTypes, FieldTypes, Ended
  <2>2. \A u \in Tasks : phase'[u] \in {"idle", "parked"} => phase[u] \in {"idle", "parked"}
    BY <1>12, TasksAre DEF Dies, Aside, SendTypes, FieldTypes, Ended
  <2>3. \A d \in Commands : queue'[d] \in {"ready", "out"} =>
          queue[d] \in {"ready", "out"} /\ script'[d] = script[d]
    BY <1>12 DEF Dies, Aside, SendTypes, FieldTypes
  <2>4. \A d \in Commands : "ok" \in results'[d] => "ok" \in results[d]
    BY <1>12 DEF Dies, Aside
  <2>5. \A u \in Tasks : outcome'[u] = "ok" => outcome[u] = "ok"
    BY <1>12 DEF Dies, Aside, SendTypes, FieldTypes, OutcomesFollow
  <2>6. UNCHANGED taken
    BY <1>12 DEF Dies, Aside
  <2>7. Steady
    BY <2>1, <2>2, <2>3, <2>4, <2>5, <2>6 DEF Steady
  <2> QED BY <2>7, FrameStep, CopiesKept
<1>13. ASSUME NEW t \in Tasks, Undoes(t)
      PROVE  CopiesFollow'
  <2>1. \A u \in Tasks : phase'[u] \in {"run", "parked"} => Moved(u)
    BY <1>13, TasksAre DEF Undoes, Aside, Moved, SendTypes, FieldTypes, Ended
  <2>2. \A u \in Tasks : phase'[u] \in {"idle", "parked"} => phase[u] \in {"idle", "parked"}
    BY <1>13, TasksAre DEF Undoes, Aside, SendTypes, FieldTypes, Ended
  <2>3. \A d \in Commands : queue'[d] \in {"ready", "out"} =>
          queue[d] \in {"ready", "out"} /\ script'[d] = script[d]
    BY <1>13 DEF Undoes, Aside, SendTypes, FieldTypes
  <2>4. \A d \in Commands : "ok" \in results'[d] => "ok" \in results[d]
    BY <1>13 DEF Undoes, Aside
  <2>5. \A u \in Tasks : outcome'[u] = "ok" => outcome[u] = "ok"
    BY <1>13 DEF Undoes, Aside, SendTypes, FieldTypes, OutcomesFollow
  <2>6. UNCHANGED taken
    BY <1>13 DEF Undoes, Aside
  <2>7. Steady
    BY <2>1, <2>2, <2>3, <2>4, <2>5, <2>6 DEF Steady
  <2> QED BY <2>7, FrameStep, CopiesKept
<1>14. ASSUME NEW c \in Commands, NEW n \in 1..MaxDeliver, Publishes(c, n)
      PROVE  CopiesFollow'
  <2>1. \A u \in Tasks : phase'[u] \in {"run", "parked"} => Moved(u)
    BY <1>14, TasksAre DEF Publishes, chatVars, Moved, SendTypes, FieldTypes, Ended
  <2>2. \A u \in Tasks : phase'[u] \in {"idle", "parked"} => phase[u] \in {"idle", "parked"}
    BY <1>14, TasksAre DEF Publishes, chatVars, SendTypes, FieldTypes, Ended
  <2>3. \A d \in Commands : queue'[d] \in {"ready", "out"} =>
          queue[d] \in {"ready", "out"} /\ script'[d] = script[d]
    BY <1>14 DEF Publishes, chatVars, SendTypes, FieldTypes
  <2>4. \A d \in Commands : "ok" \in results'[d] =>
          "ok" \in results[d] \/ \E m \in 1..MaxDeliver : outcome[<<d, m>>] = "ok"
    <3> DEFINE x == outcome[<<c, n>>]
    <3>1. results' = results \/ results' = [results EXCEPT ![c] = results[c] \cup {x}]
      BY <1>14 DEF Publishes
    <3>2. results \in [Commands -> SUBSET {"ok", "refused"}]
      BY DEF SendTypes, FieldTypes
    <3>3. \A d \in Commands : "ok" \in results'[d] => "ok" \in results[d] \/ (d = c /\ x = "ok")
      <4> HIDE DEF x
      <4> QED BY <3>1, <3>2
    <3> QED BY <3>3
  <2>5. \A u \in Tasks : outcome'[u] = "ok" => outcome[u] = "ok"
    BY <1>14 DEF Publishes, chatVars, SendTypes, FieldTypes, OutcomesFollow
  <2>6. UNCHANGED taken
    BY <1>14 DEF Publishes, chatVars
  <2>7. Steady
    BY <2>1, <2>2, <2>3, <2>4, <2>5, <2>6 DEF Steady
  <2> QED BY <2>7, FrameStep, CopiesKept
<1>15. ASSUME NEW c \in Commands, NEW n \in 1..MaxDeliver, Acks(c, n)
      PROVE  CopiesFollow'
  <2>1. \A u \in Tasks : phase'[u] \in {"run", "parked"} => Moved(u)
    BY <1>15, TasksAre DEF Acks, chatVars, Moved, SendTypes, FieldTypes, Ended
  <2>2. \A u \in Tasks : phase'[u] \in {"idle", "parked"} => phase[u] \in {"idle", "parked"}
    BY <1>15, TasksAre DEF Acks, chatVars, SendTypes, FieldTypes, Ended
  <2>3. \A d \in Commands : queue'[d] \in {"ready", "out"} =>
          queue[d] \in {"ready", "out"} /\ script'[d] = script[d]
    BY <1>15 DEF Acks, chatVars, SendTypes, FieldTypes
  <2>4. \A d \in Commands : "ok" \in results'[d] => "ok" \in results[d]
    BY <1>15 DEF Acks, chatVars
  <2>5. \A u \in Tasks : outcome'[u] = "ok" => outcome[u] = "ok"
    BY <1>15 DEF Acks, chatVars, SendTypes, FieldTypes, OutcomesFollow
  <2>6. UNCHANGED taken
    BY <1>15 DEF Acks, chatVars
  <2>7. Steady
    BY <2>1, <2>2, <2>3, <2>4, <2>5, <2>6 DEF Steady
  <2> QED BY <2>7, FrameStep, CopiesKept
<1>16. ASSUME NEW c \in Commands, NEW n \in 1..MaxDeliver, Naks(c, n)
      PROVE  CopiesFollow'
  <2>1. \A u \in Tasks : phase'[u] \in {"run", "parked"} => Moved(u)
    BY <1>16, TasksAre DEF Naks, chatVars, Moved, SendTypes, FieldTypes, Ended
  <2>2. \A u \in Tasks : phase'[u] \in {"idle", "parked"} => phase[u] \in {"idle", "parked"}
    BY <1>16, TasksAre DEF Naks, chatVars, SendTypes, FieldTypes, Ended
  <2>3. \A d \in Commands : queue'[d] \in {"ready", "out"} =>
          queue[d] \in {"ready", "out"} /\ script'[d] = script[d]
    BY <1>16 DEF Naks, chatVars, SendTypes, FieldTypes
  <2>4. \A d \in Commands : "ok" \in results'[d] => "ok" \in results[d]
    BY <1>16 DEF Naks, chatVars
  <2>5. \A u \in Tasks : outcome'[u] = "ok" => outcome[u] = "ok"
    BY <1>16 DEF Naks, chatVars, SendTypes, FieldTypes, OutcomesFollow
  <2>6. UNCHANGED taken
    BY <1>16 DEF Naks, chatVars
  <2>7. Steady
    BY <2>1, <2>2, <2>3, <2>4, <2>5, <2>6 DEF Steady
  <2> QED BY <2>7, FrameStep, CopiesKept
<1> QED BY <1>1, <1>2, <1>3, <1>4, <1>5, <1>6, <1>7, <1>8, <1>9, <1>10, <1>11, <1>12, <1>13,
   <1>14, <1>15, <1>16, NextMoves

\* How many deliveries are live.
LEMMA LiveCounts ==
  ASSUME NEW X \in SUBSET (1..MaxDeliver), NEW Y \in SUBSET (1..MaxDeliver)
  PROVE  /\ Cardinality(X) \in Nat
         /\ X \subseteq Y => Cardinality(X) <= Cardinality(Y)
         /\ \A n \in Y : X = Y \ {n} => Cardinality(X) = Cardinality(Y) - 1
         /\ \A n \in 1..MaxDeliver : X = Y \cup {n} => Cardinality(X) <= Cardinality(Y) + 1
<1>1. IsFiniteSet(1..MaxDeliver)
  BY FS_Interval, SendsAssumption
<1>2. IsFiniteSet(X) /\ IsFiniteSet(Y)
  BY <1>1, FS_Subset
<1>3. Cardinality(X) \in Nat /\ Cardinality(Y) \in Nat
  BY <1>2, FS_CardinalityType
<1>4. X \subseteq Y => Cardinality(X) <= Cardinality(Y)
  BY <1>2, FS_Subset
<1>5. \A n \in Y : X = Y \ {n} => Cardinality(X) = Cardinality(Y) - 1
  BY <1>2, FS_RemoveElement
<1>6. \A n \in 1..MaxDeliver : X = Y \cup {n} => Cardinality(X) <= Cardinality(Y) + 1
  BY <1>2, <1>3, FS_AddElement
<1> QED BY <1>3, <1>4, <1>5, <1>6

\* Nobody hands the command over, and nobody new may: only a fault can bring it back.
LEMMA PaidKept ==
  ASSUME SendTypes, Frame, NEW c \in Commands, Paid(c),
         taken'[c] = taken[c], Live(c)' \subseteq Live(c),
         Again(c)' => Again(c) \/ failures' = failures + 1
  PROVE  Paid(c)'
<1>1. Live(c) \in SUBSET (1..MaxDeliver) /\ Live(c)' \in SUBSET (1..MaxDeliver)
  BY DEF Live
<1> DEFINE k == Cardinality(Live(c))
           m == Cardinality(Live(c)')
<1>2. k \in Nat /\ m \in Nat /\ m <= k
  BY <1>1, LiveCounts
<1>3. taken[c] \in Nat /\ failures \in Nat /\ failures' \in Nat /\ failures' >= failures
  BY TasksAre DEF Frame
<1>4. Cardinality(Live(c))' = m
  OBVIOUS
<1> HIDE DEF k, m
<1>5. taken[c] + (k + (IF Again(c) THEN 1 ELSE 0)) <= 1 + failures
  BY DEF Paid, Owed, k
<1>6. taken'[c] + (m + (IF Again(c)' THEN 1 ELSE 0)) <= 1 + failures'
  BY <1>2, <1>3, <1>5
<1> QED BY <1>4, <1>6 DEF Paid, Owed

\* Every copy stays paid for.
LEMMA PaidStep ==
  ASSUME SendTypes, OutcomesFollow, OutIsDelivered, CopiesFollow, CopiesArePaid,
         [SendsNext]_sendsVars
  PROVE  CopiesArePaid'
<1>1. CASE UNCHANGED sendsVars
  <2>1. \A c \in Commands : Live(c)' = Live(c) /\ Again(c)' = Again(c)
    BY <1>1 DEF sendsVars, queueVars, taskVars, Live, Again
  <2> QED BY <1>1, <2>1 DEF sendsVars, queueVars, taskVars, CopiesArePaid, Paid, Owed
<1>2. ASSUME NEW r \in Requests, Comes(r)
      PROVE  CopiesArePaid'
  <2> SUFFICES ASSUME NEW d \in Commands
               PROVE  Paid(d)'
    BY DEF CopiesArePaid
  <2>1. Paid(d) /\ taken'[d] = taken[d]
    BY <1>2 DEF Comes, Aside, CopiesArePaid
  <2>2. \A m \in 1..MaxDeliver : <<d, m>> \in Tasks /\ <<d, m>> # r
    BY TasksAre
  <2>3. Live(d)' \subseteq Live(d)
    BY <1>2, <2>2 DEF Comes, Aside, Live, SendTypes, FieldTypes, Ended
  <2>4. Again(d)' => Again(d) \/ failures' = failures + 1
    BY <1>2, <2>2 DEF Comes, Aside, Again, SendTypes, FieldTypes, Ended, OutIsDelivered
  <2> QED BY <2>1, <2>3, <2>4, FrameStep, PaidKept
<1>3. ASSUME NEW r \in Requests, Replay(r)
      PROVE  CopiesArePaid'
  <2> SUFFICES ASSUME NEW d \in Commands
               PROVE  Paid(d)'
    BY DEF CopiesArePaid
  <2>1. Paid(d) /\ taken'[d] = taken[d]
    BY <1>3 DEF Replay, chatVars, queueVars, CopiesArePaid
  <2>2. \A m \in 1..MaxDeliver : <<d, m>> \in Tasks /\ <<d, m>> # r
    BY TasksAre
  <2>3. Live(d)' \subseteq Live(d)
    BY <1>3, <2>2 DEF Replay, chatVars, queueVars, Live, SendTypes, FieldTypes, Ended
  <2>4. Again(d)' => Again(d) \/ failures' = failures + 1
    BY <1>3, <2>2 DEF Replay, chatVars, queueVars, Again, SendTypes, FieldTypes, Ended,
       OutIsDelivered
  <2> QED BY <2>1, <2>3, <2>4, FrameStep, PaidKept
<1>4. ASSUME NEW c \in Commands, Enqueues(c)
      PROVE  CopiesArePaid'
  <2> SUFFICES ASSUME NEW d \in Commands
               PROVE  Paid(d)'
    BY DEF CopiesArePaid
  <2>1. Paid(d) /\ taken'[d] = taken[d]
    BY <1>4 DEF Enqueues, chatVars, taskVars, CopiesArePaid
  <2>2. \A m \in 1..MaxDeliver : <<d, m>> \in Tasks
    BY TasksAre
  <2>3. Live(d)' \subseteq Live(d)
    BY <1>4, <2>2 DEF Enqueues, chatVars, taskVars, Live, SendTypes, FieldTypes, Ended
  <2>4. Again(d)' => Again(d) \/ failures' = failures + 1
    BY <1>4, <2>2 DEF Enqueues, chatVars, taskVars, Again, SendTypes, FieldTypes, Ended,
       OutIsDelivered
  <2> QED BY <2>1, <2>3, <2>4, FrameStep, PaidKept
<1>5. ASSUME NEW c \in Commands, Delivers(c)
      PROVE  CopiesArePaid'
  <2> SUFFICES ASSUME NEW d \in Commands
               PROVE  Paid(d)'
    BY DEF CopiesArePaid
  <2> DEFINE n == delivery[c] + 1
             v == <<c, n>>
  <2>1. Paid(d) /\ taken'[d] = taken[d]
    BY <1>5 DEF Delivers, CopiesArePaid
  <2>2. n \in 1..MaxDeliver /\ n \in 0..MaxDeliver
    BY <1>5, SendsAssumption DEF Delivers, SendTypes, FieldTypes
  <2>3. /\ v \in Tasks /\ (d # c => \A m \in 1..MaxDeliver : <<d, m>> # v)
        /\ \A m \in 1..MaxDeliver : <<d, m>> \in Tasks /\ (m # n => <<d, m>> # v)
    BY <2>2, TasksAre
  <2>4. /\ \A u \in Tasks \ {v} : phase'[u] = phase[u] /\ todo'[u] = todo[u]
        /\ phase'[v] = "run"
        /\ \A e \in Commands \ {c} : queue'[e] = queue[e] /\ delivery'[e] = delivery[e]
        /\ queue[c] = "ready" /\ queue'[c] = "out" /\ delivery'[c] = n /\ failures' = failures
    <3>1. /\ phase' = [phase EXCEPT ![v] = "run"] /\ todo' = [todo EXCEPT ![v] = script[c].todo]
          /\ delivery' = [delivery EXCEPT ![c] = n]
          /\ queue[c] = "ready" /\ queue' = [queue EXCEPT ![c] = "out"] /\ failures' = failures
      BY <1>5 DEF Delivers
    <3> HIDE DEF v, n
    <3> QED BY <2>3, <3>1 DEF SendTypes, FieldTypes
  <2> HIDE DEF v
  <2>5. CASE d # c
    <3>1. Live(d)' \subseteq Live(d)
      BY <2>3, <2>4, <2>5 DEF Live
    <3>2. queue[d] = "out" => delivery[d] \in 1..MaxDeliver
      BY DEF OutIsDelivered
    <3>3. Again(d)' => Again(d)
      BY <2>3, <2>4, <2>5, <3>2 DEF Again
    <3> QED BY <2>1, <3>1, <3>3, FrameStep, PaidKept
  <2>6. CASE d = c
    <3>1. Again(d) /\ ~Again(d)'
      <4> HIDE DEF n
      <4>1. <<d, delivery'[d]>> = v
        BY <2>4, <2>6 DEF v
      <4> QED BY <2>4, <2>6, <4>1 DEF Again, Ended
    <3>2. Live(d)' \subseteq Live(d) \cup {n}
      <4> HIDE DEF n
      <4> QED BY <2>3, <2>4 DEF Live
    <3> DEFINE X == Live(d)'
               Y == Live(d)
    <3>3. X \in SUBSET (1..MaxDeliver) /\ Y \in SUBSET (1..MaxDeliver)
      BY DEF Live
    <3> HIDE DEF X, Y, n
    <3>4. X \subseteq Y \cup {n} /\ Y \cup {n} \in SUBSET (1..MaxDeliver)
      BY <2>2, <3>2, <3>3 DEF X, Y
    <3>5. /\ Cardinality(X) \in Nat /\ Cardinality(Y) \in Nat
          /\ Cardinality(X) <= Cardinality(Y) + 1
      <4>1. Cardinality(X) <= Cardinality(Y \cup {n})
        BY <3>3, <3>4, LiveCounts
      <4>2. Cardinality(Y \cup {n}) <= Cardinality(Y) + 1
        BY <2>2, <3>3, <3>4, LiveCounts
      <4>3. Cardinality(X) \in Nat /\ Cardinality(Y) \in Nat /\ Cardinality(Y \cup {n}) \in Nat
        BY <3>3, <3>4, LiveCounts
      <4> QED BY <4>1, <4>2, <4>3
    <3>6. taken[d] + (Cardinality(Y) + 1) <= 1 + failures
      BY <2>1, <3>1 DEF Paid, Owed, Y
    <3>7. taken'[d] + (Cardinality(X) + 0) <= 1 + failures'
      BY <2>1, <2>4, <3>5, <3>6, TasksAre, CountersAre
    <3> QED BY <3>1, <3>7 DEF Paid, Owed, X
  <2> QED BY <2>5, <2>6
<1>6. ASSUME NEW c \in Commands, Waits(c)
      PROVE  CopiesArePaid'
  <2> SUFFICES ASSUME NEW d \in Commands
               PROVE  Paid(d)'
    BY DEF CopiesArePaid
  <2>1. Paid(d) /\ taken'[d] = taken[d]
    BY <1>6 DEF Waits, chatVars, taskVars, CopiesArePaid
  <2>2. \A m \in 1..MaxDeliver : <<d, m>> \in Tasks
    BY TasksAre
  <2>3. Live(d)' \subseteq Live(d)
    BY <1>6, <2>2 DEF Waits, chatVars, taskVars, Live, SendTypes, FieldTypes, Ended
  <2>4. Again(d)' => Again(d) \/ failures' = failures + 1
    BY <1>6, <2>2 DEF Waits, chatVars, taskVars, Again, SendTypes, FieldTypes, Ended,
       OutIsDelivered
  <2> QED BY <2>1, <2>3, <2>4, FrameStep, PaidKept
<1>7. ASSUME NEW t \in Tasks, Passes(t)
      PROVE  CopiesArePaid'
  <2> SUFFICES ASSUME NEW d \in Commands
               PROVE  Paid(d)'
    BY DEF CopiesArePaid
  <2>1. Paid(d) /\ taken'[d] = taken[d]
    BY <1>7 DEF Passes, Advances, Aside, CopiesArePaid
  <2>2. \A m \in 1..MaxDeliver : <<d, m>> \in Tasks
    BY TasksAre
  <2>3. Live(d)' \subseteq Live(d)
    BY <1>7, <2>2 DEF Passes, Advances, Aside, Live, SendTypes, FieldTypes, Ended
  <2>4. Again(d)' => Again(d) \/ failures' = failures + 1
    BY <1>7, <2>2 DEF Passes, Advances, Aside, Again, SendTypes, FieldTypes, Ended,
       OutIsDelivered
  <2> QED BY <2>1, <2>3, <2>4, FrameStep, PaidKept
<1>8. ASSUME NEW t \in Tasks, Stops(t)
      PROVE  CopiesArePaid'
  <2> SUFFICES ASSUME NEW d \in Commands
               PROVE  Paid(d)'
    BY DEF CopiesArePaid
  <2>1. Paid(d) /\ taken'[d] = taken[d]
    BY <1>8 DEF Stops, Fails, Aside, CopiesArePaid
  <2>2. \A m \in 1..MaxDeliver : <<d, m>> \in Tasks
    BY TasksAre
  <2>3. Live(d)' \subseteq Live(d)
    BY <1>8, <2>2 DEF Stops, Fails, Aside, Live, SendTypes, FieldTypes, Ended
  <2>4. Again(d)' => Again(d) \/ failures' = failures + 1
    BY <1>8, <2>2 DEF Stops, Fails, Aside, Again, SendTypes, FieldTypes, Ended, OutIsDelivered
  <2> QED BY <2>1, <2>3, <2>4, FrameStep, PaidKept
<1>9. ASSUME NEW t \in Tasks, Records(t)
      PROVE  CopiesArePaid'
  <2> SUFFICES ASSUME NEW d \in Commands
               PROVE  Paid(d)'
    BY DEF CopiesArePaid
  <2>1. Paid(d) /\ taken'[d] = taken[d]
    BY <1>9 DEF Records, Advances, Aside, CopiesArePaid
  <2>2. \A m \in 1..MaxDeliver : <<d, m>> \in Tasks
    BY TasksAre
  <2>3. Live(d)' \subseteq Live(d)
    BY <1>9, <2>2 DEF Records, Advances, Aside, Live, SendTypes, FieldTypes, Ended
  <2>4. Again(d)' => Again(d) \/ failures' = failures + 1
    BY <1>9, <2>2 DEF Records, Advances, Aside, Again, SendTypes, FieldTypes, Ended,
       OutIsDelivered
  <2> QED BY <2>1, <2>3, <2>4, FrameStep, PaidKept
<1>10. ASSUME NEW t \in Tasks, Hands(t)
      PROVE  CopiesArePaid'
  <2> SUFFICES ASSUME NEW d \in Commands
               PROVE  Paid(d)'
    BY DEF CopiesArePaid
  <2>1. Paid(d) /\ phase[t] = "run" /\ todo[t] # <<>> /\ Head(todo[t]) = "send"
    BY <1>10 DEF Hands, Advances, Fails, CopiesArePaid
  <2>2. \A m \in 1..MaxDeliver : <<d, m>> \in Tasks
    BY TasksAre
  <2>3. Live(d)' \subseteq Live(d)
    BY <1>10, <2>2 DEF Hands, Advances, Fails, Live, SendTypes, FieldTypes
  <2>4. Again(d)' => Again(d)
    BY <1>10, <2>2 DEF Hands, Advances, Fails, Aside, Again, SendTypes, FieldTypes, Ended,
       OutIsDelivered
  <2> DEFINE o == OrderOf(t)
  <2>5. o \in Orders /\ taken' = [taken EXCEPT ![o] = @ + 1] /\ taken \in [Orders -> Nat]
    BY <1>10, TasksAre DEF Hands, SendTypes, FieldTypes
  <2>6. CASE d # o
    <3>1. taken'[d] = taken[d]
      <4> HIDE DEF o
      <4> QED BY <2>5, <2>6, TasksAre
    <3> QED BY <2>1, <2>3, <2>4, <3>1, FrameStep, PaidKept
  <2>7. CASE d = o
    <3>1. taken'[d] = taken[d] + 1 /\ taken[d] \in Nat
      <4> HIDE DEF o
      <4> QED BY <2>5, <2>7
    <3>2. PICK n \in 1..MaxDeliver : t = <<d, n>>
      BY <2>7, TasksAre
    <3> DEFINE X == Live(d)'
               Y == Live(d)
    <3>3. X \in SUBSET (1..MaxDeliver) /\ Y \in SUBSET (1..MaxDeliver) /\ X \subseteq Y
      BY <2>3 DEF Live
    <3>4. Cardinality(X) \in Nat /\ Cardinality(Y) \in Nat /\ Cardinality(X) <= Cardinality(Y)
      <4> HIDE DEF X, Y
      <4> QED BY <3>3, LiveCounts
    <3>5. \/ failures' = failures + 1
          \/ failures' = failures /\ Cardinality(X) <= Cardinality(Y) - 1
      <4>1. CASE Advances(t) /\ failures' = failures
        <5>1. SendLast(todo[t]) /\ todo[t] \in Seq(Steps)
          BY <2>1, <3>2, TodoTyped DEF CopiesFollow, CommandFollows
        <5>2. Tail(todo[t]) = <<>>
          BY <2>1, <5>1, TailLast
        <5>3. phase'[t] = "run" /\ todo'[t] = <<>>
          BY <2>1, <4>1, <5>2 DEF Advances, SendTypes, FieldTypes
        <5>4. n \in Y /\ n \notin X
          BY <2>1, <3>2, <5>3 DEF Live
        <5> HIDE DEF X, Y
        <5>5. X \subseteq Y \ {n} /\ Y \ {n} \in SUBSET (1..MaxDeliver)
          BY <3>3, <5>4
        <5>6. Cardinality(X) <= Cardinality(Y \ {n})
          BY <3>3, <5>5, LiveCounts
        <5>7. Cardinality(Y \ {n}) = Cardinality(Y) - 1
          BY <3>3, <5>4, <5>5, LiveCounts
        <5> QED BY <4>1, <5>6, <5>7
      <4> QED BY <1>10, <4>1 DEF Hands
    <3> HIDE DEF X, Y
    <3>6. taken[d] + (Cardinality(Y) + (IF Again(d) THEN 1 ELSE 0)) <= 1 + failures
      BY <2>1 DEF Paid, Owed, Y
    <3>7. taken'[d] + (Cardinality(X) + (IF Again(d)' THEN 1 ELSE 0)) <= 1 + failures'
      BY <2>4, <3>1, <3>4, <3>5, <3>6, CountersAre
    <3> QED BY <3>7 DEF Paid, Owed, X
  <2> QED BY <2>6, <2>7
<1>11. ASSUME NEW t \in Tasks, Ends(t)
      PROVE  CopiesArePaid'
  <2> SUFFICES ASSUME NEW d \in Commands
               PROVE  Paid(d)'
    BY DEF CopiesArePaid
  <2>1. Paid(d) /\ taken'[d] = taken[d]
    BY <1>11 DEF Ends, Aside, CopiesArePaid
  <2>2. \A m \in 1..MaxDeliver : <<d, m>> \in Tasks
    BY TasksAre
  <2>3. Live(d)' \subseteq Live(d)
    BY <1>11, <2>2 DEF Ends, Aside, Live, SendTypes, FieldTypes, Ended
  <2>4. Again(d)' => Again(d) \/ failures' = failures + 1
    BY <1>11, <2>2, SendsAssumption DEF Ends, Aside, Again, SendTypes, FieldTypes, Ended,
       OutIsDelivered
  <2> QED BY <2>1, <2>3, <2>4, FrameStep, PaidKept
<1>12. ASSUME NEW T \in SUBSET Tasks, Dies(T)
      PROVE  CopiesArePaid'
  <2> SUFFICES ASSUME NEW d \in Commands
               PROVE  Paid(d)'
    BY DEF CopiesArePaid
  <2>1. Paid(d) /\ taken'[d] = taken[d]
    BY <1>12 DEF Dies, Aside, CopiesArePaid
  <2>2. \A m \in 1..MaxDeliver : <<d, m>> \in Tasks
    BY TasksAre
  <2>3. Live(d)' \subseteq Live(d)
    BY <1>12, <2>2 DEF Dies, Aside, Live, SendTypes, FieldTypes, Ended
  <2>4. Again(d)' => Again(d) \/ failures' = failures + 1
    BY <1>12, <2>2 DEF Dies, Aside, Again, SendTypes, FieldTypes, Ended, OutIsDelivered
  <2> QED BY <2>1, <2>3, <2>4, FrameStep, PaidKept
<1>13. ASSUME NEW t \in Tasks, Undoes(t)
      PROVE  CopiesArePaid'
  <2> SUFFICES ASSUME NEW d \in Commands
               PROVE  Paid(d)'
    BY DEF CopiesArePaid
  <2>1. Paid(d) /\ taken'[d] = taken[d]
    BY <1>13 DEF Undoes, Aside, CopiesArePaid
  <2>2. \A m \in 1..MaxDeliver : <<d, m>> \in Tasks
    BY TasksAre
  <2>3. Live(d)' \subseteq Live(d)
    BY <1>13, <2>2 DEF Undoes, Aside, Live, SendTypes, FieldTypes, Ended
  <2>4. Again(d)' => Again(d) \/ failures' = failures + 1
    BY <1>13, <2>2, SendsAssumption DEF Undoes, Aside, Again, SendTypes, FieldTypes, Ended,
       OutIsDelivered
  <2> QED BY <2>1, <2>3, <2>4, FrameStep, PaidKept
<1>14. ASSUME NEW c \in Commands, NEW n \in 1..MaxDeliver, Publishes(c, n)
      PROVE  CopiesArePaid'
  <2> SUFFICES ASSUME NEW d \in Commands
               PROVE  Paid(d)'
    BY DEF CopiesArePaid
  <2>1. Paid(d) /\ taken'[d] = taken[d]
    BY <1>14 DEF Publishes, chatVars, CopiesArePaid
  <2>2. \A m \in 1..MaxDeliver : <<d, m>> \in Tasks
    BY TasksAre
  <2>3. Live(d)' \subseteq Live(d)
    BY <1>14, <2>2 DEF Publishes, chatVars, Live, SendTypes, FieldTypes, Ended
  <2>4. Again(d)' => Again(d) \/ failures' = failures + 1
    BY <1>14, <2>2 DEF Publishes, chatVars, Again, SendTypes, FieldTypes, Ended,
       OutIsDelivered
  <2> QED BY <2>1, <2>3, <2>4, FrameStep, PaidKept
<1>15. ASSUME NEW c \in Commands, NEW n \in 1..MaxDeliver, Acks(c, n)
      PROVE  CopiesArePaid'
  <2> SUFFICES ASSUME NEW d \in Commands
               PROVE  Paid(d)'
    BY DEF CopiesArePaid
  <2>1. Paid(d) /\ taken'[d] = taken[d]
    BY <1>15 DEF Acks, chatVars, CopiesArePaid
  <2>2. \A m \in 1..MaxDeliver : <<d, m>> \in Tasks
    BY TasksAre
  <2>3. Live(d)' \subseteq Live(d)
    BY <1>15, <2>2 DEF Acks, chatVars, Live, SendTypes, FieldTypes, Ended
  <2>4. Again(d)' => Again(d) \/ failures' = failures + 1
    BY <1>15, <2>2 DEF Acks, chatVars, Again, SendTypes, FieldTypes, Ended, OutIsDelivered
  <2> QED BY <2>1, <2>3, <2>4, FrameStep, PaidKept
<1>16. ASSUME NEW c \in Commands, NEW n \in 1..MaxDeliver, Naks(c, n)
      PROVE  CopiesArePaid'
  <2> SUFFICES ASSUME NEW d \in Commands
               PROVE  Paid(d)'
    BY DEF CopiesArePaid
  <2>1. Paid(d) /\ taken'[d] = taken[d]
    BY <1>16 DEF Naks, CopiesArePaid
  <2>2. \A m \in 1..MaxDeliver : <<d, m>> \in Tasks /\ (<<d, m>> = <<c, n>> => d = c /\ m = n)
    BY TasksAre
  <2>3. /\ \A u \in Tasks : phase'[u] = IF u = <<c, n>> THEN "done" ELSE phase[u]
        /\ phase[<<c, n>>] = "nak" /\ UNCHANGED <<todo, delivery>>
    BY <1>16 DEF Naks, SendTypes, FieldTypes
  <2>4. Live(d)' \subseteq Live(d) /\ (d = c => n \in Live(d) /\ n \notin Live(d)')
    BY <2>2, <2>3 DEF Live
  <2>5. CASE /\ d = c /\ queue[c] = "out"
             /\ queue' = [queue EXCEPT ![c] = "ready"] /\ failures' = failures
    <3> DEFINE X == Live(d)'
               Y == Live(d)
    <3>1. /\ X \in SUBSET (1..MaxDeliver) /\ Y \in SUBSET (1..MaxDeliver)
          /\ X \subseteq Y \ {n} /\ n \in Y
      BY <2>4, <2>5 DEF Live
    <3> HIDE DEF X, Y
    <3>2. /\ Cardinality(X) \in Nat /\ Cardinality(Y) \in Nat
          /\ Cardinality(X) <= Cardinality(Y) - 1
      <4>1. Y \ {n} \in SUBSET (1..MaxDeliver)
        BY <3>1
      <4>2. Cardinality(X) <= Cardinality(Y \ {n})
        BY <3>1, <4>1, LiveCounts
      <4>3. Cardinality(Y \ {n}) = Cardinality(Y) - 1
        BY <3>1, <4>1, LiveCounts
      <4> QED BY <3>1, <4>2, <4>3, LiveCounts
    <3>3. taken[d] + (Cardinality(Y) + (IF Again(d) THEN 1 ELSE 0)) <= 1 + failures
      BY <2>1 DEF Paid, Owed, Y
    <3>4. taken'[d] + (Cardinality(X) + (IF Again(d)' THEN 1 ELSE 0)) <= 1 + failures'
      BY <2>1, <2>5, <3>2, <3>3, TasksAre, CountersAre
    <3> QED BY <3>4 DEF Paid, Owed, X
  <2>6. CASE ~(/\ d = c /\ queue[c] = "out"
               /\ queue' = [queue EXCEPT ![c] = "ready"] /\ failures' = failures)
    <3>1. queue[d] = "out" => delivery[d] \in 1..MaxDeliver
      BY DEF OutIsDelivered
    <3>2. Again(d)' => Again(d) \/ failures' = failures + 1
      BY <1>16, <2>2, <2>3, <2>6, <3>1 DEF Naks, Again, SendTypes, FieldTypes
    <3> QED BY <2>1, <2>4, <3>2, FrameStep, PaidKept
  <2> QED BY <2>5, <2>6
<1> QED BY <1>1, <1>2, <1>3, <1>4, <1>5, <1>6, <1>7, <1>8, <1>9, <1>10, <1>11, <1>12, <1>13,
   <1>14, <1>15, <1>16, NextMoves

\* Task t is why chat c counts.
Holds(t, c) ==
  /\ counted[t] /\ to[t] = c
  /\ ~(phase[t] \in {"nak", "done"} /\ outcome[t] = "failed" /\ t \notin parked)

\* Nothing new counts, and what was a reason stays one.
LEMMA ForgetKept ==
  ASSUME FailuresLeaveNoChat,
         \A c \in started' : c \in started /\ \A t \in Tasks : Holds(t, c) => Holds(t, c)'
  PROVE  FailuresLeaveNoChat'
<1> SUFFICES ASSUME NEW c \in started'
             PROVE  \E t \in Tasks : Holds(t, c)'
  BY DEF FailuresLeaveNoChat, Scoped, Holds
<1>1. PICK t \in Tasks : Holds(t, c)
  BY DEF FailuresLeaveNoChat, Scoped, Holds
<1> QED BY <1>1

\* Every chat that counts keeps its send.
LEMMA ForgetStep ==
  ASSUME SendTypes, OutcomesFollow, FailuresLeaveNoChat, [SendsNext]_sendsVars
  PROVE  FailuresLeaveNoChat'
<1>1. CASE UNCHANGED sendsVars
  BY <1>1 DEF FailuresLeaveNoChat, Scoped, SendTypes, FieldTypes, OutcomesFollow, Ended,
     sendsVars, chatVars, queueVars, taskVars
<1>2. ASSUME NEW r \in Requests, Comes(r)
      PROVE  FailuresLeaveNoChat'
  <2>1. \A u \in Tasks \ {r} : UNCHANGED <<counted[u], phase[u], to[u], outcome[u]>>
    BY <1>2 DEF Comes, SendTypes, FieldTypes
  <2>2. ~counted[r] /\ parked \subseteq parked' /\ UNCHANGED started
    BY <1>2, TasksAre DEF Comes, OutcomesFollow
  <2>3. \A u \in Tasks, c \in Chats : Holds(u, c) => Holds(u, c)'
    BY <2>1, <2>2 DEF Holds
  <2> QED BY <2>2, <2>3, ForgetKept DEF SendTypes, FieldTypes
<1>3. ASSUME NEW r \in Requests, Replay(r)
      PROVE  FailuresLeaveNoChat'
  BY <1>3 DEF Replay, chatVars, queueVars, FailuresLeaveNoChat, Scoped, SendTypes,
     FieldTypes, OutcomesFollow, Ended
<1>4. ASSUME NEW c \in Commands, Enqueues(c)
      PROVE  FailuresLeaveNoChat'
  BY <1>4 DEF Enqueues, chatVars, taskVars, FailuresLeaveNoChat, Scoped, SendTypes,
     FieldTypes, OutcomesFollow, Ended
<1>5. ASSUME NEW c \in Commands, Delivers(c)
      PROVE  FailuresLeaveNoChat'
  <2> DEFINE v == <<c, delivery[c] + 1>>
  <2>1. delivery[c] + 1 \in 1..MaxDeliver /\ delivery[c] + 1 > delivery[c]
    BY <1>5, SendsAssumption DEF Delivers, SendTypes, FieldTypes
  <2>2. v \in Tasks /\ phase[v] = "idle"
    BY <2>1, TasksAre DEF OutcomesFollow
  <2>3. \A u \in Tasks \ {v} : UNCHANGED <<counted[u], phase[u], to[u], outcome[u]>>
    <3>1. /\ phase' = [phase EXCEPT ![v] = "run"] /\ UNCHANGED <<counted, outcome>>
          /\ \E d \in Chats \cup {NoChat} : to' = [to EXCEPT ![v] = d]
      BY <1>5 DEF Delivers
    <3> HIDE DEF v
    <3> QED BY <3>1 DEF SendTypes, FieldTypes
  <2> HIDE DEF v
  <2>4. ~counted[v] /\ UNCHANGED <<started, parked>>
    BY <1>5, <2>2 DEF Delivers, chatVars, OutcomesFollow
  <2>5. \A u \in Tasks, d \in Chats : Holds(u, d) => Holds(u, d)'
    BY <2>3, <2>4 DEF Holds
  <2> QED BY <2>4, <2>5, ForgetKept DEF SendTypes, FieldTypes
<1>6. ASSUME NEW c \in Commands, Waits(c)
      PROVE  FailuresLeaveNoChat'
  BY <1>6 DEF Waits, chatVars, taskVars, FailuresLeaveNoChat, Scoped, SendTypes,
     FieldTypes, OutcomesFollow, Ended
<1>7. ASSUME NEW t \in Tasks, Passes(t)
      PROVE  FailuresLeaveNoChat'
  BY <1>7 DEF Passes, Advances, Aside, FailuresLeaveNoChat, Scoped, SendTypes, FieldTypes,
     OutcomesFollow, Ended
<1>8. ASSUME NEW t \in Tasks, Stops(t)
      PROVE  FailuresLeaveNoChat'
  BY <1>8 DEF Stops, Fails, Aside, FailuresLeaveNoChat, Scoped, SendTypes, FieldTypes,
     OutcomesFollow, Ended
<1>9. ASSUME NEW t \in Tasks, Records(t)
      PROVE  FailuresLeaveNoChat'
  BY <1>9 DEF Records, Advances, Aside, FailuresLeaveNoChat, Scoped, SendTypes, FieldTypes,
     OutcomesFollow, Ended
<1>10. ASSUME NEW t \in Tasks, Hands(t)
      PROVE  FailuresLeaveNoChat'
  BY <1>10 DEF Hands, Advances, Fails, Aside, FailuresLeaveNoChat, Scoped, SendTypes,
     FieldTypes, OutcomesFollow, Ended
<1>11. ASSUME NEW t \in Tasks, Ends(t)
      PROVE  FailuresLeaveNoChat'
  BY <1>11 DEF Ends, Aside, FailuresLeaveNoChat, Scoped, SendTypes, FieldTypes,
     OutcomesFollow, Ended
<1>12. ASSUME NEW T \in SUBSET Tasks, Dies(T)
      PROVE  FailuresLeaveNoChat'
  BY <1>12 DEF Dies, Aside, FailuresLeaveNoChat, Scoped, SendTypes, FieldTypes,
     OutcomesFollow, Ended
<1>13. ASSUME NEW t \in Tasks, Undoes(t)
      PROVE  FailuresLeaveNoChat'
  <2>1. /\ phase[t] = "undo" /\ UNCHANGED <<parked, outcome>>
        /\ \A u \in Tasks \ {t} : phase'[u] = phase[u] /\ to'[u] = to[u]
    BY <1>13 DEF Undoes, Aside, SendTypes, FieldTypes
  <2>2. CASE counted[t] /\ t \notin parked
    <3>1. /\ started' = started \ {to[t]}
          /\ \A u \in Tasks \ {t} : counted'[u] = counted[u]
      BY <1>13, <2>2 DEF Undoes, SendTypes, FieldTypes
    <3>2. \A u \in Tasks, d \in started' : Holds(u, d) => Holds(u, d)'
      BY <2>1, <3>1 DEF Holds
    <3> QED BY <3>1, <3>2, ForgetKept
  <2>3. CASE ~(counted[t] /\ t \notin parked)
    <3>1. UNCHANGED <<started, counted>>
      BY <1>13, <2>3 DEF Undoes
    <3>2. counted[t] => to'[t] = to[t]
      BY <1>13, <3>1 DEF Undoes, SendTypes, FieldTypes
    <3>3. \A u \in Tasks, d \in started' : Holds(u, d) => Holds(u, d)'
      BY <2>1, <2>3, <3>1, <3>2 DEF Holds
    <3> QED BY <3>1, <3>3, ForgetKept
  <2> QED BY <2>2, <2>3
<1>14. ASSUME NEW c \in Commands, NEW n \in 1..MaxDeliver, Publishes(c, n)
      PROVE  FailuresLeaveNoChat'
  BY <1>14 DEF Publishes, chatVars, FailuresLeaveNoChat, Scoped, SendTypes, FieldTypes,
     OutcomesFollow, Ended
<1>15. ASSUME NEW c \in Commands, NEW n \in 1..MaxDeliver, Acks(c, n)
      PROVE  FailuresLeaveNoChat'
  <2>1. <<c, n>> \in Tasks
    BY TasksAre
  <2>2. /\ \A u \in Tasks \ {<<c, n>>} : phase'[u] = phase[u]
        /\ UNCHANGED <<started, counted, to, outcome, parked>>
    BY <1>15 DEF Acks, chatVars, SendTypes, FieldTypes
  <2>3. outcome[<<c, n>>] # "failed"
    BY <1>15, <2>1 DEF Acks, OutcomesFollow
  <2>4. \A u \in Tasks, d \in started' : Holds(u, d) => Holds(u, d)'
    BY <2>2, <2>3 DEF Holds
  <2> QED BY <2>2, <2>4, ForgetKept
<1>16. ASSUME NEW c \in Commands, NEW n \in 1..MaxDeliver, Naks(c, n)
      PROVE  FailuresLeaveNoChat'
  <2>1. <<c, n>> \in Tasks
    BY TasksAre
  <2>2. /\ \A u \in Tasks \ {<<c, n>>} : phase'[u] = phase[u]
        /\ UNCHANGED <<started, counted, to, outcome, parked>>
    BY <1>16 DEF Naks, chatVars, SendTypes, FieldTypes
  <2>3. phase[<<c, n>>] = "nak"
    BY <1>16, <2>1 DEF Naks, OutcomesFollow
  <2>4. \A u \in Tasks, d \in started' : Holds(u, d) => Holds(u, d)'
    BY <2>2, <2>3 DEF Holds
  <2> QED BY <2>2, <2>4, ForgetKept
<1> QED BY <1>1, <1>2, <1>3, <1>4, <1>5, <1>6, <1>7, <1>8, <1>9, <1>10, <1>11, <1>12, <1>13,
   <1>14, <1>15, <1>16, NextMoves

-----------------------------------------------------------------------------
(* The theorems.                                                           *)

\* The invariant holds at first.
LEMMA SendsStart ==
  ASSUME SendsInit
  PROVE  SendsInv
<1>1. FieldTypes
  BY EmptyTyped, SendsAssumption DEF SendsInit, Nothing, FieldTypes, Script, Phases, Ended,
     Outcomes
<1>2. RecipientsAreKnown
  BY NothingLooks DEF SendsInit, Nothing, RecipientsAreKnown
<1>3. OutcomesFollow /\ OutIsDelivered /\ AckedIsEarned /\ FailuresLeaveNoChat
  BY TasksAre DEF SendsInit, OutcomesFollow, OutIsDelivered, AckedIsEarned,
     FailuresLeaveNoChat
<1>4. CopiesFollow
  BY TasksAre DEF SendsInit, CopiesFollow, RequestFollows, CommandFollows
<1>5. CopiesArePaid
  <2> SUFFICES ASSUME NEW c \in Commands
               PROVE  Paid(c)
    BY DEF CopiesArePaid
  <2>1. Live(c) = {} /\ taken[c] = 0 /\ failures = 0
    BY TasksAre DEF SendsInit, Live
  <2>2. Cardinality({}) = 0
    BY FS_EmptySet
  <2>3. Cardinality(Live(c)) = 0
    BY <2>1, <2>2
  <2> QED BY <2>1, <2>3 DEF Paid, Owed
<1> QED BY <1>1, <1>2, <1>3, <1>4, <1>5 DEF SendsInv, SendTypes

\* The invariant of sends: what is left of a task and what WhatsApp has of its order make
\* one send, each place of a task has its outcomes, an acked command was earned, and every
\* copy of a command, sent or to come, but one is paid for by a fault.
THEOREM SendsInvariant == SendsSpec => []SendsInv
<1>1. SendsInit => SendsInv
  BY SendsStart
<1>2. SendsInv /\ [SendsNext]_sendsVars => SendsInv'
  <2> SUFFICES ASSUME SendsInv, [SendsNext]_sendsVars
               PROVE  SendsInv'
    OBVIOUS
  <2>1. /\ SendTypes /\ OutcomesFollow /\ OutIsDelivered /\ AckedIsEarned
        /\ CopiesFollow /\ CopiesArePaid /\ FailuresLeaveNoChat
    BY DEF SendsInv
  <2>2. FieldTypes' /\ RecipientsAreKnown'
    BY <2>1, FieldsStep, RecipientsStep
  <2>3. OutcomesFollow' /\ OutIsDelivered' /\ AckedIsEarned'
    BY <2>1, OutcomesStep, OutStep, AckedStep
  <2>4. CopiesFollow' /\ CopiesArePaid' /\ FailuresLeaveNoChat'
    BY <2>1, CopiesStep, PaidStep, ForgetStep
  <2> QED BY <2>2, <2>3, <2>4 DEF SendsInv, SendTypes
<1> QED BY <1>1, <1>2, PTL DEF SendsSpec

\* A command leaves the stream only when a delivery of it was taken or refused, unless
\* something broke its result says which, and a success that was published is one.
THEOREM AckedMeansDone == SendsSpec => []AckedIsDone
<1>1. SendsInv => AckedIsDone
  BY DEF SendsInv, AckedIsEarned, CopiesFollow, CommandFollows, AckedIsDone, OutcomesOf
<1> QED BY <1>1, SendsInvariant, PTL

\* WhatsApp gets no request twice, and a command no oftener than once more than something
\* failed; when nothing failed, what was reported sent was sent once.
THEOREM CopiesHaveFaults == SendsSpec => []EveryCopyHasAFault
<1>1. ASSUME SendsInv
      PROVE  EveryCopyHasAFault
  <2>1. \A r \in Requests : taken[r] <= 1
    BY <1>1 DEF SendsInv, CopiesFollow, RequestFollows
  <2>2. ASSUME NEW c \in Commands
        PROVE  taken[c] <= 1 + failures
    <3>1. Cardinality(Live(c)) \in Nat
      <4>1. Live(c) \in SUBSET (1..MaxDeliver)
        BY DEF Live
      <4> QED BY <4>1, LiveCounts
    <3>2. taken[c] \in Nat /\ failures \in Nat
      BY <1>1, TasksAre, CountersAre DEF SendsInv
    <3>3. taken[c] + (Cardinality(Live(c)) + (IF Again(c) THEN 1 ELSE 0)) <= 1 + failures
      BY <1>1 DEF SendsInv, CopiesArePaid, Paid, Owed
    <3> QED BY <3>1, <3>2, <3>3
  <2>3. ASSUME failures = 0, NEW t \in Tasks, outcome[t] = "ok"
        PROVE  taken[OrderOf(t)] = 1
    <3>1. taken[OrderOf(t)] > 0 /\ taken[OrderOf(t)] \in Nat
      BY <1>1, <2>3, TasksAre, CountersAre DEF SendsInv, CopiesFollow
    <3>2. taken[OrderOf(t)] <= 1
      <4>1. OrderOf(t) \in Requests \/ OrderOf(t) \in Commands
        BY TasksAre
      <4> QED BY <2>1, <2>2, <2>3, <4>1
    <3> QED BY <3>1, <3>2
  <2> QED BY <2>1, <2>2, <2>3 DEF EveryCopyHasAFault
<1> QED BY <1>1, SendsInvariant, PTL

\* A send that failed inside a scope leaves no chat counted, however requests, commands,
\* replays, crashes and hang-ups interleave.
THEOREM FailedSendsLeaveNoChat == SendsSpec => []FailuresLeaveNoChat
<1>1. SendsInv => FailuresLeaveNoChat
  BY DEF SendsInv
<1> QED BY <1>1, SendsInvariant, PTL
=============================================================================
