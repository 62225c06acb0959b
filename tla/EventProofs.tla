---------------------------- MODULE EventProofs ----------------------------
(***************************************************************************)
(* The safety theorems of what becomes of events.  Webhooks: circuits,     *)
(* deliveries and dead letters.  Inbox, below: incoming messages on their  *)
(* way through deduplication, contacts and history to the consumers, and   *)
(* the readers of the history.                                             *)
(***************************************************************************)
EXTENDS Webhooks, Inbox, SequenceTheorems, FiniteSetTheorems, TLAPS

\* A cooldown is at least the base, and outlasts any run.
LEMMA CooldownBounds ==
  ASSUME NEW n \in 0..MaxTrips
  PROVE  Cooldown(n) \in 0..MaxCooldown /\ MaxRun < Cooldown(0)
<1>1. Shift[n + 1] \in Nat /\ Shift[0 + 1] = 1
  BY DEF Shift, MaxTrips
<1>2. Base * Shift[n + 1] \in Nat
  BY <1>1, WebhookAssumption
<1>3. QED
  BY <1>1, <1>2, WebhookAssumption DEF Cooldown, Lesser

LEMMA NextTrip ==
  ASSUME NEW n \in 0..MaxTrips
  PROVE  Lesser(n + 1, MaxTrips) \in 0..MaxTrips
BY DEF Lesser, MaxTrips

\* What taking an entry out of a ring leaves.
LEMMA RingWithout ==
  ASSUME NEW r \in Seq(Deliveries), NEW i \in 1..Len(r)
  PROVE  /\ Without(r, i) \in Seq(Deliveries)
         /\ Len(Without(r, i)) = Len(r) - 1
         /\ \A j \in 1..(Len(r) - 1) : Without(r, i)[j] = IF j < i THEN r[j] ELSE r[j + 1]
<1> DEFINE a == SubSeq(r, 1, i - 1)
           b == SubSeq(r, i + 1, Len(r))
<1>1. a \in Seq(Deliveries) /\ Len(a) = i - 1 /\ \A j \in 1..(i - 1) : a[j] = r[j]
  OBVIOUS
<1>2. b \in Seq(Deliveries) /\ Len(b) = Len(r) - i /\ \A j \in 1..(Len(r) - i) : b[j] = r[i + j]
  OBVIOUS
<1>3. Without(r, i) = a \o b
  BY DEF Without, RemoveAt
<1> HIDE DEF a, b
<1>4. Len(a \o b) = Len(r) - 1 /\ a \o b \in Seq(Deliveries)
  <2>1. a \o b \in Seq(Deliveries) /\ Len(a \o b) = Len(a) + Len(b)
    BY <1>1, <1>2, ConcatProperties, Zenon
  <2>2. i - 1 + (Len(r) - i) = Len(r) - 1
    OBVIOUS
  <2>3. QED
    BY <1>1, <1>2, <2>1, <2>2
<1>5. ASSUME NEW j \in 1..(Len(r) - 1)
      PROVE  (a \o b)[j] = IF j < i THEN r[j] ELSE r[j + 1]
  <2>1. CASE j < i
    BY <1>1, <1>2, <2>1
  <2>2. CASE ~(j < i)
    <3>1. (a \o b)[j] = b[j - (i - 1)] /\ j - (i - 1) \in 1..(Len(r) - i)
      BY <1>1, <1>2, <2>2
    <3>2. i + (j - (i - 1)) = j + 1
      OBVIOUS
    <3>3. QED
      BY <1>2, <2>2, <3>1, <3>2
  <2>3. QED
    BY <2>1, <2>2
<1>6. QED
  BY <1>3, <1>4, <1>5

-----------------------------------------------------------------------------
(* Types.                                                                  *)

LEMMA InitTypeOK == Init => TypeOK
BY WebhookAssumption DEF Init, TypeOK, Stage, Lost, MaxTrips

CircuitsTyped ==
  /\ failures \in [Urls -> 0..Threshold] /\ open \in [Urls -> BOOLEAN]
  /\ wait \in [Urls -> 0..MaxCooldown] /\ trips \in [Urls -> 0..MaxTrips]
  /\ probing \in [Urls -> BOOLEAN] /\ probeLeft \in [Urls -> 0..ProbeTimeout]
  /\ probeBy \in [Urls -> Deliveries \cup {NoDelivery}]
  /\ probes \in [Urls -> 0..MaxTrips]

LEMMA LetThroughTyped ==
  ASSUME TypeOK, NEW d \in Deliveries, LetThrough(d, url[d])
  PROVE  CircuitsTyped'
<1>1. CircuitsTyped /\ url[d] \in Urls
  BY DEF TypeOK, CircuitsTyped
<1>2. CASE UNCHANGED <<circuitVars, seenVars>>
  BY <1>1, <1>2 DEF CircuitsTyped, circuitVars, seenVars
<1>3. CASE StartProbe(d, url[d])
  <2>1. Lesser(probes[url[d]] + 1, MaxTrips) \in 0..MaxTrips
    BY <1>1, NextTrip DEF CircuitsTyped
  <2> HIDE DEF Lesser, MaxTrips
  <2>2. probes' \in [Urls -> 0..MaxTrips] /\ probeLeft' \in [Urls -> 0..ProbeTimeout]
    BY <1>1, <1>3, <2>1, WebhookAssumption DEF StartProbe, CircuitsTyped
  <2>3. QED
    BY <1>1, <1>3, <2>2 DEF StartProbe, CircuitsTyped
<1>4. QED
  BY <1>2, <1>3 DEF LetThrough

LEMMA CloseTyped ==
  ASSUME TypeOK, NEW u \in Urls, Close(u)
  PROVE  CircuitsTyped'
BY WebhookAssumption DEF Close, TypeOK, CircuitsTyped, MaxTrips

LEMMA RecordFailureTyped ==
  ASSUME TypeOK, CircuitInv, NEW u \in Urls, RecordFailure(u)
  PROVE  CircuitsTyped'
<1>0. CircuitsTyped
  BY DEF TypeOK, CircuitsTyped
<1>1. CASE Reopen(u)
  <2> DEFINE n == Lesser(trips[u] + 1, MaxTrips)
  <2>1. n \in 0..MaxTrips
    BY <1>0, NextTrip DEF CircuitsTyped
  <2>2. Cooldown(n) \in 0..MaxCooldown
    BY <2>1, CooldownBounds
  <2>3. /\ trips' = [trips EXCEPT ![u] = n] /\ wait' = [wait EXCEPT ![u] = Cooldown(n)]
        /\ probing' = [probing EXCEPT ![u] = FALSE]
        /\ probeLeft' = [probeLeft EXCEPT ![u] = 0]
        /\ probeBy' = [probeBy EXCEPT ![u] = NoDelivery]
        /\ UNCHANGED <<failures, open, probes>>
    BY <1>1 DEF Reopen
  <2> HIDE DEF n
  <2>4. QED
    BY <1>0, <2>1, <2>2, <2>3, WebhookAssumption DEF CircuitsTyped
<1>2. CASE Straggle(u)
  BY <1>0, <1>2 DEF Straggle, CircuitsTyped, seenVars, circuitVars
<1>3. CASE CountFailure(u)
  <2>1. failures[u] + 1 \in 0..Threshold
    BY <1>0, <1>3, WebhookAssumption DEF CountFailure, CircuitInv, ClosedIsFresh, CircuitsTyped
  <2>2. Cooldown(trips[u]) \in 0..MaxCooldown
    BY <1>0, CooldownBounds DEF CircuitsTyped
  <2>3. QED
    BY <1>0, <1>3, <2>1, <2>2 DEF CountFailure, CircuitsTyped, seenVars
<1>4. QED
  BY <1>1, <1>2, <1>3 DEF RecordFailure

LEMMA TakeOffTyped ==
  ASSUME TypeOK, NEW d \in Deliveries, TakeOff(d)
  PROVE  /\ stage' \in [Deliveries -> Stage] /\ attempts' \in [Deliveries -> 0..MaxAttempts]
         /\ left' \in [Deliveries -> 0..MaxRun]
BY WebhookAssumption DEF TakeOff, TypeOK, Stage, Running, InFlight

LEMMA PushTyped ==
  ASSUME TypeOK, NEW d \in Deliveries, Push(d)
  PROVE  ring' \in [Sessions -> Seq(Deliveries)] /\ stage' \in [Deliveries -> Stage]
<1>1. ring[home[d]] \in Seq(Deliveries)
  BY DEF TypeOK
<1>2. Victims(ring[home[d]]) # {} => Tail(ring[home[d]]) \in Seq(Deliveries)
  BY <1>1, WebhookAssumption DEF Victims
<1>3. ring' \in [Sessions -> Seq(Deliveries)]
  BY <1>1, <1>2 DEF Push, TypeOK
<1>4. stage' \in [Deliveries -> Stage]
  BY DEF Push, TypeOK, Stage, Lost
<1>5. QED
  BY <1>3, <1>4

\* Every step keeps every variable in its type.
LEMMA TypeStep == TypeOK /\ CircuitInv /\ [Next]_vars => TypeOK'
<1> SUFFICES ASSUME TypeOK, CircuitInv, [Next]_vars PROVE TypeOK'
  OBVIOUS
<1> USE WebhookAssumption DEF taskVars
<1>1. CASE UNCHANGED vars
  BY <1>1 DEF vars, TypeOK, circuitVars, seenVars
<1>2. ASSUME NEW d \in Deliveries, Broadcast(d) PROVE TypeOK'
  <2>1. CASE LetThrough(d, url[d]) /\ TakeOff(d)
    BY <1>2, <2>1, LetThroughTyped, TakeOffTyped DEF Broadcast, TypeOK, CircuitsTyped
  <2>2. CASE /\ stage' = [stage EXCEPT ![d] = "skipped"]
             /\ UNCHANGED <<circuitVars, seenVars, attempts, left>>
    BY <1>2, <2>2 DEF Broadcast, TypeOK, circuitVars, seenVars, Stage, Lost
  <2>3. QED
    BY <1>2, <2>1, <2>2 DEF Broadcast
<1>3. ASSUME NEW d \in Deliveries, Run(d) PROVE TypeOK'
  <2>1. CASE Deliver(d)
    BY <2>1, CloseTyped DEF Deliver, TypeOK, CircuitsTyped, Stage
  <2>2. CASE AttemptFails(d)
    <3>1. attempts' \in [Deliveries -> 0..MaxAttempts]
      BY <2>2 DEF AttemptFails, TypeOK, CircuitInv, RunsHaveAttempts
    <3>2. QED
      BY <2>2, <3>1
         DEF AttemptFails, TypeOK, circuitVars, seenVars, Stage, Running, InFlight
  <2>3. CASE Report(d)
    BY <2>3, RecordFailureTyped DEF Report, TypeOK, CircuitsTyped, Stage, Running
  <2>4. CASE Bury(d)
    BY <2>4, PushTyped DEF Bury, TypeOK, circuitVars, seenVars
  <2>5. QED
    BY <1>3, <2>1, <2>2, <2>3, <2>4 DEF Run
<1>4. ASSUME NEW d \in Deliveries, Take(d) PROVE TypeOK'
  <2>1. PICK i \in 1..Len(ring[home[d]]) :
          ring' = [ring EXCEPT ![home[d]] = Without(@, i)]
    BY <1>4 DEF Take
  <2>2. Without(ring[home[d]], i) \in Seq(Deliveries)
    BY RingWithout DEF TypeOK
  <2>3. ring' \in [Sessions -> Seq(Deliveries)]
    BY <2>1, <2>2 DEF TypeOK
  <2>4. QED
    BY <1>4, <2>3 DEF Take, TypeOK, circuitVars, seenVars, Stage
<1>5. ASSUME NEW d \in Deliveries, Replay(d) PROVE TypeOK'
  <2>1. CASE LetThrough(d, url[d]) /\ TakeOff(d) /\ UNCHANGED ring
    BY <1>5, <2>1, LetThroughTyped, TakeOffTyped DEF Replay, TypeOK, CircuitsTyped
  <2>2. CASE Push(d) /\ UNCHANGED <<circuitVars, seenVars, attempts, left>>
    BY <1>5, <2>2, PushTyped DEF Replay, TypeOK, circuitVars, seenVars
  <2>3. QED
    BY <1>5, <2>1, <2>2 DEF Replay
<1>6. ASSUME NEW d \in Deliveries, TaskDies(d) PROVE TypeOK'
  BY <1>6 DEF TaskDies, TypeOK, circuitVars, seenVars, Stage, Lost
<1>7. ASSUME NEW u \in Urls, EnableWebhook(u) \/ ReenableOpen(u) PROVE TypeOK'
  BY <1>7, CloseTyped DEF EnableWebhook, ReenableOpen, TypeOK, CircuitsTyped
<1>8. ASSUME NEW s \in Sessions, Purge(s) PROVE TypeOK'
  <2>1. stage' \in [Deliveries -> Stage]
    BY <1>8 DEF Purge, TypeOK, Stage, Lost
  <2>2. ring' \in [Sessions -> Seq(Deliveries)]
    BY <1>8 DEF Purge, TypeOK
  <2>3. QED
    BY <1>8, <2>1, <2>2 DEF Purge, TypeOK, circuitVars, seenVars
<1>9. CASE Tick
  <2>1. /\ wait' \in [Urls -> 0..MaxCooldown]
        /\ probeLeft' \in [Urls -> 0..ProbeTimeout]
        /\ left' \in [Deliveries -> 0..MaxRun]
    BY <1>9 DEF Tick, TypeOK
  <2>2. QED
    BY <1>9, <2>1 DEF Tick, TypeOK, seenVars
<1>10. QED
  BY <1>1, <1>2, <1>3, <1>4, <1>5, <1>6, <1>7, <1>8, <1>9 DEF Next
-----------------------------------------------------------------------------
(* The circuits.                                                           *)

LEMMA InitCircuitInv == Init => CircuitInv /\ EscalationIsEarned
BY WebhookAssumption
   DEF Init, CircuitInv, ClosedIsFresh, NobodyIsLate, RunsHaveAttempts, EscalationIsEarned,
       InFlight

\* When a probe may go, every earlier run has ended.
LEMMA NobodyOnTheWay ==
  ASSUME TypeOK, NobodyIsLate, NEW u \in Urls, open[u], Allows(u),
         NEW d \in Deliveries, url[d] = u
  PROVE  stage[d] \notin InFlight
BY WebhookAssumption DEF NobodyIsLate, Allows, TypeOK

\* A step that starts no run and leaves the circuits alone.
LEMMA CircuitFrame ==
  ASSUME CircuitInv, EscalationIsEarned, UNCHANGED <<circuitVars, seenVars, url, left>>,
         \A d \in Deliveries : stage'[d] \in InFlight => stage[d] \in InFlight,
         \A d \in Deliveries : stage'[d] = "flying" =>
           stage[d] = "flying" /\ attempts'[d] < MaxAttempts
  PROVE  CircuitInv' /\ EscalationIsEarned'
BY DEF CircuitInv, ClosedIsFresh, NobodyIsLate, RunsHaveAttempts, EscalationIsEarned,
       circuitVars, seenVars

LEMMA TakeOffInv ==
  ASSUME TypeOK, CircuitInv, EscalationIsEarned, NEW d \in Deliveries,
         LetThrough(d, url[d]), TakeOff(d), UNCHANGED url
  PROVE  CircuitInv' /\ EscalationIsEarned'
<1> DEFINE u == url[d]
<1>0. u \in Urls
  BY DEF TypeOK
<1>1. RunsHaveAttempts'
  BY WebhookAssumption DEF TakeOff, TypeOK, CircuitInv, RunsHaveAttempts
<1>2. CASE UNCHANGED <<circuitVars, seenVars>> /\ ~open[u]
  <2>1. NobodyIsLate'
    BY <1>2 DEF TakeOff, TypeOK, CircuitInv, NobodyIsLate, circuitVars, seenVars
  <2>2. ClosedIsFresh' /\ EscalationIsEarned'
    BY <1>2 DEF CircuitInv, ClosedIsFresh, EscalationIsEarned, circuitVars, seenVars
  <2>3. QED
    BY <1>1, <2>1, <2>2 DEF CircuitInv
<1>3. CASE StartProbe(d, u)
  <2>1. open[u] /\ Allows(u) /\ wait[u] = 0
    BY <1>3 DEF LetThrough, StartProbe, Allows
  <2>2. \A e \in Deliveries : url[e] = u => stage[e] \notin InFlight
    BY <1>0, <2>1, NobodyOnTheWay DEF CircuitInv
  <2>3. NobodyIsLate'
    <3> SUFFICES ASSUME NEW e \in Deliveries, stage'[e] \in InFlight, open'[url[e]]
                 PROVE  IF probing'[url[e]]
                        THEN e = probeBy'[url[e]] /\ left'[e] < probeLeft'[url[e]]
                        ELSE left'[e] < wait'[url[e]]
      BY DEF NobodyIsLate
    <3>1. CASE e = d
      BY <1>0, <1>3, <3>1, WebhookAssumption DEF StartProbe, TakeOff, TypeOK
    <3>2. CASE e # d
      <4>1. stage[e] \in InFlight /\ url[e] # u /\ left'[e] = left[e] /\ url[e] \in Urls
        BY <2>2, <3>2 DEF TakeOff, TypeOK
      <4>2. QED
        BY <1>0, <1>3, <4>1 DEF StartProbe, TypeOK, CircuitInv, NobodyIsLate
    <3>3. QED
      BY <3>1, <3>2
  <2>4. ClosedIsFresh'
    BY <1>0, <1>3, <2>1 DEF StartProbe, TypeOK, CircuitInv, ClosedIsFresh
  <2>5. EscalationIsEarned'
    <3> DEFINE n == Lesser(probes[u] + 1, MaxTrips)
    <3>1. /\ probes' = [probes EXCEPT ![u] = n] /\ trips' = trips
          /\ probing' = [probing EXCEPT ![u] = TRUE]
      BY <1>3 DEF StartProbe
    <3>2. trips[u] <= n /\ (n < MaxTrips => trips[u] < n)
      <4>1. trips[u] \in 0..4 /\ probes[u] \in 0..4 /\ trips[u] <= probes[u]
        BY <1>0 DEF TypeOK, EscalationIsEarned, MaxTrips
      <4>2. QED
        BY <4>1 DEF Lesser, MaxTrips
    <3> HIDE DEF n
    <3>3. QED
      BY <1>0, <3>1, <3>2 DEF TypeOK, EscalationIsEarned
  <2>6. QED
    BY <1>1, <2>3, <2>4, <2>5 DEF CircuitInv
<1>4. QED
  BY <1>2, <1>3 DEF LetThrough

LEMMA CloseInv ==
  ASSUME TypeOK, CircuitInv, EscalationIsEarned, NEW u \in Urls, Close(u),
         UNCHANGED <<url, left, attempts>>,
         \A d \in Deliveries : stage'[d] \in InFlight => stage'[d] = stage[d]
  PROVE  CircuitInv' /\ EscalationIsEarned'
<1>1. ClosedIsFresh' /\ EscalationIsEarned'
  BY WebhookAssumption
     DEF Close, TypeOK, CircuitInv, ClosedIsFresh, EscalationIsEarned, MaxTrips
<1>2. NobodyIsLate'
  BY DEF Close, TypeOK, CircuitInv, NobodyIsLate
<1>3. RunsHaveAttempts'
  BY DEF CircuitInv, RunsHaveAttempts, InFlight
<1>4. QED
  BY <1>1, <1>2, <1>3 DEF CircuitInv

\* The failure of run d: of the probe, of a straggler, or counted.
LEMMA ReportInv ==
  ASSUME TypeOK, CircuitInv, EscalationIsEarned, NEW d \in Deliveries, Report(d)
  PROVE  CircuitInv' /\ EscalationIsEarned'
<1> DEFINE u == url[d]
<1>0. u \in Urls /\ stage[d] \in InFlight /\ stage'[d] \notin InFlight
  BY DEF Report, TypeOK, InFlight
<1>1. RunsHaveAttempts'
  BY DEF Report, TypeOK, CircuitInv, RunsHaveAttempts
<1>2. \A e \in Deliveries : stage'[e] \in InFlight => stage[e] \in InFlight /\ e # d
  BY <1>0 DEF Report, TypeOK
<1>3. CASE Reopen(u)
  <2> DEFINE n == Lesser(trips[u] + 1, MaxTrips)
  <2>1. \A e \in Deliveries : stage'[e] \in InFlight => url[e] # u
    BY <1>0, <1>2, <1>3 DEF Reopen, CircuitInv, NobodyIsLate
  <2>2. NobodyIsLate'
    BY <1>0, <1>2, <1>3, <2>1 DEF Report, Reopen, TypeOK, CircuitInv, NobodyIsLate
  <2>3. ClosedIsFresh'
    BY <1>0, <1>3 DEF Reopen, TypeOK, CircuitInv, ClosedIsFresh
  <2>4. EscalationIsEarned'
    <3>1. /\ trips' = [trips EXCEPT ![u] = n] /\ probes' = probes
          /\ probing' = [probing EXCEPT ![u] = FALSE] /\ probing[u]
      BY <1>3 DEF Reopen
    <3>2. n <= probes[u]
      <4>1. /\ trips[u] \in 0..4 /\ probes[u] \in 0..4 /\ trips[u] <= probes[u]
            /\ probes[u] < 4 => trips[u] < probes[u]
        BY <1>0, <3>1 DEF TypeOK, EscalationIsEarned, MaxTrips
      <4>2. QED
        BY <4>1 DEF Lesser, MaxTrips
    <3> HIDE DEF n
    <3>3. QED
      BY <1>0, <3>1, <3>2 DEF TypeOK, EscalationIsEarned
  <2>5. QED
    BY <1>1, <2>2, <2>3, <2>4 DEF CircuitInv
<1>4. CASE Straggle(u)
  <2>1. NobodyIsLate'
    BY <1>2, <1>4 DEF Report, Straggle, CircuitInv, NobodyIsLate, circuitVars, seenVars
  <2>2. ClosedIsFresh' /\ EscalationIsEarned'
    BY <1>4 DEF Straggle, CircuitInv, ClosedIsFresh, EscalationIsEarned, circuitVars, seenVars
  <2>3. QED
    BY <1>1, <2>1, <2>2 DEF CircuitInv
<1>5. CASE CountFailure(u)
  <2>1. ~open[u] /\ ~probing[u] /\ trips[u] = 0 /\ probes[u] = 0
    BY <1>0, <1>5 DEF CountFailure, CircuitInv, ClosedIsFresh
  <2>2. MaxRun < Cooldown(0)
    BY CooldownBounds DEF MaxTrips
  <2>3. ClosedIsFresh' /\ EscalationIsEarned'
    BY <1>0, <1>5, <2>1, WebhookAssumption
       DEF CountFailure, TypeOK, CircuitInv, ClosedIsFresh, EscalationIsEarned, seenVars
  <2>4. NobodyIsLate'
    <3> SUFFICES ASSUME NEW e \in Deliveries, stage'[e] \in InFlight, open'[url[e]]
                 PROVE  IF probing[url[e]]
                        THEN e = probeBy[url[e]] /\ left[e] < probeLeft[url[e]]
                        ELSE left[e] < wait'[url[e]]
      BY <1>5 DEF Report, CountFailure, NobodyIsLate, seenVars
    <3>1. CASE url[e] = u
      <4>1. wait'[u] = Cooldown(0)
        BY <1>0, <1>5, <2>1, <3>1 DEF CountFailure, TypeOK
      <4>2. left[e] \in Nat /\ left[e] <= MaxRun /\ Cooldown(0) \in Nat
        BY WebhookAssumption, CooldownBounds DEF TypeOK, MaxTrips
      <4>3. QED
        BY <2>1, <2>2, <3>1, <4>1, <4>2, WebhookAssumption
    <3>2. CASE url[e] # u
      <4>1. url[e] \in Urls /\ open[url[e]] /\ wait'[url[e]] = wait[url[e]]
        BY <1>0, <1>5, <3>2 DEF CountFailure, TypeOK
      <4>2. QED
        BY <1>2, <4>1 DEF CircuitInv, NobodyIsLate
    <3>3. QED
      BY <3>1, <3>2
  <2>5. QED
    BY <1>1, <2>3, <2>4 DEF CircuitInv
<1>6. QED
  BY <1>3, <1>4, <1>5 DEF Report, RecordFailure

\* Time: whoever is on the way loses a second, as the timers do.
LEMMA TickInv ==
  ASSUME TypeOK, CircuitInv, EscalationIsEarned, Tick
  PROVE  CircuitInv' /\ EscalationIsEarned'
<1>1. RunsHaveAttempts' /\ EscalationIsEarned'
  BY DEF Tick, CircuitInv, RunsHaveAttempts, EscalationIsEarned, seenVars
<1>2. ClosedIsFresh'
  BY DEF Tick, TypeOK, CircuitInv, ClosedIsFresh, seenVars
<1>3. NobodyIsLate'
  <2> SUFFICES ASSUME NEW d \in Deliveries, stage[d] \in InFlight, open[url[d]]
               PROVE  IF probing[url[d]]
                      THEN d = probeBy[url[d]] /\ left'[d] < probeLeft'[url[d]]
                      ELSE left'[d] < wait'[url[d]]
    BY DEF Tick, NobodyIsLate, seenVars
  <2>1. url[d] \in Urls /\ left[d] > 0 /\ left[d] \in Nat
        /\ wait[url[d]] \in Nat /\ probeLeft[url[d]] \in Nat
    BY WebhookAssumption DEF Tick, TypeOK, Running
  <2>2. QED
    BY <2>1 DEF Tick, CircuitInv, NobodyIsLate
<1>4. QED
  BY <1>1, <1>2, <1>3 DEF CircuitInv

LEMMA CircuitStep ==
  ASSUME TypeOK, CircuitInv, EscalationIsEarned, [Next]_vars
  PROVE  CircuitInv' /\ EscalationIsEarned'
<1> USE DEF TypeOK, InFlight
<1>1. CASE UNCHANGED vars
  <2>1. UNCHANGED <<circuitVars, seenVars, url, left, stage, attempts>>
    BY <1>1 DEF vars, taskVars
  <2>2. QED
    BY <2>1, CircuitFrame DEF CircuitInv, RunsHaveAttempts
<1>2. ASSUME NEW d \in Deliveries, Broadcast(d) \/ Replay(d)
      PROVE  CircuitInv' /\ EscalationIsEarned'
  <2>1. CASE LetThrough(d, url[d]) /\ TakeOff(d)
    BY <1>2, <2>1, TakeOffInv DEF Broadcast, Replay
  <2>2. CASE /\ stage' = [stage EXCEPT ![d] = "skipped"]
             /\ UNCHANGED <<circuitVars, seenVars, attempts, left>>
    BY <1>2, <2>2, CircuitFrame DEF Broadcast, Replay, CircuitInv, RunsHaveAttempts
  <2>3. CASE Push(d) /\ UNCHANGED <<circuitVars, seenVars, attempts, left>>
    BY <1>2, <2>3, CircuitFrame DEF Broadcast, Replay, Push, CircuitInv, RunsHaveAttempts
  <2>4. QED
    BY <1>2, <2>1, <2>2, <2>3 DEF Broadcast, Replay
<1>3. ASSUME NEW d \in Deliveries, Deliver(d) PROVE CircuitInv' /\ EscalationIsEarned'
  BY <1>3, CloseInv DEF Deliver
<1>4. ASSUME NEW d \in Deliveries, AttemptFails(d) PROVE CircuitInv' /\ EscalationIsEarned'
  BY <1>4, CircuitFrame DEF AttemptFails, CircuitInv, RunsHaveAttempts
<1>5. ASSUME NEW d \in Deliveries, Report(d) PROVE CircuitInv' /\ EscalationIsEarned'
  BY <1>5, ReportInv
<1>6. ASSUME NEW d \in Deliveries, Bury(d) PROVE CircuitInv' /\ EscalationIsEarned'
  BY <1>6, CircuitFrame DEF Bury, Push, CircuitInv, RunsHaveAttempts
<1>7. ASSUME NEW d \in Deliveries, Take(d) \/ TaskDies(d)
      PROVE  CircuitInv' /\ EscalationIsEarned'
  BY <1>7, CircuitFrame DEF Take, TaskDies, CircuitInv, RunsHaveAttempts
<1>8. ASSUME NEW u \in Urls, EnableWebhook(u) \/ ReenableOpen(u)
      PROVE  CircuitInv' /\ EscalationIsEarned'
  BY <1>8, CloseInv DEF EnableWebhook, ReenableOpen, taskVars
<1>9. ASSUME NEW s \in Sessions, Purge(s) PROVE CircuitInv' /\ EscalationIsEarned'
  BY <1>9, CircuitFrame DEF Purge, CircuitInv, RunsHaveAttempts
<1>10. CASE Tick
  BY <1>10, TickInv
<1>11. QED
  BY <1>1, <1>2, <1>3, <1>4, <1>5, <1>6, <1>7, <1>8, <1>9, <1>10 DEF Next, Run

\* The types, the inductive invariant of the circuits, and the bound on their
\* escalation that is inductive with it.
THEOREM CircuitsInStep == Spec => [](TypeOK /\ CircuitInv /\ EscalationIsEarned)
<1>1. Init => TypeOK /\ CircuitInv /\ EscalationIsEarned
  BY InitTypeOK, InitCircuitInv
<1>2. TypeOK /\ CircuitInv /\ EscalationIsEarned /\ [Next]_vars
        => (TypeOK /\ CircuitInv /\ EscalationIsEarned)'
  BY TypeStep, CircuitStep
<1>3. QED
  BY <1>1, <1>2, PTL DEF Spec

\* The cooldown grows only with probes that were let through and failed.
THEOREM EscalationsAreEarned == Spec => []EscalationIsEarned
BY CircuitsInStep, PTL

\* The verdict on a receiver is its probe's: nobody else is on the way to it.
THEOREM ProbesAreAlone == Spec => []ProbeIsAlone
<1>1. TypeOK /\ CircuitInv => ProbeIsAlone
  BY DEF TypeOK, CircuitInv, ClosedIsFresh, NobodyIsLate, ProbeIsAlone
<1>2. QED
  BY <1>1, CircuitsInStep, PTL

-----------------------------------------------------------------------------
(* The dead-letter rings.                                                  *)

\* A step that neither buries nor digs up.
LEMMA RingFrame ==
  ASSUME DeadLettersAreOnce, UNCHANGED <<ring, home>>,
         \A d \in Deliveries : stage'[d] = "buried" <=> stage[d] = "buried"
  PROVE  DeadLettersAreOnce'
BY DEF DeadLettersAreOnce

\* The oldest entry makes room, and the new one is the newest.
LEMMA PushInv ==
  ASSUME TypeOK, DeadLettersAreOnce, NEW d \in Deliveries, stage[d] # "buried", Push(d),
         UNCHANGED home
  PROVE  DeadLettersAreOnce'
<1> DEFINE s == home[d]
           r == ring[s]
           q == IF Victims(r) = {} THEN r ELSE Tail(r)
<1>1. s \in Sessions /\ r \in Seq(Deliveries)
  BY DEF TypeOK
<1>2. /\ Len(r) <= Capacity
      /\ \A i, j \in 1..Len(r) : r[i] = r[j] => i = j
      /\ \A e \in Deliveries :
           stage[e] = "buried" /\ home[e] = s <=> \E i \in 1..Len(r) : e = r[i]
  BY <1>1 DEF DeadLettersAreOnce
<1>3. /\ ring' = [ring EXCEPT ![s] = Append(q, d)]
      /\ \A e \in Deliveries : stage'[e] = IF e = d THEN "buried"
                                          ELSE IF e \in Victims(r) THEN "evicted" ELSE stage[e]
  BY DEF Push
<1>4. /\ q \in Seq(Deliveries) /\ Len(q) < Capacity
      /\ \A i, j \in 1..Len(q) : q[i] = q[j] => i = j
      /\ \A e \in Deliveries : e # d =>
           (stage'[e] = "buried" /\ home[e] = s <=> \E i \in 1..Len(q) : e = q[i])
      /\ \A i \in 1..Len(q) : q[i] # d
      /\ \A e \in Deliveries : e # d /\ home[e] # s =>
           (stage'[e] = "buried" <=> stage[e] = "buried")
  <2>1. CASE Len(r) >= Capacity
    <3>1. Victims(r) = {r[1]} /\ q = Tail(r) /\ Len(r) >= 1
      <4>1. Victims(r) = {r[1]}
        BY <2>1 DEF Victims
      <4>2. q = Tail(r)
        BY <4>1
      <4>3. Len(r) >= 1
        <5> HIDE DEF q, r, s
        <5>1. Len(r) \in Nat /\ Capacity \in Nat \ {0}
          BY <1>1, WebhookAssumption
        <5>2. QED
          BY <5>1, <2>1
      <4>4. QED
        BY <4>1, <4>2, <4>3
    <3>2. q \in Seq(Deliveries) /\ Len(q) = Len(r) - 1
          /\ \A i \in 1..Len(q) : q[i] = r[i + 1]
      <4> HIDE DEF q, r, s
      <4>1. r \in Seq(Deliveries) /\ r # <<>>
        BY <1>1, <3>1
      <4>2. QED
        BY <3>1, <4>1, HeadTailProperties
    <3>3. \A e \in Deliveries : e # d =>
            (stage'[e] = "buried" <=> stage[e] = "buried" /\ e # r[1])
      BY <1>3, <3>1
    <3> HIDE DEF q, r, s
    <3>4. \A e \in Deliveries :
            (\E i \in 1..Len(r) : e = r[i]) /\ e # r[1] <=> \E i \in 1..Len(q) : e = q[i]
      <4> SUFFICES ASSUME NEW e \in Deliveries
                   PROVE  (\E i \in 1..Len(r) : e = r[i]) /\ e # r[1]
                            <=> \E i \in 1..Len(q) : e = q[i]
        OBVIOUS
      <4>1. ASSUME NEW i \in 1..Len(r), e = r[i], e # r[1]
            PROVE  \E j \in 1..Len(q) : e = q[j]
        <5>1. i - 1 \in 1..Len(q) /\ q[i - 1] = r[i]
          BY <1>1, <3>2, <4>1
        <5>2. QED
          BY <4>1, <5>1
      <4>2. ASSUME NEW i \in 1..Len(q), e = q[i]
            PROVE  (\E j \in 1..Len(r) : e = r[j]) /\ e # r[1]
        <5>1. i + 1 \in 1..Len(r) /\ 1 \in 1..Len(r) /\ e = r[i + 1] /\ i + 1 # 1
          BY <1>1, <3>1, <3>2, <4>2
        <5>2. QED
          BY <1>2, <5>1
      <4>3. QED
        BY <4>1, <4>2
    <3>5. ASSUME NEW i \in 1..Len(q), NEW j \in 1..Len(q), q[i] = q[j]
          PROVE  i = j
      <4>1. i \in Nat /\ j \in Nat /\ i + 1 \in 1..Len(r) /\ j + 1 \in 1..Len(r)
        BY <1>1, <3>2
      <4>2. r[i + 1] = r[j + 1]
        BY <3>2, <3>5
      <4>3. i + 1 = j + 1
        BY <1>2, <4>1, <4>2
      <4>4. QED
        BY <4>1, <4>3
    <3>6. r[1] \in Deliveries /\ home[r[1]] = s
      BY <1>1, <1>2, <3>1
    <3>7. \A i \in 1..Len(q) : q[i] # d
      BY <1>2, <3>2, <3>4
    <3>8. Len(q) < Capacity
      BY <1>1, <1>2, <3>2, WebhookAssumption
    <3>9. \A e \in Deliveries : e # d =>
            (stage'[e] = "buried" /\ home[e] = s <=> \E i \in 1..Len(q) : e = q[i])
      BY <1>2, <3>3, <3>4
    <3>10. QED
      BY <3>2, <3>3, <3>5, <3>6, <3>7, <3>8, <3>9
  <2>2. CASE ~(Len(r) >= Capacity)
    <3>1. Victims(r) = {} /\ q = r /\ Len(r) < Capacity
      BY <1>1, <2>2, WebhookAssumption DEF Victims
    <3> HIDE DEF q, r, s
    <3>2. QED
      BY <1>1, <1>2, <1>3, <3>1
  <2>3. QED
    BY <2>1, <2>2
<1>5. stage'[d] = "buried"
  BY <1>3
<1> HIDE DEF q, r, s
<1>6. /\ Append(q, d) \in Seq(Deliveries) /\ Len(Append(q, d)) = Len(q) + 1
      /\ \A i \in 1..Len(q) : Append(q, d)[i] = q[i]
      /\ Append(q, d)[Len(q) + 1] = d
  BY <1>4
<1>7. ASSUME NEW z \in Sessions, z # s
      PROVE  /\ Len(ring'[z]) <= Capacity
             /\ \A i, j \in 1..Len(ring'[z]) : ring'[z][i] = ring'[z][j] => i = j
             /\ \A e \in Deliveries : stage'[e] = "buried" /\ home[e] = z
                  <=> \E i \in 1..Len(ring'[z]) : e = ring'[z][i]
  <2>1. ring'[z] = ring[z] /\ home[d] # z
    BY <1>1, <1>3, <1>7 DEF TypeOK, s
  <2>2. \A e \in Deliveries : home[e] = z => (stage'[e] = "buried" <=> stage[e] = "buried")
    BY <1>4, <1>7, <2>1
  <2>3. QED
    BY <2>1, <2>2 DEF DeadLettersAreOnce
<1>8. /\ Len(ring'[s]) <= Capacity
      /\ \A i, j \in 1..Len(ring'[s]) : ring'[s][i] = ring'[s][j] => i = j
      /\ \A e \in Deliveries : stage'[e] = "buried" /\ home[e] = s
           <=> \E i \in 1..Len(ring'[s]) : e = ring'[s][i]
  <2> DEFINE a == Append(q, d)
  <2>1. ring'[s] = a
    BY <1>1, <1>3 DEF TypeOK
  <2>2. /\ Len(q) \in Nat /\ Len(a) = Len(q) + 1 /\ a[Len(q) + 1] = d
        /\ \A i \in 1..Len(q) : a[i] = q[i]
    BY <1>4, <1>6
  <2> HIDE DEF a
  <2>3. Len(a) <= Capacity
    BY <1>4, <2>2, WebhookAssumption
  <2>4. \A i, j \in 1..Len(a) : a[i] = a[j] => i = j
    BY <1>4, <2>2
  <2>5. ASSUME NEW e \in Deliveries
        PROVE  stage'[e] = "buried" /\ home[e] = s <=> \E i \in 1..Len(a) : e = a[i]
    <3>1. CASE e = d
      BY <1>5, <2>2, <3>1 DEF s
    <3>2. CASE e # d
      <4>1. (\E i \in 1..Len(q) : e = q[i]) <=> \E i \in 1..Len(a) : e = a[i]
        BY <2>2, <3>2
      <4>2. QED
        BY <1>4, <3>2, <4>1
    <3>3. QED
      BY <3>1, <3>2
  <2>6. QED
    BY <2>1, <2>3, <2>4, <2>5
<1>9. QED
  BY <1>7, <1>8 DEF DeadLettersAreOnce

\* The replay takes the one entry of d.
LEMMA TakeInv ==
  ASSUME TypeOK, DeadLettersAreOnce, NEW d \in Deliveries, Take(d)
  PROVE  DeadLettersAreOnce'
<1> DEFINE s == home[d]
           r == ring[s]
<1>1. s \in Sessions /\ r \in Seq(Deliveries) /\ Len(r) \in Nat
  BY DEF TypeOK
<1>2. PICK i \in 1..Len(r) : r[i] = d /\ ring' = [ring EXCEPT ![s] = Without(r, i)]
  BY DEF Take
<1> DEFINE q == Without(r, i)
<1>3. /\ Len(q) = Len(r) - 1
      /\ \A j \in 1..(Len(r) - 1) : q[j] = IF j < i THEN r[j] ELSE r[j + 1]
  BY <1>1, RingWithout
<1>4. /\ Len(r) <= Capacity
      /\ \A j, k \in 1..Len(r) : r[j] = r[k] => j = k
      /\ \A e \in Deliveries :
           stage[e] = "buried" /\ home[e] = s <=> \E j \in 1..Len(r) : e = r[j]
  BY <1>1 DEF DeadLettersAreOnce
<1>5. /\ home' = home /\ stage'[d] # "buried"
      /\ \A e \in Deliveries : e # d => stage'[e] = stage[e]
  BY DEF Take, TypeOK
<1>6. ring'[s] = q /\ \A z \in Sessions : z # s => ring'[z] = ring[z]
  BY <1>1, <1>2 DEF TypeOK
<1>7. home[d] = s
  OBVIOUS
<1> HIDE DEF q, r, s
<1>8. ASSUME NEW z \in Sessions, z # s
      PROVE  /\ Len(ring'[z]) <= Capacity
             /\ \A j, k \in 1..Len(ring'[z]) : ring'[z][j] = ring'[z][k] => j = k
             /\ \A e \in Deliveries : stage'[e] = "buried" /\ home[e] = z
                  <=> \E j \in 1..Len(ring'[z]) : e = ring'[z][j]
  <2>1. \A e \in Deliveries : home[e] = z => stage'[e] = stage[e]
    BY <1>5, <1>7, <1>8
  <2>2. QED
    BY <1>6, <1>8, <2>1 DEF DeadLettersAreOnce
<1>9. Len(q) <= Capacity /\ \A j, k \in 1..Len(q) : q[j] = q[k] => j = k
  <2>1. Len(q) <= Capacity
    BY <1>1, <1>3, <1>4, WebhookAssumption
  <2>2. ASSUME NEW j \in 1..Len(q), NEW k \in 1..Len(q), q[j] = q[k] PROVE j = k
    <3> DEFINE jj == IF j < i THEN j ELSE j + 1
               kk == IF k < i THEN k ELSE k + 1
    <3>1. jj \in 1..Len(r) /\ kk \in 1..Len(r) /\ q[j] = r[jj] /\ q[k] = r[kk]
      BY <1>1, <1>3
    <3>2. jj = kk
      BY <1>4, <2>2, <3>1
    <3>3. QED
      BY <1>1, <1>2, <3>2
  <2>3. QED
    BY <2>1, <2>2
<1>10. ASSUME NEW e \in Deliveries
       PROVE  stage'[e] = "buried" /\ home[e] = s <=> \E j \in 1..Len(q) : e = q[j]
  <2>1. ASSUME NEW j \in 1..Len(q), e = q[j] PROVE e # d /\ \E k \in 1..Len(r) : e = r[k]
    <3> DEFINE jj == IF j < i THEN j ELSE j + 1
    <3>1. jj \in 1..Len(r) /\ jj # i /\ e = r[jj]
      BY <1>1, <1>2, <1>3, <2>1
    <3>2. QED
      BY <1>2, <1>4, <3>1
  <2>2. ASSUME NEW k \in 1..Len(r), e = r[k], e # d PROVE \E j \in 1..Len(q) : e = q[j]
    <3> DEFINE kk == IF k < i THEN k ELSE k - 1
    <3>1. k # i
      BY <1>2, <2>2
    <3>2. kk \in 1..Len(q) /\ q[kk] = r[k]
      BY <1>1, <1>2, <1>3, <3>1
    <3>3. QED
      BY <2>2, <3>2
  <2>3. QED
    BY <1>4, <1>5, <2>1, <2>2
<1>11. QED
  BY <1>5, <1>6, <1>8, <1>9, <1>10 DEF DeadLettersAreOnce

LEMMA RingStep ==
  ASSUME TypeOK, DeadLettersAreOnce, [Next]_vars
  PROVE  DeadLettersAreOnce'
<1>1. CASE UNCHANGED vars
  BY <1>1, RingFrame DEF vars, taskVars
<1>2. ASSUME NEW d \in Deliveries, Broadcast(d) \/ Replay(d) PROVE DeadLettersAreOnce'
  <2>1. CASE TakeOff(d) /\ UNCHANGED ring
    <3>1. stage[d] # "buried"
      BY <1>2 DEF Broadcast, Replay
    <3>2. QED
      BY <1>2, <2>1, <3>1, RingFrame DEF Broadcast, Replay, TakeOff, TypeOK
  <2>2. CASE stage[d] = "new" /\ stage' = [stage EXCEPT ![d] = "skipped"] /\ UNCHANGED ring
    BY <1>2, <2>2, RingFrame DEF Broadcast, Replay, TypeOK
  <2>3. CASE stage[d] = "held" /\ Push(d)
    BY <1>2, <2>3, PushInv DEF Broadcast, Replay
  <2>4. QED
    BY <1>2, <2>1, <2>2, <2>3 DEF Broadcast, Replay
<1>3. ASSUME NEW d \in Deliveries, Deliver(d) \/ AttemptFails(d) \/ Report(d) \/ TaskDies(d)
      PROVE  DeadLettersAreOnce'
  BY <1>3, RingFrame
     DEF Deliver, AttemptFails, Report, TaskDies, TypeOK, Running, InFlight
<1>4. ASSUME NEW d \in Deliveries, Bury(d) PROVE DeadLettersAreOnce'
  BY <1>4, PushInv DEF Bury
<1>5. ASSUME NEW d \in Deliveries, Take(d) PROVE DeadLettersAreOnce'
  BY <1>5, TakeInv
<1>6. ASSUME NEW u \in Urls, EnableWebhook(u) \/ ReenableOpen(u) PROVE DeadLettersAreOnce'
  BY <1>6, RingFrame DEF EnableWebhook, ReenableOpen, taskVars
<1>7. ASSUME NEW s \in Sessions, Purge(s) PROVE DeadLettersAreOnce'
  <2>1. /\ home' = home /\ ring' = [ring EXCEPT ![s] = <<>>]
        /\ \A d \in Deliveries : stage'[d] =
             IF home[d] = s /\ stage[d] = "buried" THEN "purged" ELSE stage[d]
    BY <1>7 DEF Purge
  <2>2. ring'[s] = <<>> /\ \A z \in Sessions : z # s => ring'[z] = ring[z]
    BY <2>1 DEF TypeOK
  <2>3. \A d \in Deliveries :
          stage'[d] = "buried" <=> stage[d] = "buried" /\ home[d] # s
    BY <2>1
  <2>4. Len(ring'[s]) = 0 /\ 1..Len(ring'[s]) = {}
    BY <2>2
  <2>5. QED
    BY <2>1, <2>2, <2>3, <2>4, WebhookAssumption DEF DeadLettersAreOnce
<1>8. CASE Tick
  BY <1>8, RingFrame DEF Tick
<1>9. QED
  BY <1>1, <1>2, <1>3, <1>4, <1>5, <1>6, <1>7, <1>8 DEF Next, Run

\* A dead letter is in its session's ring once and in no other hands.
THEOREM DeadLettersStayOnce == Spec => []DeadLettersAreOnce
<1>1. Init => DeadLettersAreOnce
  BY WebhookAssumption DEF Init, DeadLettersAreOnce
<1>2. TypeOK /\ DeadLettersAreOnce /\ [Next]_vars => DeadLettersAreOnce'
  BY RingStep
<1>3. QED
  BY <1>1, <1>2, CircuitsInStep, PTL DEF Spec
-----------------------------------------------------------------------------
(* Inbox: what its invariant is made of.                                   *)

\* What is remembered are the last first sightings.
RecentIsTheEnd ==
  /\ Len(recent) <= Len(sighted)
  /\ Len(recent) < Window => Len(recent) = Len(sighted)
  /\ \A i \in 1..Len(recent) : recent[i] = sighted[Len(sighted) - Len(recent) + i]

\* A handler that is not idle has something to handle, and its session's kind of work.
HandlersWork ==
  \A h \in Handlers :
    /\ at[h] \notin {"idle", "ok"} => batch[h] # <<>>
    /\ at[h] \in {"cloud", "ok"} => cloud

\* Contacts first, then the row with its index, then the event.
KeptNow ==
  /\ \A h \in Handlers :
       at[h] \in {"sight", "record", "forward"} => ToSet(batch[h]) \subseteq contacts
  /\ \A h \in Handlers : at[h] = "forward" => Head(batch[h]) \in ToSet(rows)
  /\ told \subseteq ToSet(rows) /\ told \subseteq contacts
  /\ \A m \in ToSet(rows) : Row(Form[m]).body # None => m \in indexed

KeptFirst == ~cloud /\ history /\ faults = 0 => KeptNow

\* How many rows come before row i.
Rank(i) == Cardinality(Newer(i))

\* What is due to the reader it has, or comes at its offset or later.
WalkKeeps ==
  walk.at = "page" =>
    \A m \in walk.due : \/ m \in walk.seen
                        \/ \E i \in DOMAIN rows : rows[i] = m /\ Rank(i) >= walk.offset

-----------------------------------------------------------------------------
(* Sequences and batches.                                                  *)

\* What appending to a sequence does.
LEMMA Appended ==
  ASSUME NEW T, NEW s \in Seq(T), NEW x \in T
  PROVE  /\ Append(s, x) \in Seq(T) /\ Len(Append(s, x)) = Len(s) + 1
         /\ \A i \in 1..Len(s) : Append(s, x)[i] = s[i]
         /\ Append(s, x)[Len(s) + 1] = x
         /\ ToSet(Append(s, x)) = ToSet(s) \cup {x}
<1>1. /\ Append(s, x) \in Seq(T) /\ Len(Append(s, x)) = Len(s) + 1
      /\ \A i \in 1..Len(s) : Append(s, x)[i] = s[i]
      /\ Append(s, x)[Len(s) + 1] = x
      /\ DOMAIN Append(s, x) = 1..(Len(s) + 1) /\ DOMAIN s = 1..Len(s) /\ Len(s) \in Nat
  OBVIOUS
<1>2. 1..(Len(s) + 1) = (1..Len(s)) \cup {Len(s) + 1}
  BY <1>1
<1>3. ToSet(Append(s, x)) = ToSet(s) \cup {x}
  BY <1>1, <1>2 DEF ToSet
<1> QED BY <1>1, <1>3

\* What is first of a sequence, and the rest.
LEMMA Shortened ==
  ASSUME NEW T, NEW s \in Seq(T), s # <<>>
  PROVE  /\ Head(s) \in T /\ Head(s) \in ToSet(s)
         /\ Tail(s) \in Seq(T) /\ Len(Tail(s)) = Len(s) - 1 /\ Len(s) \in Nat \ {0}
         /\ \A i \in 1..Len(Tail(s)) : Tail(s)[i] = s[i + 1] /\ i + 1 \in 1..Len(s)
         /\ ToSet(Tail(s)) \subseteq ToSet(s)
         /\ (Tail(s) = <<>> <=> Len(s) = 1)
<1>6. /\ Head(s) = s[1] /\ Len(s) \in Nat \ {0} /\ DOMAIN s = 1..Len(s)
      /\ \A i \in 1..Len(s) : s[i] \in T
  OBVIOUS
<1>7. Tail(s) \in Seq(T) /\ Len(Tail(s)) = Len(s) - 1
  OBVIOUS
<1>8. DOMAIN Tail(s) = 1..Len(Tail(s)) /\ (Tail(s) = <<>> <=> Len(Tail(s)) = 0)
  BY <1>7
<1>5. \A i \in 1..Len(Tail(s)) : Tail(s)[i] = s[i + 1] /\ i + 1 \in 1..Len(s)
  OBVIOUS
<1>1. /\ Head(s) = s[1] /\ Len(s) \in Nat \ {0} /\ Tail(s) \in Seq(T)
      /\ Len(Tail(s)) = Len(s) - 1 /\ DOMAIN s = 1..Len(s)
      /\ DOMAIN Tail(s) = 1..Len(Tail(s)) /\ \A i \in 1..Len(s) : s[i] \in T
      /\ (Tail(s) = <<>> <=> Len(Tail(s)) = 0)
  BY <1>6, <1>7, <1>8
<1>2. Head(s) \in T /\ Head(s) \in ToSet(s)
  BY <1>1 DEF ToSet
<1>3. ToSet(Tail(s)) \subseteq ToSet(s)
  BY <1>1, <1>5 DEF ToSet
<1>4. Tail(s) = <<>> <=> Len(s) = 1
  BY <1>1
<1> QED BY <1>1, <1>2, <1>3, <1>4, <1>5

\* The members of a sequence.
LEMMA Members ==
  ASSUME NEW T, NEW s \in Seq(T)
  PROVE  ToSet(s) \subseteq T /\ DOMAIN s = 1..Len(s) /\ Len(s) \in Nat
  BY DEF ToSet

\* A batch has something in it.
LEMMA BatchesAre ==
  ASSUME NEW b \in Batches
  PROVE  b \in Seq(Messages) /\ b # <<>> /\ ToSet(b) \subseteq Messages
<1>1. b \in Seq(Messages) /\ b # <<>>
  <2>1. CASE \E m \in Messages : b = <<m>>
    BY <2>1
  <2>2. CASE b \in Messages \X Messages
    <3>1. PICK m, n \in Messages : b = <<m, n>>
      BY <2>2
    <3> QED BY <3>1
  <2> QED BY <2>1, <2>2 DEF Batches
<1> QED BY <1>1, Members

-----------------------------------------------------------------------------
(* Types.                                                                  *)

\* The window stays one.
LEMMA RememberTyped ==
  ASSUME recent \in Seq(Messages), Len(recent) <= Window,
         NEW m \in Messages, Remember(m)
  PROVE  recent' \in Seq(Messages) /\ Len(recent') <= Window
<1>1. Window \in Nat \ {0} /\ Len(recent) \in Nat
  BY InboxAssumption
<1>2. CASE Len(recent) < Window
  <2>1. recent' = Append(recent, m)
    BY <1>2 DEF Remember
  <2> QED BY <1>1, <1>2, <2>1, Appended
<1>3. CASE ~(Len(recent) < Window)
  <2>1. recent' = Append(Tail(recent), m)
    BY <1>3 DEF Remember
  <2>2. recent # <<>>
    BY <1>1, <1>3
  <2>3. Tail(recent) \in Seq(Messages) /\ Len(Tail(recent)) = Len(recent) - 1
    BY <2>2, Shortened
  <2>4. recent' \in Seq(Messages) /\ Len(recent') = Len(Tail(recent)) + 1
    BY <2>1, <2>3, Appended
  <2> QED BY <1>1, <2>3, <2>4
<1> QED BY <1>2, <1>3

\* Pages and the rows before a row are finite.
LEMMA PagesCount ==
  ASSUME rows \in Seq(Messages)
  PROVE  /\ \A o : /\ Page(o) \subseteq 1..Len(rows) /\ IsFiniteSet(Page(o))
                   /\ Cardinality(Page(o)) = Cardinality(Page(o))
                   /\ Cardinality(Page(o)) \in Nat
         /\ \A i : /\ Newer(i) \subseteq 1..Len(rows) /\ IsFiniteSet(Newer(i))
                   /\ Rank(i) = Cardinality(Newer(i)) /\ Rank(i) \in Nat
<1>1. DOMAIN rows = 1..Len(rows) /\ Len(rows) \in Nat
  BY Members
<1>2. IsFiniteSet(1..Len(rows))
  BY <1>1, FS_Interval
<1>3. \A T \in SUBSET (1..Len(rows)) : IsFiniteSet(T) /\ Cardinality(T) \in Nat
  BY <1>2, FS_Subset, FS_CardinalityType
<1>4. \A o : Page(o) \in SUBSET (1..Len(rows))
  BY <1>1 DEF Page
<1>5. \A i : Newer(i) \in SUBSET (1..Len(rows))
  BY <1>1 DEF Newer
<1> QED BY <1>3, <1>4, <1>5 DEF Rank

\* Types.
LEMMA InboxTypeStep ==
  ASSUME InboxTypeOK, HandlersWork, [InboxNext]_inboxVars
  PROVE  InboxTypeOK'
<1>1. CASE UNCHANGED inboxVars
  BY <1>1, InboxAssumption DEF InboxTypeOK, inboxVars, config, db, stream, observed
<1>2. ASSUME NEW h \in Handlers, NEW b \in Batches, DeliverBatch(h, b)
      PROVE  InboxTypeOK'
  <2>1. b \in Seq(Messages) /\ ToSet(b) \subseteq Messages
    BY BatchesAre
  <2>2. batch' \in [Handlers -> Seq(Messages)] /\ came' \subseteq Messages
    BY <1>2, <2>1 DEF DeliverBatch, Change, Goto, InboxTypeOK
  <2>3. at' \in [Handlers -> {"idle", "contacts", "sight", "record", "forward", "cloud", "ok"}]
    BY <1>2 DEF DeliverBatch, Change, Goto, InboxTypeOK
  <2>4. deliveries' \in 0..MaxDeliveries
    BY <1>2, InboxAssumption DEF DeliverBatch, Change, Goto, InboxTypeOK
  <2>5. queued' \in BOOLEAN /\ dirty' \in BOOLEAN /\ sub' = sub
    BY <1>2 DEF DeliverBatch, Change, InboxTypeOK
  <2> QED BY <1>2, <2>2, <2>3, <2>4, <2>5 DEF DeliverBatch, InboxTypeOK, config, db
<1>3. ASSUME NEW h \in Handlers, NEW b \in Batches, CloudReceive(h, b)
      PROVE  InboxTypeOK'
  <2>1. b \in Seq(Messages) /\ ToSet(b) \subseteq Messages
    BY BatchesAre
  <2>2. batch' \in [Handlers -> Seq(Messages)] /\ came' \subseteq Messages
    BY <1>3, <2>1 DEF CloudReceive, Goto, InboxTypeOK
  <2>3. at' \in [Handlers -> {"idle", "contacts", "sight", "record", "forward", "cloud", "ok"}]
    BY <1>3 DEF CloudReceive, Goto, InboxTypeOK
  <2>4. deliveries' \in 0..MaxDeliveries
    BY <1>3, InboxAssumption DEF CloudReceive, Goto, InboxTypeOK
  <2>5. delivery' \in [Handlers -> SUBSET Messages]
    BY <1>3, <2>1 DEF CloudReceive, InboxTypeOK
  <2> QED BY <1>3, <2>2, <2>3, <2>4, <2>5 DEF CloudReceive, InboxTypeOK, config, db, stream
<1>4. ASSUME NEW h \in Handlers, PersistContacts(h)
      PROVE  InboxTypeOK'
  <2>1. ToSet(batch[h]) \subseteq Messages
    BY Members DEF InboxTypeOK
  <2>2. contacts' \subseteq Messages
    BY <1>4, <2>1 DEF PersistContacts, Upsert, InboxTypeOK
  <2>3. faults' \in 0..MaxFaults
    BY <1>4, InboxAssumption DEF PersistContacts, Fault, NoFault, InboxTypeOK
  <2>4. at' \in [Handlers -> {"idle", "contacts", "sight", "record", "forward", "cloud", "ok"}]
    BY <1>4 DEF PersistContacts, Goto, InboxTypeOK
  <2> QED BY <1>4, <2>2, <2>3, <2>4 DEF PersistContacts, InboxTypeOK, config, stream, observed
<1>5. ASSUME NEW h \in Handlers, Sight(h)
      PROVE  InboxTypeOK'
  <2>1. batch[h] \in Seq(Messages) /\ batch[h] # <<>>
    BY <1>5 DEF Sight, Seen, Remember, Advance, Goto, InboxTypeOK, HandlersWork
  <2>2. Tail(batch[h]) \in Seq(Messages) /\ Head(batch[h]) \in Messages
    BY <2>1, Shortened
  <2>3. CASE Seen(Head(batch[h]))
    BY <1>5, <2>2, <2>3 DEF Sight, Advance, Goto, InboxTypeOK, config, db, stream, observed
  <2>4. CASE ~Seen(Head(batch[h]))
    <3>1. recent' \in Seq(Messages) /\ Len(recent') <= Window
      BY <1>5, <2>2, <2>4, RememberTyped, InboxAssumption DEF Sight, InboxTypeOK
    <3>2. sighted' \in Seq(Messages)
      <4>1. sighted' = Append(sighted, Head(batch[h])) /\ sighted \in Seq(Messages)
        BY <1>5, <2>4 DEF Sight, InboxTypeOK
      <4> QED BY <2>2, <4>1, Appended
    <3> QED BY <1>5, <2>4, <3>1, <3>2
               DEF Sight, Goto, InboxTypeOK, config, db, stream, observed
  <2> QED BY <2>3, <2>4
<1>6. ASSUME NEW h \in Handlers, Record(h)
      PROVE  InboxTypeOK'
  <2>1. batch[h] \in Seq(Messages) /\ batch[h] # <<>>
    BY <1>6 DEF Record, Insert, Goto, Fault, NoFault, InboxTypeOK, HandlersWork
  <2>2. Tail(batch[h]) \in Seq(Messages) /\ Head(batch[h]) \in Messages
    BY <2>1, Shortened
  <2>3. rows' \in Seq(Messages) /\ indexed' \subseteq Messages
    <3>1. Append(rows, Head(batch[h])) \in Seq(Messages)
      BY <2>2, Appended DEF InboxTypeOK
    <3>2. rows' = rows \/ rows' = Append(rows, Head(batch[h]))
      BY <1>6 DEF Record, Insert
    <3>3. indexed' = indexed \/ indexed' = indexed \cup {Head(batch[h])}
      BY <1>6 DEF Record, Insert
    <3> QED BY <2>2, <3>1, <3>2, <3>3 DEF InboxTypeOK
  <2>4. faults' \in 0..MaxFaults
    <3>1. Fault \/ NoFault
      BY <1>6 DEF Record, Insert
    <3> QED BY <3>1, InboxAssumption DEF Fault, NoFault, InboxTypeOK
  <2>5. at' \in [Handlers -> {"idle", "contacts", "sight", "record", "forward", "cloud", "ok"}]
    BY <1>6 DEF Record, Goto, InboxTypeOK
  <2> QED BY <1>6, <2>3, <2>4, <2>5 DEF Record, InboxTypeOK, config, stream, observed
<1>7. ASSUME NEW h \in Handlers, Forward(h)
      PROVE  InboxTypeOK'
  <2>1. batch[h] \in Seq(Messages) /\ batch[h] # <<>>
    BY <1>7 DEF Forward, Advance, Goto, InboxTypeOK, HandlersWork
  <2>2. Tail(batch[h]) \in Seq(Messages) /\ Head(batch[h]) \in Messages
    BY <2>1, Shortened
  <2> QED BY <1>7, <2>1, <2>2 DEF Forward, Advance, Goto, InboxTypeOK, config, db, stream
<1>8. ASSUME NEW h \in Handlers, CloudForward(h)
      PROVE  InboxTypeOK'
  <2>1. batch[h] \in Seq(Messages) /\ batch[h] # <<>>
    BY <1>8 DEF CloudForward, Goto, InboxTypeOK, HandlersWork
  <2>2. Tail(batch[h]) \in Seq(Messages) /\ Head(batch[h]) \in Messages
    BY <2>1, Shortened
  <2> QED BY <1>8, <2>1, <2>2 DEF CloudForward, Goto, InboxTypeOK, config, db, stream
<1>9. ASSUME NEW h \in Handlers, CloudOk(h)
      PROVE  InboxTypeOK'
  BY <1>9, BatchesAre, InboxAssumption
     DEF CloudOk, Goto, config, db, stream, observed, InboxTypeOK
<1>10. ASSUME NEW h \in Handlers, CloudHangUp(h)
      PROVE  InboxTypeOK'
  BY <1>10, BatchesAre, InboxAssumption
     DEF CloudHangUp, Goto, Fault, config, db, stream, observed, InboxTypeOK
<1>11. ASSUME StartWalk
      PROVE  InboxTypeOK'
  <2>1. ToSet(rows) \subseteq Messages
    BY Members DEF InboxTypeOK
  <2>2. walk' = [at |-> "page", offset |-> 0, due |-> ToSet(rows), seen |-> {}]
    BY <1>11 DEF StartWalk, NoWalk
  <2> QED BY <1>11, <2>1, <2>2 DEF StartWalk, InboxTypeOK, config, db, stream, observed
<1>12. ASSUME ReadPage
      PROVE  InboxTypeOK'
  <2> DEFINE p == Page(walk.offset)
             o == walk.offset + Cardinality(p)
             s == walk.seen \cup {rows[i] : i \in p}
             a == IF Cardinality(p) < PageSize THEN "done" ELSE "page"
             Walks == [at : {"idle", "page", "done"}, offset : Nat,
                       due : SUBSET Messages, seen : SUBSET Messages]
  <2>1. walk \in Walks /\ rows \in Seq(Messages)
    BY DEF InboxTypeOK
  <2>2. Cardinality(p) \in Nat /\ p \subseteq 1..Len(rows)
    BY <2>1, PagesCount
  <2>3. o \in Nat
    BY <2>1, <2>2
  <2>4. s \in SUBSET Messages
    <3>1. \A i \in 1..Len(rows) : rows[i] \in Messages
      BY <2>1
    <3> QED BY <2>1, <2>2, <3>1
  <2>5. a \in {"idle", "page", "done"}
    OBVIOUS
  <2>6. walk' = [walk EXCEPT !.seen = s, !.offset = o, !.at = a]
    BY <1>12 DEF ReadPage
  <2>7. walk' \in Walks
    <3> HIDE DEF o, s, a
    <3> QED BY <2>1, <2>3, <2>4, <2>5, <2>6
  <2> QED BY <1>12, <2>7 DEF ReadPage, InboxTypeOK, config, db, stream, observed
<1>13. ASSUME InstallStore
      PROVE  InboxTypeOK'
  BY <1>13, BatchesAre, InboxAssumption
     DEF InstallStore, config, db, stream, observed, InboxTypeOK
<1>14. ASSUME Subscribe
      PROVE  InboxTypeOK'
  BY <1>14, BatchesAre, InboxAssumption
     DEF Subscribe, config, db, stream, observed, InboxTypeOK
<1>15. ASSUME Tell
      PROVE  InboxTypeOK'
  BY <1>15, BatchesAre, InboxAssumption DEF Tell, config, db, stream, observed, InboxTypeOK
<1>16. ASSUME Poll
      PROVE  InboxTypeOK'
  <2>0. 0 \in 0..MaxStores
    BY InboxAssumption
  <2>1. sub' \in 0..MaxStores /\ queued' \in BOOLEAN
    BY <1>16, <2>0 DEF Poll
  <2> QED BY <1>16, <2>1 DEF Poll, InboxTypeOK, config, db, observed
<1>17. ASSUME Crash
      PROVE  InboxTypeOK'
  <2>1. recent' \in Seq(Messages) /\ Len(recent') <= Window /\ sighted' \in Seq(Messages)
    BY <1>17, InboxAssumption DEF Crash
  <2>2. /\ at' \in [Handlers -> {"idle", "contacts", "sight", "record", "forward", "cloud", "ok"}]
        /\ batch' \in [Handlers -> Seq(Messages)] /\ delivery' \in [Handlers -> SUBSET Messages]
    BY <1>17 DEF Crash
  <2>0. 0 \in 0..MaxStores
    BY InboxAssumption
  <2>4. faults' \in 0..MaxFaults
    BY <1>17, InboxAssumption DEF Crash, Fault, InboxTypeOK
  <2>3. /\ store' \in 0..MaxStores /\ sub' \in 0..MaxStores
        /\ queued' \in BOOLEAN /\ dirty' \in BOOLEAN
    BY <1>17, <2>0 DEF Crash
  <2> QED BY <1>17, <2>1, <2>2, <2>3, <2>4 DEF Crash, InboxTypeOK, config, db, observed
<1> QED BY <1>1, <1>2, <1>3, <1>4, <1>5, <1>6, <1>7, <1>8, <1>9, <1>10, <1>11, <1>12,
           <1>13, <1>14, <1>15, <1>16, <1>17
        DEF InboxNext, HandlerStep, StreamStep

\* Handlers have what they work on.
LEMMA HandlersStep ==
  ASSUME InboxTypeOK, HandlersWork, [InboxNext]_inboxVars
  PROVE  HandlersWork'
<1>1. CASE UNCHANGED inboxVars
  BY <1>1 DEF HandlersWork, InboxTypeOK, inboxVars, config, db, stream, observed
<1>2. ASSUME NEW h \in Handlers, NEW b \in Batches, DeliverBatch(h, b)
      PROVE  HandlersWork'
  BY <1>2, BatchesAre
     DEF DeliverBatch, Change, Goto, config, db, stream, observed, HandlersWork, InboxTypeOK
<1>3. ASSUME NEW h \in Handlers, NEW b \in Batches, CloudReceive(h, b)
      PROVE  HandlersWork'
  BY <1>3, BatchesAre
     DEF CloudReceive, Goto, config, db, stream, observed, HandlersWork, InboxTypeOK
<1>4. ASSUME NEW h \in Handlers, PersistContacts(h)
      PROVE  HandlersWork'
  BY <1>4, BatchesAre
     DEF PersistContacts, Upsert, Goto, Fault, NoFault, config, db, stream, observed,
         HandlersWork, InboxTypeOK
<1>5. ASSUME NEW h \in Handlers, Sight(h)
      PROVE  HandlersWork'
  <2>1. batch[h] \in Seq(Messages) /\ batch[h] # <<>>
    BY <1>5 DEF Sight, Seen, Remember, Advance, Goto, InboxTypeOK, HandlersWork
  <2>2. Tail(batch[h]) = <<>> <=> Len(batch[h]) = 1
    BY <2>1, Shortened
  <2> QED BY <1>5, <2>1, <2>2
             DEF Sight, Seen, Remember, Advance, Goto, InboxTypeOK, HandlersWork, config
<1>6. ASSUME NEW h \in Handlers, Record(h)
      PROVE  HandlersWork'
  BY <1>6, BatchesAre
     DEF Record, Insert, Goto, Fault, NoFault, config, db, stream, observed, HandlersWork,
         InboxTypeOK
<1>7. ASSUME NEW h \in Handlers, Forward(h)
      PROVE  HandlersWork'
  <2>1. batch[h] \in Seq(Messages) /\ batch[h] # <<>>
    BY <1>7 DEF Forward, Advance, Goto, InboxTypeOK, HandlersWork
  <2>2. Tail(batch[h]) = <<>> <=> Len(batch[h]) = 1
    BY <2>1, Shortened
  <2> QED BY <1>7, <2>1, <2>2 DEF Forward, Advance, Goto, InboxTypeOK, HandlersWork, config
<1>8. ASSUME NEW h \in Handlers, CloudForward(h)
      PROVE  HandlersWork'
  <2>1. batch[h] \in Seq(Messages) /\ batch[h] # <<>>
    BY <1>8 DEF CloudForward, Goto, InboxTypeOK, HandlersWork
  <2>2. Tail(batch[h]) = <<>> <=> Len(batch[h]) = 1
    BY <2>1, Shortened
  <2> QED BY <1>8, <2>1, <2>2 DEF CloudForward, Goto, InboxTypeOK, HandlersWork, config
<1>9. ASSUME NEW h \in Handlers, CloudOk(h)
      PROVE  HandlersWork'
  BY <1>9, BatchesAre
     DEF CloudOk, Goto, config, db, stream, observed, HandlersWork, InboxTypeOK
<1>10. ASSUME NEW h \in Handlers, CloudHangUp(h)
      PROVE  HandlersWork'
  BY <1>10, BatchesAre
     DEF CloudHangUp, Goto, Fault, config, db, stream, observed, HandlersWork, InboxTypeOK
<1>11. ASSUME StartWalk
      PROVE  HandlersWork'
  BY <1>11, BatchesAre
     DEF StartWalk, NoWalk, config, db, stream, observed, HandlersWork, InboxTypeOK
<1>12. ASSUME ReadPage
      PROVE  HandlersWork'
  BY <1>12, BatchesAre DEF ReadPage, config, db, stream, observed, HandlersWork, InboxTypeOK
<1>13. ASSUME InstallStore
      PROVE  HandlersWork'
  BY <1>13, BatchesAre
     DEF InstallStore, config, db, stream, observed, HandlersWork, InboxTypeOK
<1>14. ASSUME Subscribe
      PROVE  HandlersWork'
  BY <1>14, BatchesAre DEF Subscribe, config, db, stream, observed, HandlersWork, InboxTypeOK
<1>15. ASSUME Tell
      PROVE  HandlersWork'
  BY <1>15, BatchesAre DEF Tell, config, db, stream, observed, HandlersWork, InboxTypeOK
<1>16. ASSUME Poll
      PROVE  HandlersWork'
  BY <1>16, BatchesAre DEF Poll, config, db, stream, observed, HandlersWork, InboxTypeOK
<1>17. ASSUME Crash
      PROVE  HandlersWork'
  BY <1>17, BatchesAre
     DEF Crash, Fault, config, db, stream, observed, HandlersWork, InboxTypeOK
<1> QED BY <1>1, <1>2, <1>3, <1>4, <1>5, <1>6, <1>7, <1>8, <1>9, <1>10, <1>11, <1>12,
           <1>13, <1>14, <1>15, <1>16, <1>17
        DEF InboxNext, HandlerStep, StreamStep

-----------------------------------------------------------------------------
(* The window of recent ids.                                               *)

\* A first sighting: the window is still the end of what was sighted, and a message that
\* left the window is as far back as the window is long.
LEMMA RememberStep ==
  ASSUME recent \in Seq(Messages), Len(recent) <= Window,
         sighted \in Seq(Messages), RecentIsTheEnd, RepeatsAreFarApart,
         NEW m \in Messages, m \notin ToSet(recent),
         Remember(m), sighted' = Append(sighted, m)
  PROVE  RecentIsTheEnd' /\ RepeatsAreFarApart'
<1> DEFINE k == Len(recent)
           n == Len(sighted)
<1>1. /\ Window \in Nat \ {0} /\ k \in Nat /\ n \in Nat /\ k <= n /\ k <= Window
      /\ (k < Window => k = n) /\ DOMAIN recent = 1..k /\ DOMAIN sighted = 1..n
      /\ \A i \in 1..k : recent[i] = sighted[n - k + i]
  BY InboxAssumption DEF RecentIsTheEnd
<1>5. /\ Window \in Nat \ {0} /\ k \in Nat /\ n \in Nat /\ k <= n /\ k <= Window
      /\ (k < Window => k = n)
  BY <1>1
<1>2. /\ Len(sighted') = n + 1 /\ DOMAIN sighted' = 1..(n + 1)
      /\ \A i \in 1..n : sighted'[i] = sighted[i]
      /\ sighted'[n + 1] = m
  <2>1. /\ Append(sighted, m) \in Seq(Messages) /\ Len(Append(sighted, m)) = n + 1
        /\ \A i \in 1..n : Append(sighted, m)[i] = sighted[i]
        /\ Append(sighted, m)[n + 1] = m
    BY Appended
  <2> QED BY <2>1
<1>3. RecentIsTheEnd'
  <2>1. CASE k < Window
    <3>1. recent' = Append(recent, m)
      BY <2>1 DEF Remember
    <3>2. Len(recent') = k + 1 /\ recent'[k + 1] = m /\ \A i \in 1..k : recent'[i] = recent[i]
      BY <3>1, Appended
    <3>3. \A i \in 1..(k + 1) : recent'[i] = sighted'[(n + 1) - (k + 1) + i]
      <4> SUFFICES ASSUME NEW i \in 1..(k + 1)
                   PROVE  recent'[i] = sighted'[(n + 1) - (k + 1) + i]
        OBVIOUS
      <4> HIDE DEF k, n
      <4>1. (n + 1) - (k + 1) + i = i /\ k = n
        BY <1>1, <2>1
      <4>2. CASE i = k + 1
        BY <1>2, <3>2, <4>1, <4>2
      <4>3. CASE i # k + 1
        <5>1. i \in 1..k /\ i \in 1..n /\ n - k + i = i
          BY <1>5, <4>1, <4>3
        <5> QED BY <1>1, <1>2, <3>2, <4>1, <5>1
      <4> QED BY <4>2, <4>3
    <3> HIDE DEF k, n
    <3>4. Len(recent') <= Len(sighted') /\ (Len(recent') < Window => Len(recent') = Len(sighted'))
      BY <1>2, <1>5, <2>1, <3>2
    <3>5. Len(recent') = k + 1 /\ Len(sighted') = n + 1
      BY <1>2, <3>2
    <3> QED BY <3>3, <3>4, <3>5 DEF RecentIsTheEnd
  <2>2. CASE ~(k < Window)
    <3>6. k = Window
      BY <1>5, <2>2
    <3>7. recent' = Append(Tail(recent), m)
      BY <2>2 DEF Remember
    <3>8. recent # <<>>
      BY <1>5, <3>6
    <3>1. recent' = Append(Tail(recent), m) /\ recent # <<>> /\ k = Window
      BY <3>6, <3>7, <3>8
    <3>2. /\ Tail(recent) \in Seq(Messages) /\ Len(Tail(recent)) = k - 1
          /\ \A i \in 1..Len(Tail(recent)) : Tail(recent)[i] = recent[i + 1]
      BY <3>1, Shortened
    <3>3. /\ Len(recent') = (k - 1) + 1 /\ recent'[(k - 1) + 1] = m
          /\ \A i \in 1..(k - 1) : recent'[i] = Tail(recent)[i]
      BY <3>1, <3>2, Appended
    <3> HIDE DEF k, n
    <3>4. /\ Len(recent') = k /\ recent'[k] = m
          /\ \A i \in 1..(k - 1) : recent'[i] = recent[i + 1]
      BY <1>1, <3>2, <3>3
    <3>5. \A i \in 1..k : recent'[i] = sighted'[(n + 1) - k + i]
      <4> SUFFICES ASSUME NEW i \in 1..k
                   PROVE  recent'[i] = sighted'[(n + 1) - k + i]
        OBVIOUS
      <4>1. CASE i = k
        <5>1. (n + 1) - k + i = n + 1
          BY <1>1, <4>1
        <5> QED BY <1>2, <3>4, <4>1, <5>1
      <4>2. CASE i # k
        <5>1. i \in 1..(k - 1) /\ i + 1 \in 1..k
          BY <1>5, <4>2
        <5>3. n - k + (i + 1) \in 1..n /\ n - k + (i + 1) = (n + 1) - k + i
          BY <1>5, <4>2
        <5>2. recent'[i] = sighted[n - k + (i + 1)]
          BY <1>1, <3>4, <5>1
        <5> QED BY <1>2, <5>2, <5>3
      <4> QED BY <4>1, <4>2
    <3>9. Len(recent') <= Len(sighted') /\ (Len(recent') < Window => Len(recent') = Len(sighted'))
      BY <1>2, <1>5, <3>4, <3>6
    <3>10. Len(recent') = k /\ Len(sighted') = n + 1
      BY <1>2, <3>4
    <3> QED BY <3>5, <3>9, <3>10 DEF RecentIsTheEnd
  <2> QED BY <2>1, <2>2
<1>4. RepeatsAreFarApart'
  <2> SUFFICES ASSUME NEW i \in 1..(n + 1), NEW j \in 1..(n + 1), i < j,
                      sighted'[i] = sighted'[j]
               PROVE  j - i > Window
    BY <1>2 DEF RepeatsAreFarApart
  <2> HIDE DEF k, n
  <2>1. i \in 1..n /\ (j \in 1..n \/ j = n + 1)
    BY <1>1
  <2>2. CASE j \in 1..n
    <3>1. sighted[i] = sighted[j] /\ i \in DOMAIN sighted /\ j \in DOMAIN sighted
      BY <1>1, <1>2, <2>1, <2>2
    <3> QED BY <3>1 DEF RepeatsAreFarApart
  <2>3. CASE j = n + 1
    <3>1. sighted[i] = m
      BY <1>2, <2>1, <2>3
    <3>2. ~(i > n - k)
      <4> SUFFICES ASSUME i > n - k PROVE FALSE
        OBVIOUS
      <4>1. i - (n - k) \in 1..k /\ n - k + (i - (n - k)) = i
        BY <1>1, <2>1
      <4>2. recent[i - (n - k)] = m
        BY <1>1, <3>1, <4>1
      <4> QED BY <1>1, <4>1, <4>2 DEF ToSet
    <3>3. ~(k < Window)
      BY <1>1, <2>1, <3>2
    <3> QED BY <1>1, <2>1, <2>3, <3>2, <3>3
  <2> QED BY <2>1, <2>2, <2>3
<1> QED BY <1>3, <1>4

\* The window is the end of what was sighted, and repeats in it are far apart.
LEMMA RecentStep ==
  ASSUME InboxTypeOK, HandlersWork, RecentIsTheEnd, RepeatsAreFarApart, [InboxNext]_inboxVars
  PROVE  (RecentIsTheEnd /\ RepeatsAreFarApart)'
<1>1. CASE UNCHANGED inboxVars
  BY <1>1 DEF RecentIsTheEnd, RepeatsAreFarApart, inboxVars, config, db, stream, observed
<1>2. ASSUME NEW h \in Handlers, Sight(h)
      PROVE  (RecentIsTheEnd /\ RepeatsAreFarApart)'
  <2>1. Head(batch[h]) \in Messages
    BY <1>2, Shortened DEF Sight, HandlersWork, InboxTypeOK
  <2>2. CASE Seen(Head(batch[h]))
    <3>1. UNCHANGED <<recent, sighted>>
      BY <1>2, <2>2 DEF Sight
    <3> QED BY <3>1 DEF RecentIsTheEnd, RepeatsAreFarApart
  <2>3. CASE ~Seen(Head(batch[h]))
    <3>1. Remember(Head(batch[h])) /\ sighted' = Append(sighted, Head(batch[h]))
      BY <1>2, <2>3 DEF Sight
    <3> QED BY <2>1, <2>3, <3>1, RememberStep DEF InboxTypeOK, Seen
  <2> QED BY <2>2, <2>3
<1>3. ASSUME Crash
      PROVE  (RecentIsTheEnd /\ RepeatsAreFarApart)'
  <2>1. recent' = <<>> /\ sighted' = <<>>
    BY <1>3 DEF Crash
  <2> QED BY <2>1 DEF RecentIsTheEnd, RepeatsAreFarApart
<1>4. ASSUME (\E h \in Handlers, b \in Batches : DeliverBatch(h, b))
             \/ (\E h \in Handlers, b \in Batches : CloudReceive(h, b))
             \/ (\E h \in Handlers : PersistContacts(h)) \/ (\E h \in Handlers : Record(h))
             \/ (\E h \in Handlers : Forward(h)) \/ (\E h \in Handlers : CloudForward(h))
             \/ (\E h \in Handlers : CloudOk(h)) \/ (\E h \in Handlers : CloudHangUp(h))
             \/ StartWalk \/ ReadPage \/ InstallStore \/ Subscribe \/ Tell \/ Poll
      PROVE  (RecentIsTheEnd /\ RepeatsAreFarApart)'
  <2>1. UNCHANGED <<recent, sighted>>
    BY <1>4
       DEF DeliverBatch, Change, Goto, CloudReceive, PersistContacts, Upsert, Fault,
           NoFault, Record, Insert, Forward, Advance, CloudForward, CloudOk, CloudHangUp,
           StartWalk, NoWalk, ReadPage, InstallStore, Subscribe, Tell, Poll, config, db,
           stream, observed
  <2> QED BY <2>1 DEF RecentIsTheEnd, RepeatsAreFarApart
<1> QED BY <1>1, <1>2, <1>3, <1>4 DEF InboxNext, HandlerStep, StreamStep

-----------------------------------------------------------------------------
(* What is told is kept.                                                   *)

\* While nothing failed, a step is no fault.
LEMMA FaultsAreCounted ==
  ASSUME InboxTypeOK, faults' = 0
  PROVE  ~Fault /\ (NoFault => faults = 0)
BY InboxAssumption DEF Fault, NoFault, InboxTypeOK

\* Contacts, row and index come before the event.
LEMMA KeptStep ==
  ASSUME InboxTypeOK, HandlersWork, KeptFirst, [InboxNext]_inboxVars
  PROVE  KeptFirst'
<1>1. CASE UNCHANGED inboxVars
  BY <1>1 DEF KeptFirst, KeptNow, inboxVars, config, db, stream, observed
<1>2. ASSUME NEW h \in Handlers, NEW b \in Batches, DeliverBatch(h, b)
      PROVE  KeptFirst'
  <2> SUFFICES ASSUME ~cloud', history', faults' = 0
               PROVE  KeptNow'
    BY DEF KeptFirst, KeptNow
  <2>1. KeptNow
    BY <1>2 DEF DeliverBatch, config, KeptFirst, KeptNow
  <2>2. /\ \A g \in Handlers : g # h => at'[g] = at[g] /\ batch'[g] = batch[g]
        /\ at'[h] = "contacts"
    BY <1>2 DEF DeliverBatch, Goto, InboxTypeOK
  <2>3. UNCHANGED <<rows, indexed, contacts, told>>
    BY <1>2 DEF DeliverBatch, db
  <2> QED BY <2>1, <2>2, <2>3 DEF KeptNow
<1>3. ASSUME NEW h \in Handlers, NEW b \in Batches, CloudReceive(h, b)
      PROVE  KeptFirst'
  <2>1. cloud'
    BY <1>3 DEF CloudReceive, Goto, HandlersWork, InboxTypeOK, config
  <2> QED BY <2>1 DEF KeptFirst
<1>4. ASSUME NEW h \in Handlers, PersistContacts(h)
      PROVE  KeptFirst'
  <2> SUFFICES ASSUME ~cloud', history', faults' = 0
               PROVE  KeptNow'
    BY DEF KeptFirst, KeptNow
  <2>4. ~Fault /\ (NoFault => faults = 0)
    BY FaultsAreCounted
  <2>0. faults = 0 /\ Upsert(ToSet(batch[h])) /\ UNCHANGED <<cloud, history>>
    BY <1>4, <2>4 DEF PersistContacts, config
  <2>1. KeptNow
    BY <2>0 DEF KeptFirst, KeptNow
  <2>2. /\ \A g \in Handlers : g # h => at'[g] = at[g]
        /\ at'[h] = "sight" /\ UNCHANGED <<batch, rows, indexed, told>>
    BY <1>4 DEF PersistContacts, Goto, InboxTypeOK, observed
  <2>3. contacts' = contacts \cup ToSet(batch[h])
    BY <2>0 DEF Upsert
  <2> QED BY <2>1, <2>2, <2>3 DEF KeptNow
<1>5. ASSUME NEW h \in Handlers, Sight(h)
      PROVE  KeptFirst'
  <2> SUFFICES ASSUME ~cloud', history', faults' = 0
               PROVE  KeptNow'
    BY DEF KeptFirst, KeptNow
  <2>1. KeptNow
    BY <1>5 DEF Sight, config, KeptFirst, KeptNow
  <2>2. UNCHANGED <<rows, indexed, contacts, told>>
    BY <1>5 DEF Sight, db, observed
  <2>3. /\ \A g \in Handlers : g # h => at'[g] = at[g] /\ batch'[g] = batch[g]
        /\ (at'[h] = "record" /\ batch'[h] = batch[h])
             \/ (at'[h] \in {"idle", "sight"} /\ batch'[h] = Tail(batch[h]))
        /\ at[h] = "sight"
    BY <1>5 DEF Sight, Advance, Goto, InboxTypeOK
  <2>4. ToSet(Tail(batch[h])) \subseteq ToSet(batch[h])
    BY <2>3, Shortened DEF HandlersWork, InboxTypeOK
  <2> QED BY <2>1, <2>2, <2>3, <2>4 DEF KeptNow
<1>6. ASSUME NEW h \in Handlers, Record(h)
      PROVE  KeptFirst'
  <2> SUFFICES ASSUME ~cloud', history', faults' = 0
               PROVE  KeptNow'
    BY DEF KeptFirst, KeptNow
  <2> DEFINE m == Head(batch[h])
  <2>10. ~Fault /\ (NoFault => faults = 0)
    BY FaultsAreCounted
  <2>0. faults = 0 /\ UNCHANGED <<cloud, history>> /\ ~Fault
    BY <1>6, <2>10 DEF Record, Insert, config
  <2>1. KeptNow
    BY <2>0 DEF KeptFirst, KeptNow
  <2>2. Insert(m)
    BY <1>6, <2>0 DEF Record
  <2>3. /\ \A g \in Handlers : g # h => at'[g] = at[g]
        /\ at[h] = "record" /\ at'[h] = "forward" /\ UNCHANGED <<batch, contacts, told>>
    BY <1>6 DEF Record, Goto, InboxTypeOK, observed
  <2>4. m \in Messages /\ rows \in Seq(Messages)
    BY <2>3, Shortened DEF HandlersWork, InboxTypeOK
  <2>5. /\ ToSet(rows') = ToSet(rows) \cup {m}
        /\ indexed \subseteq indexed'
        /\ m \notin ToSet(rows) /\ Row(Form[m]).body # None => m \in indexed'
    <3>1. CASE m \in ToSet(rows)
      <4>1. UNCHANGED <<rows, indexed>>
        BY <2>2, <3>1 DEF Insert
      <4> QED BY <3>1, <4>1
    <3>2. CASE m \notin ToSet(rows)
      <4>1. rows' = Append(rows, m)
        BY <2>2, <3>2 DEF Insert
      <4>2. indexed' = IF Row(Form[m]).body = None THEN indexed ELSE indexed \cup {m}
        BY <2>0, <2>2, <3>2 DEF Insert
      <4>3. ToSet(rows') = ToSet(rows) \cup {m}
        BY <2>4, <4>1, Appended
      <4> QED BY <4>2, <4>3
    <3> QED BY <3>1, <3>2
  <2>6. \A x \in ToSet(rows') : Row(Form[x]).body # None => x \in indexed'
    BY <2>1, <2>5 DEF KeptNow
  <2>7. \A g \in Handlers : at'[g] = "forward" => Head(batch'[g]) \in ToSet(rows')
    BY <2>1, <2>3, <2>5 DEF KeptNow
  <2>8. \A g \in Handlers : at'[g] \in {"sight", "record", "forward"} =>
          ToSet(batch'[g]) \subseteq contacts'
    BY <2>1, <2>3 DEF KeptNow
  <2>9. told' \subseteq ToSet(rows') /\ told' \subseteq contacts'
    BY <2>1, <2>3, <2>5 DEF KeptNow
  <2> QED BY <2>6, <2>7, <2>8, <2>9 DEF KeptNow
<1>7. ASSUME NEW h \in Handlers, Forward(h)
      PROVE  KeptFirst'
  <2> SUFFICES ASSUME ~cloud', history', faults' = 0
               PROVE  KeptNow'
    BY DEF KeptFirst, KeptNow
  <2>1. KeptNow
    BY <1>7 DEF Forward, config, KeptFirst, KeptNow
  <2>2. UNCHANGED <<rows, indexed, contacts>> /\ told' = told \cup {Head(batch[h])}
    BY <1>7 DEF Forward, db
  <2>3. /\ \A g \in Handlers : g # h => at'[g] = at[g] /\ batch'[g] = batch[g]
        /\ at'[h] \in {"idle", "sight"} /\ batch'[h] = Tail(batch[h]) /\ at[h] = "forward"
    BY <1>7 DEF Forward, Advance, Goto, InboxTypeOK
  <2>4. ToSet(Tail(batch[h])) \subseteq ToSet(batch[h]) /\ Head(batch[h]) \in ToSet(batch[h])
    BY <2>3, Shortened DEF HandlersWork, InboxTypeOK
  <2>5. told' \subseteq ToSet(rows) /\ told' \subseteq contacts
    BY <2>1, <2>2, <2>3, <2>4 DEF KeptNow
  <2> QED BY <2>1, <2>2, <2>3, <2>4, <2>5 DEF KeptNow
<1>8. ASSUME NEW h \in Handlers, CloudForward(h)
      PROVE  KeptFirst'
  <2>1. cloud'
    BY <1>8 DEF CloudForward, Goto, HandlersWork, InboxTypeOK, config
  <2> QED BY <2>1 DEF KeptFirst
<1>9. ASSUME NEW h \in Handlers, CloudOk(h)
      PROVE  KeptFirst'
  <2>1. cloud'
    BY <1>9 DEF CloudOk, Goto, HandlersWork, InboxTypeOK, config
  <2> QED BY <2>1 DEF KeptFirst
<1>10. ASSUME NEW h \in Handlers, CloudHangUp(h)
      PROVE  KeptFirst'
  <2>1. faults' # 0
    BY <1>10, InboxAssumption DEF CloudHangUp, Goto, Fault, InboxTypeOK
  <2> QED BY <2>1 DEF KeptFirst
<1>11. ASSUME Crash
      PROVE  KeptFirst'
  <2>1. faults' # 0
    BY <1>11, InboxAssumption DEF Crash, Fault, InboxTypeOK
  <2> QED BY <2>1 DEF KeptFirst
<1>12. ASSUME StartWalk \/ ReadPage \/ InstallStore \/ Subscribe \/ Tell \/ Poll
      PROVE  KeptFirst'
  <2>1. UNCHANGED <<cloud, history, at, batch, rows, indexed, contacts, told, faults>>
    BY <1>12
       DEF StartWalk, NoWalk, ReadPage, InstallStore, Subscribe, Tell, Poll, config, db,
           stream, observed
  <2> QED BY <2>1 DEF KeptFirst, KeptNow
<1> QED BY <1>1, <1>2, <1>3, <1>4, <1>5, <1>6, <1>7, <1>8, <1>9, <1>10, <1>11, <1>12
        DEF InboxNext, HandlerStep, StreamStep

-----------------------------------------------------------------------------
(* What a message is in the event and in the history.                      *)

\* A row says what the event said: the type, what is quoted, which media; and if the event
\* has words, so has the row.
LEMMA RowsSayTheSame ==
  ASSUME NEW f \in Shapes
  PROVE  LET d == EventData(f)
             r == Row(f)
         IN /\ r.type = d.type /\ r.quoted = d.quoted
            /\ d.media # None /\ "pointer" \in f.has => MediaType(r.pointer) = d.media
            /\ d.text # None \/ d.caption # None => r.body # None
<1>1. EventData(f).type = MessageType(f) /\ Row(f).type = MessageType(f)
  BY DEF EventData, Row
<1>2. EventData(f).quoted = Quoted(f) /\ Row(f).quoted = Quoted(f)
  BY DEF EventData, Row
<1>3. /\ EventData(f).media = Media(f) /\ Row(f).pointer = Pointer(f)
      /\ EventData(f).text = Text(f) /\ EventData(f).caption = Caption(f)
      /\ Row(f).body = IF Text(f) # None THEN Text(f) ELSE Caption(f)
  BY DEF EventData, Row
<1>4. Media(f) # None /\ "pointer" \in f.has => MediaType(Pointer(f)) = Media(f)
  <2> SUFFICES ASSUME Media(f) # None, "pointer" \in f.has
               PROVE  MediaType(Pointer(f)) = Media(f)
    OBVIOUS
  <2>1. Finds(BaseMessage(f), MediaKinds) /\ Media(f) = MediaKind(f)
    BY DEF Media
  <2>2. Pointer(f) = MediaKind(f)
    BY <2>1 DEF Pointer
  <2>3. f.kind \in MediaKinds
    BY <2>1 DEF Finds, BaseMessage, Shapes
  <2>4. MediaKind(f) \in {"image", "video", "audio", "document", "sticker"}
    BY <2>3 DEF MediaKind, MediaKinds
  <2> QED BY <2>1, <2>2, <2>4 DEF MediaType
<1> QED BY <1>1, <1>2, <1>3, <1>4

\* A consumer finds what it was told of.
LEMMA KeptIsFound ==
  ASSUME InboxTypeOK, KeptFirst
  PROVE  ToldIsInTheHistory
<1> SUFFICES ASSUME KeptNow, NEW m \in told
             PROVE  LET d == EventData(Form[m])
                        r == Served(m)
                    IN /\ m \in ToSet(rows) /\ m \in contacts
                       /\ r.type = d.type /\ r.quoted = d.quoted
                       /\ d.media # None /\ "pointer" \in Form[m].has => r.pointer = d.media
                       /\ d.text # None \/ d.caption # None =>
                            m \in Hits /\ m \in LikeHits
  BY DEF KeptFirst, ToldIsInTheHistory
<1>1. m \in ToSet(rows) /\ m \in contacts
  BY DEF KeptNow
<1>2. Form[m] \in Shapes
  BY InboxAssumption DEF InboxTypeOK
<1>3. /\ Served(m).type = Row(Form[m]).type /\ Served(m).quoted = Row(Form[m]).quoted
      /\ Served(m).pointer = MediaType(Row(Form[m]).pointer)
  BY DEF Served, Row
<1>4. Row(Form[m]).body # None => m \in Hits /\ m \in LikeHits
  BY <1>1 DEF KeptNow, Hits, LikeHits
<1> QED BY <1>1, <1>2, <1>3, <1>4, RowsSayTheSame
-----------------------------------------------------------------------------
(* Pages.                                                                  *)

\* The order of a chat is total and strict.
LEMMA NewerIsAnOrder ==
  ASSUME rows \in Seq(Messages)
  PROVE  \A i, j \in 1..Len(rows) :
           /\ i \notin Newer(i)
           /\ i # j => i \in Newer(j) \/ j \in Newer(i)
           /\ i \in Newer(j) => Newer(i) \subseteq Newer(j)
<1>0. \A m \in Nat : m \div 2 \in Int
  OBVIOUS
<1>1. DOMAIN rows = 1..Len(rows) /\ \A i \in 1..Len(rows) : Timestamp(rows[i]) \in Int
  <2>1. \A i \in 1..Len(rows) : rows[i] \in Nat
    BY InboxAssumption
  <2> QED BY <1>0, <2>1 DEF Timestamp
<1> TAKE i, j \in 1..Len(rows)
<1>2. i \notin Newer(i)
  BY <1>1 DEF Newer
<1>3. i # j => i \in Newer(j) \/ j \in Newer(i)
  BY <1>1 DEF Newer
<1>4. ASSUME i \in Newer(j), NEW k \in Newer(i)
      PROVE  k \in Newer(j)
  <2>1. k \in 1..Len(rows)
    BY <1>1 DEF Newer
  <2> QED BY <1>1, <1>4, <2>1 DEF Newer
<1> QED BY <1>2, <1>3, <1>4

\* The rows of a chat have the ranks 0, 1, 2 ..., each of them one.
LEMMA Ranks ==
  ASSUME rows \in Seq(Messages)
  PROVE  /\ \A i \in 1..Len(rows) : Rank(i) \in 0..(Len(rows) - 1)
         /\ \A i, j \in 1..Len(rows) : i # j => Rank(i) # Rank(j)
         /\ \A r \in 0..(Len(rows) - 1) : \E i \in 1..Len(rows) : Rank(i) = r
<1> DEFINE n == Len(rows)
           D == 1..n
<1>1. n \in Nat
  OBVIOUS
<1>2. IsFiniteSet(D) /\ Cardinality(D) = n
  BY <1>1, FS_Interval
<1>3. \A i \in D : /\ Newer(i) \subseteq D /\ IsFiniteSet(Newer(i))
                   /\ Rank(i) = Cardinality(Newer(i)) /\ Rank(i) \in Nat
  BY PagesCount
<1>4. ASSUME NEW i \in D
      PROVE  Rank(i) \in 0..(n - 1)
  <2>1. IsFiniteSet(D \ {i}) /\ Cardinality(D \ {i}) = n - 1
    <3>1. i \in D
      OBVIOUS
    <3> HIDE DEF D, n
    <3> QED BY <1>2, <3>1, FS_RemoveElement
  <2>2. Newer(i) \in SUBSET (D \ {i})
    BY <1>3, NewerIsAnOrder
  <2>3. Cardinality(Newer(i)) <= n - 1
    BY <2>1, <2>2, FS_Subset
  <2> QED BY <1>1, <1>3, <2>3
<1>5. ASSUME NEW i \in D, NEW j \in D, i \in Newer(j)
      PROVE  Rank(i) # Rank(j)
  <2>1. Newer(i) \in SUBSET Newer(j)
    BY <1>5, NewerIsAnOrder
  <2>2. Newer(i) # Newer(j)
    BY <1>5, NewerIsAnOrder
  <2>3. Cardinality(Newer(j)) = Cardinality(Newer(i)) => Newer(j) = Newer(i)
    BY <1>3, <2>1, FS_Subset
  <2> QED BY <1>3, <2>2, <2>3
<1>6. \A i, j \in D : i # j => Rank(i) # Rank(j)
  BY <1>5, NewerIsAnOrder
<1>7. ASSUME NEW r \in 0..(n - 1)
      PROVE  \E i \in D : Rank(i) = r
  <2> DEFINE f == [i \in D |-> Rank(i)]
  <2>1. f \in Injection(D, 0..(n - 1))
    <3>1. f \in [D -> 0..(n - 1)]
      BY <1>4
    <3>2. IsInjective(f)
      BY <1>6 DEF IsInjective
    <3> QED BY <3>1, <3>2 DEF Injection
  <2>2. IsFiniteSet(0..(n - 1)) /\ Cardinality(0..(n - 1)) = n
    <3> HIDE DEF n
    <3>1. 0 \in Int /\ n - 1 \in Int /\ ~(0 > n - 1) /\ (n - 1) - 0 + 1 = n
      BY <1>1
    <3>2. /\ IsFiniteSet(0..(n - 1))
          /\ Cardinality(0..(n - 1)) = IF 0 > n - 1 THEN 0 ELSE (n - 1) - 0 + 1
      BY <3>1, FS_Interval
    <3> QED BY <3>1, <3>2
  <2>3. f \in Surjection(D, 0..(n - 1))
    <3> HIDE DEF f
    <3> QED BY <1>2, <2>1, <2>2, FS_Injection
  <2>4. \E i \in D : f[i] = r
    BY <2>3 DEF Surjection
  <2> QED BY <2>4
<1> QED BY <1>4, <1>6, <1>7

\* A page has no more rows than its size, and is full if there are rows beyond it.
LEMMA PagesAreFull ==
  ASSUME rows \in Seq(Messages), NEW o \in Nat
  PROVE  /\ Cardinality(Page(o)) <= PageSize
         /\ (\E i \in 1..Len(rows) : Rank(i) >= o + PageSize)
              => Cardinality(Page(o)) = PageSize
<1> DEFINE p == Page(o)
           R == o..(o + PageSize - 1)
           f == [i \in p |-> Rank(i)]
<1>1. PageSize \in Nat \ {0} /\ Len(rows) \in Nat /\ DOMAIN rows = 1..Len(rows)
  BY InboxAssumption
<1>2. p = {i \in 1..Len(rows) : Rank(i) \in R}
  BY <1>1 DEF Page, Rank
<1>3. /\ IsFiniteSet(p) /\ Cardinality(p) = Cardinality(p) /\ Cardinality(p) \in Nat
  BY PagesCount
<1>4. IsFiniteSet(R) /\ Cardinality(R) = PageSize
  BY <1>1, FS_Interval
<1>5. f \in Injection(p, R)
  <2>1. f \in [p -> R]
    BY <1>2
  <2>2. IsInjective(f)
    BY <1>2, Ranks DEF IsInjective
  <2> QED BY <2>1, <2>2 DEF Injection
<1>6. /\ Cardinality(p) <= Cardinality(R)
      /\ f \in Surjection(p, R) => Cardinality(p) = Cardinality(R)
  <2> HIDE DEF f, p, R
  <2> QED BY <1>4, <1>5, FS_Injection
<1>7. ASSUME NEW i \in 1..Len(rows), Rank(i) >= o + PageSize
      PROVE  f \in Surjection(p, R)
  <2>1. \A r \in R : r \in 0..(Len(rows) - 1)
    BY <1>1, <1>7, Ranks
  <2>2. \A r \in R : \E k \in 1..Len(rows) : Rank(k) = r
    BY <2>1, Ranks
  <2>3. \A r \in R : \E k \in p : f[k] = r
    BY <1>2, <2>2
  <2> QED BY <1>5, <2>3 DEF Injection, Surjection
<1> QED BY <1>3, <1>4, <1>6, <1>7

\* The same of the next state.
LEMMA NextPagesCount ==
  ASSUME rows' \in Seq(Messages)
  PROVE  \A i : /\ Newer(i)' \subseteq 1..Len(rows') /\ IsFiniteSet(Newer(i)')
                /\ Rank(i)' = Cardinality(Newer(i)') /\ Rank(i)' \in Nat
<1>1. DOMAIN rows' = 1..Len(rows') /\ Len(rows') \in Nat
  OBVIOUS
<1>2. IsFiniteSet(1..Len(rows'))
  BY <1>1, FS_Interval
<1>3. \A T \in SUBSET (1..Len(rows')) : IsFiniteSet(T) /\ Cardinality(T) \in Nat
  BY <1>2, FS_Subset, FS_CardinalityType
<1>5. \A i : Newer(i)' \in SUBSET (1..Len(rows'))
  BY <1>1 DEF Newer
<1> QED BY <1>3, <1>5 DEF Rank

\* A row that is added comes before or after another one, so that no rank falls.
LEMMA RowsComeAfter ==
  ASSUME rows \in Seq(Messages), NEW m \in Messages, rows' = Append(rows, m)
  PROVE  \A i \in DOMAIN rows : i \in DOMAIN rows' /\ rows'[i] = rows[i] /\ Rank(i)' >= Rank(i)
<1>1. rows' \in Seq(Messages) /\ Len(rows') = Len(rows) + 1
  BY Appended
<1>2. DOMAIN rows = 1..Len(rows) /\ DOMAIN rows' = 1..(Len(rows) + 1) /\ Len(rows) \in Nat
  BY <1>1
<1>3. \A i \in DOMAIN rows : i \in DOMAIN rows' /\ rows'[i] = rows[i]
  BY <1>2, Appended
<1>4. ASSUME NEW i \in DOMAIN rows
      PROVE  Rank(i)' >= Rank(i)
  <2>1. Newer(i) \in SUBSET Newer(i)'
    BY <1>2, <1>3 DEF Newer
  <2>2. IsFiniteSet(Newer(i)') /\ Rank(i)' = Cardinality(Newer(i)') /\ Rank(i)' \in Nat
    BY <1>1, NextPagesCount
  <2>3. Rank(i) = Cardinality(Newer(i)) /\ Rank(i) \in Nat
    BY PagesCount
  <2> QED BY <2>1, <2>2, <2>3, FS_Subset
<1> QED BY <1>3, <1>4

\* A reader misses nothing.
LEMMA WalkStep ==
  ASSUME InboxTypeOK, HandlersWork, WalkKeeps, WalkMissesNothing, InboxTypeOK',
         [InboxNext]_inboxVars
  PROVE  (WalkKeeps /\ WalkMissesNothing)'
<1>1. CASE UNCHANGED inboxVars
  <2>1. UNCHANGED <<rows, walk>>
    BY <1>1 DEF inboxVars, db
  <2>2. \A i : Rank(i)' = Rank(i)
    BY <2>1 DEF Rank, Newer
  <2> QED BY <2>1, <2>2 DEF WalkKeeps, WalkMissesNothing
<1>2. ASSUME NEW h \in Handlers, Record(h)
      PROVE  (WalkKeeps /\ WalkMissesNothing)'
  <2>1. walk' = walk /\ rows \in Seq(Messages)
    BY <1>2 DEF Record, InboxTypeOK
  <2>2. rows' = rows \/ rows' = Append(rows, Head(batch[h]))
    BY <1>2 DEF Record, Insert
  <2>3. \A i \in DOMAIN rows : i \in DOMAIN rows' /\ rows'[i] = rows[i] /\ Rank(i)' >= Rank(i)
    <3>1. CASE rows' = rows
      <4>1. \A i : Rank(i)' = Rank(i) /\ Rank(i) \in Nat
        BY <2>1, <3>1, PagesCount DEF Rank, Newer
      <4> QED BY <3>1, <4>1
    <3>2. CASE rows' = Append(rows, Head(batch[h]))
      <4>1. Head(batch[h]) \in Messages
        BY <1>2, Shortened DEF Record, HandlersWork, InboxTypeOK
      <4> QED BY <2>1, <3>2, <4>1, RowsComeAfter
    <3> QED BY <2>2, <3>1, <3>2
  <2>4. walk.at = "page" => \A i \in DOMAIN rows : Rank(i) >= walk.offset =>
          Rank(i)' >= walk.offset
    <3>1. walk.offset \in Nat
      BY DEF InboxTypeOK
    <3>2. \A i \in DOMAIN rows : Rank(i) \in Nat /\ Rank(i)' \in Nat
      BY <2>1, PagesCount, NextPagesCount DEF InboxTypeOK
    <3> QED BY <2>3, <3>1, <3>2
  <2> QED BY <2>1, <2>3, <2>4 DEF WalkKeeps, WalkMissesNothing
<1>3. ASSUME StartWalk
      PROVE  (WalkKeeps /\ WalkMissesNothing)'
  <2>1. rows' = rows /\ rows \in Seq(Messages)
    BY <1>3 DEF StartWalk, db, InboxTypeOK
  <2>2. walk'.at = "page" /\ walk'.offset = 0 /\ walk'.due = ToSet(rows)
    BY <1>3 DEF StartWalk, NoWalk
  <2>3. \A i : Rank(i)' = Rank(i) /\ Rank(i) \in Nat
    BY <2>1, PagesCount DEF Rank, Newer
  <2>4. \A m \in ToSet(rows) : \E i \in DOMAIN rows : rows[i] = m
    BY DEF ToSet
  <2> QED BY <2>1, <2>2, <2>3, <2>4 DEF WalkKeeps, WalkMissesNothing
<1>4. ASSUME ReadPage
      PROVE  (WalkKeeps /\ WalkMissesNothing)'
  <2> DEFINE p == Page(walk.offset)
             c == Cardinality(p)
  <2>1. rows' = rows /\ walk.at = "page" /\ rows \in Seq(Messages) /\ walk.offset \in Nat
    BY <1>4 DEF ReadPage, db, InboxTypeOK
  <2>2. /\ walk'.due = walk.due /\ walk'.seen = walk.seen \cup {rows[i] : i \in p}
        /\ walk'.offset = walk.offset + c
        /\ walk'.at = IF c < PageSize THEN "done" ELSE "page"
    BY <1>4 DEF ReadPage, InboxTypeOK
  <2>3. \A i : Rank(i)' = Rank(i) /\ Rank(i) \in Nat
    BY <2>1, PagesCount DEF Rank, Newer
  <2>4. /\ PageSize \in Nat \ {0} /\ c \in Nat /\ c <= PageSize
        /\ (\E i \in 1..Len(rows) : Rank(i) >= walk.offset + PageSize) => c = PageSize
        /\ DOMAIN rows = 1..Len(rows)
    BY <2>1, PagesAreFull, PagesCount, InboxAssumption
  <2>5. \A i \in DOMAIN rows : Rank(i) >= walk.offset =>
          i \in p \/ Rank(i) >= walk.offset + PageSize
    BY <2>1, <2>3, <2>4 DEF Page, Rank
  <2>6. \A m \in walk.due : \/ m \in walk'.seen
                            \/ \E i \in DOMAIN rows : /\ rows[i] = m
                                                      /\ Rank(i) >= walk.offset + PageSize
    <3> TAKE m \in walk.due
    <3>1. CASE m \in walk.seen
      BY <2>2, <3>1
    <3>2. CASE \E i \in DOMAIN rows : rows[i] = m /\ Rank(i) >= walk.offset
      BY <2>2, <2>5, <3>2
    <3> QED BY <2>1, <3>1, <3>2 DEF WalkKeeps
  <2>7. CASE c < PageSize
    <3>1. walk.due \subseteq walk'.seen
      BY <2>4, <2>6, <2>7
    <3> QED BY <2>2, <2>7, <3>1 DEF WalkKeeps, WalkMissesNothing
  <2>8. CASE ~(c < PageSize)
    <3>1. c = PageSize
      BY <2>4, <2>8
    <3>2. walk'.at = "page" /\ walk'.offset = walk.offset + PageSize
      BY <2>2, <2>8, <3>1
    <3> QED BY <2>1, <2>2, <2>3, <2>6, <3>2 DEF WalkKeeps, WalkMissesNothing
  <2> QED BY <2>7, <2>8
<1>5. ASSUME (\E h \in Handlers, b \in Batches : DeliverBatch(h, b))
             \/ (\E h \in Handlers, b \in Batches : CloudReceive(h, b))
             \/ (\E h \in Handlers : PersistContacts(h)) \/ (\E h \in Handlers : Sight(h))
             \/ (\E h \in Handlers : Forward(h)) \/ (\E h \in Handlers : CloudForward(h))
             \/ (\E h \in Handlers : CloudOk(h)) \/ (\E h \in Handlers : CloudHangUp(h))
             \/ InstallStore \/ Subscribe \/ Tell \/ Poll \/ Crash
      PROVE  (WalkKeeps /\ WalkMissesNothing)'
  <2>1. UNCHANGED <<rows, walk>>
    BY <1>5
       DEF DeliverBatch, Change, Goto, CloudReceive, PersistContacts, Upsert, Fault,
           NoFault, Sight, Seen, Remember, Advance, Forward, CloudForward, CloudOk,
           CloudHangUp, InstallStore, Subscribe, Tell, Poll, Crash, config, db, stream,
           observed
  <2>2. \A i : Rank(i)' = Rank(i)
    BY <2>1 DEF Rank, Newer
  <2> QED BY <2>1, <2>2 DEF WalkKeeps, WalkMissesNothing
<1> QED BY <1>1, <1>2, <1>3, <1>4, <1>5 DEF InboxNext, HandlerStep, StreamStep
-----------------------------------------------------------------------------
(* Theorems.                                                               *)

InboxInv ==
  InboxTypeOK /\ HandlersWork /\ RecentIsTheEnd /\ RepeatsAreFarApart /\ KeptFirst
  /\ WalkKeeps /\ WalkMissesNothing

LEMMA InboxInvInit == InboxInit => InboxInv
<1> SUFFICES ASSUME InboxInit PROVE InboxInv
  OBVIOUS
<1>1. InboxTypeOK
  <2>1. NoWalk \in [at : {"idle", "page", "done"}, offset : Nat,
                    due : SUBSET Messages, seen : SUBSET Messages]
    BY DEF NoWalk
  <2>2. 0 \in 0..MaxStores /\ 0 \in 0..MaxDeliveries /\ 0 \in 0..MaxFaults
    BY InboxAssumption
  <2>3. recent \in Seq(Messages) /\ Len(recent) <= Window
    BY InboxAssumption DEF InboxInit
  <2>4. rows \in Seq(Messages) /\ sighted \in Seq(Messages)
    BY DEF InboxInit
  <2> QED BY <2>1, <2>2, <2>3, <2>4 DEF InboxInit, InboxTypeOK
<1>2. HandlersWork /\ RecentIsTheEnd /\ RepeatsAreFarApart
  BY DEF InboxInit, HandlersWork, RecentIsTheEnd, RepeatsAreFarApart
<1>3. KeptFirst
  BY DEF InboxInit, KeptFirst, KeptNow, ToSet
<1>4. WalkKeeps /\ WalkMissesNothing
  BY DEF InboxInit, NoWalk, WalkKeeps, WalkMissesNothing
<1> QED BY <1>1, <1>2, <1>3, <1>4 DEF InboxInv

\* Every step keeps the invariant.
LEMMA InboxInvStep == InboxInv /\ [InboxNext]_inboxVars => InboxInv'
<1> SUFFICES ASSUME InboxInv, [InboxNext]_inboxVars PROVE InboxInv'
  OBVIOUS
<1>1. InboxTypeOK' /\ HandlersWork'
  BY InboxTypeStep, HandlersStep DEF InboxInv
<1>2. (RecentIsTheEnd /\ RepeatsAreFarApart)' /\ KeptFirst'
  BY RecentStep, KeptStep DEF InboxInv
<1>3. (WalkKeeps /\ WalkMissesNothing)'
  BY <1>1, WalkStep DEF InboxInv
<1> QED BY <1>1, <1>2, <1>3 DEF InboxInv

\* The invariant of incoming messages: the window is the end of what was sighted, what a
\* handler holds comes in the order contacts, row, event, and what is due to a reader lies
\* ahead of its offset.
THEOREM InboxInvariant == InboxSpec => []InboxInv
<1> QED BY InboxInvInit, InboxInvStep, PTL DEF InboxSpec

\* A repeat gets through only when as many others as the window holds came in between.
THEOREM RepeatsStayFarApart == InboxSpec => []RepeatsAreFarApart
<1>1. InboxInv => RepeatsAreFarApart
  BY DEF InboxInv
<1> QED BY <1>1, InboxInvariant, PTL

\* What consumers are told is in the history, and says the same there.
THEOREM ToldIsKept == InboxSpec => []ToldIsInTheHistory
<1>1. InboxInv => ToldIsInTheHistory
  BY KeptIsFound DEF InboxInv
<1> QED BY <1>1, InboxInvariant, PTL

\* A reader that pages gets every message that was there when it began.
THEOREM WalksMissNothing == InboxSpec => []WalkMissesNothing
<1>1. InboxInv => WalkMissesNothing
  BY DEF InboxInv
<1> QED BY <1>1, InboxInvariant, PTL
=============================================================================
