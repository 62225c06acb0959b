------------------------------ MODULE Webhooks ------------------------------
(***************************************************************************)
(* Webhook delivery: the circuit breaker of each URL, the delivery tasks   *)
(* with their retries, and the dead-letter ring of each session with its   *)
(* replay endpoint (state.rs, webhooks/handlers.rs).                       *)
(*                                                                         *)
(* Every action is one access to one of the shared maps, or one HTTP       *)
(* attempt: tasks and handlers run on several threads, so any other may    *)
(* come in between.  Times are timers that count down to 0.                *)
(*                                                                         *)
(* Left out: which events a webhook matches, signing, the console's event  *)
(* ring, the skipped counter and last_error, the webhook_dlq table (it is  *)
(* written once per dead letter and never read).                           *)
(***************************************************************************)
EXTENDS Integers, SequencesExt

CONSTANTS
  Urls,          \* receivers: a circuit belongs to a URL, whoever registered it
  Sessions,      \* a dead-letter ring belongs to a session
  Deliveries,    \* ids of deliveries: one event for one webhook
  NoDelivery,    \* no probe is out
  Threshold,     \* OPEN_THRESHOLD
  MaxAttempts,   \* max_attempts
  Capacity,      \* dlq_capacity
  MaxRun,        \* longest run of deliver_webhook: its timeouts and delays
  Base,          \* BASE_SECS
  MaxCooldown,   \* MAX_SECS
  ProbeTimeout,  \* PROBE_TIMEOUT
  MaxDeaths      \* bound: tasks that die without reporting

\* A run is shorter than the shortest cooldown and than the probe timeout: true
\* up to five attempts, 265 s against 300 s and 600 s.
ASSUME WebhookAssumption ==
  /\ NoDelivery \notin Deliveries
  /\ Threshold \in Nat \ {0}
  /\ MaxAttempts \in Nat \ {0}
  /\ Capacity \in Nat \ {0}
  /\ MaxRun \in Nat
  /\ Base \in Nat
  /\ MaxCooldown \in Nat
  /\ ProbeTimeout \in Nat
  /\ MaxRun < Base
  /\ Base <= MaxCooldown
  /\ MaxRun < ProbeTimeout
  /\ MaxDeaths \in Nat

VARIABLES
  failures, open, wait,      \* CircuitState of each URL; wait: time to opened_until
  trips, probing, probeLeft, \* probeLeft: time until the probe is given up
  stage, url, home,          \* each delivery: what it is at, its URL and session
  attempts, left,            \* attempts made, time left to its run
  ring,                      \* webhook_dlq
  gone,                      \* sessions whose webhooks were purged
  probeBy, probes,           \* observations: the delivery let through as the
                             \* probe, probes let through since the circuit opened
  deaths

circuitVars == <<failures, open, wait, trips, probing, probeLeft>>
taskVars == <<stage, url, home, attempts, left>>
seenVars == <<probeBy, probes>>
vars == <<circuitVars, taskVars, ring, gone, seenVars, deaths>>

\* flying: making attempts; report: every attempt failed; bury: reported to the
\* circuit; buried: in the ring; held: taken out by a replay.
InFlight == {"flying", "report"}
Running == InFlight \cup {"bury"}
Lost == {"skipped", "evicted", "purged", "died"}
Stage == Running \cup Lost \cup {"new", "delivered", "buried", "held"}

\* min(4): escalation stops here.
MaxTrips == 4

TypeOK ==
  /\ failures \in [Urls -> 0..Threshold]
  /\ open \in [Urls -> BOOLEAN]
  /\ wait \in [Urls -> 0..MaxCooldown]
  /\ trips \in [Urls -> 0..MaxTrips]
  /\ probing \in [Urls -> BOOLEAN]
  /\ probeLeft \in [Urls -> 0..ProbeTimeout]
  /\ stage \in [Deliveries -> Stage]
  /\ url \in [Deliveries -> Urls]
  /\ home \in [Deliveries -> Sessions]
  /\ attempts \in [Deliveries -> 0..MaxAttempts]
  /\ left \in [Deliveries -> 0..MaxRun]
  /\ ring \in [Sessions -> Seq(Deliveries)]
  /\ gone \in SUBSET Sessions
  /\ probeBy \in [Urls -> Deliveries \cup {NoDelivery}]
  /\ probes \in [Urls -> 0..MaxTrips]
  /\ deaths \in 0..MaxDeaths

Init ==
  /\ failures = [u \in Urls |-> 0]
  /\ open = [u \in Urls |-> FALSE]
  /\ wait = [u \in Urls |-> 0]
  /\ trips = [u \in Urls |-> 0]
  /\ probing = [u \in Urls |-> FALSE]
  /\ probeLeft = [u \in Urls |-> 0]
  /\ stage = [d \in Deliveries |-> "new"]
  /\ url \in [Deliveries -> Urls]
  /\ home \in [Deliveries -> Sessions]
  /\ attempts = [d \in Deliveries |-> 0]
  /\ left = [d \in Deliveries |-> 0]
  /\ ring = [s \in Sessions |-> <<>>]
  /\ gone = {}
  /\ probeBy = [u \in Urls |-> NoDelivery]
  /\ probes = [u \in Urls |-> 0]
  /\ deaths = 0

Lesser(a, b) == IF a < b THEN a ELSE b

-----------------------------------------------------------------------------
(* The circuit breaker.                                                    *)

\* << trips.min(4)
Shift == <<1, 2, 4, 8, 16>>

\* webhook_cooldown: doubles with every failed probe, up to MaxCooldown.
Cooldown(n) == Lesser(Base * Shift[n + 1], MaxCooldown)

\* Mutant: the probe that is out is not looked at.
Allows_EveryoneProbes(u) == ~open[u] \/ wait[u] = 0

\* Mutant: a probe that never reports is waited for for ever.
Allows_NoTimeout(u) == ~open[u] \/ (wait[u] = 0 /\ ~probing[u])

\* webhook_circuit_allows: closed, or the cooldown is over and no probe is out.
Allows(u) ==
  \/ ~open[u]
  \/ wait[u] = 0 /\ (probing[u] => probeLeft[u] = 0)

\* The cooldown is over: delivery d is the probe.
StartProbe(d, u) ==
  /\ open[u]
  /\ probing' = [probing EXCEPT ![u] = TRUE]
  /\ probeLeft' = [probeLeft EXCEPT ![u] = ProbeTimeout]
  /\ probeBy' = [probeBy EXCEPT ![u] = d]
  /\ probes' = [probes EXCEPT ![u] = Lesser(@ + 1, MaxTrips)]
  /\ UNCHANGED <<failures, open, wait, trips>>

\* Delivery d goes through.
LetThrough(d, u) ==
  /\ Allows(u)
  /\ \/ ~open[u] /\ UNCHANGED <<circuitVars, seenVars>>
     \/ StartProbe(d, u)

\* webhook_record_success, and what the endpoints that reset a circuit do.
Close(u) ==
  /\ failures' = [failures EXCEPT ![u] = 0]
  /\ open' = [open EXCEPT ![u] = FALSE]
  /\ wait' = [wait EXCEPT ![u] = 0]
  /\ trips' = [trips EXCEPT ![u] = 0]
  /\ probing' = [probing EXCEPT ![u] = FALSE]
  /\ probeLeft' = [probeLeft EXCEPT ![u] = 0]
  /\ probeBy' = [probeBy EXCEPT ![u] = NoDelivery]
  /\ probes' = [probes EXCEPT ![u] = 0]

\* The failed probe: the circuit opens again, for longer.
Reopen(u) ==
  LET n == Lesser(trips[u] + 1, MaxTrips) IN
  /\ open[u]
  /\ probing[u]
  /\ trips' = [trips EXCEPT ![u] = n]
  /\ wait' = [wait EXCEPT ![u] = Cooldown(n)]
  /\ probing' = [probing EXCEPT ![u] = FALSE]
  /\ probeLeft' = [probeLeft EXCEPT ![u] = 0]
  /\ probeBy' = [probeBy EXCEPT ![u] = NoDelivery]
  /\ UNCHANGED <<failures, open, probes>>

\* A straggler from before the circuit opened.
Straggle(u) ==
  /\ open[u]
  /\ ~probing[u]
  /\ UNCHANGED <<circuitVars, seenVars>>

\* One more consecutive failure of a closed circuit.
CountFailure(u) ==
  /\ ~open[u]
  /\ failures' = [failures EXCEPT ![u] = @ + 1]
  /\ IF failures[u] + 1 < Threshold
     THEN UNCHANGED <<open, wait>>
     ELSE /\ open' = [open EXCEPT ![u] = TRUE]
          /\ wait' = [wait EXCEPT ![u] = Cooldown(trips[u])]
  /\ UNCHANGED <<trips, probing, probeLeft, seenVars>>

\* webhook_record_failure
RecordFailure(u) == Reopen(u) \/ Straggle(u) \/ CountFailure(u)

-----------------------------------------------------------------------------
(* The delivery tasks.                                                     *)

\* Delivery d starts its run: a task of its own.
TakeOff(d) ==
  /\ stage' = [stage EXCEPT ![d] = "flying"]
  /\ attempts' = [attempts EXCEPT ![d] = 0]
  /\ left' = [left EXCEPT ![d] = MaxRun]

\* broadcast_to_webhooks, for one webhook: spawned, or skipped for good.
Broadcast(d) ==
  /\ stage[d] = "new"
  /\ home[d] \notin gone
  /\ \/ LetThrough(d, url[d]) /\ TakeOff(d)
     \/ /\ ~Allows(url[d])
        /\ stage' = [stage EXCEPT ![d] = "skipped"]
        /\ UNCHANGED <<circuitVars, seenVars, attempts, left>>
  /\ UNCHANGED <<url, home, ring, gone, deaths>>

\* deliver_webhook: an attempt is answered 2xx.
Deliver(d) ==
  /\ stage[d] = "flying"
  /\ stage' = [stage EXCEPT ![d] = "delivered"]
  /\ Close(url[d])
  /\ UNCHANGED <<url, home, attempts, left, ring, gone, deaths>>

\* An attempt fails.  The last one ends the run, and so does a 4xx when 4xx is
\* not retried.
AttemptFails(d) ==
  /\ stage[d] = "flying"
  /\ attempts' = [attempts EXCEPT ![d] = @ + 1]
  /\ \/ attempts[d] + 1 < MaxAttempts /\ UNCHANGED stage
     \/ stage' = [stage EXCEPT ![d] = "report"]
  /\ UNCHANGED <<circuitVars, url, home, left, ring, gone, seenVars, deaths>>

\* The run failed: the circuit hears of it first.
Report(d) ==
  /\ stage[d] = "report"
  /\ stage' = [stage EXCEPT ![d] = "bury"]
  /\ RecordFailure(url[d])
  /\ UNCHANGED <<url, home, attempts, left, ring, gone, deaths>>

\* The task panics, or is dropped, and reports to nobody.
TaskDies(d) ==
  /\ stage[d] \in Running
  /\ deaths < MaxDeaths
  /\ deaths' = deaths + 1
  /\ stage' = [stage EXCEPT ![d] = "died"]
  /\ UNCHANGED <<circuitVars, url, home, attempts, left, ring, gone, seenVars>>

-----------------------------------------------------------------------------
(* The dead-letter rings.                                                  *)

\* The entries a push into ring r evicts.
Victims(r) == IF Len(r) >= Capacity THEN {r[1]} ELSE {}

\* webhook_dlq_push
Push(d) ==
  LET r == ring[home[d]]
      old == Victims(r)
  IN /\ ring' = [ring EXCEPT ![home[d]] = Append(IF old = {} THEN r ELSE Tail(r), d)]
     /\ stage' = [e \in Deliveries |-> IF e = d THEN "buried"
                                       ELSE IF e \in old THEN "evicted" ELSE stage[e]]

\* deliver_webhook ends: the failed run is dead-lettered.
Bury(d) ==
  /\ stage[d] = "bury"
  /\ Push(d)
  /\ UNCHANGED <<circuitVars, url, home, attempts, left, gone, seenVars, deaths>>

\* Mutant: the entry is read and stays in the ring.
Without_Kept(r, i) == r

\* webhook_dlq_take: ring r without its entry at i.
Without(r, i) == RemoveAt(r, i)

\* replay_webhook_dlq_entry: the entry leaves the ring first.
Take(d) ==
  /\ \E i \in 1..Len(ring[home[d]]) :
       /\ ring[home[d]][i] = d
       /\ ring' = [ring EXCEPT ![home[d]] = Without(@, i)]
  /\ stage' = [stage EXCEPT ![d] = "held"]
  /\ UNCHANGED <<circuitVars, url, home, attempts, left, gone, seenVars, deaths>>

\* The entry flies again, as the probe if the circuit is open, or goes back as
\* the newest of the ring.
Replay(d) ==
  /\ stage[d] = "held"
  /\ \/ LetThrough(d, url[d]) /\ TakeOff(d) /\ UNCHANGED ring
     \/ ~Allows(url[d]) /\ Push(d) /\ UNCHANGED <<circuitVars, seenVars, attempts, left>>
  /\ UNCHANGED <<url, home, gone, deaths>>

-----------------------------------------------------------------------------
(* The endpoints, the process and time.                                    *)

\* set_webhook_enabled: the circuit starts afresh, whoever shares the URL.
EnableWebhook(u) ==
  /\ gone # Sessions
  /\ Close(u)
  /\ UNCHANGED <<taskVars, ring, gone, deaths>>

\* reenable_all_open_circuits, for one of the open circuits.
ReenableOpen(u) ==
  /\ open[u]
  /\ Close(u)
  /\ UNCHANGED <<taskVars, ring, gone, deaths>>

\* purge_webhooks_for_session: no more broadcasts; its runs in flight go on, and
\* may bring the ring back.
Purge(s) ==
  /\ s \notin gone
  /\ gone' = gone \cup {s}
  /\ ring' = [ring EXCEPT ![s] = <<>>]
  /\ stage' = [d \in Deliveries |->
                 IF home[d] = s /\ stage[d] = "buried" THEN "purged" ELSE stage[d]]
  /\ UNCHANGED <<circuitVars, url, home, attempts, left, seenVars, deaths>>

\* A second; a run ends before its time is up.
Tick ==
  /\ \A d \in Deliveries : stage[d] \in Running => left[d] > 0
  /\ wait' = [u \in Urls |-> IF wait[u] > 0 THEN wait[u] - 1 ELSE 0]
  /\ probeLeft' = [u \in Urls |-> IF probeLeft[u] > 0 THEN probeLeft[u] - 1 ELSE 0]
  /\ left' = [d \in Deliveries |-> IF left[d] > 0 THEN left[d] - 1 ELSE 0]
  /\ UNCHANGED <<failures, open, trips, probing, stage, url, home, attempts, ring,
                 gone, seenVars, deaths>>

-----------------------------------------------------------------------------
Run(d) == Deliver(d) \/ AttemptFails(d) \/ Report(d) \/ Bury(d)

Next ==
  \/ \E d \in Deliveries : Broadcast(d) \/ Run(d) \/ Take(d) \/ Replay(d) \/ TaskDies(d)
  \/ \E u \in Urls : EnableWebhook(u) \/ ReenableOpen(u)
  \/ \E s \in Sessions : Purge(s)
  \/ Tick

Spec == Init /\ [][Next]_vars

\* A spawned task runs to its end, and time passes.  Nothing makes an event
\* arrive, an operator act or a task die.
Fairness ==
  /\ \A d \in Deliveries : WF_vars(Run(d))
  /\ WF_vars(Tick)

FairSpec == Spec /\ Fairness

-----------------------------------------------------------------------------
(* Properties.                                                             *)

\* While a probe is out nothing else is on its way to the URL, so that its
\* verdict, and no straggler's, closes the circuit or opens it again.
ProbeIsAlone ==
  \A d \in Deliveries :
    stage[d] \in InFlight /\ probing[url[d]] => d = probeBy[url[d]]

\* A burst of failures costs one suspension: the cooldown grows only with
\* probes that were let through and failed.
EscalationIsEarned ==
  \A u \in Urls :
    /\ trips[u] <= probes[u]
    /\ probing[u] /\ probes[u] < MaxTrips => trips[u] < probes[u]

\* A closed circuit counts afresh, and a probe is out only after the cooldown.
ClosedIsFresh ==
  \A u \in Urls :
    /\ ~open[u] => ~probing[u] /\ failures[u] < Threshold /\ trips[u] = 0 /\ probes[u] = 0
    /\ probing[u] => wait[u] = 0

\* Every run under way when a circuit opens ends before its cooldown, and a probe
\* before it is given up.
NobodyIsLate ==
  \A d \in Deliveries :
    stage[d] \in InFlight /\ open[url[d]] =>
      IF probing[url[d]]
      THEN d = probeBy[url[d]] /\ left[d] < probeLeft[url[d]]
      ELSE left[d] < wait[url[d]]

RunsHaveAttempts ==
  \A d \in Deliveries : stage[d] = "flying" => attempts[d] < MaxAttempts

\* What keeps the circuits and the tasks in step: nobody is on the way to an open
\* circuit when its next probe is let through.
CircuitInv == ClosedIsFresh /\ NobodyIsLate /\ RunsHaveAttempts

\* A dead letter is in the ring of its session once, and in no other hands: it
\* is not being delivered, and no event is in the ring after its delivery.
DeadLettersAreOnce ==
  \A s \in Sessions :
    /\ Len(ring[s]) <= Capacity
    /\ \A i, j \in 1..Len(ring[s]) : ring[s][i] = ring[s][j] => i = j
    /\ \A d \in Deliveries :
         stage[d] = "buried" /\ home[d] = s <=> \E i \in 1..Len(ring[s]) : d = ring[s][i]

\* No circuit stays shut: a receiver that is down "is always probed again",
\* even when the task of a probe died.
AlwaysProbedAgain == \A u \in Urls : []<>Allows(u)
=============================================================================
