---------------------------- MODULE BlastProofs ----------------------------
(* Theorems about Blast for every value of its constants. *)
EXTENDS Blast, FiniteSetTheorems, WellFoundedInduction, TLAPS

LEMMA CapType == Cap \in Nat \ {0}
BY BlastAssumption DEF Cap

\* Counting jobs and recipients yields natural numbers.
LEMMA CountsAreNat ==
  /\ \A S \in SUBSET Recipients : Cardinality(S) \in Nat
  /\ \A S \in SUBSET Jobs : Cardinality(S) \in Nat
<1>1. IsFiniteSet(Recipients)
  BY FS_Interval, BlastAssumption DEF Recipients
<1>2. IsFiniteSet(Jobs)
  BY BlastAssumption
<1>3. QED
  BY <1>1, <1>2, FS_Subset, FS_CardinalityType

\* Overwriting one cell of a table keeps the table's type, wherever the cell is.
LEMMA CellTyped ==
  ASSUME NEW S, NEW T, NEW V, NEW f \in [S -> [T -> V]], NEW a, NEW b, NEW v \in V
  PROVE  [f EXCEPT ![a][b] = v] \in [S -> [T -> V]]
OBVIOUS

LEMMA RowTyped ==
  ASSUME NEW S, NEW V, NEW f \in [S -> V], NEW a, NEW v \in V
  PROVE  [f EXCEPT ![a] = v] \in [S -> V]
OBVIOUS

LEMMA OutsideTable ==
  ASSUME NEW S, NEW V, NEW f \in [S -> V], NEW a, a \notin S, NEW v
  PROVE  [f EXCEPT ![a] = v] = f
OBVIOUS

LEMMA BumpTyped ==
  ASSUME NEW f \in [Jobs -> Nat], NEW j
  PROVE  Bump(f, j) \in [Jobs -> Nat]
<1>1. CASE j \in Jobs
  BY <1>1 DEF Bump
<1>2. CASE j \notin Jobs
  BY <1>2 DEF Bump
<1>3. QED
  BY <1>1, <1>2

LEMMA CellBumped ==
  ASSUME NEW S, NEW T, NEW f \in [S -> [T -> Nat]], NEW a, NEW b
  PROVE  [f EXCEPT ![a][b] = @ + 1] \in [S -> [T -> Nat]]
<1>1. CASE a \in S /\ b \in T
  BY <1>1
<1>2. CASE a \notin S
  BY <1>2
<1>3. CASE a \in S /\ b \notin T
  BY <1>3
<1>4. QED
  BY <1>1, <1>2, <1>3

LEMMA SetRowTyped ==
  ASSUME rec \in [Jobs -> [Recipients -> RowStatus \cup {Absent}]],
         NEW j, NEW r, NEW st \in RowStatus, SetRow(j, r, st)
  PROVE  rec' \in [Jobs -> [Recipients -> RowStatus \cup {Absent}]]
BY CellTyped DEF SetRow

LEMMA RequestTyped ==
  /\ NoRequest \in Request
  /\ \A p \in ClientPC, j \in Jobs : Asking(p, j) \in Request
BY DEF NoRequest, Asking, Request, ClientPC

LEMMA AdvanceTyped ==
  ASSUME NEW c, req[c] \in Request, NEW p \in ClientPC,
         NEW S \in SUBSET Recipients, NEW D \in SUBSET Recipients
  PROVE  Advance(c, p, S, D) \in Request
BY DEF Advance, Request

LEMMA InitTypeOK == Init => TypeOK
BY BlastAssumption, RequestTyped
   DEF Init, TypeOK, NoLocals, WorkerPC, Finished, Absent, NoRow

LEMMA StutterTypeOK == TypeOK /\ UNCHANGED vars => TypeOK'
<1> SUFFICES ASSUME TypeOK, UNCHANGED vars PROVE TypeOK'
  OBVIOUS
<1> QED
  BY Zenon DEF TypeOK, vars, jobVars, countVars, rowVars, workerVars, locals, seenVars,
       boundVars

\* Each action keeps every variable in its type.
LEMMA HandlerTypeOK ==
  ASSUME TypeOK, NEW c \in Clients, Arrival(c) \/ Handler(c) \/ Abandon(c)
  PROVE  TypeOK'
<1> USE DEF TypeOK, jobVars, countVars, rowVars, workerVars, locals, seenVars,
            boundVars
<1>0. /\ req[c] \in Request
      /\ req[c].job \in Jobs \cup {NoJob}
      /\ req[c].dedup \in BOOLEAN
      /\ req[c].todo \in SUBSET Recipients
      /\ req[c].dups \in SUBSET Recipients
  BY DEF Request
<1>1. ASSUME NEW j \in Jobs, CreateArrive(c, j) PROVE TypeOK'
  BY <1>1 DEF CreateArrive, Request, ClientPC
<1>2. CASE CreateDedup(c)
  <2>1. /\ req[c].todo \ AlreadySent \in SUBSET Recipients
        /\ req[c].todo \cap AlreadySent \in SUBSET Recipients
    BY <1>0
  <2>2. Advance(c, "create_job", req[c].todo \ AlreadySent,
                req[c].todo \cap AlreadySent) \in Request
    BY <1>0, <2>1, AdvanceTyped DEF ClientPC
  <2>3. req' \in [Clients -> Request]
    BY <1>2, <2>2 DEF CreateDedup
  <2>4. QED
    BY <1>2, <2>3 DEF CreateDedup
<1>3. CASE CreateJob(c)
  <2>1. /\ Cardinality({k \in Jobs : status[k] # Absent}) \in Nat
        /\ Cardinality(req[c].todo) \in Nat
    BY <1>0, CountsAreNat
  <2>2. req' \in [Clients -> Request]
    <3>1. Advance(c, "create_rows", req[c].todo, req[c].dups) \in Request
      BY <1>0, AdvanceTyped DEF ClientPC
    <3>2. QED
      BY <1>3, <3>1 DEF CreateJob
  <2>3. status' \in [Jobs -> JobStatus \cup {Absent}]
    BY <1>3, RowTyped DEF CreateJob, JobStatus
  <2>4. createdAt' \in [Jobs -> Nat] /\ total' \in [Jobs -> Nat]
    BY <1>3, <2>1, RowTyped DEF CreateJob
  <2>5. due' \in [Jobs -> BOOLEAN] /\ dedup' \in [Jobs -> BOOLEAN]
    BY <1>3, <1>0, RowTyped DEF CreateJob
  <2>6. QED
    BY <1>3, <2>2, <2>3, <2>4, <2>5 DEF CreateJob
<1>4. CASE CreateRow(c)
  <2>1. PICK r \in Recipients :
          /\ \/ SetRow(req[c].job, r, "pending")
             \/ SetRow(req[c].job, r, "skipped_dup")
             \/ UNCHANGED rec
          /\ \/ req' = [req EXCEPT ![c] = NoRequest]
             \/ req' = [req EXCEPT ![c] = Advance(c, "create_rows", req[c].todo \ {r},
                                                  req[c].dups \ {r})]
    BY <1>4 DEF CreateRow
  <2>2. /\ req[c].todo \ {r} \in SUBSET Recipients
        /\ req[c].dups \ {r} \in SUBSET Recipients
    BY <1>0
  <2>3. req' \in [Clients -> Request]
    <3>1. Advance(c, "create_rows", req[c].todo \ {r}, req[c].dups \ {r}) \in Request
      BY <1>0, <2>2, AdvanceTyped DEF ClientPC
    <3>2. QED
      BY <2>1, <3>1, RequestTyped
  <2>4. rec' \in [Jobs -> [Recipients -> RowStatus \cup {Absent}]]
    <3>1. {"pending", "skipped_dup"} \subseteq RowStatus
      BY DEF RowStatus
    <3>2. QED
      BY <2>1, <3>1, SetRowTyped
  <2>5. QED
    BY <1>4, <2>3, <2>4 DEF CreateRow
<1>5. ASSUME NEW j \in Jobs, CancelArrive(c, j) PROVE TypeOK'
  <2>1. req' \in [Clients -> Request]
    BY <1>5, RequestTyped, RowTyped DEF CancelArrive, ClientPC
  <2>2. cancels' \in 0..MaxCancels
    BY <1>5, BlastAssumption DEF CancelArrive
  <2>3. QED
    BY <1>5, <2>1, <2>2 DEF CancelArrive
<1>6. CASE CancelUpdate(c)
  <2>1. req' \in [Clients -> Request]
    BY <1>6, RequestTyped, RowTyped DEF CancelUpdate
  <2>2. status' \in [Jobs -> JobStatus \cup {Absent}]
    BY <1>6 DEF CancelUpdate, JobStatus
  <2>3. late' \in [Jobs -> Nat]
    <3>1. late' = [late EXCEPT ![req[c].job] = 0] \/ late' = late
      BY <1>6 DEF CancelUpdate
    <3>2. [late EXCEPT ![req[c].job] = 0] \in [Jobs -> Nat]
      BY RowTyped
    <3>3. QED
      BY <3>1, <3>2
  <2>4. QED
    BY <1>6, <2>1, <2>2, <2>3 DEF CancelUpdate
<1>7. ASSUME NEW j \in Jobs, RetryArrive(c, j) PROVE TypeOK'
  <2>1. req' \in [Clients -> Request]
    BY <1>7, RequestTyped, RowTyped DEF RetryArrive, ClientPC
  <2>2. retries' \in 0..MaxRetries
    BY <1>7, BlastAssumption DEF RetryArrive
  <2>3. QED
    BY <1>7, <2>1, <2>2 DEF RetryArrive
<1>8. CASE RetryRequeue(c)
  <2> DEFINE j == req[c].job
             dead == {r \in Recipients : Requeueable(rec[j][r])}
  <2>1. CASE j \in Jobs
    <3>1. req' \in [Clients -> Request]
      BY <1>8, <2>1, RequestTyped, RowTyped DEF RetryRequeue, ClientPC
    <3>2. [r \in Recipients |-> IF r \in dead THEN "pending" ELSE rec[j][r]]
            \in [Recipients -> RowStatus \cup {Absent}]
      BY <2>1 DEF RowStatus
    <3>3. [r \in Recipients |-> IF r \in dead THEN 0 ELSE attempts[j][r]]
            \in [Recipients -> Nat]
      BY <2>1
    <3>4. rec' \in [Jobs -> [Recipients -> RowStatus \cup {Absent}]]
      BY <1>8, <3>2, RowTyped DEF RetryRequeue
    <3>5. attempts' \in [Jobs -> [Recipients -> Nat]]
      BY <1>8, <3>3, RowTyped DEF RetryRequeue
    <3>6. upset' \in [Jobs -> SUBSET Causes]
      BY <1>8, <2>1 DEF RetryRequeue, Causes
    <3>7. QED
      BY <1>8, <3>1, <3>4, <3>5, <3>6 DEF RetryRequeue
  <2>2. CASE j \notin Jobs
    <3>0. PICK row, tries : /\ rec' = [rec EXCEPT ![j] = row]
                            /\ attempts' = [attempts EXCEPT ![j] = tries]
      BY <1>8 DEF RetryRequeue
    <3>1. rec' = rec /\ attempts' = attempts
      BY <2>2, <3>0, OutsideTable
    <3>2. req' \in [Clients -> Request]
      BY <1>8, <2>2, <1>0, RequestTyped, RowTyped DEF RetryRequeue, ClientPC
    <3>3. upset' \in [Jobs -> SUBSET Causes]
      BY <1>8, <2>2 DEF RetryRequeue, Causes
    <3>4. QED
      BY <1>8, <3>1, <3>2, <3>3 DEF RetryRequeue
  <2>3. QED
    BY <2>1, <2>2
<1>9. CASE RetryReopen(c)
  <2>1. req' \in [Clients -> Request]
    BY <1>9, RequestTyped, RowTyped DEF RetryReopen
  <2>2. status' \in [Jobs -> JobStatus \cup {Absent}]
    BY <1>9, RowTyped DEF RetryReopen, JobStatus
  <2>3. reopened' \in [Jobs -> Nat]
    <3>1. reopened' = Bump(reopened, req[c].job) \/ reopened' = reopened
      BY <1>9 DEF RetryReopen
    <3>2. Bump(reopened, req[c].job) \in [Jobs -> Nat]
      BY BumpTyped
    <3>3. QED
      BY <3>1, <3>2
  <2>4. QED
    BY <1>9, <2>1, <2>2, <2>3 DEF RetryReopen
<1>10. CASE Abandon(c)
  <2>1. req' \in [Clients -> Request]
    BY <1>10, RequestTyped, RowTyped DEF Abandon
  <2>2. upset' \in [Jobs -> SUBSET Causes] /\ faults' \in 0..MaxFaults
    BY <1>10, BlastAssumption DEF Abandon, Upsetting, Causes
  <2>3. QED
    BY <1>10, <2>1, <2>2 DEF Abandon
<1>11. QED
  BY <1>1, <1>2, <1>3, <1>4, <1>5, <1>6, <1>7, <1>8, <1>9, <1>10 DEF Arrival, Handler

LEMMA ToIdleTyped ==
  ASSUME ToIdle
  PROVE  /\ wpc' = "idle"
         /\ wpc' \in WorkerPC
         /\ wjob' = NoJob
         /\ batch' \in SUBSET Recipients
         /\ current' \in Recipients \cup {NoRow}
         /\ snapshot' \in [Recipients -> Nat]
         /\ verdict' \in Finished
BY DEF ToIdle, WorkerPC, NoRow, NoLocals, Finished

LEMMA NextInBatchTyped ==
  ASSUME NextInBatch
  PROVE  /\ wpc' \in WorkerPC \ {"idle"}
         /\ current' \in Recipients \cup {NoRow}
BY DEF NextInBatch, WorkerPC, NoRow

LEMMA WorkerTypeOK == TypeOK /\ Worker => TypeOK'
<1> SUFFICES ASSUME TypeOK, Worker PROVE TypeOK'
  OBVIOUS
<1> USE DEF TypeOK, jobVars, countVars, rowVars, workerVars, locals, seenVars,
            boundVars
<1>1. ASSUME NEW j \in Jobs, WorkerResume(j) \/ WorkerSelect(j) PROVE TypeOK'
  BY <1>1 DEF WorkerResume, WorkerSelect, Step, WorkerPC
<1>2. CASE WorkerClaim
  <2>1. CASE status[wjob] = "pending"
    <3>1. status' \in [Jobs -> JobStatus \cup {Absent}]
      BY <1>2, <2>1 DEF WorkerClaim, JobStatus
    <3>2. upset' \in [Jobs -> SUBSET Causes]
      <4>1. \/ upset' = upset
            \/ upset' = [upset EXCEPT ![wjob] = @ \cup {"early_claim"}]
        BY <1>2, <2>1 DEF WorkerClaim
      <4>2. [upset EXCEPT ![wjob] = @ \cup {"early_claim"}] \in [Jobs -> SUBSET Causes]
        <5>1. wjob \in Jobs
          BY <1>2 DEF WorkerClaim
        <5>2. upset[wjob] \cup {"early_claim"} \in SUBSET Causes
          BY <5>1 DEF Causes
        <5>3. QED
          BY <5>2, RowTyped
      <4>3. QED
        BY <4>1, <4>2
    <3>3. QED
      BY <1>2, <2>1, <3>1, <3>2 DEF WorkerClaim, WorkerPC
  <2>2. CASE status[wjob] # "pending"
    BY <1>2, <2>2, ToIdleTyped DEF WorkerClaim
  <2>3. QED
    BY <2>1, <2>2
<1>3. CASE WorkerReset
  <2>1. wjob \in Jobs
    BY <1>3 DEF WorkerReset, Step
  <2>2. [r \in Recipients |-> IF WasInFlight(rec[wjob][r]) THEN "pending"
                              ELSE rec[wjob][r]]
          \in [Recipients -> RowStatus \cup {Absent}]
    BY <2>1 DEF RowStatus
  <2>3. rec' \in [Jobs -> [Recipients -> RowStatus \cup {Absent}]]
    BY <1>3, <2>2, RowTyped DEF WorkerReset
  <2>4. QED
    BY <1>3, <2>3 DEF WorkerReset, Step, WorkerPC
<1>4. CASE WorkerCheck
  <2>1. CASE StillRunning(wjob)
    BY <1>4, <2>1 DEF WorkerCheck, WorkerPC
  <2>2. CASE ~StillRunning(wjob)
    BY <1>4, <2>2, ToIdleTyped DEF WorkerCheck
  <2>3. QED
    BY <2>1, <2>2
<1>5. CASE WorkerFetch
  <2>1. batch' \in SUBSET Recipients
    BY <1>5 DEF WorkerFetch, FirstPending, RowsIn
  <2>2. snapshot' \in [Recipients -> Nat]
    <3>1. wjob \in Jobs
      BY <1>5 DEF WorkerFetch
    <3>2. QED
      BY <1>5, <3>1 DEF WorkerFetch
  <2>3. QED
    BY <1>5, <2>1, <2>2 DEF WorkerFetch, WorkerPC
<1>6. CASE WorkerMark
  <2>1. PICK r \in Recipients :
          current' = r /\ batch' = batch \ {r} /\ SetRow(wjob, r, "sending")
    BY <1>6 DEF WorkerMark
  <2>2. rec' \in [Jobs -> [Recipients -> RowStatus \cup {Absent}]]
    BY <2>1, SetRowTyped DEF RowStatus
  <2>3. QED
    BY <1>6, <2>1, <2>2 DEF WorkerMark, Step, WorkerPC
<1>7. CASE WorkerDispatch
  <2>1. faults' \in 0..MaxFaults
    BY <1>7, BlastAssumption DEF WorkerDispatch
  <2>2. accepted' \in [Jobs -> [Recipients -> Nat]]
    <3>1. [accepted EXCEPT ![wjob][current] = @ + 1] \in [Jobs -> [Recipients -> Nat]]
      BY CellBumped
    <3>2. QED
      BY <1>7, <3>1 DEF WorkerDispatch
  <2>3. late' \in [Jobs -> Nat]
    <3>1. Bump(late, wjob) \in [Jobs -> Nat]
      BY BumpTyped
    <3>2. QED
      BY <1>7, <3>1 DEF WorkerDispatch
  <2>4. QED
    BY <1>7, <2>1, <2>2, <2>3 DEF WorkerDispatch, WorkerPC
<1>8. CASE WorkerSettleSent
  <2>1. rec' \in [Jobs -> [Recipients -> RowStatus \cup {Absent}]]
    BY <1>8, SetRowTyped DEF WorkerSettleSent, RowStatus
  <2>2. QED
    BY <1>8, <2>1 DEF WorkerSettleSent, Step, WorkerPC
<1>9. CASE WorkerCountSent
  <2>1. sentCount' \in [Jobs -> Nat]
    BY <1>9, BumpTyped DEF WorkerCountSent
  <2>2. QED
    BY <1>9, <2>1, NextInBatchTyped DEF WorkerCountSent
<1>10. CASE WorkerCountFailed
  <2>1. failedCount' \in [Jobs -> Nat]
    BY <1>10, BumpTyped DEF WorkerCountFailed
  <2>2. QED
    BY <1>10, <2>1 DEF WorkerCountFailed, Step, WorkerPC
<1>11. CASE WorkerRetryLater
  <2>1. rec' \in [Jobs -> [Recipients -> RowStatus \cup {Absent}]]
    BY <1>11, SetRowTyped DEF WorkerRetryLater, RowStatus
  <2>2. attempts' \in [Jobs -> [Recipients -> Nat]]
    BY <1>11, CellBumped DEF WorkerRetryLater
  <2>3. QED
    BY <1>11, <2>1, <2>2, NextInBatchTyped DEF WorkerRetryLater
<1>12. CASE WorkerDeadLetter
  <2>1. rec' \in [Jobs -> [Recipients -> RowStatus \cup {Absent}]]
    BY <1>12, SetRowTyped DEF WorkerDeadLetter, RowStatus
  <2>2. attempts' \in [Jobs -> [Recipients -> Nat]]
    BY <1>12, CellBumped DEF WorkerDeadLetter
  <2>3. QED
    BY <1>12, <2>1, <2>2 DEF WorkerDeadLetter, Step, WorkerPC
<1>13. CASE WorkerCountDlq
  <2>1. dlqCount' \in [Jobs -> Nat]
    BY <1>13, BumpTyped DEF WorkerCountDlq
  <2>2. QED
    BY <1>13, <2>1, NextInBatchTyped DEF WorkerCountDlq
<1>14. CASE WorkerVerdict
  BY <1>14 DEF WorkerVerdict, Finished, Step, WorkerPC
<1>15. CASE WorkerFinish
  BY <1>15 DEF WorkerFinish, FinishJob, Finished, JobStatus, Step, WorkerPC
<1>16. CASE WorkerAnnounce
  <2>1. announced' \in [Jobs -> Nat]
    BY <1>16, BumpTyped DEF WorkerAnnounce
  <2>2. QED
    BY <1>16, <2>1, ToIdleTyped DEF WorkerAnnounce
<1>17. QED
  BY <1>1, <1>2, <1>3, <1>4, <1>5, <1>6, <1>7, <1>8, <1>9, <1>10, <1>11, <1>12,
     <1>13, <1>14, <1>15, <1>16 DEF Worker

LEMMA NextTypeOK == TypeOK /\ [Next]_vars => TypeOK'
<1> SUFFICES ASSUME TypeOK, Next PROVE TypeOK'
  BY StutterTypeOK
<1>1. CASE WorkerError
  <2>1. upset' \in [Jobs -> SUBSET Causes] /\ faults' \in 0..MaxFaults
    BY <1>1, BlastAssumption DEF TypeOK, WorkerError, Upsetting, Causes
  <2>2. QED
    BY <1>1, <2>1, ToIdleTyped
       DEF TypeOK, WorkerError, jobVars, countVars, rowVars
<1>2. CASE Crash
  <2>1. upset' \in [Jobs -> SUBSET Causes] /\ faults' \in 0..MaxFaults
    BY <1>2, BlastAssumption DEF TypeOK, Crash, Upsetting, Causes
  <2>2. req' \in [Clients -> Request]
    BY <1>2, RequestTyped DEF Crash
  <2>3. QED
    BY <1>2, <2>1, <2>2, ToIdleTyped DEF TypeOK, Crash, jobVars, countVars, rowVars
<1>3. ASSUME NEW j \in Jobs, BecomeDue(j) PROVE TypeOK'
  BY <1>3 DEF TypeOK, BecomeDue, jobVars, countVars, rowVars, workerVars, locals,
              seenVars, boundVars
<1>4. QED
  BY <1>1, <1>2, <1>3, HandlerTypeOK, WorkerTypeOK DEF Next

\* Every variable keeps its type, whatever the interleaving and the failures.
THEOREM TypeCorrect == Spec => []TypeOK
<1>1. QED
  BY InitTypeOK, NextTypeOK, PTL DEF Spec

-----------------------------------------------------------------------------
(* The safety theorems.  WorkerInv splits into a part about job status and  *)
(* program counter, and a part about rows and the worker's copies of them;  *)
(* each is preserved on its own, given TypeOK.                              *)

OneAtATime == AtMostOneRunning /\ ClaimsAlone

RowInv ==
  /\ BatchIsFresh
  /\ HandIsFresh
  /\ UnwrittenRows
  /\ AttemptsCapped
  /\ RowsTellTheTruth
  /\ CopiesArePaid

-----------------------------------------------------------------------------
(* Job status.                                                             *)

\* No handler starts a job.
LEMMA HandlersStartNothing ==
  ASSUME TypeOK, NEW c \in Clients, Arrival(c) \/ Handler(c) \/ Abandon(c)
  PROVE  Running' \subseteq Running /\ UNCHANGED workerVars
<1> USE DEF TypeOK, Running, jobVars
<1>1. ASSUME NEW j \in Jobs, CreateArrive(c, j) \/ CancelArrive(c, j) \/ RetryArrive(c, j)
      PROVE  Running' \subseteq Running /\ UNCHANGED workerVars
  BY <1>1 DEF CreateArrive, CancelArrive, RetryArrive
<1>2. CASE CreateDedup(c) \/ CreateRow(c) \/ RetryRequeue(c) \/ Abandon(c)
  BY <1>2 DEF CreateDedup, CreateRow, RetryRequeue, Abandon
<1>3. CASE CreateJob(c)
  BY <1>3 DEF CreateJob
<1>4. CASE CancelUpdate(c)
  <2>1. \/ status' = status
        \/ status' = [status EXCEPT ![req[c].job] = "cancelled"]
    BY <1>4 DEF CancelUpdate
  <2>2. QED
    BY <1>4, <2>1 DEF CancelUpdate
<1>5. CASE RetryReopen(c)
  <2>1. \/ status' = status
        \/ status' = [status EXCEPT ![req[c].job] = "pending"]
    BY <1>5 DEF RetryReopen
  <2>2. QED
    BY <1>5, <2>1 DEF RetryReopen
<1>6. QED
  BY <1>1, <1>2, <1>3, <1>4, <1>5 DEF Arrival, Handler

LEMMA OneAtATimeStep ==
  ASSUME TypeOK, OneAtATime, [Next]_vars
  PROVE  OneAtATime'
<1> USE DEF OneAtATime, AtMostOneRunning, ClaimsAlone
<1> SUFFICES ASSUME Next PROVE OneAtATime'
  BY DEF vars, jobVars, workerVars, Running
<1>1. ASSUME NEW c \in Clients, Arrival(c) \/ Handler(c) \/ Abandon(c) PROVE OneAtATime'
  BY <1>1, HandlersStartNothing DEF workerVars
<1>2. CASE Worker
  <2>1. ASSUME NEW j \in Jobs, WorkerResume(j) PROVE OneAtATime'
    BY <2>1 DEF WorkerResume, Step, jobVars, Running
  <2>2. ASSUME NEW j \in Jobs, WorkerSelect(j) PROVE OneAtATime'
    BY <2>2 DEF WorkerSelect, MayClaim, jobVars, Running
  <2>3. CASE WorkerClaim
    <3>1. Running = {} /\ wpc' # "claim"
      BY <2>3 DEF WorkerClaim, ToIdle
    <3>2. \/ status' = status
          \/ status' = [status EXCEPT ![wjob] = "running"]
      BY <2>3 DEF WorkerClaim
    <3>3. Running' \subseteq {wjob}
      BY <3>1, <3>2 DEF Running, TypeOK
    <3>4. QED
      BY <3>1, <3>3
  <2>4. CASE WorkerFinish
    <3>1. status' = [status EXCEPT ![wjob] = verdict] /\ wpc' # "claim"
      BY <2>4 DEF WorkerFinish, FinishJob, Step
    <3>2. verdict # "running"
      BY DEF TypeOK, Finished
    <3>3. Running' \subseteq Running
      BY <3>1, <3>2 DEF Running, TypeOK
    <3>4. QED
      BY <3>1, <3>3
  <2>5. CASE \/ WorkerReset \/ WorkerCheck \/ WorkerFetch \/ WorkerMark
             \/ WorkerDispatch \/ WorkerSettleSent \/ WorkerCountSent
    <3>1. UNCHANGED status /\ wpc' # "claim"
      BY <2>5 DEF WorkerReset, WorkerCheck, WorkerFetch, WorkerMark, WorkerDispatch,
                  WorkerSettleSent, WorkerCountSent, NextInBatch, ToIdle, Step, jobVars
    <3>2. QED
      BY <3>1 DEF Running
  <2>6. CASE \/ WorkerCountFailed \/ WorkerRetryLater \/ WorkerDeadLetter
             \/ WorkerCountDlq \/ WorkerVerdict \/ WorkerAnnounce
    <3>1. UNCHANGED status /\ wpc' # "claim"
      BY <2>6 DEF WorkerCountFailed, WorkerRetryLater, WorkerDeadLetter, WorkerCountDlq,
                  WorkerVerdict, WorkerAnnounce, NextInBatch, ToIdle, Step, jobVars
    <3>2. QED
      BY <3>1 DEF Running
  <2>7. QED
    BY <1>2, <2>1, <2>2, <2>3, <2>4, <2>5, <2>6 DEF Worker
<1>3. CASE WorkerError \/ Crash
  BY <1>3 DEF WorkerError, Crash, ToIdle, jobVars, Running
<1>4. ASSUME NEW j \in Jobs, BecomeDue(j) PROVE OneAtATime'
  BY <1>4 DEF BecomeDue, workerVars, Running
<1>5. QED
  BY <1>1, <1>2, <1>3, <1>4 DEF Next

\* However handlers, failures and restarts interleave with the worker's claim
\* (a SELECT, then an UPDATE), there are never two jobs in `running`.
THEOREM OneJobAtATime == Spec => []AtMostOneRunning
<1>1. Init => OneAtATime
  BY DEF Init, OneAtATime, AtMostOneRunning, ClaimsAlone, Running, Absent
<1>2. TypeOK /\ OneAtATime /\ [Next]_vars => OneAtATime'
  BY OneAtATimeStep
<1>3. OneAtATime => AtMostOneRunning
  BY DEF OneAtATime
<1>4. QED
  BY <1>1, <1>2, <1>3, TypeCorrect, PTL DEF Spec

-----------------------------------------------------------------------------
(* Rows.                                                                   *)

\* The state RowInv speaks of.
rowState == <<rec, attempts, accepted, faults, wpc, wjob, batch, current, snapshot>>

\* What overwriting or incrementing one cell does to every cell.
LEMMA SetRowEffect ==
  ASSUME rec \in [Jobs -> [Recipients -> RowStatus \cup {Absent}]],
         NEW j \in Jobs, NEW r \in Recipients, NEW st, SetRow(j, r, st),
         NEW k \in Jobs, NEW q \in Recipients
  PROVE  rec'[k][q] = IF k = j /\ q = r THEN st ELSE rec[k][q]
BY DEF SetRow

LEMMA BumpEffect ==
  ASSUME NEW f \in [Jobs -> [Recipients -> Nat]],
         NEW j \in Jobs, NEW r \in Recipients, NEW k \in Jobs, NEW q \in Recipients
  PROVE  [f EXCEPT ![j][r] = @ + 1][k][q]
           = IF k = j /\ q = r THEN f[j][r] + 1 ELSE f[k][q]
OBVIOUS

\* A handler changes a row only by writing a missing one or by requeueing a
\* dead one, with its attempts cleared; it never touches what the worker sees.
HandlerRowStep ==
  /\ UNCHANGED <<workerVars, accepted>>
  /\ faults' >= faults
  /\ \A j \in Jobs, r \in Recipients :
       \/ rec'[j][r] = rec[j][r] /\ attempts'[j][r] = attempts[j][r]
       \/ /\ rec[j][r] = Absent
          /\ rec'[j][r] \in {"pending", "skipped_dup"}
          /\ attempts'[j][r] = attempts[j][r]
       \/ /\ rec[j][r] = "dlq"
          /\ rec'[j][r] = "pending"
          /\ attempts'[j][r] = 0

LEMMA HandlerRows ==
  ASSUME TypeOK, NEW c \in Clients, Arrival(c) \/ Handler(c) \/ Abandon(c)
  PROVE  HandlerRowStep
<1> USE DEF HandlerRowStep
<1>0. faults \in Int
  BY BlastAssumption DEF TypeOK
<1>1. ASSUME NEW j \in Jobs, CreateArrive(c, j) \/ CancelArrive(c, j) \/ RetryArrive(c, j)
      PROVE  HandlerRowStep
  BY <1>1, <1>0
     DEF CreateArrive, CancelArrive, RetryArrive, rowVars, seenVars, boundVars
<1>2. CASE CreateDedup(c) \/ CreateJob(c)
  BY <1>2, <1>0 DEF CreateDedup, CreateJob, rowVars, seenVars, boundVars
<1>3. CASE CancelUpdate(c) \/ RetryReopen(c) \/ Abandon(c)
  BY <1>3, <1>0 DEF CancelUpdate, RetryReopen, Abandon, rowVars, boundVars
<1>4. CASE CreateRow(c)
  <2>1. PICK r \in Recipients :
          \/ UNCHANGED rec
          \/ /\ rec[req[c].job][r] = Absent
             /\ \/ SetRow(req[c].job, r, "pending")
                \/ SetRow(req[c].job, r, "skipped_dup")
    BY <1>4 DEF CreateRow
  <2>2. UNCHANGED <<workerVars, accepted, faults, attempts>>
    BY <1>4 DEF CreateRow, seenVars, boundVars
  <2>3. CASE UNCHANGED rec
    BY <2>2, <2>3, <1>0
  <2>4. ASSUME NEW st \in {"pending", "skipped_dup"}, SetRow(req[c].job, r, st),
               rec[req[c].job][r] = Absent
        PROVE  HandlerRowStep
    <3>1. CASE req[c].job \in Jobs
      BY <2>2, <2>4, <3>1, <1>0, SetRowEffect DEF TypeOK
    <3>2. CASE req[c].job \notin Jobs
      <4>1. rec' = rec
        BY <2>4, <3>2, OutsideTable DEF TypeOK, SetRow
      <4>2. QED
        BY <4>1, <2>2, <1>0
    <3>3. QED
      BY <3>1, <3>2
  <2>5. QED
    BY <2>1, <2>3, <2>4
<1>5. CASE RetryRequeue(c)
  <2>1. UNCHANGED <<workerVars, accepted, faults>>
    BY <1>5 DEF RetryRequeue, boundVars
  <2>2. ASSUME NEW j \in Jobs, NEW r \in Recipients
        PROVE  \/ rec'[j][r] = rec[j][r] /\ attempts'[j][r] = attempts[j][r]
               \/ /\ rec[j][r] = "dlq"
                  /\ rec'[j][r] = "pending"
                  /\ attempts'[j][r] = 0
    BY <1>5 DEF RetryRequeue, Requeueable, TypeOK
  <2>3. QED
    BY <2>1, <2>2, <1>0
<1>6. QED
  BY <1>1, <1>2, <1>3, <1>4, <1>5 DEF Arrival, Handler

LEMMA HandlersKeepRowInv ==
  ASSUME TypeOK, RowInv, HandlerRowStep, TypeOK'
  PROVE  RowInv'
<1> USE DEF HandlerRowStep, workerVars, locals
<1>0. /\ Cap \in Nat \ {0}
      /\ faults \in Nat /\ faults' \in Nat
      /\ wpc # "idle" => wjob \in Jobs
      /\ batch \in SUBSET Recipients
      /\ \A j \in Jobs, r \in Recipients : accepted[j][r] \in Nat
  BY CapType, BlastAssumption DEF TypeOK
<1>1. BatchIsFresh'
  BY <1>0 DEF RowInv, BatchIsFresh, Absent, InLoop, InHand
<1>2. HandIsFresh'
  BY <1>0 DEF RowInv, HandIsFresh, Absent, InHand
<1>3. UnwrittenRows'
  BY DEF RowInv, UnwrittenRows, Absent
<1>4. AttemptsCapped'
  BY <1>0 DEF RowInv, AttemptsCapped, UnwrittenRows, Absent
<1>5. RowsTellTheTruth'
  BY DEF RowInv, RowsTellTheTruth, Absent
<1>6. CopiesArePaid'
  BY <1>0 DEF RowInv, CopiesArePaid, Settling, Absent
<1>7. QED
  BY <1>1, <1>2, <1>3, <1>4, <1>5, <1>6 DEF RowInv

\* The facts about types every worker step needs.
LEMMA RowTypes ==
  ASSUME TypeOK
  PROVE  /\ Cap \in Nat \ {0}
         /\ faults \in Nat
         /\ wpc # "idle" => wjob \in Jobs
         /\ batch \in SUBSET Recipients
         /\ \A j \in Jobs, r \in Recipients : accepted[j][r] \in Nat
         /\ \A j \in Jobs, r \in Recipients : attempts[j][r] \in Nat
BY CapType, BlastAssumption DEF TypeOK

\* Returning to idle drops the worker's copies; a copy WhatsApp accepted but
\* nobody recorded is paid for by the failure that cut the worker short.
LEMMA IdleKeepsRowInv ==
  ASSUME TypeOK, RowInv, ToIdle, UNCHANGED <<rec, attempts, accepted>>,
         \/ faults' = faults /\ wpc # "settle_sent"
         \/ faults' = faults + 1
  PROVE  RowInv'
<1>0. faults \in Nat /\ \A j \in Jobs, r \in Recipients : accepted[j][r] \in Nat
  BY RowTypes
<1>1. BatchIsFresh' /\ HandIsFresh'
  BY DEF BatchIsFresh, HandIsFresh, ToIdle, InHand
<1>2. UnwrittenRows' /\ AttemptsCapped' /\ RowsTellTheTruth'
  BY DEF RowInv, UnwrittenRows, AttemptsCapped, RowsTellTheTruth
<1>3. CASE faults' = faults /\ wpc # "settle_sent"
  <2>1. CopiesArePaid'
    BY <1>3 DEF RowInv, CopiesArePaid, ToIdle, Settling
  <2>2. QED
    BY <1>1, <1>2, <2>1 DEF RowInv
<1>4. CASE faults' = faults + 1
  <2>1. CopiesArePaid'
    BY <1>0, <1>4 DEF RowInv, CopiesArePaid, ToIdle, Settling
  <2>2. QED
    BY <1>1, <1>2, <2>1 DEF RowInv
<1>5. QED
  BY <1>3, <1>4

LEMMA WorkerKeepsRowInv ==
  ASSUME TypeOK, RowInv, Worker
  PROVE  RowInv'
<1> USE DEF rowVars, locals, workerVars, seenVars, boundVars
<1>0. /\ Cap \in Nat \ {0}
      /\ faults \in Nat
      /\ wpc # "idle" => wjob \in Jobs
      /\ batch \in SUBSET Recipients
      /\ \A j \in Jobs, r \in Recipients : accepted[j][r] \in Nat
      /\ \A j \in Jobs, r \in Recipients : attempts[j][r] \in Nat
  BY RowTypes
\* Steps that move the program counter between tables, outside the row loop.
<1>1. ASSUME UNCHANGED <<rec, attempts, accepted, faults>>,
             batch' = {}, wpc' \notin InHand, wpc # "settle_sent"
      PROVE  RowInv'
  <2>1. BatchIsFresh' /\ HandIsFresh'
    BY <1>1 DEF BatchIsFresh, HandIsFresh
  <2>2. UnwrittenRows' /\ AttemptsCapped' /\ RowsTellTheTruth'
    BY <1>1 DEF RowInv, UnwrittenRows, AttemptsCapped, RowsTellTheTruth
  <2>3. CopiesArePaid'
    BY <1>1 DEF RowInv, CopiesArePaid, Settling, InHand
  <2>4. QED
    BY <2>1, <2>2, <2>3 DEF RowInv
<1>2. ASSUME NEW j \in Jobs, WorkerResume(j) \/ WorkerSelect(j) PROVE RowInv'
  BY <1>1, <1>2 DEF RowInv, BatchIsFresh, WorkerResume, WorkerSelect, Step, InLoop, InHand
<1>3. CASE WorkerClaim \/ WorkerCheck
  BY <1>1, <1>3 DEF RowInv, BatchIsFresh, WorkerClaim, WorkerCheck, ToIdle, InLoop, InHand
<1>4. CASE WorkerVerdict \/ WorkerFinish \/ WorkerAnnounce
  BY <1>1, <1>4 DEF RowInv, BatchIsFresh, WorkerVerdict, WorkerFinish, WorkerAnnounce,
                    ToIdle, Step, InLoop, InHand
<1>5. CASE WorkerReset
  <2>1. /\ UNCHANGED <<attempts, accepted, faults, wjob, batch>>
        /\ wpc = "reset" /\ wpc' = "check" /\ batch = {}
    BY <1>5 DEF WorkerReset, Step, RowInv, BatchIsFresh, InLoop, InHand
  <2>2. \A j \in Jobs, r \in Recipients :
          \/ rec'[j][r] = rec[j][r]
          \/ rec[j][r] = "sending" /\ rec'[j][r] = "pending"
    BY <1>5 DEF WorkerReset, WasInFlight, TypeOK
  <2>3. BatchIsFresh' /\ HandIsFresh'
    BY <2>1 DEF BatchIsFresh, HandIsFresh, InHand
  <2>4. UnwrittenRows' /\ AttemptsCapped' /\ RowsTellTheTruth'
    BY <2>1, <2>2 DEF RowInv, UnwrittenRows, AttemptsCapped, RowsTellTheTruth, Absent
  <2>5. CopiesArePaid'
    BY <2>1, <2>2 DEF RowInv, CopiesArePaid, Settling
  <2>6. QED
    BY <2>3, <2>4, <2>5 DEF RowInv
<1>6. CASE WorkerFetch
  <2>1. /\ UNCHANGED <<rec, attempts, accepted, faults, wjob>>
        /\ wpc = "fetch" /\ wpc' \in {"verdict", "mark"} /\ wjob \in Jobs
        /\ snapshot' = attempts[wjob]
        /\ batch' \subseteq RowsIn(wjob, "pending")
        /\ wpc' = "verdict" => batch' = {}
    BY <1>6, <1>0 DEF WorkerFetch, FirstPending
  <2>2. BatchIsFresh' /\ HandIsFresh'
    BY <2>1 DEF BatchIsFresh, HandIsFresh, RowsIn, InLoop, InHand
  <2>3. UnwrittenRows' /\ AttemptsCapped' /\ RowsTellTheTruth'
    BY <2>1 DEF RowInv, UnwrittenRows, AttemptsCapped, RowsTellTheTruth
  <2>4. CopiesArePaid'
    BY <2>1 DEF RowInv, CopiesArePaid, Settling
  <2>5. QED
    BY <2>2, <2>3, <2>4 DEF RowInv
<1>7. CASE WorkerMark
  <2>1. PICK r \in Recipients :
          r \in batch /\ current' = r /\ batch' = batch \ {r} /\ SetRow(wjob, r, "sending")
    BY <1>7 DEF WorkerMark, IsLowest
  <2>2. /\ UNCHANGED <<attempts, accepted, faults, wjob, snapshot>>
        /\ wpc = "mark" /\ wpc' = "dispatch" /\ wjob \in Jobs
    BY <1>7, <1>0 DEF WorkerMark, Step
  <2>3. \A j \in Jobs, q \in Recipients :
          rec'[j][q] = IF j = wjob /\ q = r THEN "sending" ELSE rec[j][q]
    BY <2>1, <2>2, SetRowEffect DEF TypeOK
  <2>4. rec[wjob][r] = "pending" /\ snapshot[r] = attempts[wjob][r]
    BY <2>1 DEF RowInv, BatchIsFresh
  <2>5. BatchIsFresh'
    BY <2>1, <2>2, <2>3, <1>0 DEF RowInv, BatchIsFresh, InLoop, InHand
  <2>6. HandIsFresh'
    BY <2>1, <2>2, <2>3, <2>4 DEF HandIsFresh
  <2>7. UnwrittenRows' /\ AttemptsCapped' /\ RowsTellTheTruth'
    BY <2>2, <2>3, <2>4 DEF RowInv, UnwrittenRows, AttemptsCapped, RowsTellTheTruth, Absent
  <2>8. CopiesArePaid'
    BY <2>2, <2>3, <2>4 DEF RowInv, CopiesArePaid, Settling
  <2>9. QED
    BY <2>5, <2>6, <2>7, <2>8 DEF RowInv
<1>8. CASE WorkerDispatch
  <2>1. /\ UNCHANGED <<rec, attempts, wjob, batch, current, snapshot>>
        /\ wpc = "dispatch" /\ wjob \in Jobs
        /\ current \in Recipients /\ rec[wjob][current] = "sending"
        /\ snapshot[current] = attempts[wjob][current]
    BY <1>8, <1>0 DEF WorkerDispatch, RowInv, HandIsFresh, InHand
  <2>2. PICK taken, reported \in BOOLEAN :
          /\ reported => taken
          /\ faults' = IF taken /\ ~reported THEN faults + 1 ELSE faults
          /\ accepted' = IF taken THEN [accepted EXCEPT ![wjob][current] = @ + 1]
                         ELSE accepted
          /\ wpc' = IF reported THEN "settle_sent" ELSE "count_failed"
    BY <1>8 DEF WorkerDispatch
  <2>3. \A j \in Jobs, q \in Recipients :
          accepted'[j][q] = IF taken /\ j = wjob /\ q = current
                            THEN accepted[wjob][current] + 1 ELSE accepted[j][q]
    BY <2>1, <2>2, BumpEffect DEF TypeOK
  <2>4. BatchIsFresh' /\ HandIsFresh'
    BY <2>1, <2>2 DEF RowInv, BatchIsFresh, HandIsFresh, InLoop, InHand
  <2>5. UnwrittenRows' /\ AttemptsCapped'
    BY <2>1 DEF RowInv, UnwrittenRows, AttemptsCapped
  <2>6. RowsTellTheTruth'
    BY <2>1, <2>3, <1>0 DEF RowInv, RowsTellTheTruth, Absent
  <2>7. CopiesArePaid'
    BY <2>1, <2>2, <2>3, <1>0 DEF RowInv, CopiesArePaid, Settling
  <2>8. QED
    BY <2>4, <2>5, <2>6, <2>7 DEF RowInv
<1>9. CASE WorkerSettleSent
  <2>1. /\ UNCHANGED <<attempts, accepted, faults, wjob, batch, current, snapshot>>
        /\ wpc = "settle_sent" /\ wpc' = "count_sent" /\ wjob \in Jobs
        /\ current \in Recipients /\ rec[wjob][current] = "sending"
    BY <1>9, <1>0 DEF WorkerSettleSent, Step, RowInv, HandIsFresh, InHand
  <2>2. \A j \in Jobs, q \in Recipients :
          rec'[j][q] = IF j = wjob /\ q = current THEN "sent" ELSE rec[j][q]
    BY <1>9, <2>1, SetRowEffect DEF WorkerSettleSent, TypeOK
  <2>3. BatchIsFresh' /\ HandIsFresh'
    BY <2>1, <2>2, <1>0 DEF RowInv, BatchIsFresh, HandIsFresh, InLoop, InHand
  <2>4. UnwrittenRows' /\ AttemptsCapped'
    BY <2>1, <2>2 DEF RowInv, UnwrittenRows, AttemptsCapped, Absent
  <2>5. RowsTellTheTruth'
    BY <2>1, <2>2 DEF RowInv, RowsTellTheTruth, CopiesArePaid, Settling, Absent
  <2>6. CopiesArePaid'
    BY <2>1, <2>2 DEF RowInv, CopiesArePaid, Settling
  <2>7. QED
    BY <2>3, <2>4, <2>5, <2>6 DEF RowInv
<1>10. CASE WorkerCountSent \/ WorkerCountDlq
  <2>1. /\ UNCHANGED <<rec, attempts, accepted, faults, wjob, batch, snapshot>>
        /\ wpc \in {"count_sent", "count_dlq"} /\ wpc' = IF batch = {} THEN "check" ELSE "mark"
    BY <1>10 DEF WorkerCountSent, WorkerCountDlq, NextInBatch
  <2>2. BatchIsFresh' /\ HandIsFresh'
    BY <2>1 DEF RowInv, BatchIsFresh, HandIsFresh, InLoop, InHand
  <2>3. UnwrittenRows' /\ AttemptsCapped' /\ RowsTellTheTruth'
    BY <2>1 DEF RowInv, UnwrittenRows, AttemptsCapped, RowsTellTheTruth
  <2>4. CopiesArePaid'
    BY <2>1 DEF RowInv, CopiesArePaid, Settling
  <2>5. QED
    BY <2>2, <2>3, <2>4 DEF RowInv
<1>11. CASE WorkerCountFailed
  <2>1. /\ UNCHANGED <<rec, attempts, accepted, faults, wjob, batch, current, snapshot>>
        /\ wpc = "count_failed" /\ wpc' = "settle_failed"
    BY <1>11 DEF WorkerCountFailed, Step
  <2>2. BatchIsFresh' /\ HandIsFresh'
    BY <2>1 DEF RowInv, BatchIsFresh, HandIsFresh, InLoop, InHand
  <2>3. UnwrittenRows' /\ AttemptsCapped' /\ RowsTellTheTruth'
    BY <2>1 DEF RowInv, UnwrittenRows, AttemptsCapped, RowsTellTheTruth
  <2>4. CopiesArePaid'
    BY <2>1 DEF RowInv, CopiesArePaid, Settling
  <2>5. QED
    BY <2>2, <2>3, <2>4 DEF RowInv
<1>12. CASE WorkerRetryLater \/ WorkerDeadLetter
  <2>1. /\ UNCHANGED <<accepted, faults, wjob, batch, snapshot>>
        /\ wpc = "settle_failed" /\ wjob \in Jobs
        /\ wpc' \in {"check", "mark", "count_dlq"}
        /\ wpc' = "check" => batch = {}
        /\ current \in Recipients /\ rec[wjob][current] = "sending"
        /\ snapshot[current] = attempts[wjob][current]
        /\ attempts' = [attempts EXCEPT ![wjob][current] = @ + 1]
    BY <1>12, <1>0 DEF WorkerRetryLater, WorkerDeadLetter, Step, NextInBatch, RowInv,
                       HandIsFresh, InHand
  <2>2. PICK st \in {"pending", "dlq"} :
          /\ SetRow(wjob, current, st)
          /\ st = "pending" <=> attempts[wjob][current] + 1 < Cap
    BY <1>12, <2>1 DEF WorkerRetryLater, WorkerDeadLetter, AttemptsLeft
  <2>3. \A j \in Jobs, q \in Recipients :
          rec'[j][q] = IF j = wjob /\ q = current THEN st ELSE rec[j][q]
    BY <2>1, <2>2, SetRowEffect DEF TypeOK
  <2>4. \A j \in Jobs, q \in Recipients :
          attempts'[j][q] = IF j = wjob /\ q = current THEN attempts[wjob][current] + 1
                            ELSE attempts[j][q]
    BY <2>1, BumpEffect DEF TypeOK
  <2>5. BatchIsFresh' /\ HandIsFresh'
    BY <2>1, <2>3, <2>4, <1>0 DEF RowInv, BatchIsFresh, HandIsFresh, InLoop, InHand
  <2>6. UnwrittenRows'
    BY <2>1, <2>3, <2>4 DEF RowInv, UnwrittenRows, Absent
  <2>7. attempts[wjob][current] < Cap
    BY <2>1 DEF RowInv, AttemptsCapped
  <2>8. AttemptsCapped'
    BY <2>1, <2>2, <2>3, <2>4, <2>7, <1>0 DEF RowInv, AttemptsCapped
  <2>9. RowsTellTheTruth'
    BY <2>1, <2>3 DEF RowInv, RowsTellTheTruth, Absent
  <2>10. CopiesArePaid'
    BY <2>1, <2>3 DEF RowInv, CopiesArePaid, Settling
  <2>11. QED
    BY <2>5, <2>6, <2>8, <2>9, <2>10 DEF RowInv
<1>13. QED
  BY <1>2, <1>3, <1>4, <1>5, <1>6, <1>7, <1>8, <1>9, <1>10, <1>11, <1>12 DEF Worker

LEMMA InitRowInv == Init => RowInv
BY CapType, BlastAssumption
   DEF Init, RowInv, BatchIsFresh, HandIsFresh, InLoop, InHand, UnwrittenRows,
       AttemptsCapped, RowsTellTheTruth, CopiesArePaid, Settling, Absent

LEMMA RowInvStep ==
  ASSUME TypeOK, RowInv, [Next]_vars
  PROVE  RowInv'
<1>0. TypeOK'
  BY NextTypeOK
<1>1. CASE UNCHANGED vars
  BY <1>1 DEF vars, rowVars, workerVars, locals, seenVars, boundVars, RowInv,
              BatchIsFresh, HandIsFresh, UnwrittenRows, AttemptsCapped,
              RowsTellTheTruth, CopiesArePaid, Settling
<1>2. ASSUME NEW c \in Clients, Arrival(c) \/ Handler(c) \/ Abandon(c) PROVE RowInv'
  BY <1>0, <1>2, HandlerRows, HandlersKeepRowInv
<1>3. CASE Worker
  BY <1>3, WorkerKeepsRowInv
<1>4. CASE WorkerError \/ Crash
  BY <1>4, IdleKeepsRowInv DEF WorkerError, Crash, rowVars
<1>5. ASSUME NEW j \in Jobs, BecomeDue(j) PROVE RowInv'
  <2>1. HandlerRowStep
    BY <1>5, RowTypes DEF BecomeDue, HandlerRowStep, rowVars, seenVars, boundVars
  <2>2. QED
    BY <1>0, <2>1, HandlersKeepRowInv
<1>6. QED
  BY <1>1, <1>2, <1>3, <1>4, <1>5 DEF Next

-----------------------------------------------------------------------------
(* The theorems.                                                           *)

\* The inductive invariant: the worker's copies of status, row and attempts
\* agree with the tables wherever it acts on them, although handlers write the
\* tables between any two of its statements.
THEOREM WorkerInvariant == Spec => [](TypeOK /\ WorkerInv)
<1>1. Init => OneAtATime
  BY DEF Init, OneAtATime, AtMostOneRunning, ClaimsAlone, Running, Absent
<1>2. TypeOK /\ OneAtATime /\ RowInv /\ [Next]_vars => OneAtATime' /\ RowInv'
  BY OneAtATimeStep, RowInvStep
<1>3. OneAtATime /\ RowInv => WorkerInv
  BY DEF OneAtATime, RowInv, WorkerInv
<1>4. QED
  BY <1>1, <1>2, <1>3, InitRowInv, TypeCorrect, PTL DEF Spec

\* No row is attempted more than max_attempts times between two requeues, for
\* any batch size, number of workers' restarts and interleaving of retries.
THEOREM AttemptsNeverExceeded == Spec => []AttemptsCapped
<1>1. WorkerInv => AttemptsCapped
  BY DEF WorkerInv
<1>2. QED
  BY <1>1, WorkerInvariant, PTL

\* A row that says `sent` was accepted by WhatsApp, and one that says
\* `skipped_dup` never was.
THEOREM RowsAreTruthful == Spec => []RowsTellTheTruth
<1>1. WorkerInv => RowsTellTheTruth
  BY DEF WorkerInv
<1>2. QED
  BY <1>1, WorkerInvariant, PTL

\* At most one extra copy of a message per failure, however many failures.
THEOREM DuplicatesArePaidFor == Spec => []DuplicatesNeedFaults
<1>1. WorkerInv => DuplicatesNeedFaults
  BY DEF WorkerInv, CopiesArePaid, DuplicatesNeedFaults
<1>2. QED
  BY <1>1, WorkerInvariant, PTL

\* No step takes a row out of `sent`: every unconditional update hits a row
\* that the invariant shows to be pending or sending.
LEMMA SentStep ==
  ASSUME TypeOK, RowInv, [Next]_vars, NEW j \in Jobs, NEW r \in Recipients,
         rec[j][r] = "sent"
  PROVE  rec'[j][r] = "sent"
<1>1. CASE UNCHANGED vars
  BY <1>1 DEF vars, rowVars
<1>2. ASSUME NEW c \in Clients, Arrival(c) \/ Handler(c) \/ Abandon(c)
      PROVE  rec'[j][r] = "sent"
  BY <1>2, HandlerRows DEF HandlerRowStep, Absent
<1>3. CASE Worker
  <2>0. wpc # "idle" => wjob \in Jobs
    BY RowTypes
  <2>1. CASE WorkerReset
    BY <2>1 DEF WorkerReset, WasInFlight, TypeOK
  <2>2. ASSUME NEW q \in Recipients, NEW st, SetRow(wjob, q, st), wjob \in Jobs,
               rec[wjob][q] # "sent"
        PROVE  rec'[j][r] = "sent"
    <3>1. ~(j = wjob /\ r = q)
      BY <2>2
    <3>2. rec'[j][r] = IF j = wjob /\ r = q THEN st ELSE rec[j][r]
      BY <2>2, SetRowEffect DEF TypeOK
    <3>3. QED
      BY <3>1, <3>2
  <2>3. CASE WorkerMark
    <3>1. PICK q \in batch : SetRow(wjob, q, "sending")
      BY <2>3 DEF WorkerMark, IsLowest
    <3>2. q \in Recipients /\ wjob \in Jobs /\ rec[wjob][q] # "sent"
      BY <2>0, <2>3, <3>1, RowTypes DEF WorkerMark, Step, RowInv, BatchIsFresh
    <3>3. QED
      BY <2>2, <3>1, <3>2
  <2>4. CASE WorkerSettleSent
    <3>1. SetRow(wjob, current, "sent") /\ wjob \in Jobs /\ current \in Recipients
      BY <2>0, <2>4 DEF WorkerSettleSent, Step, RowInv, HandIsFresh, InHand
    <3>2. QED
      BY <3>1, SetRowEffect DEF TypeOK
  <2>5. CASE WorkerRetryLater
    BY <2>0, <2>2, <2>5 DEF WorkerRetryLater, RowInv, HandIsFresh, InHand
  <2>6. CASE WorkerDeadLetter
    BY <2>0, <2>2, <2>6 DEF WorkerDeadLetter, Step, RowInv, HandIsFresh, InHand
  <2>7. ASSUME UNCHANGED rec PROVE rec'[j][r] = "sent"
    BY <2>7
  <2>8. CASE WorkerClaim \/ WorkerCheck \/ WorkerFetch \/ WorkerDispatch \/ WorkerCountSent
    BY <2>7, <2>8 DEF WorkerClaim, WorkerCheck, WorkerFetch, WorkerDispatch,
                      WorkerCountSent, rowVars
  <2>9. CASE WorkerCountFailed \/ WorkerCountDlq \/ WorkerVerdict \/ WorkerFinish
             \/ WorkerAnnounce
    BY <2>7, <2>9 DEF WorkerCountFailed, WorkerCountDlq, WorkerVerdict, WorkerFinish,
                      WorkerAnnounce, rowVars
  <2>10. ASSUME NEW k \in Jobs, WorkerResume(k) \/ WorkerSelect(k)
         PROVE  rec'[j][r] = "sent"
    BY <2>7, <2>10 DEF WorkerResume, WorkerSelect, rowVars
  <2>11. QED
    BY <1>3, <2>1, <2>3, <2>4, <2>5, <2>6, <2>8, <2>9, <2>10 DEF Worker
<1>4. CASE WorkerError \/ Crash
  BY <1>4 DEF WorkerError, Crash, rowVars
<1>5. ASSUME NEW k \in Jobs, BecomeDue(k) PROVE rec'[j][r] = "sent"
  BY <1>5 DEF BecomeDue, rowVars
<1>6. QED
  BY <1>1, <1>2, <1>3, <1>4, <1>5 DEF Next

\* A delivered row stays delivered.
THEOREM DeliveriesAreFinal == Spec => SentIsFinal
<1>1. TypeOK /\ WorkerInv /\ [Next]_vars
        => [\A j \in Jobs, r \in Recipients : rec[j][r] = "sent" => rec'[j][r] = "sent"]_vars
  BY SentStep DEF WorkerInv, RowInv
<1>2. QED
  BY <1>1, WorkerInvariant, PTL DEF Spec, SentIsFinal

-----------------------------------------------------------------------------
(* What the owner of a job is told.  The invariant says who may write what  *)
(* of a job that nothing upset, which events a job may still cause, and how *)
(* many messages of a cancelled one the worker may still send.              *)

\* Places of process_job, from the claim's UPDATE to its last statement.
Working == WorkerPC \ {"idle", "claim", "announce"}

\* The worker's job is stored, and nobody else finishes it.
HeldIsOpen ==
  wjob \in Jobs =>
    /\ status[wjob] # Absent
    /\ wpc # "announce" => status[wjob] \notin Finished

\* A job that is being created is not stored before insert_job, and no other handler
\* has it.
CreatedOnce ==
  \A c \in Clients : req[c].pc \in {"create_dedup", "create_job"} =>
    /\ req[c].job \in Jobs /\ status[req[c].job] = Absent
    /\ \A d \in Clients : req[d].job = req[c].job => d = c

\* A job that nothing upset was complete when it was claimed.
ClaimedComplete ==
  \A j \in Jobs :
    upset[j] = {} /\ (status[j] \in Finished \cup {"running"} \/ (wjob = j /\ wpc \in Working))
      => \A c \in Clients : req[c].job = j => req[c].pc # "create_rows"

HandledInv == HeldIsOpen /\ CreatedOnce /\ ClaimedComplete

\* The only row being sent is the one in the worker's hand ...
SendingIsInHand ==
  \A j \in Jobs, r \in Recipients : upset[j] = {} /\ rec[j][r] = "sending" =>
    wjob = j /\ wpc \in InHand /\ current = r

\* ... when the worker closes a job, no row is left to send ...
ClosingIsSettled ==
  wpc \in {"verdict", "finish"} /\ upset[wjob] = {} =>
    \A r \in Recipients : rec[wjob][r] # "pending"

\* ... each dead letter is counted, or about to be ...
DeadAreCounted ==
  \A j \in Jobs, r \in Recipients : upset[j] = {} /\ rec[j][r] = "dlq" =>
    dlqCount[j] > 0 \/ (wjob = j /\ wpc = "count_dlq")

\* ... and the verdict it will write is true.
VerdictIsTrue ==
  wpc = "finish" /\ upset[wjob] = {} /\ verdict = "completed" =>
    \A r \in Recipients : rec[wjob][r] # "dlq"

\* What CompletionSettles says, row by row.
FinishedIsSettled ==
  \A j \in Jobs : status[j] \in Finished /\ upset[j] = {} =>
    \/ \E c \in Clients : req[c].job = j /\ req[c].pc = "retry_reopen"
    \/ \A r \in Recipients : /\ rec[j][r] \notin {"pending", "sending"}
                             /\ status[j] = "completed" => rec[j][r] # "dlq"

SettledInv ==
  /\ SendingIsInHand /\ ClosingIsSettled /\ DeadAreCounted /\ VerdictIsTrue
  /\ FinishedIsSettled

\* How many rows of the batch the worker has yet to dispatch.
Ahead == Cardinality(batch) + (IF wpc = "dispatch" THEN 1 ELSE 0)

LateInv ==
  /\ Ahead <= BatchSize
  /\ \A j \in Jobs : late[j] <= BatchSize
  /\ wpc = "fetch" /\ status[wjob] = "cancelled" => late[wjob] = 0
  /\ wpc \in InLoop /\ status[wjob] = "cancelled" => late[wjob] + Ahead <= BatchSize

\* Events that job j may still cause without being reopened.
Owed(j) ==
  (IF status[j] \in {"pending", "running"} \/ (wjob = j /\ wpc \in Working) THEN 1 ELSE 0)
  + (IF wjob = j /\ wpc = "announce" THEN 1 ELSE 0)

EventInv ==
  \A j \in Jobs :
    /\ announced[j] + Owed(j) <= 1 + reopened[j]
    /\ status[j] = Absent => announced[j] = 0

-----------------------------------------------------------------------------
(* Rows in the order of their ids.                                         *)

\* A set of recipients has a lowest and a highest one.
LEMMA Extremes ==
  ASSUME NEW S \in SUBSET Recipients, S # {}
  PROVE  /\ \E r \in S : \A q \in S : r <= q
         /\ \E r \in S : \A q \in S : q <= r
<1> DEFINE R == OpToRel(<, Nat)
           T == {NumRecipients - r : r \in S}
<1>1. S \subseteq Nat /\ T \subseteq Nat /\ T # {}
  <2>1. \A r \in S : r \in Nat /\ NumRecipients - r \in Nat
    BY BlastAssumption DEF Recipients
  <2> QED
    BY <2>1
<1>2. IsWellFoundedOn(R, Nat)
  BY NatLessThanWellFounded
<1>3. \A x, y \in Nat : x < y => <<x, y>> \in R
  BY DEF OpToRel
<1> HIDE DEF R, T
<1>4. PICK x \in S : \A y \in S : ~(<<y, x>> \in R)
  BY <1>1, <1>2, WFMin
<1>5. PICK z \in T : \A y \in T : ~(<<y, z>> \in R)
  BY <1>1, <1>2, WFMin
<1>6. \A y \in S : x <= y
  <2> SUFFICES ASSUME NEW y \in S, ~(x <= y) PROVE FALSE
    OBVIOUS
  <2>1. x \in Nat /\ y \in Nat
    BY <1>1
  <2>2. y < x
    BY <2>1
  <2> QED
    BY <1>3, <1>4, <2>1, <2>2
<1>7. PICK h \in S : z = NumRecipients - h
  BY DEF T
<1>8. \A y \in S : y <= h
  <2> SUFFICES ASSUME NEW y \in S, ~(y <= h) PROVE FALSE
    OBVIOUS
  <2>1. NumRecipients - y \in T
    BY DEF T
  <2>2. NumRecipients - y \in Nat /\ z \in Nat
    BY <1>1, <2>1
  <2>3. NumRecipients - y < z
    BY <1>1, <1>7, BlastAssumption
  <2> QED
    BY <1>3, <1>5, <2>1, <2>2, <2>3
<1> QED
  BY <1>6, <1>8

LEMMA RowsAreFinite == \A S \in SUBSET Recipients : IsFiniteSet(S) /\ Cardinality(S) \in Nat
<1>1. IsFiniteSet(Recipients)
  BY FS_Interval, BlastAssumption DEF Recipients
<1> QED
  BY <1>1, FS_Subset, FS_CardinalityType

\* pending_recipients finds a row if there is one.
LEMMA EmptyBatch ==
  ASSUME NEW j, FirstPending(j) = {}
  PROVE  \A r \in Recipients : rec[j][r] # "pending"
<1> DEFINE P == RowsIn(j, "pending")
<1> SUFFICES ASSUME P # {} PROVE FALSE
  BY DEF RowsIn
<1>1. P \in SUBSET Recipients
  BY DEF RowsIn
<1>2. PICK r \in P : \A q \in P : r <= q
  BY <1>1, Extremes
<1>3. {q \in P : q < r} = {}
  BY <1>1, <1>2, BlastAssumption DEF Recipients
<1>4. Cardinality({q \in P : q < r}) < BatchSize
  BY <1>3, FS_EmptySet, BlastAssumption
<1> QED
  BY <1>2, <1>4 DEF FirstPending

\* ... and at most BATCH_SIZE of them.
LEMMA BatchIsBounded ==
  ASSUME NEW j
  PROVE  Cardinality(FirstPending(j)) <= BatchSize
<1> DEFINE P == RowsIn(j, "pending")
           F == FirstPending(j)
<1>1. P \in SUBSET Recipients /\ F \subseteq P
  BY DEF RowsIn, FirstPending
<1>2. CASE F = {}
  BY <1>2, FS_EmptySet, BlastAssumption
<1>3. CASE F # {}
  <2>1. PICK r \in F : \A q \in F : q <= r
    BY <1>1, <1>3, Extremes
  <2> DEFINE B == {q \in P : q < r}
  <2>2. Cardinality(B) < BatchSize
    BY <2>1 DEF FirstPending
  <2>3. B \in SUBSET Recipients /\ IsFiniteSet(B) /\ Cardinality(B) \in Nat
    BY <1>1, RowsAreFinite
  <2>4. F \subseteq B \cup {r}
    BY <1>1, <2>1, BlastAssumption DEF Recipients
  <2>5. r \notin B
    BY <1>1, <2>1, BlastAssumption DEF Recipients
  <2> HIDE DEF B, F
  <2>6. IsFiniteSet(B \cup {r}) /\ Cardinality(B \cup {r}) = Cardinality(B) + 1
    BY <2>3, <2>5, FS_AddElement
  <2>7. Cardinality(F) <= Cardinality(B \cup {r})
    BY <2>4, <2>6, FS_Subset
  <2>8. Cardinality(F) \in Nat
    BY <1>1, RowsAreFinite DEF F
  <2> QED
    BY <2>2, <2>3, <2>6, <2>7, <2>8, BlastAssumption DEF F
<1> QED
  BY <1>2, <1>3

-----------------------------------------------------------------------------
(* Each step keeps the parts of the invariant.                             *)

\* Only the worker closes a job, and it claims none that is closed.
LEMMA HeldIsOpenStep ==
  ASSUME TypeOK, HeldIsOpen, CreatedOnce, Next
  PROVE  HeldIsOpen'
<1> USE DEF jobVars, countVars, rowVars, workerVars, locals, seenVars, boundVars
<1>0. /\ status \in [Jobs -> JobStatus \cup {Absent}]
      /\ (wpc = "idle" /\ wjob = NoJob) \/ (wpc # "idle" /\ wjob \in Jobs)
      /\ NoJob \notin Jobs
      /\ verdict \in Finished
      /\ req \in [Clients -> Request]
  BY BlastAssumption DEF TypeOK
<1>1. ASSUME NEW c \in Clients, NEW k \in Jobs, CreateArrive(c, k)
      PROVE  HeldIsOpen'
  BY <1>0, <1>1 DEF CreateArrive, HeldIsOpen
<1>2. ASSUME NEW c \in Clients, CreateDedup(c)
      PROVE  HeldIsOpen'
  BY <1>0, <1>2 DEF CreateDedup, HeldIsOpen
<1>3. ASSUME NEW c \in Clients, CreateJob(c)
      PROVE  HeldIsOpen'
  BY <1>0, <1>3 DEF CreateJob, Advance, HeldIsOpen, Absent, Finished
<1>4. ASSUME NEW c \in Clients, CreateRow(c)
      PROVE  HeldIsOpen'
  BY <1>0, <1>4 DEF CreateRow, HeldIsOpen
<1>5. ASSUME NEW c \in Clients, NEW k \in Jobs, CancelArrive(c, k)
      PROVE  HeldIsOpen'
  BY <1>0, <1>5 DEF CancelArrive, HeldIsOpen
<1>6. ASSUME NEW c \in Clients, CancelUpdate(c)
      PROVE  HeldIsOpen'
  BY <1>0, <1>6 DEF CancelUpdate, NoRequest, Asking, HeldIsOpen, Absent, Finished
<1>7. ASSUME NEW c \in Clients, NEW k \in Jobs, RetryArrive(c, k)
      PROVE  HeldIsOpen'
  BY <1>0, <1>7 DEF RetryArrive, HeldIsOpen
<1>8. ASSUME NEW c \in Clients, RetryRequeue(c)
      PROVE  HeldIsOpen'
  BY <1>0, <1>8 DEF RetryRequeue, HeldIsOpen
<1>9. ASSUME NEW c \in Clients, RetryReopen(c)
      PROVE  HeldIsOpen'
  BY <1>0, <1>9 DEF RetryReopen, NoRequest, Asking, Bump, HeldIsOpen, Absent, Finished
<1>10. ASSUME NEW c \in Clients, Abandon(c)
      PROVE  HeldIsOpen'
  BY <1>0, <1>10 DEF Abandon, HeldIsOpen
<1>11. ASSUME NEW k \in Jobs, WorkerResume(k)
      PROVE  HeldIsOpen'
  BY <1>0, <1>11 DEF WorkerResume, Step, Running, HeldIsOpen, Absent, Finished
<1>12. ASSUME NEW k \in Jobs, WorkerSelect(k)
      PROVE  HeldIsOpen'
  BY <1>0, <1>12 DEF WorkerSelect, Step, MayClaim, Running, HeldIsOpen, Absent, Finished
<1>13. CASE WorkerClaim
  BY <1>0, <1>13 DEF WorkerClaim, ToIdle, Creating, HandlersOn, HeldIsOpen, Absent, Finished
<1>14. CASE WorkerReset
  BY <1>0, <1>14 DEF WorkerReset, Step, WasInFlight, HeldIsOpen, Absent, Finished
<1>15. CASE WorkerCheck
  BY <1>0, <1>15 DEF WorkerCheck, StillRunning, ToIdle, HeldIsOpen, Absent, Finished
<1>16. CASE WorkerFetch
  BY <1>0, <1>16 DEF WorkerFetch, HeldIsOpen
<1>17. CASE WorkerMark
  BY <1>0, <1>17 DEF WorkerMark, Step, SetRow, IsLowest, HeldIsOpen, Absent, Finished
<1>18. CASE WorkerDispatch
  BY <1>0, <1>18 DEF WorkerDispatch, HeldIsOpen
<1>19. CASE WorkerSettleSent
  BY <1>0, <1>19 DEF WorkerSettleSent, Step, SetRow, HeldIsOpen, Absent, Finished
<1>20. CASE WorkerCountSent
  BY <1>0, <1>20 DEF WorkerCountSent, HeldIsOpen
<1>21. CASE WorkerCountFailed
  BY <1>0, <1>21 DEF WorkerCountFailed, Step, Bump, HeldIsOpen, Absent, Finished
<1>22. CASE WorkerRetryLater
  BY <1>0, <1>22 DEF WorkerRetryLater, HeldIsOpen
<1>23. CASE WorkerDeadLetter
  BY <1>0, <1>23 DEF WorkerDeadLetter, Step, SetRow, HeldIsOpen, Absent, Finished
<1>24. CASE WorkerCountDlq
  BY <1>0, <1>24 DEF WorkerCountDlq, HeldIsOpen
<1>25. CASE WorkerVerdict
  BY <1>0, <1>25 DEF WorkerVerdict, Step, HeldIsOpen, Absent, Finished
<1>26. CASE WorkerFinish
  BY <1>0, <1>26 DEF WorkerFinish, Step, FinishJob, HeldIsOpen, Absent, Finished
<1>27. CASE WorkerAnnounce
  BY <1>0, <1>27 DEF WorkerAnnounce, Bump, ToIdle, HeldIsOpen, Absent, Finished
<1>28. CASE WorkerError
  BY <1>0, <1>28 DEF WorkerError, ToIdle, Upsetting, HeldIsOpen, Absent, Finished
<1>29. CASE Crash
  BY <1>0, <1>29
     DEF Crash, ToIdle, Upsetting, HeldJobs, NoRequest, Asking, HeldIsOpen, Absent,
         Finished
<1>30. ASSUME NEW k \in Jobs, BecomeDue(k)
      PROVE  HeldIsOpen'
  BY <1>0, <1>30 DEF BecomeDue, HeldIsOpen
<1> QED
  BY <1>1, <1>2, <1>3, <1>4, <1>5, <1>6, <1>7, <1>8, <1>9, <1>10, <1>11, <1>12, <1>13,
     <1>14, <1>15, <1>16, <1>17, <1>18, <1>19, <1>20, <1>21, <1>22, <1>23, <1>24, <1>25,
     <1>26, <1>27, <1>28, <1>29, <1>30
     DEF Next, Worker, Arrival, Handler

\* A job id is handed out once.
LEMMA CreatedOnceStep ==
  ASSUME TypeOK, CreatedOnce, HeldIsOpen, Next
  PROVE  CreatedOnce'
<1> USE DEF jobVars, countVars, rowVars, workerVars, locals, seenVars, boundVars
<1>0. /\ status \in [Jobs -> JobStatus \cup {Absent}]
      /\ (wpc = "idle" /\ wjob = NoJob) \/ (wpc # "idle" /\ wjob \in Jobs)
      /\ NoJob \notin Jobs
      /\ req \in [Clients -> Request]
      /\ verdict \in Finished
  BY BlastAssumption DEF TypeOK
<1>1. ASSUME NEW c \in Clients, NEW k \in Jobs, CreateArrive(c, k)
      PROVE  CreatedOnce'
  BY <1>0, <1>1 DEF CreateArrive, CreatedOnce
<1>2. ASSUME NEW c \in Clients, CreateDedup(c)
      PROVE  CreatedOnce'
  BY <1>0, <1>2 DEF CreateDedup, Advance, CreatedOnce, Absent, Finished, NoRequest, Asking
<1>3. ASSUME NEW c \in Clients, CreateJob(c)
      PROVE  CreatedOnce'
  BY <1>0, <1>3 DEF CreateJob, Advance, CreatedOnce, Absent, Finished, NoRequest, Asking
<1>4. ASSUME NEW c \in Clients, CreateRow(c)
      PROVE  CreatedOnce'
  BY <1>0, <1>4
     DEF CreateRow, Advance, SetRow, NoRequest, Asking, CreatedOnce, Absent, Finished
<1>5. ASSUME NEW c \in Clients, NEW k \in Jobs, CancelArrive(c, k)
      PROVE  CreatedOnce'
  BY <1>0, <1>5 DEF CancelArrive, Asking, CreatedOnce, Absent, Finished, NoRequest
<1>6. ASSUME NEW c \in Clients, CancelUpdate(c)
      PROVE  CreatedOnce'
  BY <1>0, <1>6 DEF CancelUpdate, NoRequest, Asking, CreatedOnce, Absent, Finished
<1>7. ASSUME NEW c \in Clients, NEW k \in Jobs, RetryArrive(c, k)
      PROVE  CreatedOnce'
  BY <1>0, <1>7 DEF RetryArrive, Asking, CreatedOnce, Absent, Finished, NoRequest
<1>8. ASSUME NEW c \in Clients, RetryRequeue(c)
      PROVE  CreatedOnce'
  BY <1>0, <1>8
     DEF RetryRequeue, NoRequest, Asking, Requeueable, CreatedOnce, Absent, Finished
<1>9. ASSUME NEW c \in Clients, RetryReopen(c)
      PROVE  CreatedOnce'
  BY <1>0, <1>9 DEF RetryReopen, NoRequest, Asking, Bump, CreatedOnce, Absent, Finished
<1>10. ASSUME NEW c \in Clients, Abandon(c)
      PROVE  CreatedOnce'
  BY <1>0, <1>10 DEF Abandon, NoRequest, Asking, Upsetting, CreatedOnce, Absent, Finished
<1>11. ASSUME NEW k \in Jobs, WorkerResume(k)
      PROVE  CreatedOnce'
  BY <1>0, <1>11 DEF WorkerResume, CreatedOnce
<1>12. ASSUME NEW k \in Jobs, WorkerSelect(k)
      PROVE  CreatedOnce'
  BY <1>0, <1>12 DEF WorkerSelect, CreatedOnce
<1>13. CASE WorkerClaim
  BY <1>0, <1>13
     DEF WorkerClaim, ToIdle, Creating, HandlersOn, CreatedOnce, Absent, Finished,
         NoRequest, Asking
<1>14. CASE WorkerReset
  BY <1>0, <1>14 DEF WorkerReset, CreatedOnce
<1>15. CASE WorkerCheck
  BY <1>0, <1>15 DEF WorkerCheck, CreatedOnce
<1>16. CASE WorkerFetch
  BY <1>0, <1>16 DEF WorkerFetch, CreatedOnce
<1>17. CASE WorkerMark
  BY <1>0, <1>17 DEF WorkerMark, CreatedOnce
<1>18. CASE WorkerDispatch
  BY <1>0, <1>18 DEF WorkerDispatch, CreatedOnce
<1>19. CASE WorkerSettleSent
  BY <1>0, <1>19 DEF WorkerSettleSent, CreatedOnce
<1>20. CASE WorkerCountSent
  BY <1>0, <1>20 DEF WorkerCountSent, CreatedOnce
<1>21. CASE WorkerCountFailed
  BY <1>0, <1>21 DEF WorkerCountFailed, CreatedOnce
<1>22. CASE WorkerRetryLater
  BY <1>0, <1>22 DEF WorkerRetryLater, CreatedOnce
<1>23. CASE WorkerDeadLetter
  BY <1>0, <1>23 DEF WorkerDeadLetter, CreatedOnce
<1>24. CASE WorkerCountDlq
  BY <1>0, <1>24 DEF WorkerCountDlq, CreatedOnce
<1>25. CASE WorkerVerdict
  BY <1>0, <1>25 DEF WorkerVerdict, CreatedOnce
<1>26. CASE WorkerFinish
  BY <1>0, <1>26
     DEF WorkerFinish, Step, FinishJob, CreatedOnce, HeldIsOpen, Absent, Finished,
         NoRequest, Asking
<1>27. CASE WorkerAnnounce
  BY <1>0, <1>27 DEF WorkerAnnounce, CreatedOnce
<1>28. CASE WorkerError
  BY <1>0, <1>28 DEF WorkerError, CreatedOnce
<1>29. CASE Crash
  BY <1>0, <1>29
     DEF Crash, ToIdle, Upsetting, HeldJobs, NoRequest, Asking, CreatedOnce, Absent,
         Finished
<1>30. ASSUME NEW k \in Jobs, BecomeDue(k)
      PROVE  CreatedOnce'
  BY <1>0, <1>30 DEF BecomeDue, CreatedOnce
<1> QED
  BY <1>1, <1>2, <1>3, <1>4, <1>5, <1>6, <1>7, <1>8, <1>9, <1>10, <1>11, <1>12, <1>13,
     <1>14, <1>15, <1>16, <1>17, <1>18, <1>19, <1>20, <1>21, <1>22, <1>23, <1>24, <1>25,
     <1>26, <1>27, <1>28, <1>29, <1>30
     DEF Next, Worker, Arrival, Handler

\* Rows written after the claim upset the job.
LEMMA ClaimedCompleteStep ==
  ASSUME TypeOK, ClaimedComplete, HeldIsOpen, CreatedOnce, Next
  PROVE  ClaimedComplete'
<1> USE DEF jobVars, countVars, rowVars, workerVars, locals, seenVars, boundVars
<1>0. /\ status \in [Jobs -> JobStatus \cup {Absent}]
      /\ (wpc = "idle" /\ wjob = NoJob) \/ (wpc # "idle" /\ wjob \in Jobs)
      /\ NoJob \notin Jobs
      /\ req \in [Clients -> Request]
      /\ upset \in [Jobs -> SUBSET Causes]
      /\ verdict \in Finished
  BY BlastAssumption DEF TypeOK
<1>1. ASSUME NEW c \in Clients, NEW k \in Jobs, CreateArrive(c, k)
      PROVE  ClaimedComplete'
  BY <1>0, <1>1 DEF CreateArrive, ClaimedComplete
<1>2. ASSUME NEW c \in Clients, CreateDedup(c)
      PROVE  ClaimedComplete'
  BY <1>0, <1>2
     DEF CreateDedup, Advance, ClaimedComplete, Absent, Finished, Working, WorkerPC
<1>3. ASSUME NEW c \in Clients, CreateJob(c)
      PROVE  ClaimedComplete'
  BY <1>0, <1>3
     DEF CreateJob, Advance, ClaimedComplete, HeldIsOpen, CreatedOnce, Absent, Finished,
         Working, WorkerPC
<1>4. ASSUME NEW c \in Clients, CreateRow(c)
      PROVE  ClaimedComplete'
  BY <1>0, <1>4
     DEF CreateRow, Advance, SetRow, NoRequest, Asking, ClaimedComplete, Absent, Finished,
         Working, WorkerPC
<1>5. ASSUME NEW c \in Clients, NEW k \in Jobs, CancelArrive(c, k)
      PROVE  ClaimedComplete'
  BY <1>0, <1>5
     DEF CancelArrive, Asking, ClaimedComplete, Absent, Finished, Working, WorkerPC
<1>6. ASSUME NEW c \in Clients, CancelUpdate(c)
      PROVE  ClaimedComplete'
  BY <1>0, <1>6
     DEF CancelUpdate, NoRequest, Asking, ClaimedComplete, Absent, Finished, Working,
         WorkerPC
<1>7. ASSUME NEW c \in Clients, NEW k \in Jobs, RetryArrive(c, k)
      PROVE  ClaimedComplete'
  BY <1>0, <1>7
     DEF RetryArrive, Asking, ClaimedComplete, Absent, Finished, Working, WorkerPC
<1>8. ASSUME NEW c \in Clients, RetryRequeue(c)
      PROVE  ClaimedComplete'
  BY <1>0, <1>8
     DEF RetryRequeue, NoRequest, Asking, Requeueable, ClaimedComplete, Absent, Finished,
         Working, WorkerPC
<1>9. ASSUME NEW c \in Clients, RetryReopen(c)
      PROVE  ClaimedComplete'
  BY <1>0, <1>9
     DEF RetryReopen, NoRequest, Asking, Bump, ClaimedComplete, Absent, Finished, Working,
         WorkerPC
<1>10. ASSUME NEW c \in Clients, Abandon(c)
      PROVE  ClaimedComplete'
  BY <1>0, <1>10
     DEF Abandon, NoRequest, Asking, Upsetting, ClaimedComplete, Absent, Finished,
         Working, WorkerPC
<1>11. ASSUME NEW k \in Jobs, WorkerResume(k)
      PROVE  ClaimedComplete'
  BY <1>0, <1>11
     DEF WorkerResume, Step, Running, ClaimedComplete, Absent, Finished, Working, WorkerPC
<1>12. ASSUME NEW k \in Jobs, WorkerSelect(k)
      PROVE  ClaimedComplete'
  BY <1>0, <1>12
     DEF WorkerSelect, Step, MayClaim, Running, ClaimedComplete, Absent, Finished,
         Working, WorkerPC
<1>13. CASE WorkerClaim
  BY <1>0, <1>13
     DEF WorkerClaim, ToIdle, Creating, HandlersOn, ClaimedComplete, Absent, Finished,
         Working, WorkerPC
<1>14. CASE WorkerReset
  BY <1>0, <1>14
     DEF WorkerReset, Step, WasInFlight, ClaimedComplete, Absent, Finished, Working,
         WorkerPC
<1>15. CASE WorkerCheck
  BY <1>0, <1>15
     DEF WorkerCheck, StillRunning, ToIdle, ClaimedComplete, Absent, Finished, Working,
         WorkerPC
<1>16. CASE WorkerFetch
  BY <1>0, <1>16 DEF WorkerFetch, ClaimedComplete, Absent, Finished, Working, WorkerPC
<1>17. CASE WorkerMark
  BY <1>0, <1>17
     DEF WorkerMark, Step, SetRow, IsLowest, ClaimedComplete, Absent, Finished, Working,
         WorkerPC
<1>18. CASE WorkerDispatch
  BY <1>0, <1>18
     DEF WorkerDispatch, Bump, ClaimedComplete, Absent, Finished, Working, WorkerPC
<1>19. CASE WorkerSettleSent
  BY <1>0, <1>19
     DEF WorkerSettleSent, Step, SetRow, ClaimedComplete, Absent, Finished, Working,
         WorkerPC
<1>20. CASE WorkerCountSent
  BY <1>0, <1>20
     DEF WorkerCountSent, Bump, NextInBatch, ClaimedComplete, Absent, Finished, Working,
         WorkerPC
<1>21. CASE WorkerCountFailed
  BY <1>0, <1>21
     DEF WorkerCountFailed, Step, Bump, ClaimedComplete, Absent, Finished, Working,
         WorkerPC
<1>22. CASE WorkerRetryLater
  BY <1>0, <1>22
     DEF WorkerRetryLater, SetRow, NextInBatch, ClaimedComplete, Absent, Finished,
         Working, WorkerPC
<1>23. CASE WorkerDeadLetter
  BY <1>0, <1>23
     DEF WorkerDeadLetter, Step, SetRow, ClaimedComplete, Absent, Finished, Working,
         WorkerPC
<1>24. CASE WorkerCountDlq
  BY <1>0, <1>24
     DEF WorkerCountDlq, Bump, NextInBatch, ClaimedComplete, Absent, Finished, Working,
         WorkerPC
<1>25. CASE WorkerVerdict
  BY <1>0, <1>25
     DEF WorkerVerdict, Step, ClaimedComplete, Absent, Finished, Working, WorkerPC
<1>26. CASE WorkerFinish
  BY <1>0, <1>26
     DEF WorkerFinish, Step, FinishJob, ClaimedComplete, Absent, Finished, Working,
         WorkerPC
<1>27. CASE WorkerAnnounce
  BY <1>0, <1>27
     DEF WorkerAnnounce, Bump, ToIdle, ClaimedComplete, Absent, Finished, Working,
         WorkerPC
<1>28. CASE WorkerError
  BY <1>0, <1>28
     DEF WorkerError, ToIdle, Upsetting, ClaimedComplete, Absent, Finished, Working,
         WorkerPC
<1>29. CASE Crash
  BY <1>0, <1>29
     DEF Crash, ToIdle, Upsetting, HeldJobs, NoRequest, Asking, ClaimedComplete, Absent,
         Finished, Working, WorkerPC
<1>30. ASSUME NEW k \in Jobs, BecomeDue(k)
      PROVE  ClaimedComplete'
  BY <1>0, <1>30 DEF BecomeDue, ClaimedComplete
<1> QED
  BY <1>1, <1>2, <1>3, <1>4, <1>5, <1>6, <1>7, <1>8, <1>9, <1>10, <1>11, <1>12, <1>13,
     <1>14, <1>15, <1>16, <1>17, <1>18, <1>19, <1>20, <1>21, <1>22, <1>23, <1>24, <1>25,
     <1>26, <1>27, <1>28, <1>29, <1>30
     DEF Next, Worker, Arrival, Handler

\* The reset at the claim leaves no row `sending`, and a worker that loses one is upset.
LEMMA SendingIsInHandStep ==
  ASSUME TypeOK, SendingIsInHand, Next
  PROVE  SendingIsInHand'
<1> USE DEF jobVars, countVars, rowVars, workerVars, locals, seenVars, boundVars
<1>0. /\ rec \in [Jobs -> [Recipients -> RowStatus \cup {Absent}]]
      /\ (wpc = "idle" /\ wjob = NoJob) \/ (wpc # "idle" /\ wjob \in Jobs)
      /\ NoJob \notin Jobs
      /\ upset \in [Jobs -> SUBSET Causes]
      /\ req \in [Clients -> Request]
  BY BlastAssumption DEF TypeOK
<1>1. ASSUME NEW c \in Clients, NEW k \in Jobs, CreateArrive(c, k)
      PROVE  SendingIsInHand'
  BY <1>0, <1>1 DEF CreateArrive, SendingIsInHand
<1>2. ASSUME NEW c \in Clients, CreateDedup(c)
      PROVE  SendingIsInHand'
  BY <1>0, <1>2 DEF CreateDedup, SendingIsInHand
<1>3. ASSUME NEW c \in Clients, CreateJob(c)
      PROVE  SendingIsInHand'
  BY <1>0, <1>3 DEF CreateJob, SendingIsInHand
<1>4. ASSUME NEW c \in Clients, CreateRow(c)
      PROVE  SendingIsInHand'
  <2>1. HandlerRowStep
    BY <1>4, HandlerRows DEF Handler
  <2>2. UNCHANGED upset
    BY <1>4 DEF CreateRow
  <2> QED
    BY <2>1, <2>2 DEF HandlerRowStep, SendingIsInHand, Absent
<1>5. ASSUME NEW c \in Clients, NEW k \in Jobs, CancelArrive(c, k)
      PROVE  SendingIsInHand'
  BY <1>0, <1>5 DEF CancelArrive, SendingIsInHand
<1>6. ASSUME NEW c \in Clients, CancelUpdate(c)
      PROVE  SendingIsInHand'
  BY <1>0, <1>6 DEF CancelUpdate, SendingIsInHand
<1>7. ASSUME NEW c \in Clients, NEW k \in Jobs, RetryArrive(c, k)
      PROVE  SendingIsInHand'
  BY <1>0, <1>7 DEF RetryArrive, SendingIsInHand
<1>8. ASSUME NEW c \in Clients, RetryRequeue(c)
      PROVE  SendingIsInHand'
  BY <1>0, <1>8 DEF RetryRequeue, SendingIsInHand
<1>9. ASSUME NEW c \in Clients, RetryReopen(c)
      PROVE  SendingIsInHand'
  BY <1>0, <1>9 DEF RetryReopen, SendingIsInHand
<1>10. ASSUME NEW c \in Clients, Abandon(c)
      PROVE  SendingIsInHand'
  BY <1>0, <1>10 DEF Abandon, NoRequest, Asking, Upsetting, SendingIsInHand, InHand, Absent
<1>11. ASSUME NEW k \in Jobs, WorkerResume(k)
      PROVE  SendingIsInHand'
  BY <1>0, <1>11 DEF WorkerResume, Step, Running, SendingIsInHand, InHand, Absent
<1>12. ASSUME NEW k \in Jobs, WorkerSelect(k)
      PROVE  SendingIsInHand'
  BY <1>0, <1>12 DEF WorkerSelect, Step, MayClaim, Running, SendingIsInHand, InHand, Absent
<1>13. CASE WorkerClaim
  BY <1>0, <1>13
     DEF WorkerClaim, ToIdle, Creating, HandlersOn, SendingIsInHand, InHand, Absent
<1>14. CASE WorkerReset
  BY <1>0, <1>14 DEF WorkerReset, Step, WasInFlight, SendingIsInHand, InHand, Absent
<1>15. CASE WorkerCheck
  BY <1>0, <1>15 DEF WorkerCheck, StillRunning, ToIdle, SendingIsInHand, InHand, Absent
<1>16. CASE WorkerFetch
  BY <1>0, <1>16 DEF WorkerFetch, SendingIsInHand, InHand, Absent
<1>17. CASE WorkerMark
  BY <1>0, <1>17 DEF WorkerMark, Step, SetRow, IsLowest, SendingIsInHand, InHand, Absent
<1>18. CASE WorkerDispatch
  BY <1>0, <1>18 DEF WorkerDispatch, Bump, SendingIsInHand, InHand, Absent
<1>19. CASE WorkerSettleSent
  BY <1>0, <1>19 DEF WorkerSettleSent, Step, SetRow, SendingIsInHand, InHand, Absent
<1>20. CASE WorkerCountSent
  BY <1>0, <1>20 DEF WorkerCountSent, Bump, NextInBatch, SendingIsInHand, InHand, Absent
<1>21. CASE WorkerCountFailed
  BY <1>0, <1>21 DEF WorkerCountFailed, Step, Bump, SendingIsInHand, InHand, Absent
<1>22. CASE WorkerRetryLater
  BY <1>0, <1>22 DEF WorkerRetryLater, SetRow, NextInBatch, SendingIsInHand, InHand, Absent
<1>23. CASE WorkerDeadLetter
  BY <1>0, <1>23 DEF WorkerDeadLetter, Step, SetRow, SendingIsInHand, InHand, Absent
<1>24. CASE WorkerCountDlq
  BY <1>0, <1>24 DEF WorkerCountDlq, Bump, NextInBatch, SendingIsInHand, InHand, Absent
<1>25. CASE WorkerVerdict
  BY <1>0, <1>25 DEF WorkerVerdict, Step, SendingIsInHand, InHand, Absent
<1>26. CASE WorkerFinish
  BY <1>0, <1>26 DEF WorkerFinish, Step, FinishJob, SendingIsInHand, InHand, Absent
<1>27. CASE WorkerAnnounce
  BY <1>0, <1>27 DEF WorkerAnnounce, Bump, ToIdle, SendingIsInHand, InHand, Absent
<1>28. CASE WorkerError
  BY <1>0, <1>28 DEF WorkerError, ToIdle, Upsetting, SendingIsInHand, InHand, Absent
<1>29. CASE Crash
  BY <1>0, <1>29
     DEF Crash, ToIdle, Upsetting, HeldJobs, NoRequest, Asking, SendingIsInHand, InHand,
         Absent
<1>30. ASSUME NEW k \in Jobs, BecomeDue(k)
      PROVE  SendingIsInHand'
  BY <1>0, <1>30 DEF BecomeDue, SendingIsInHand
<1> QED
  BY <1>1, <1>2, <1>3, <1>4, <1>5, <1>6, <1>7, <1>8, <1>9, <1>10, <1>11, <1>12, <1>13,
     <1>14, <1>15, <1>16, <1>17, <1>18, <1>19, <1>20, <1>21, <1>22, <1>23, <1>24, <1>25,
     <1>26, <1>27, <1>28, <1>29, <1>30
     DEF Next, Worker, Arrival, Handler

\* The worker closes a job when a fetch finds no row, and only an overlapping retry adds one.
LEMMA ClosingIsSettledStep ==
  ASSUME TypeOK, ClosingIsSettled, ClaimedComplete, Next
  PROVE  ClosingIsSettled'
<1> USE DEF jobVars, countVars, rowVars, workerVars, locals, seenVars, boundVars
<1>0. /\ rec \in [Jobs -> [Recipients -> RowStatus \cup {Absent}]]
      /\ (wpc = "idle" /\ wjob = NoJob) \/ (wpc # "idle" /\ wjob \in Jobs)
      /\ NoJob \notin Jobs
      /\ upset \in [Jobs -> SUBSET Causes]
      /\ req \in [Clients -> Request]
  BY BlastAssumption DEF TypeOK
<1>1. ASSUME NEW c \in Clients, NEW k \in Jobs, CreateArrive(c, k)
      PROVE  ClosingIsSettled'
  BY <1>0, <1>1 DEF CreateArrive, ClosingIsSettled
<1>2. ASSUME NEW c \in Clients, CreateDedup(c)
      PROVE  ClosingIsSettled'
  BY <1>0, <1>2 DEF CreateDedup, ClosingIsSettled
<1>3. ASSUME NEW c \in Clients, CreateJob(c)
      PROVE  ClosingIsSettled'
  BY <1>0, <1>3 DEF CreateJob, ClosingIsSettled
<1>4. ASSUME NEW c \in Clients, CreateRow(c)
      PROVE  ClosingIsSettled'
  BY <1>0, <1>4
     DEF CreateRow, Advance, SetRow, NoRequest, Asking, ClosingIsSettled, ClaimedComplete,
         Absent, Working, WorkerPC
<1>5. ASSUME NEW c \in Clients, NEW k \in Jobs, CancelArrive(c, k)
      PROVE  ClosingIsSettled'
  BY <1>0, <1>5 DEF CancelArrive, ClosingIsSettled
<1>6. ASSUME NEW c \in Clients, CancelUpdate(c)
      PROVE  ClosingIsSettled'
  BY <1>0, <1>6 DEF CancelUpdate, ClosingIsSettled
<1>7. ASSUME NEW c \in Clients, NEW k \in Jobs, RetryArrive(c, k)
      PROVE  ClosingIsSettled'
  BY <1>0, <1>7 DEF RetryArrive, ClosingIsSettled
<1>8. ASSUME NEW c \in Clients, RetryRequeue(c)
      PROVE  ClosingIsSettled'
  BY <1>0, <1>8 DEF RetryRequeue, ClosingIsSettled
<1>9. ASSUME NEW c \in Clients, RetryReopen(c)
      PROVE  ClosingIsSettled'
  BY <1>0, <1>9 DEF RetryReopen, ClosingIsSettled
<1>10. ASSUME NEW c \in Clients, Abandon(c)
      PROVE  ClosingIsSettled'
  BY <1>0, <1>10
     DEF Abandon, NoRequest, Asking, Upsetting, ClosingIsSettled, Absent, Working,
         WorkerPC
<1>11. ASSUME NEW k \in Jobs, WorkerResume(k)
      PROVE  ClosingIsSettled'
  BY <1>0, <1>11
     DEF WorkerResume, Step, Running, ClosingIsSettled, Absent, Working, WorkerPC
<1>12. ASSUME NEW k \in Jobs, WorkerSelect(k)
      PROVE  ClosingIsSettled'
  BY <1>0, <1>12
     DEF WorkerSelect, Step, MayClaim, Running, ClosingIsSettled, Absent, Working,
         WorkerPC
<1>13. CASE WorkerClaim
  BY <1>0, <1>13
     DEF WorkerClaim, ToIdle, Creating, HandlersOn, ClosingIsSettled, Absent, Working,
         WorkerPC
<1>14. CASE WorkerReset
  BY <1>0, <1>14
     DEF WorkerReset, Step, WasInFlight, ClosingIsSettled, Absent, Working, WorkerPC
<1>15. CASE WorkerCheck
  BY <1>0, <1>15
     DEF WorkerCheck, StillRunning, ToIdle, ClosingIsSettled, Absent, Working, WorkerPC
<1>16. CASE WorkerFetch
  <2>1. wpc' = "verdict" => FirstPending(wjob) = {}
    BY <1>16 DEF WorkerFetch
  <2>2. wpc' = "verdict" => \A r \in Recipients : rec[wjob][r] # "pending"
    BY <2>1, EmptyBatch
  <2>3. wpc' \in {"verdict", "mark"} /\ UNCHANGED <<rec, wjob>>
    BY <1>16 DEF WorkerFetch
  <2> QED
    BY <2>2, <2>3 DEF ClosingIsSettled
<1>17. CASE WorkerMark
  BY <1>0, <1>17
     DEF WorkerMark, Step, SetRow, IsLowest, ClosingIsSettled, Absent, Working, WorkerPC
<1>18. CASE WorkerDispatch
  BY <1>0, <1>18 DEF WorkerDispatch, ClosingIsSettled
<1>19. CASE WorkerSettleSent
  BY <1>0, <1>19
     DEF WorkerSettleSent, Step, SetRow, ClosingIsSettled, Absent, Working, WorkerPC
<1>20. CASE WorkerCountSent
  BY <1>0, <1>20
     DEF WorkerCountSent, Bump, NextInBatch, ClosingIsSettled, Absent, Working, WorkerPC
<1>21. CASE WorkerCountFailed
  BY <1>0, <1>21
     DEF WorkerCountFailed, Step, Bump, ClosingIsSettled, Absent, Working, WorkerPC
<1>22. CASE WorkerRetryLater
  BY <1>0, <1>22
     DEF WorkerRetryLater, SetRow, NextInBatch, ClosingIsSettled, Absent, Working,
         WorkerPC
<1>23. CASE WorkerDeadLetter
  BY <1>0, <1>23
     DEF WorkerDeadLetter, Step, SetRow, ClosingIsSettled, Absent, Working, WorkerPC
<1>24. CASE WorkerCountDlq
  BY <1>0, <1>24
     DEF WorkerCountDlq, Bump, NextInBatch, ClosingIsSettled, Absent, Working, WorkerPC
<1>25. CASE WorkerVerdict
  BY <1>0, <1>25 DEF WorkerVerdict, Step, ClosingIsSettled, Absent, Working, WorkerPC
<1>26. CASE WorkerFinish
  BY <1>0, <1>26
     DEF WorkerFinish, Step, FinishJob, ClosingIsSettled, Absent, Working, WorkerPC
<1>27. CASE WorkerAnnounce
  BY <1>0, <1>27
     DEF WorkerAnnounce, Bump, ToIdle, ClosingIsSettled, Absent, Working, WorkerPC
<1>28. CASE WorkerError
  BY <1>0, <1>28
     DEF WorkerError, ToIdle, Upsetting, ClosingIsSettled, Absent, Working, WorkerPC
<1>29. CASE Crash
  BY <1>0, <1>29
     DEF Crash, ToIdle, Upsetting, HeldJobs, NoRequest, Asking, ClosingIsSettled, Absent,
         Working, WorkerPC
<1>30. ASSUME NEW k \in Jobs, BecomeDue(k)
      PROVE  ClosingIsSettled'
  BY <1>0, <1>30 DEF BecomeDue, ClosingIsSettled
<1> QED
  BY <1>1, <1>2, <1>3, <1>4, <1>5, <1>6, <1>7, <1>8, <1>9, <1>10, <1>11, <1>12, <1>13,
     <1>14, <1>15, <1>16, <1>17, <1>18, <1>19, <1>20, <1>21, <1>22, <1>23, <1>24, <1>25,
     <1>26, <1>27, <1>28, <1>29, <1>30
     DEF Next, Worker, Arrival, Handler

\* Each mark_recipient_dlq is followed by its incr_dlq.
LEMMA DeadAreCountedStep ==
  ASSUME TypeOK, DeadAreCounted, Next
  PROVE  DeadAreCounted'
<1> USE DEF jobVars, countVars, rowVars, workerVars, locals, seenVars, boundVars
<1>0. /\ rec \in [Jobs -> [Recipients -> RowStatus \cup {Absent}]]
      /\ (wpc = "idle" /\ wjob = NoJob) \/ (wpc # "idle" /\ wjob \in Jobs)
      /\ NoJob \notin Jobs
      /\ upset \in [Jobs -> SUBSET Causes]
      /\ dlqCount \in [Jobs -> Nat]
      /\ req \in [Clients -> Request]
  BY BlastAssumption DEF TypeOK
<1>1. ASSUME NEW c \in Clients, NEW k \in Jobs, CreateArrive(c, k)
      PROVE  DeadAreCounted'
  BY <1>0, <1>1 DEF CreateArrive, DeadAreCounted
<1>2. ASSUME NEW c \in Clients, CreateDedup(c)
      PROVE  DeadAreCounted'
  BY <1>0, <1>2 DEF CreateDedup, DeadAreCounted
<1>3. ASSUME NEW c \in Clients, CreateJob(c)
      PROVE  DeadAreCounted'
  BY <1>0, <1>3 DEF CreateJob, DeadAreCounted
<1>4. ASSUME NEW c \in Clients, CreateRow(c)
      PROVE  DeadAreCounted'
  BY <1>0, <1>4 DEF CreateRow, Advance, SetRow, NoRequest, Asking, DeadAreCounted, Absent
<1>5. ASSUME NEW c \in Clients, NEW k \in Jobs, CancelArrive(c, k)
      PROVE  DeadAreCounted'
  BY <1>0, <1>5 DEF CancelArrive, DeadAreCounted
<1>6. ASSUME NEW c \in Clients, CancelUpdate(c)
      PROVE  DeadAreCounted'
  BY <1>0, <1>6 DEF CancelUpdate, DeadAreCounted
<1>7. ASSUME NEW c \in Clients, NEW k \in Jobs, RetryArrive(c, k)
      PROVE  DeadAreCounted'
  BY <1>0, <1>7 DEF RetryArrive, DeadAreCounted
<1>8. ASSUME NEW c \in Clients, RetryRequeue(c)
      PROVE  DeadAreCounted'
  BY <1>0, <1>8 DEF RetryRequeue, DeadAreCounted
<1>9. ASSUME NEW c \in Clients, RetryReopen(c)
      PROVE  DeadAreCounted'
  BY <1>0, <1>9 DEF RetryReopen, DeadAreCounted
<1>10. ASSUME NEW c \in Clients, Abandon(c)
      PROVE  DeadAreCounted'
  BY <1>0, <1>10 DEF Abandon, NoRequest, Asking, Upsetting, DeadAreCounted, Absent
<1>11. ASSUME NEW k \in Jobs, WorkerResume(k)
      PROVE  DeadAreCounted'
  BY <1>0, <1>11 DEF WorkerResume, Step, Running, DeadAreCounted, Absent
<1>12. ASSUME NEW k \in Jobs, WorkerSelect(k)
      PROVE  DeadAreCounted'
  BY <1>0, <1>12 DEF WorkerSelect, Step, MayClaim, Running, DeadAreCounted, Absent
<1>13. CASE WorkerClaim
  BY <1>0, <1>13 DEF WorkerClaim, DeadAreCounted
<1>14. CASE WorkerReset
  BY <1>0, <1>14 DEF WorkerReset, Step, WasInFlight, DeadAreCounted, Absent
<1>15. CASE WorkerCheck
  BY <1>0, <1>15 DEF WorkerCheck, DeadAreCounted
<1>16. CASE WorkerFetch
  BY <1>0, <1>16 DEF WorkerFetch, DeadAreCounted
<1>17. CASE WorkerMark
  BY <1>0, <1>17 DEF WorkerMark, Step, SetRow, IsLowest, DeadAreCounted, Absent
<1>18. CASE WorkerDispatch
  BY <1>0, <1>18 DEF WorkerDispatch, DeadAreCounted
<1>19. CASE WorkerSettleSent
  BY <1>0, <1>19 DEF WorkerSettleSent, Step, SetRow, DeadAreCounted, Absent
<1>20. CASE WorkerCountSent
  BY <1>0, <1>20 DEF WorkerCountSent, DeadAreCounted
<1>21. CASE WorkerCountFailed
  BY <1>0, <1>21 DEF WorkerCountFailed, Step, Bump, DeadAreCounted, Absent
<1>22. CASE WorkerRetryLater
  BY <1>0, <1>22 DEF WorkerRetryLater, SetRow, NextInBatch, DeadAreCounted, Absent
<1>23. CASE WorkerDeadLetter
  BY <1>0, <1>23 DEF WorkerDeadLetter, Step, SetRow, DeadAreCounted, Absent
<1>24. CASE WorkerCountDlq
  BY <1>0, <1>24 DEF WorkerCountDlq, Bump, NextInBatch, DeadAreCounted, Absent
<1>25. CASE WorkerVerdict
  BY <1>0, <1>25 DEF WorkerVerdict, Step, DeadAreCounted, Absent
<1>26. CASE WorkerFinish
  BY <1>0, <1>26 DEF WorkerFinish, Step, FinishJob, DeadAreCounted, Absent
<1>27. CASE WorkerAnnounce
  BY <1>0, <1>27 DEF WorkerAnnounce, DeadAreCounted
<1>28. CASE WorkerError
  BY <1>0, <1>28 DEF WorkerError, ToIdle, Upsetting, DeadAreCounted, Absent
<1>29. CASE Crash
  BY <1>0, <1>29
     DEF Crash, ToIdle, Upsetting, HeldJobs, NoRequest, Asking, DeadAreCounted, Absent
<1>30. ASSUME NEW k \in Jobs, BecomeDue(k)
      PROVE  DeadAreCounted'
  BY <1>0, <1>30 DEF BecomeDue, DeadAreCounted
<1> QED
  BY <1>1, <1>2, <1>3, <1>4, <1>5, <1>6, <1>7, <1>8, <1>9, <1>10, <1>11, <1>12, <1>13,
     <1>14, <1>15, <1>16, <1>17, <1>18, <1>19, <1>20, <1>21, <1>22, <1>23, <1>24, <1>25,
     <1>26, <1>27, <1>28, <1>29, <1>30
     DEF Next, Worker, Arrival, Handler

\* No row dies between the verdict and finish_job.
LEMMA VerdictIsTrueStep ==
  ASSUME TypeOK, VerdictIsTrue, DeadAreCounted, Next
  PROVE  VerdictIsTrue'
<1> USE DEF jobVars, countVars, rowVars, workerVars, locals, seenVars, boundVars
<1>0. /\ rec \in [Jobs -> [Recipients -> RowStatus \cup {Absent}]]
      /\ (wpc = "idle" /\ wjob = NoJob) \/ (wpc # "idle" /\ wjob \in Jobs)
      /\ NoJob \notin Jobs
      /\ upset \in [Jobs -> SUBSET Causes]
      /\ dlqCount \in [Jobs -> Nat]
      /\ req \in [Clients -> Request]
  BY BlastAssumption DEF TypeOK
<1>1. ASSUME NEW c \in Clients, NEW k \in Jobs, CreateArrive(c, k)
      PROVE  VerdictIsTrue'
  BY <1>0, <1>1 DEF CreateArrive, VerdictIsTrue
<1>2. ASSUME NEW c \in Clients, CreateDedup(c)
      PROVE  VerdictIsTrue'
  BY <1>0, <1>2 DEF CreateDedup, VerdictIsTrue
<1>3. ASSUME NEW c \in Clients, CreateJob(c)
      PROVE  VerdictIsTrue'
  BY <1>0, <1>3 DEF CreateJob, VerdictIsTrue
<1>4. ASSUME NEW c \in Clients, CreateRow(c)
      PROVE  VerdictIsTrue'
  BY <1>0, <1>4 DEF CreateRow, Advance, SetRow, NoRequest, Asking, VerdictIsTrue, Absent
<1>5. ASSUME NEW c \in Clients, NEW k \in Jobs, CancelArrive(c, k)
      PROVE  VerdictIsTrue'
  BY <1>0, <1>5 DEF CancelArrive, VerdictIsTrue
<1>6. ASSUME NEW c \in Clients, CancelUpdate(c)
      PROVE  VerdictIsTrue'
  BY <1>0, <1>6 DEF CancelUpdate, VerdictIsTrue
<1>7. ASSUME NEW c \in Clients, NEW k \in Jobs, RetryArrive(c, k)
      PROVE  VerdictIsTrue'
  BY <1>0, <1>7 DEF RetryArrive, VerdictIsTrue
<1>8. ASSUME NEW c \in Clients, RetryRequeue(c)
      PROVE  VerdictIsTrue'
  BY <1>0, <1>8 DEF RetryRequeue, VerdictIsTrue
<1>9. ASSUME NEW c \in Clients, RetryReopen(c)
      PROVE  VerdictIsTrue'
  BY <1>0, <1>9 DEF RetryReopen, VerdictIsTrue
<1>10. ASSUME NEW c \in Clients, Abandon(c)
      PROVE  VerdictIsTrue'
  BY <1>0, <1>10 DEF Abandon, NoRequest, Asking, Upsetting, VerdictIsTrue, Absent
<1>11. ASSUME NEW k \in Jobs, WorkerResume(k)
      PROVE  VerdictIsTrue'
  BY <1>0, <1>11 DEF WorkerResume, Step, Running, VerdictIsTrue, Absent
<1>12. ASSUME NEW k \in Jobs, WorkerSelect(k)
      PROVE  VerdictIsTrue'
  BY <1>0, <1>12 DEF WorkerSelect, Step, MayClaim, Running, VerdictIsTrue, Absent
<1>13. CASE WorkerClaim
  BY <1>0, <1>13 DEF WorkerClaim, ToIdle, Creating, HandlersOn, VerdictIsTrue, Absent
<1>14. CASE WorkerReset
  BY <1>0, <1>14 DEF WorkerReset, Step, WasInFlight, VerdictIsTrue, Absent
<1>15. CASE WorkerCheck
  BY <1>0, <1>15 DEF WorkerCheck, StillRunning, ToIdle, VerdictIsTrue, Absent
<1>16. CASE WorkerFetch
  BY <1>0, <1>16 DEF WorkerFetch, VerdictIsTrue
<1>17. CASE WorkerMark
  BY <1>0, <1>17 DEF WorkerMark, Step, SetRow, IsLowest, VerdictIsTrue, Absent
<1>18. CASE WorkerDispatch
  BY <1>0, <1>18 DEF WorkerDispatch, VerdictIsTrue
<1>19. CASE WorkerSettleSent
  BY <1>0, <1>19 DEF WorkerSettleSent, Step, SetRow, VerdictIsTrue, Absent
<1>20. CASE WorkerCountSent
  BY <1>0, <1>20 DEF WorkerCountSent, Bump, NextInBatch, VerdictIsTrue, Absent
<1>21. CASE WorkerCountFailed
  BY <1>0, <1>21 DEF WorkerCountFailed, Step, Bump, VerdictIsTrue, Absent
<1>22. CASE WorkerRetryLater
  BY <1>0, <1>22 DEF WorkerRetryLater, SetRow, NextInBatch, VerdictIsTrue, Absent
<1>23. CASE WorkerDeadLetter
  BY <1>0, <1>23 DEF WorkerDeadLetter, Step, SetRow, VerdictIsTrue, Absent
<1>24. CASE WorkerCountDlq
  BY <1>0, <1>24 DEF WorkerCountDlq, Bump, NextInBatch, VerdictIsTrue, Absent
<1>25. CASE WorkerVerdict
  BY <1>0, <1>25 DEF WorkerVerdict, Step, VerdictIsTrue, DeadAreCounted, Absent
<1>26. CASE WorkerFinish
  BY <1>0, <1>26 DEF WorkerFinish, Step, FinishJob, VerdictIsTrue, Absent
<1>27. CASE WorkerAnnounce
  BY <1>0, <1>27 DEF WorkerAnnounce, Bump, ToIdle, VerdictIsTrue, Absent
<1>28. CASE WorkerError
  BY <1>0, <1>28 DEF WorkerError, ToIdle, Upsetting, VerdictIsTrue, Absent
<1>29. CASE Crash
  BY <1>0, <1>29
     DEF Crash, ToIdle, Upsetting, HeldJobs, NoRequest, Asking, VerdictIsTrue, Absent
<1>30. ASSUME NEW k \in Jobs, BecomeDue(k)
      PROVE  VerdictIsTrue'
  BY <1>0, <1>30 DEF BecomeDue, VerdictIsTrue
<1> QED
  BY <1>1, <1>2, <1>3, <1>4, <1>5, <1>6, <1>7, <1>8, <1>9, <1>10, <1>11, <1>12, <1>13,
     <1>14, <1>15, <1>16, <1>17, <1>18, <1>19, <1>20, <1>21, <1>22, <1>23, <1>24, <1>25,
     <1>26, <1>27, <1>28, <1>29, <1>30
     DEF Next, Worker, Arrival, Handler

\* A retry of a finished job is on its way to reopen it.
LEMMA FinishedIsSettledStep ==
  ASSUME TypeOK, FinishedIsSettled, ClosingIsSettled, SendingIsInHand, VerdictIsTrue,
         HeldIsOpen, ClaimedComplete, CreatedOnce, Next
  PROVE  FinishedIsSettled'
<1> USE DEF jobVars, countVars, rowVars, workerVars, locals, seenVars, boundVars
<1>0. /\ rec \in [Jobs -> [Recipients -> RowStatus \cup {Absent}]]
      /\ (wpc = "idle" /\ wjob = NoJob) \/ (wpc # "idle" /\ wjob \in Jobs)
      /\ NoJob \notin Jobs
      /\ upset \in [Jobs -> SUBSET Causes]
      /\ status \in [Jobs -> JobStatus \cup {Absent}]
      /\ req \in [Clients -> Request]
      /\ verdict \in Finished
  BY BlastAssumption DEF TypeOK
<1>1. ASSUME NEW c \in Clients, NEW k \in Jobs, CreateArrive(c, k)
      PROVE  FinishedIsSettled'
  BY <1>0, <1>1 DEF CreateArrive, FinishedIsSettled
<1>2. ASSUME NEW c \in Clients, CreateDedup(c)
      PROVE  FinishedIsSettled'
  BY <1>0, <1>2 DEF CreateDedup, FinishedIsSettled
<1>3. ASSUME NEW c \in Clients, CreateJob(c)
      PROVE  FinishedIsSettled'
  BY <1>0, <1>3 DEF CreateJob, Advance, FinishedIsSettled, Absent, Finished, InHand
<1>4. ASSUME NEW c \in Clients, CreateRow(c)
      PROVE  FinishedIsSettled'
  BY <1>0, <1>4
     DEF CreateRow, Advance, SetRow, NoRequest, Asking, FinishedIsSettled,
         ClosingIsSettled, SendingIsInHand, VerdictIsTrue, HeldIsOpen, ClaimedComplete,
         CreatedOnce, Absent, Finished, InHand
<1>5. ASSUME NEW c \in Clients, NEW k \in Jobs, CancelArrive(c, k)
      PROVE  FinishedIsSettled'
  BY <1>0, <1>5 DEF CancelArrive, FinishedIsSettled
<1>6. ASSUME NEW c \in Clients, CancelUpdate(c)
      PROVE  FinishedIsSettled'
  BY <1>0, <1>6
     DEF CancelUpdate, NoRequest, Asking, FinishedIsSettled, Absent, Finished, InHand
<1>7. ASSUME NEW c \in Clients, NEW k \in Jobs, RetryArrive(c, k)
      PROVE  FinishedIsSettled'
  BY <1>0, <1>7 DEF RetryArrive, FinishedIsSettled
<1>8. ASSUME NEW c \in Clients, RetryRequeue(c)
      PROVE  FinishedIsSettled'
  BY <1>0, <1>8
     DEF RetryRequeue, NoRequest, Asking, Requeueable, FinishedIsSettled, Absent,
         Finished, InHand
<1>9. ASSUME NEW c \in Clients, RetryReopen(c)
      PROVE  FinishedIsSettled'
  BY <1>0, <1>9
     DEF RetryReopen, NoRequest, Asking, Bump, FinishedIsSettled, Absent, Finished, InHand
<1>10. ASSUME NEW c \in Clients, Abandon(c)
      PROVE  FinishedIsSettled'
  BY <1>0, <1>10
     DEF Abandon, NoRequest, Asking, Upsetting, FinishedIsSettled, Absent, Finished,
         InHand
<1>11. ASSUME NEW k \in Jobs, WorkerResume(k)
      PROVE  FinishedIsSettled'
  BY <1>0, <1>11 DEF WorkerResume, FinishedIsSettled
<1>12. ASSUME NEW k \in Jobs, WorkerSelect(k)
      PROVE  FinishedIsSettled'
  BY <1>0, <1>12 DEF WorkerSelect, FinishedIsSettled
<1>13. CASE WorkerClaim
  BY <1>0, <1>13
     DEF WorkerClaim, ToIdle, Creating, HandlersOn, FinishedIsSettled, Absent, Finished,
         InHand
<1>14. CASE WorkerReset
  BY <1>0, <1>14
     DEF WorkerReset, Step, WasInFlight, FinishedIsSettled, Absent, Finished, InHand
<1>15. CASE WorkerCheck
  BY <1>0, <1>15 DEF WorkerCheck, FinishedIsSettled
<1>16. CASE WorkerFetch
  BY <1>0, <1>16 DEF WorkerFetch, FinishedIsSettled
<1>17. CASE WorkerMark
  BY <1>0, <1>17
     DEF WorkerMark, Step, SetRow, IsLowest, FinishedIsSettled, ClosingIsSettled,
         SendingIsInHand, VerdictIsTrue, HeldIsOpen, ClaimedComplete, CreatedOnce, Absent,
         Finished, InHand
<1>18. CASE WorkerDispatch
  BY <1>0, <1>18 DEF WorkerDispatch, FinishedIsSettled
<1>19. CASE WorkerSettleSent
  BY <1>0, <1>19
     DEF WorkerSettleSent, Step, SetRow, FinishedIsSettled, Absent, Finished, InHand
<1>20. CASE WorkerCountSent
  BY <1>0, <1>20 DEF WorkerCountSent, FinishedIsSettled
<1>21. CASE WorkerCountFailed
  BY <1>0, <1>21 DEF WorkerCountFailed, FinishedIsSettled
<1>22. CASE WorkerRetryLater
  BY <1>0, <1>22
     DEF WorkerRetryLater, SetRow, NextInBatch, FinishedIsSettled, ClosingIsSettled,
         SendingIsInHand, VerdictIsTrue, HeldIsOpen, ClaimedComplete, CreatedOnce, Absent,
         Finished, InHand
<1>23. CASE WorkerDeadLetter
  BY <1>0, <1>23
     DEF WorkerDeadLetter, Step, SetRow, FinishedIsSettled, ClosingIsSettled,
         SendingIsInHand, VerdictIsTrue, HeldIsOpen, ClaimedComplete, CreatedOnce, Absent,
         Finished, InHand
<1>24. CASE WorkerCountDlq
  BY <1>0, <1>24 DEF WorkerCountDlq, FinishedIsSettled
<1>25. CASE WorkerVerdict
  BY <1>0, <1>25 DEF WorkerVerdict, FinishedIsSettled
<1>26. CASE WorkerFinish
  BY <1>0, <1>26
     DEF WorkerFinish, Step, FinishJob, FinishedIsSettled, ClosingIsSettled,
         SendingIsInHand, VerdictIsTrue, HeldIsOpen, ClaimedComplete, CreatedOnce, Absent,
         Finished, InHand
<1>27. CASE WorkerAnnounce
  BY <1>0, <1>27 DEF WorkerAnnounce, FinishedIsSettled
<1>28. CASE WorkerError
  BY <1>0, <1>28
     DEF WorkerError, ToIdle, Upsetting, FinishedIsSettled, Absent, Finished, InHand
<1>29. CASE Crash
  BY <1>0, <1>29
     DEF Crash, ToIdle, Upsetting, HeldJobs, NoRequest, Asking, FinishedIsSettled, Absent,
         Finished, InHand
<1>30. ASSUME NEW k \in Jobs, BecomeDue(k)
      PROVE  FinishedIsSettled'
  BY <1>0, <1>30 DEF BecomeDue, FinishedIsSettled
<1> QED
  BY <1>1, <1>2, <1>3, <1>4, <1>5, <1>6, <1>7, <1>8, <1>9, <1>10, <1>11, <1>12, <1>13,
     <1>14, <1>15, <1>16, <1>17, <1>18, <1>19, <1>20, <1>21, <1>22, <1>23, <1>24, <1>25,
     <1>26, <1>27, <1>28, <1>29, <1>30
     DEF Next, Worker, Arrival, Handler

\* Every event is paid for by the creation of the job or by a reopening.
LEMMA EventInvStep ==
  ASSUME TypeOK, EventInv, HeldIsOpen, CreatedOnce, Next
  PROVE  EventInv'
<1> USE DEF jobVars, countVars, rowVars, workerVars, locals, seenVars, boundVars
<1>0. /\ status \in [Jobs -> JobStatus \cup {Absent}]
      /\ (wpc = "idle" /\ wjob = NoJob) \/ (wpc # "idle" /\ wjob \in Jobs)
      /\ NoJob \notin Jobs
      /\ announced \in [Jobs -> Nat]
      /\ reopened \in [Jobs -> Nat]
      /\ req \in [Clients -> Request]
      /\ verdict \in Finished
  BY BlastAssumption DEF TypeOK
<1>1. ASSUME NEW c \in Clients, NEW k \in Jobs, CreateArrive(c, k)
      PROVE  EventInv'
  BY <1>0, <1>1 DEF CreateArrive, EventInv, Absent, Finished, Owed, Working, WorkerPC
<1>2. ASSUME NEW c \in Clients, CreateDedup(c)
      PROVE  EventInv'
  BY <1>0, <1>2
     DEF CreateDedup, Advance, EventInv, Absent, Finished, Owed, Working, WorkerPC
<1>3. ASSUME NEW c \in Clients, CreateJob(c)
      PROVE  EventInv'
  BY <1>0, <1>3
     DEF CreateJob, Advance, EventInv, HeldIsOpen, CreatedOnce, Absent, Finished, Owed,
         Working, WorkerPC
<1>4. ASSUME NEW c \in Clients, CreateRow(c)
      PROVE  EventInv'
  BY <1>0, <1>4
     DEF CreateRow, Advance, SetRow, NoRequest, Asking, EventInv, Absent, Finished, Owed,
         Working, WorkerPC
<1>5. ASSUME NEW c \in Clients, NEW k \in Jobs, CancelArrive(c, k)
      PROVE  EventInv'
  BY <1>0, <1>5
     DEF CancelArrive, Asking, EventInv, Absent, Finished, Owed, Working, WorkerPC
<1>6. ASSUME NEW c \in Clients, CancelUpdate(c)
      PROVE  EventInv'
  BY <1>0, <1>6
     DEF CancelUpdate, NoRequest, Asking, EventInv, Absent, Finished, Owed, Working,
         WorkerPC
<1>7. ASSUME NEW c \in Clients, NEW k \in Jobs, RetryArrive(c, k)
      PROVE  EventInv'
  BY <1>0, <1>7 DEF RetryArrive, Asking, EventInv, Absent, Finished, Owed, Working, WorkerPC
<1>8. ASSUME NEW c \in Clients, RetryRequeue(c)
      PROVE  EventInv'
  BY <1>0, <1>8
     DEF RetryRequeue, NoRequest, Asking, Requeueable, EventInv, Absent, Finished, Owed,
         Working, WorkerPC
<1>9. ASSUME NEW c \in Clients, RetryReopen(c)
      PROVE  EventInv'
  BY <1>0, <1>9
     DEF RetryReopen, NoRequest, Asking, Bump, EventInv, Absent, Finished, Owed, Working,
         WorkerPC
<1>10. ASSUME NEW c \in Clients, Abandon(c)
      PROVE  EventInv'
  BY <1>0, <1>10
     DEF Abandon, NoRequest, Asking, Upsetting, EventInv, Absent, Finished, Owed, Working,
         WorkerPC
<1>11. ASSUME NEW k \in Jobs, WorkerResume(k)
      PROVE  EventInv'
  BY <1>0, <1>11
     DEF WorkerResume, Step, Running, EventInv, Absent, Finished, Owed, Working, WorkerPC
<1>12. ASSUME NEW k \in Jobs, WorkerSelect(k)
      PROVE  EventInv'
  BY <1>0, <1>12
     DEF WorkerSelect, Step, MayClaim, Running, EventInv, Absent, Finished, Owed, Working,
         WorkerPC
<1>13. CASE WorkerClaim
  BY <1>0, <1>13
     DEF WorkerClaim, ToIdle, Creating, HandlersOn, EventInv, Absent, Finished, Owed,
         Working, WorkerPC
<1>14. CASE WorkerReset
  BY <1>0, <1>14
     DEF WorkerReset, Step, WasInFlight, EventInv, Absent, Finished, Owed, Working,
         WorkerPC
<1>15. CASE WorkerCheck
  BY <1>0, <1>15
     DEF WorkerCheck, StillRunning, ToIdle, EventInv, Absent, Finished, Owed, Working,
         WorkerPC
<1>16. CASE WorkerFetch
  BY <1>0, <1>16 DEF WorkerFetch, EventInv, Absent, Finished, Owed, Working, WorkerPC
<1>17. CASE WorkerMark
  BY <1>0, <1>17
     DEF WorkerMark, Step, SetRow, IsLowest, EventInv, Absent, Finished, Owed, Working,
         WorkerPC
<1>18. CASE WorkerDispatch
  BY <1>0, <1>18
     DEF WorkerDispatch, Bump, EventInv, Absent, Finished, Owed, Working, WorkerPC
<1>19. CASE WorkerSettleSent
  BY <1>0, <1>19
     DEF WorkerSettleSent, Step, SetRow, EventInv, Absent, Finished, Owed, Working,
         WorkerPC
<1>20. CASE WorkerCountSent
  BY <1>0, <1>20
     DEF WorkerCountSent, Bump, NextInBatch, EventInv, Absent, Finished, Owed, Working,
         WorkerPC
<1>21. CASE WorkerCountFailed
  BY <1>0, <1>21
     DEF WorkerCountFailed, Step, Bump, EventInv, Absent, Finished, Owed, Working,
         WorkerPC
<1>22. CASE WorkerRetryLater
  BY <1>0, <1>22
     DEF WorkerRetryLater, SetRow, NextInBatch, EventInv, Absent, Finished, Owed, Working,
         WorkerPC
<1>23. CASE WorkerDeadLetter
  BY <1>0, <1>23
     DEF WorkerDeadLetter, Step, SetRow, EventInv, Absent, Finished, Owed, Working,
         WorkerPC
<1>24. CASE WorkerCountDlq
  BY <1>0, <1>24
     DEF WorkerCountDlq, Bump, NextInBatch, EventInv, Absent, Finished, Owed, Working,
         WorkerPC
<1>25. CASE WorkerVerdict
  BY <1>0, <1>25
     DEF WorkerVerdict, Step, EventInv, Absent, Finished, Owed, Working, WorkerPC
<1>26. CASE WorkerFinish
  BY <1>0, <1>26
     DEF WorkerFinish, Step, FinishJob, EventInv, Absent, Finished, Owed, Working,
         WorkerPC
<1>27. CASE WorkerAnnounce
  BY <1>0, <1>27
     DEF WorkerAnnounce, Bump, ToIdle, EventInv, HeldIsOpen, CreatedOnce, Absent,
         Finished, Owed, Working, WorkerPC
<1>28. CASE WorkerError
  BY <1>0, <1>28
     DEF WorkerError, ToIdle, Upsetting, EventInv, Absent, Finished, Owed, Working,
         WorkerPC
<1>29. CASE Crash
  BY <1>0, <1>29
     DEF Crash, ToIdle, Upsetting, HeldJobs, NoRequest, Asking, EventInv, Absent,
         Finished, Owed, Working, WorkerPC
<1>30. ASSUME NEW k \in Jobs, BecomeDue(k)
      PROVE  EventInv'
  BY <1>0, <1>30 DEF BecomeDue, EventInv, Absent, Finished, Owed, Working, WorkerPC
<1> QED
  BY <1>1, <1>2, <1>3, <1>4, <1>5, <1>6, <1>7, <1>8, <1>9, <1>10, <1>11, <1>12, <1>13,
     <1>14, <1>15, <1>16, <1>17, <1>18, <1>19, <1>20, <1>21, <1>22, <1>23, <1>24, <1>25,
     <1>26, <1>27, <1>28, <1>29, <1>30
     DEF Next, Worker, Arrival, Handler

\* A cancel finds at most one batch ahead of the worker.
LEMMA LateInvStep ==
  ASSUME TypeOK, LateInv, BatchIsFresh, Next
  PROVE  LateInv'
<1> USE DEF jobVars, countVars, rowVars, workerVars, locals, seenVars, boundVars
<1>0. /\ status \in [Jobs -> JobStatus \cup {Absent}]
      /\ (wpc = "idle" /\ wjob = NoJob) \/ (wpc # "idle" /\ wjob \in Jobs)
      /\ NoJob \notin Jobs
      /\ late \in [Jobs -> Nat]
      /\ batch \in SUBSET Recipients /\ Cardinality(batch) \in Nat /\ Cardinality({}) = 0
      /\ BatchSize \in Nat \ {0}
      /\ verdict \in Finished
  BY BlastAssumption, RowsAreFinite, FS_EmptySet DEF TypeOK
<1>1. ASSUME NEW c \in Clients, NEW k \in Jobs, CreateArrive(c, k)
      PROVE  LateInv'
  BY <1>0, <1>1 DEF CreateArrive, LateInv, Ahead, Finished, Absent, InLoop, InHand
<1>2. ASSUME NEW c \in Clients, CreateDedup(c)
      PROVE  LateInv'
  BY <1>0, <1>2 DEF CreateDedup, Advance, LateInv, Ahead, Finished, Absent, InLoop, InHand
<1>3. ASSUME NEW c \in Clients, CreateJob(c)
      PROVE  LateInv'
  BY <1>0, <1>3 DEF CreateJob, Advance, LateInv, Ahead, Finished, Absent, InLoop, InHand
<1>4. ASSUME NEW c \in Clients, CreateRow(c)
      PROVE  LateInv'
  BY <1>0, <1>4
     DEF CreateRow, Advance, SetRow, NoRequest, Asking, LateInv, Ahead, Finished, Absent,
         InLoop, InHand
<1>5. ASSUME NEW c \in Clients, NEW k \in Jobs, CancelArrive(c, k)
      PROVE  LateInv'
  BY <1>0, <1>5 DEF CancelArrive, Asking, LateInv, Ahead, Finished, Absent, InLoop, InHand
<1>6. ASSUME NEW c \in Clients, CancelUpdate(c)
      PROVE  LateInv'
  BY <1>0, <1>6
     DEF CancelUpdate, NoRequest, Asking, LateInv, Ahead, Finished, Absent, InLoop, InHand
<1>7. ASSUME NEW c \in Clients, NEW k \in Jobs, RetryArrive(c, k)
      PROVE  LateInv'
  BY <1>0, <1>7 DEF RetryArrive, Asking, LateInv, Ahead, Finished, Absent, InLoop, InHand
<1>8. ASSUME NEW c \in Clients, RetryRequeue(c)
      PROVE  LateInv'
  BY <1>0, <1>8
     DEF RetryRequeue, NoRequest, Asking, Requeueable, LateInv, Ahead, Finished, Absent,
         InLoop, InHand
<1>9. ASSUME NEW c \in Clients, RetryReopen(c)
      PROVE  LateInv'
  BY <1>0, <1>9
     DEF RetryReopen, NoRequest, Asking, Bump, LateInv, Ahead, Finished, Absent, InLoop,
         InHand
<1>10. ASSUME NEW c \in Clients, Abandon(c)
      PROVE  LateInv'
  BY <1>0, <1>10
     DEF Abandon, NoRequest, Asking, Upsetting, LateInv, Ahead, Finished, Absent, InLoop,
         InHand
<1>11. ASSUME NEW k \in Jobs, WorkerResume(k)
      PROVE  LateInv'
  BY <1>0, <1>11
     DEF WorkerResume, Step, Running, LateInv, Ahead, Finished, Absent, InLoop, InHand
<1>12. ASSUME NEW k \in Jobs, WorkerSelect(k)
      PROVE  LateInv'
  BY <1>0, <1>12
     DEF WorkerSelect, Step, MayClaim, Running, LateInv, Ahead, Finished, Absent, InLoop,
         InHand
<1>13. CASE WorkerClaim
  BY <1>0, <1>13
     DEF WorkerClaim, ToIdle, Creating, HandlersOn, LateInv, Ahead, Finished, Absent,
         InLoop, InHand
<1>14. CASE WorkerReset
  BY <1>0, <1>14
     DEF WorkerReset, Step, WasInFlight, LateInv, Ahead, Finished, Absent, InLoop, InHand
<1>15. CASE WorkerCheck
  BY <1>0, <1>15
     DEF WorkerCheck, StillRunning, ToIdle, LateInv, Ahead, Finished, Absent, InLoop,
         InHand
<1>16. CASE WorkerFetch
  <2>1. batch' = FirstPending(wjob) /\ Cardinality(batch') <= BatchSize
    BY <1>16, BatchIsBounded DEF WorkerFetch
  <2>2. Cardinality(batch') \in Nat
    BY <2>1, RowsAreFinite DEF FirstPending, RowsIn
  <2> QED
    BY <1>0, <1>16, <2>1, <2>2 DEF WorkerFetch, LateInv, Ahead, InLoop, InHand
<1>17. CASE WorkerMark
  <2>1. PICK r \in batch : batch' = batch \ {r}
    BY <1>17 DEF WorkerMark, IsLowest
  <2>2. Cardinality(batch') = Cardinality(batch) - 1
    BY <2>1, RowsAreFinite, <1>0, FS_RemoveElement
  <2> QED
    BY <1>0, <1>17, <2>2 DEF WorkerMark, Step, LateInv, Ahead, InLoop, InHand
<1>18. CASE WorkerDispatch
  BY <1>0, <1>18 DEF WorkerDispatch, Bump, LateInv, Ahead, Finished, Absent, InLoop, InHand
<1>19. CASE WorkerSettleSent
  BY <1>0, <1>19
     DEF WorkerSettleSent, Step, SetRow, LateInv, Ahead, Finished, Absent, InLoop, InHand
<1>20. CASE WorkerCountSent
  BY <1>0, <1>20
     DEF WorkerCountSent, Bump, NextInBatch, LateInv, Ahead, Finished, Absent, InLoop,
         InHand
<1>21. CASE WorkerCountFailed
  BY <1>0, <1>21
     DEF WorkerCountFailed, Step, Bump, LateInv, Ahead, Finished, Absent, InLoop, InHand
<1>22. CASE WorkerRetryLater
  BY <1>0, <1>22
     DEF WorkerRetryLater, SetRow, NextInBatch, LateInv, Ahead, Finished, Absent, InLoop,
         InHand
<1>23. CASE WorkerDeadLetter
  BY <1>0, <1>23
     DEF WorkerDeadLetter, Step, SetRow, LateInv, Ahead, Finished, Absent, InLoop, InHand
<1>24. CASE WorkerCountDlq
  BY <1>0, <1>24
     DEF WorkerCountDlq, Bump, NextInBatch, LateInv, Ahead, Finished, Absent, InLoop,
         InHand
<1>25. CASE WorkerVerdict
  BY <1>0, <1>25 DEF WorkerVerdict, Step, LateInv, Ahead, Finished, Absent, InLoop, InHand
<1>26. CASE WorkerFinish
  BY <1>0, <1>26
     DEF WorkerFinish, Step, FinishJob, LateInv, Ahead, Finished, Absent, InLoop, InHand
<1>27. CASE WorkerAnnounce
  BY <1>0, <1>27
     DEF WorkerAnnounce, Bump, ToIdle, LateInv, Ahead, Finished, Absent, InLoop, InHand
<1>28. CASE WorkerError
  BY <1>0, <1>28
     DEF WorkerError, ToIdle, Upsetting, LateInv, Ahead, Finished, Absent, InLoop, InHand
<1>29. CASE Crash
  BY <1>0, <1>29
     DEF Crash, ToIdle, Upsetting, HeldJobs, NoRequest, Asking, LateInv, Ahead, Finished,
         Absent, InLoop, InHand
<1>30. ASSUME NEW k \in Jobs, BecomeDue(k)
      PROVE  LateInv'
  BY <1>0, <1>30 DEF BecomeDue, LateInv, Ahead, Finished, Absent, InLoop, InHand
<1> QED
  BY <1>1, <1>2, <1>3, <1>4, <1>5, <1>6, <1>7, <1>8, <1>9, <1>10, <1>11, <1>12, <1>13,
     <1>14, <1>15, <1>16, <1>17, <1>18, <1>19, <1>20, <1>21, <1>22, <1>23, <1>24, <1>25,
     <1>26, <1>27, <1>28, <1>29, <1>30
     DEF Next, Worker, Arrival, Handler

\* Only mark_recipient_sent makes a row `sent`.
LEMMA SentRowsKept ==
  ASSUME TypeOK, RowInv, Next, ~WorkerSettleSent, NEW j \in Jobs, NEW r \in Recipients,
         rec'[j][r] = "sent"
  PROVE  rec[j][r] = "sent"
<1>0. wpc # "idle" => wjob \in Jobs
  BY RowTypes
<1>1. ASSUME NEW c \in Clients, Arrival(c) \/ Handler(c) \/ Abandon(c)
      PROVE  rec[j][r] = "sent"
  BY <1>1, HandlerRows DEF HandlerRowStep
<1>2. CASE WorkerReset
  BY <1>2 DEF WorkerReset, WasInFlight, TypeOK
<1>3. ASSUME NEW q \in Recipients, NEW st, SetRow(wjob, q, st), wjob \in Jobs, st # "sent"
      PROVE  rec[j][r] = "sent"
  BY <1>3, SetRowEffect DEF TypeOK
<1>4. CASE WorkerMark
  BY <1>0, <1>3, <1>4 DEF WorkerMark, Step
<1>5. CASE WorkerRetryLater \/ WorkerDeadLetter
  BY <1>0, <1>3, <1>5 DEF WorkerRetryLater, WorkerDeadLetter, Step, RowInv, HandIsFresh,
                          InHand
<1>6. CASE \/ WorkerClaim \/ WorkerCheck \/ WorkerFetch \/ WorkerDispatch \/ WorkerCountSent
           \/ WorkerCountFailed \/ WorkerCountDlq \/ WorkerVerdict \/ WorkerFinish
           \/ WorkerAnnounce \/ WorkerError \/ Crash
  BY <1>6 DEF WorkerClaim, WorkerCheck, WorkerFetch, WorkerDispatch, WorkerCountSent,
              WorkerCountFailed, WorkerCountDlq, WorkerVerdict, WorkerFinish,
              WorkerAnnounce, WorkerError, Crash, rowVars
<1>7. ASSUME NEW k \in Jobs, WorkerResume(k) \/ WorkerSelect(k) \/ BecomeDue(k)
      PROVE  rec[j][r] = "sent"
  BY <1>7 DEF WorkerResume, WorkerSelect, BecomeDue, rowVars
<1> QED
  BY <1>1, <1>2, <1>4, <1>5, <1>6, <1>7 DEF Next, Worker

\* How many rows of job j are sent, and how many of them are being counted.
SentRows(j) == Cardinality(RowsIn(j, "sent"))
Uncounted(j) == IF wjob = j /\ wpc = "count_sent" THEN 1 ELSE 0

LEMMA SentRowsType == \A j : SentRows(j) \in Nat /\ SentRows(j)' \in Nat
<1>1. \A j : RowsIn(j, "sent") \in SUBSET Recipients /\ RowsIn(j, "sent")' \in SUBSET Recipients
  BY DEF RowsIn
<1> QED
  BY <1>1, RowsAreFinite DEF SentRows

\* SentCountLags in these terms.
Lags ==
  \A j \in Jobs : /\ sentCount[j] + Uncounted(j) <= SentRows(j)
                  /\ SentRows(j) <= sentCount[j] + Uncounted(j) + faults

LEMMA LagsIsIt == Lags => SentCountLags
BY DEF Lags, SentCountLags, SentRows, Uncounted

LEMMA LagsStep ==
  ASSUME TypeOK, RowInv, Lags, Next
  PROVE  Lags'
<1>0. /\ sentCount \in [Jobs -> Nat] /\ faults \in Nat
      /\ wpc = "idle" \/ wjob \in Jobs
      /\ NoJob \notin Jobs
      /\ \A j \in Jobs : SentRows(j) \in Nat /\ SentRows(j)' \in Nat
  BY BlastAssumption, SentRowsType DEF TypeOK
<1>3. CASE WorkerSettleSent
  <2>1. /\ wpc = "settle_sent" /\ wpc' = "count_sent" /\ wjob \in Jobs /\ wjob' = wjob
        /\ current \in Recipients /\ rec[wjob][current] = "sending"
        /\ UNCHANGED <<sentCount, faults>> /\ SetRow(wjob, current, "sent")
    BY <1>0, <1>3 DEF WorkerSettleSent, Step, RowInv, HandIsFresh, InHand, countVars,
                      boundVars
  <2>2. \A j \in Jobs, q \in Recipients :
          rec'[j][q] = IF j = wjob /\ q = current THEN "sent" ELSE rec[j][q]
    BY <2>1, SetRowEffect DEF TypeOK
  <2>3. ASSUME NEW j \in Jobs, j # wjob
        PROVE  SentRows(j)' = SentRows(j)
    <3>1. RowsIn(j, "sent")' = RowsIn(j, "sent")
      BY <2>2, <2>3 DEF RowsIn
    <3> QED
      BY <3>1 DEF SentRows
  <2>4. SentRows(wjob)' = SentRows(wjob) + 1
    <3> DEFINE S == RowsIn(wjob, "sent")
    <3>1. RowsIn(wjob, "sent")' = S \cup {current} /\ current \notin S
      BY <2>1, <2>2 DEF RowsIn
    <3>2. IsFiniteSet(S)
      BY RowsAreFinite DEF RowsIn
    <3> HIDE DEF S
    <3>3. Cardinality(S \cup {current}) = Cardinality(S) + 1
      BY <3>1, <3>2, FS_AddElement
    <3> QED
      BY <3>1, <3>3 DEF S, SentRows
  <2> QED
    BY <1>0, <2>1, <2>3, <2>4 DEF Lags, Uncounted
<1>4. CASE ~WorkerSettleSent
  <2>1. ASSUME NEW j \in Jobs PROVE SentRows(j)' = SentRows(j)
    <3>1. RowsIn(j, "sent")' = RowsIn(j, "sent")
      BY <1>4, SentStep, SentRowsKept DEF RowsIn
    <3> QED
      BY <3>1 DEF SentRows
  <2>2. ASSUME UNCHANGED sentCount, faults' \in Nat, faults' >= faults,
               \/ UNCHANGED workerVars
               \/ wpc # "count_sent" /\ wpc' # "count_sent"
               \/ wpc' = "idle" /\ faults' = faults + 1
        PROVE  Lags'
    BY <1>0, <2>1, <2>2 DEF workerVars, Lags, Uncounted
  <2>3. ASSUME NEW c \in Clients, Arrival(c) \/ Handler(c) \/ Abandon(c)
        PROVE  Lags'
    <3>1. UNCHANGED workerVars /\ faults' >= faults
      BY <2>3, HandlerRows DEF HandlerRowStep
    <3>2. UNCHANGED sentCount
      BY <2>3 DEF Arrival, Handler, CreateArrive, CancelArrive, RetryArrive, CreateDedup,
                  CreateJob, CreateRow, CancelUpdate, RetryRequeue, RetryReopen, Abandon,
                  countVars
    <3>3. faults' \in Nat
      BY NextTypeOK, BlastAssumption DEF TypeOK
    <3> QED
      BY <2>2, <3>1, <3>2, <3>3
  <2>4. ASSUME NEW j \in Jobs, WorkerResume(j) \/ WorkerSelect(j) \/ BecomeDue(j)
        PROVE  Lags'
    BY <1>0, <2>2, <2>4
       DEF WorkerResume, WorkerSelect, BecomeDue, Step, countVars, boundVars
  <2>5. CASE \/ WorkerClaim \/ WorkerReset \/ WorkerCheck \/ WorkerFetch \/ WorkerMark
             \/ WorkerDispatch \/ WorkerCountFailed \/ WorkerRetryLater
    BY <1>0, <2>2, <2>5 DEF WorkerClaim, WorkerReset, WorkerCheck, WorkerFetch, WorkerMark,
         WorkerDispatch, WorkerCountFailed, WorkerRetryLater, NextInBatch, ToIdle, Step,
         countVars, boundVars
  <2>6. CASE \/ WorkerDeadLetter \/ WorkerCountDlq \/ WorkerVerdict \/ WorkerFinish
             \/ WorkerAnnounce \/ WorkerError \/ Crash
    BY <1>0, <2>2, <2>6 DEF WorkerDeadLetter, WorkerCountDlq, WorkerVerdict, WorkerFinish,
         WorkerAnnounce, WorkerError, Crash, NextInBatch, ToIdle, Step, countVars, boundVars
  <2>7. CASE WorkerCountSent
    <3>1. /\ wpc = "count_sent" /\ wpc' # "count_sent" /\ wjob \in Jobs
          /\ sentCount' = Bump(sentCount, wjob) /\ UNCHANGED faults
      BY <1>0, <2>7 DEF WorkerCountSent, NextInBatch, boundVars
    <3>2. \A j \in Jobs : sentCount'[j] = IF j = wjob THEN sentCount[j] + 1 ELSE sentCount[j]
      BY <1>0, <3>1 DEF Bump
    <3> QED
      BY <1>0, <2>1, <3>1, <3>2 DEF Lags, Uncounted
  <2> QED
    BY <1>4, <2>3, <2>4, <2>5, <2>6, <2>7 DEF Next, Worker
<1> QED
  BY <1>3, <1>4

\* Together; ToldInv rests on RowInv for the row in hand and the rest of the batch.
ToldInv == HandledInv /\ SettledInv /\ LateInv /\ EventInv /\ Lags

LEMMA InitToldInv == Init => ToldInv
<1> SUFFICES ASSUME Init PROVE ToldInv
  OBVIOUS
<1>1. HandledInv
  BY BlastAssumption
     DEF Init, HandledInv, HeldIsOpen, CreatedOnce, ClaimedComplete, NoRequest, Asking,
         Absent, Finished
<1>2. SettledInv
  BY BlastAssumption
     DEF Init, SettledInv, SendingIsInHand, ClosingIsSettled, DeadAreCounted, VerdictIsTrue,
         FinishedIsSettled, Absent, Finished
<1>3. LateInv
  BY BlastAssumption, FS_EmptySet DEF Init, LateInv, Ahead, InLoop, InHand
<1>4. EventInv
  BY BlastAssumption DEF Init, EventInv, Owed, Absent
<1>5. Lags
  <2>1. \A j \in Jobs : RowsIn(j, "sent") = {}
    BY DEF Init, RowsIn, Absent
  <2> QED
    BY <2>1, FS_EmptySet DEF Init, Lags, SentRows, Uncounted
<1> QED
  BY <1>1, <1>2, <1>3, <1>4, <1>5 DEF ToldInv

LEMMA ToldInvStep ==
  ASSUME TypeOK, RowInv, ToldInv, [Next]_vars
  PROVE  ToldInv'
<1>1. CASE UNCHANGED vars
  <2> USE <1>1 DEF vars, jobVars, countVars, rowVars, workerVars, locals, seenVars, boundVars
  <2>1. HandledInv'
    BY DEF ToldInv, HandledInv, HeldIsOpen, CreatedOnce, ClaimedComplete
  <2>2. SettledInv'
    BY DEF ToldInv, SettledInv, SendingIsInHand, ClosingIsSettled, DeadAreCounted,
           VerdictIsTrue, FinishedIsSettled
  <2>3. LateInv'
    BY DEF ToldInv, LateInv, Ahead
  <2>4. EventInv'
    BY DEF ToldInv, EventInv, Owed
  <2>5. Lags'
    BY DEF ToldInv, Lags, SentRows, RowsIn, Uncounted
  <2> QED
    BY <2>1, <2>2, <2>3, <2>4, <2>5 DEF ToldInv
<1>2. CASE Next
  <2>1. HandledInv'
    BY <1>2, HeldIsOpenStep, CreatedOnceStep, ClaimedCompleteStep DEF ToldInv, HandledInv
  <2>2. SettledInv'
    BY <1>2, SendingIsInHandStep, ClosingIsSettledStep, DeadAreCountedStep,
       VerdictIsTrueStep, FinishedIsSettledStep DEF ToldInv, HandledInv, SettledInv
  <2>3. LateInv'
    BY <1>2, LateInvStep DEF ToldInv, RowInv
  <2>4. EventInv'
    BY <1>2, EventInvStep DEF ToldInv, HandledInv
  <2>5. Lags'
    BY <1>2, LagsStep DEF ToldInv
  <2> QED
    BY <2>1, <2>2, <2>3, <2>4, <2>5 DEF ToldInv
<1> QED
  BY <1>1, <1>2

\* Who may write what of a job that nothing upset, which events it may still cause and how
\* many messages of a cancelled one may still go out.
THEOREM ToldInvariant == Spec => [](TypeOK /\ WorkerInv /\ ToldInv)
<1>1. TypeOK /\ WorkerInv /\ ToldInv /\ [Next]_vars => ToldInv'
  BY ToldInvStep DEF WorkerInv, RowInv
<1> QED
  BY <1>1, InitToldInv, WorkerInvariant, PTL DEF Spec

\* What the owner of a job is told of it is true: its figures, its verdict, that it is
\* cancelled, and its events, whatever the handlers do between the worker's statements.
THEOREM OwnersAreTold == Spec => []JobsAreTold
<1>1. ASSUME TypeOK, ToldInv
      PROVE  JobsAreTold
  <2>1. SentCountLags
    BY <1>1, LagsIsIt DEF ToldInv
  <2>2. CompletionSettles
    BY <1>1
       DEF ToldInv, SettledInv, FinishedIsSettled, CompletionSettles, HandlersOn, RowsIn
  <2>3. \A j \in Jobs : late[j] <= BatchSize
    BY <1>1 DEF ToldInv, LateInv
  <2>4. \A j \in Jobs : announced[j] <= 1 + reopened[j]
    <3> SUFFICES ASSUME NEW j \in Jobs
                 PROVE  announced[j] <= 1 + reopened[j]
      OBVIOUS
    <3>1. announced[j] + Owed(j) <= 1 + reopened[j]
      BY <1>1 DEF ToldInv, EventInv
    <3>2. announced[j] \in Nat /\ reopened[j] \in Nat
      BY <1>1 DEF TypeOK
    <3>3. Owed(j) \in Nat
      BY DEF Owed
    <3> QED
      BY <3>1, <3>2, <3>3
  <2> QED
    BY <2>1, <2>2, <2>3, <2>4 DEF JobsAreTold
<1> QED
  BY <1>1, ToldInvariant, PTL

-----------------------------------------------------------------------------
(* Blast implements BlastLedger: each statement of the worker and of the    *)
(* handlers is one step of the ledger or none.                              *)

\* The ledger's view of the rows.
States == [j \in Jobs |-> [r \in Recipients |-> PairOf[rec[j][r]]]]

LedgerStep == [Ledger!LedgerNext]_(Ledger!ledger)

LEMMA StatesUnchanged == UNCHANGED rec => UNCHANGED States
BY DEF States

\* Overwriting one row overwrites one entry of the ledger.
LEMMA StatesFollow ==
  ASSUME TypeOK, NEW j \in Jobs, NEW r \in Recipients, NEW st, SetRow(j, r, st)
  PROVE  States' = [States EXCEPT ![j][r] = PairOf[st]]
<1>1. ASSUME NEW k \in Jobs, NEW q \in Recipients
      PROVE  rec'[k][q] = IF k = j /\ q = r THEN st ELSE rec[k][q]
  BY <1>1, SetRowEffect DEF TypeOK
<1>2. ASSUME NEW k \in Jobs
      PROVE  States'[k] = [States EXCEPT ![j][r] = PairOf[st]][k]
  BY <1>1, <1>2 DEF States
<1>3. QED
  BY <1>2 DEF States

LEMMA LedgerInit == Init => Ledger!LedgerInit
BY DEF Init, Ledger!LedgerInit, PairOf, Absent

LEMMA Stutter ==
  ASSUME UNCHANGED <<rec, attempts, accepted>>
  PROVE  LedgerStep
BY DEF LedgerStep, Ledger!ledger

LEMMA RequeueStep ==
  ASSUME NEW j \in Jobs, Ledger!Requeue(j)
  PROVE  LedgerStep
<1>1. Ledger!LedgerNext
  BY Zenon DEF Ledger!LedgerNext
<1>2. QED
  BY <1>1 DEF LedgerStep

LEMMA PairStep ==
  ASSUME NEW j \in Jobs, NEW r \in Recipients,
         \/ Ledger!Enter(j, r) \/ Ledger!HandOver(j, r)
         \/ Ledger!RecordDelivery(j, r) \/ Ledger!RecordFailure(j, r)
  PROVE  LedgerStep
<1>1. Ledger!LedgerNext
  BY Zenon DEF Ledger!LedgerNext
<1>2. QED
  BY <1>1 DEF LedgerStep

\* A handler's step: nothing, one new pair, or the requeue of a job's dead pairs.
LEMMA HandlerRefines ==
  ASSUME TypeOK, NEW c \in Clients, Arrival(c) \/ Handler(c) \/ Abandon(c)
  PROVE  LedgerStep
<1>1. ASSUME NEW j \in Jobs, CreateArrive(c, j) \/ CancelArrive(c, j) \/ RetryArrive(c, j)
      PROVE  LedgerStep
  BY <1>1, Stutter DEF CreateArrive, CancelArrive, RetryArrive, rowVars, seenVars
<1>2. CASE CreateDedup(c) \/ CreateJob(c) \/ CancelUpdate(c) \/ RetryReopen(c) \/ Abandon(c)
  BY <1>2, Stutter DEF CreateDedup, CreateJob, CancelUpdate, RetryReopen, Abandon,
                       rowVars, seenVars
<1>3. CASE CreateRow(c)
  <2> DEFINE j == req[c].job
  <2>1. UNCHANGED <<attempts, accepted>>
    BY <1>3 DEF CreateRow, seenVars
  <2>2. PICK r \in Recipients :
          \/ UNCHANGED rec
          \/ /\ rec[j][r] = Absent
             /\ SetRow(j, r, "pending") \/ SetRow(j, r, "skipped_dup")
    BY <1>3 DEF CreateRow
  <2>3. CASE UNCHANGED rec
    BY <2>1, <2>3, Stutter
  <2>4. CASE j \notin Jobs
    BY <2>1, <2>2, <2>4, OutsideTable, Stutter DEF TypeOK, SetRow
  <2>5. ASSUME NEW k \in Jobs, rec[k][r] = Absent, NEW st \in {"pending", "skipped_dup"},
               SetRow(k, r, st)
        PROVE  LedgerStep
    <3>1. States' = [States EXCEPT ![k][r] = PairOf[st]]
      BY <2>5, StatesFollow
    <3>2. States[k][r] = "absent" /\ PairOf[st] \in {"queued", "skipped"}
      BY <2>5 DEF States, PairOf, Absent
    <3>3. Ledger!Enter(k, r)
      BY <2>1, <3>1, <3>2 DEF Ledger!Enter, States
    <3>4. QED
      BY <2>5, <3>3, PairStep
  <2>6. QED
    BY <2>2, <2>3, <2>4, <2>5
<1>4. CASE RetryRequeue(c)
  <2> DEFINE j == req[c].job
             dead == {r \in Recipients : Requeueable(rec[j][r])}
  <2>1. /\ UNCHANGED accepted
        /\ rec' = [rec EXCEPT ![j] =
                     [r \in Recipients |-> IF r \in dead THEN "pending" ELSE @[r]]]
        /\ attempts' = [attempts EXCEPT ![j] =
                          [r \in Recipients |-> IF r \in dead THEN 0 ELSE @[r]]]
    BY <1>4 DEF RetryRequeue
  <2>2. CASE j \notin Jobs
    <3>1. PICK row, tries : /\ rec' = [rec EXCEPT ![j] = row]
                            /\ attempts' = [attempts EXCEPT ![j] = tries]
      BY <2>1
    <3>2. rec' = rec /\ attempts' = attempts
      BY <2>2, <3>1, OutsideTable DEF TypeOK
    <3>3. QED
      BY <2>1, <3>2, Stutter
  <2>3. CASE j \in Jobs /\ dead = {}
    <3>1. rec' = rec /\ attempts' = attempts
      BY <2>1, <2>3 DEF TypeOK
    <3>2. QED
      BY <2>1, <3>1, Stutter
  <2>4. CASE j \in Jobs /\ dead # {}
    <3>1. dead = {r \in Recipients : States[j][r] = "dead"}
      BY <2>4 DEF States, Requeueable, PairOf, TypeOK, RowStatus, Absent
    <3>2. States' = [States EXCEPT ![j] =
                       [r \in Recipients |-> IF r \in dead THEN "queued" ELSE @[r]]]
      BY <2>1, <2>4 DEF States, PairOf, TypeOK
    <3>3. PICK k \in Jobs : k = j
      BY <2>4
    <3>4. Ledger!Requeue(k)
      BY <2>1, <2>4, <3>1, <3>2, <3>3 DEF Ledger!Requeue, States
    <3>5. QED
      BY <3>4, RequeueStep
  <2>5. QED
    BY <2>2, <2>3, <2>4
<1>5. QED
  BY <1>1, <1>2, <1>3, <1>4 DEF Arrival, Handler

LEMMA WorkerRefines ==
  ASSUME TypeOK, RowInv, Worker
  PROVE  LedgerStep
<1>0. wpc # "idle" => wjob \in Jobs
  BY RowTypes
<1>1. wpc \in InHand => /\ current \in Recipients
                        /\ States[wjob][current] = "queued"
                        /\ snapshot[current] = attempts[wjob][current]
                        /\ attempts[wjob][current] \in 0..(Cap - 1)
  <2>1. SUFFICES ASSUME wpc \in InHand
                 PROVE  /\ current \in Recipients
                        /\ States[wjob][current] = "queued"
                        /\ snapshot[current] = attempts[wjob][current]
                        /\ attempts[wjob][current] \in 0..(Cap - 1)
    OBVIOUS
  <2>2. wjob \in Jobs /\ current \in Recipients /\ rec[wjob][current] = "sending"
    BY <1>0, <2>1 DEF RowInv, HandIsFresh, InHand
  <2>3. QED
    BY <2>1, <2>2, RowTypes DEF RowInv, HandIsFresh, AttemptsCapped, States, PairOf
<1>2. ASSUME NEW j \in Jobs, WorkerResume(j) \/ WorkerSelect(j) PROVE LedgerStep
  BY <1>2, Stutter DEF WorkerResume, WorkerSelect, rowVars, seenVars
<1>3. CASE WorkerClaim \/ WorkerCheck \/ WorkerFetch \/ WorkerCountSent \/ WorkerCountFailed
  BY <1>3, Stutter DEF WorkerClaim, WorkerCheck, WorkerFetch, WorkerCountSent,
                       WorkerCountFailed, rowVars, seenVars
<1>4. CASE WorkerCountDlq \/ WorkerVerdict \/ WorkerFinish \/ WorkerAnnounce
  BY <1>4, Stutter DEF WorkerCountDlq, WorkerVerdict, WorkerFinish, WorkerAnnounce,
                       rowVars, seenVars
\* Marking and resetting a row leave it queued.
<1>5. CASE WorkerReset
  <2>1. \A j \in Jobs, r \in Recipients : PairOf[rec'[j][r]] = PairOf[rec[j][r]]
    BY <1>5 DEF WorkerReset, WasInFlight, TypeOK, PairOf
  <2>2. States' = States
    BY <2>1 DEF States
  <2>3. QED
    BY <1>5, <2>2 DEF WorkerReset, LedgerStep, Ledger!ledger, States, seenVars
<1>6. CASE WorkerMark
  <2>1. PICK r \in batch : SetRow(wjob, r, "sending")
    BY <1>6 DEF WorkerMark, IsLowest
  <2>2. r \in Recipients /\ wjob \in Jobs /\ rec[wjob][r] = "pending"
    BY <1>0, <1>6, <2>1, RowTypes DEF WorkerMark, Step, RowInv, BatchIsFresh
  <2>3. \A j \in Jobs, q \in Recipients : PairOf[rec'[j][q]] = PairOf[rec[j][q]]
    BY <2>1, <2>2, SetRowEffect DEF PairOf, TypeOK
  <2>4. States' = States
    BY <2>3 DEF States
  <2>5. QED
    BY <1>6, <2>4 DEF WorkerMark, LedgerStep, Ledger!ledger, States, seenVars
<1>7. CASE WorkerDispatch
  <2>1. /\ wjob \in Jobs /\ current \in Recipients /\ States[wjob][current] = "queued"
        /\ UNCHANGED <<rec, attempts>>
        /\ \/ accepted' = accepted
           \/ accepted' = [accepted EXCEPT ![wjob][current] = @ + 1]
    BY <1>0, <1>1, <1>7 DEF WorkerDispatch, InHand, rowVars
  <2>2. CASE accepted' = accepted
    BY <2>1, <2>2, Stutter
  <2>3. CASE accepted' = [accepted EXCEPT ![wjob][current] = @ + 1]
    <3>1. PICK j \in Jobs, r \in Recipients : j = wjob /\ r = current
      BY <2>1
    <3>2. Ledger!HandOver(j, r)
      BY <2>1, <2>3, <3>1, StatesUnchanged DEF Ledger!HandOver, States
    <3>3. QED
      BY <3>2, PairStep
  <2>4. QED
    BY <2>1, <2>2, <2>3
<1>8. CASE WorkerSettleSent
  <2>1. /\ wjob \in Jobs /\ current \in Recipients /\ States[wjob][current] = "queued"
        /\ SetRow(wjob, current, "sent")
        /\ UNCHANGED <<attempts, accepted>>
    BY <1>0, <1>1, <1>8 DEF WorkerSettleSent, Step, InHand, seenVars
  <2>2. States' = [States EXCEPT ![wjob][current] = "delivered"]
    BY <2>1, StatesFollow DEF PairOf
  <2>3. accepted[wjob][current] > 0
    BY <2>1, <1>8 DEF WorkerSettleSent, Step, RowInv, CopiesArePaid, Settling
  <2>4. PICK j \in Jobs, r \in Recipients : j = wjob /\ r = current
    BY <2>1
  <2>5. Ledger!RecordDelivery(j, r)
    BY <2>1, <2>2, <2>3, <2>4 DEF Ledger!RecordDelivery, States
  <2>6. QED
    BY <2>5, PairStep
<1>9. CASE WorkerRetryLater \/ WorkerDeadLetter
  <2>1. /\ wjob \in Jobs /\ current \in Recipients /\ States[wjob][current] = "queued"
        /\ attempts[wjob][current] \in 0..(Cap - 1)
        /\ attempts' = [attempts EXCEPT ![wjob][current] = @ + 1]
        /\ UNCHANGED accepted
    BY <1>0, <1>1, <1>9 DEF WorkerRetryLater, WorkerDeadLetter, Step, InHand, seenVars
  <2>2. SetRow(wjob, current, IF attempts[wjob][current] + 1 = Cap THEN "dlq" ELSE "pending")
    BY <1>1, <1>9, <2>1, CapType
       DEF WorkerRetryLater, WorkerDeadLetter, Step, InHand, AttemptsLeft
  <2>3. States' = [States EXCEPT ![wjob][current] =
                     IF attempts[wjob][current] + 1 = Cap THEN "dead" ELSE "queued"]
    BY <2>1, <2>2, StatesFollow DEF PairOf
  <2>4. PICK j \in Jobs, r \in Recipients : j = wjob /\ r = current
    BY <2>1
  <2>5. Ledger!RecordFailure(j, r)
    BY <2>1, <2>3, <2>4 DEF Ledger!RecordFailure, States
  <2>6. QED
    BY <2>5, PairStep
<1>10. QED
  BY <1>2, <1>3, <1>4, <1>5, <1>6, <1>7, <1>8, <1>9 DEF Worker

LEMMA StepRefines ==
  ASSUME TypeOK, RowInv, [Next]_vars
  PROVE  LedgerStep
<1>1. CASE UNCHANGED vars
  BY <1>1, Stutter DEF vars, rowVars, seenVars
<1>2. CASE WorkerError \/ Crash
  BY <1>2, Stutter DEF WorkerError, Crash, rowVars
<1>3. ASSUME NEW j \in Jobs, BecomeDue(j) PROVE LedgerStep
  BY <1>3, Stutter DEF BecomeDue, rowVars, seenVars
<1>4. QED
  BY <1>1, <1>2, <1>3, HandlerRefines, WorkerRefines DEF Next

\* The queue keeps the ledger: whatever is interleaved, lost or restarted, each
\* (job, recipient) pair is queued once, dies after exactly Cap recorded
\* failures, and is never handed over once its delivery is recorded.
THEOREM BlastKeepsTheLedger == Spec => KeepsTheLedger
<1>1. TypeOK /\ WorkerInv /\ [Next]_vars => [Ledger!LedgerNext]_(Ledger!ledger)
  BY StepRefines DEF WorkerInv, RowInv, LedgerStep
<1>2. QED
  BY <1>1, LedgerInit, WorkerInvariant, PTL DEF Spec, KeepsTheLedger, Ledger!LedgerSpec
=============================================================================
