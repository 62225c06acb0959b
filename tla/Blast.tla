------------------------------- MODULE Blast -------------------------------
(***************************************************************************)
(* The blast (bulk-send) queue of waxum: the rows of blast_jobs and        *)
(* blast_recipients, the single background worker that drains them, and    *)
(* the create / cancel / retry HTTP handlers that run beside it.           *)
(*                                                                         *)
(* Every action is one SQL statement (or one call to WhatsApp) with the    *)
(* code that runs up to the next .await, so the worker and the handlers    *)
(* interleave exactly where the async code can.  No statement sequence in  *)
(* the source is a transaction, and none is one here.                      *)
(*                                                                         *)
(* Left out: pacing sleeps, progress events, timestamps, paging.  The      *)
(* `failed` job status needs a stored body that is not JSON; create_blast  *)
(* stores the serialization of a JSON value, so that branch is dead and    *)
(* build_recipient_body cannot fail either.                                *)
(***************************************************************************)
EXTENDS Integers, FiniteSets

CONSTANTS
  Jobs,           \* job ids the create endpoint can hand out
  NoJob,          \* the worker or a handler holds no job
  NumRecipients,  \* recipients are named by the order of their row ids
  Clients,        \* concurrent HTTP requests
  BatchSize,      \* BATCH_SIZE: rows read per pass
  MaxAttempts,    \* the job's max_attempts option as requested
  MaxFaults,      \* bound: crashes, database errors, lost answers, hang-ups
  MaxCancels,     \* bound: cancel requests
  MaxRetries      \* bound: retry requests

ASSUME BlastAssumption ==
  /\ NoJob \notin Jobs
  /\ IsFiniteSet(Jobs)
  /\ NumRecipients \in Nat
  /\ BatchSize \in Nat \ {0}
  /\ MaxAttempts \in Nat
  /\ MaxFaults \in Nat
  /\ MaxCancels \in Nat
  /\ MaxRetries \in Nat

Recipients == 1..NumRecipients

\* let max_attempts = i64::from(options.max_attempts.max(1))
Cap == IF MaxAttempts = 0 THEN 1 ELSE MaxAttempts

JobStatus == {"pending", "running", "completed", "completed_with_failures",
              "cancelled"}
RowStatus == {"pending", "sending", "sent", "dlq", "skipped_dup"}
Absent == "absent"

Terminal == {"completed", "completed_with_failures", "cancelled"}
Finished == {"completed", "completed_with_failures"}

VARIABLES
  \* blast_jobs
  status, createdAt, due, dedup, total, sentCount, failedCount, dlqCount,
  \* blast_recipients
  rec, attempts,
  \* the worker: program counter and locals of process_job
  wpc, wjob, batch, current, snapshot, verdict,
  \* the HTTP handlers in flight
  req,
  \* observations: what WhatsApp accepted, what was broadcast, what went wrong
  accepted, announced, reopened, late, sentBefore, upset,
  faults, cancels, retries

jobVars    == <<status, createdAt, due, dedup, total>>
countVars  == <<sentCount, failedCount, dlqCount>>
rowVars    == <<rec, attempts>>
locals     == <<batch, current, snapshot, verdict>>
workerVars == <<wpc, wjob, locals>>
seenVars   == <<accepted, announced, reopened, late, sentBefore, upset>>
boundVars  == <<faults, cancels, retries>>
vars == <<jobVars, countVars, rowVars, workerVars, req, seenVars, boundVars>>

WorkerPC == {"idle", "claim", "reset", "check", "fetch", "mark", "dispatch",
             "settle_sent", "count_sent", "count_failed", "settle_failed",
             "count_dlq", "verdict", "finish", "announce"}
ClientPC == {"idle", "create_dedup", "create_job", "create_rows",
             "cancel_update", "retry_requeue", "retry_reopen"}

\* Why a job may end up with unsettled rows.
Causes == {"fault", "early_claim", "late_retry"}

Request == [pc : ClientPC, job : Jobs \cup {NoJob}, dedup : BOOLEAN,
            todo : SUBSET Recipients, dups : SUBSET Recipients]
Asking(p, j) == [pc |-> p, job |-> j, dedup |-> FALSE, todo |-> {}, dups |-> {}]
NoRequest == Asking("idle", NoJob)

\* The handler of c goes on to p with these rows left to insert.
Advance(c, p, S, D) ==
  [pc |-> p, job |-> req[c].job, dedup |-> req[c].dedup, todo |-> S, dups |-> D]

\* No copy of the rows' attempts is held.
NoLocals == [r \in Recipients |-> 0]

\* No recipient is in hand.
NoRow == 0

IsLowest(r, S) == r \in S /\ \A q \in S : r <= q

RowsIn(j, st) == {r \in Recipients : rec[j][r] = st}

\* Mutant: interrupted jobs are never found again.
Running_NeverResumed == {}

Running == {j \in Jobs : status[j] = "running"}

TypeOK ==
  /\ status \in [Jobs -> JobStatus \cup {Absent}]
  /\ createdAt \in [Jobs -> Nat]
  /\ due \in [Jobs -> BOOLEAN]
  /\ dedup \in [Jobs -> BOOLEAN]
  /\ total \in [Jobs -> Nat]
  /\ sentCount \in [Jobs -> Nat]
  /\ failedCount \in [Jobs -> Nat]
  /\ dlqCount \in [Jobs -> Nat]
  /\ rec \in [Jobs -> [Recipients -> RowStatus \cup {Absent}]]
  /\ attempts \in [Jobs -> [Recipients -> Nat]]
  /\ wpc \in WorkerPC
  /\ wjob \in IF wpc = "idle" THEN {NoJob} ELSE Jobs
  /\ batch \in SUBSET Recipients
  /\ current \in Recipients \cup {NoRow}
  /\ snapshot \in [Recipients -> Nat]
  /\ verdict \in Finished
  /\ req \in [Clients -> Request]
  /\ accepted \in [Jobs -> [Recipients -> Nat]]
  /\ announced \in [Jobs -> Nat]
  /\ reopened \in [Jobs -> Nat]
  /\ late \in [Jobs -> Nat]
  /\ sentBefore \in [Jobs -> SUBSET Recipients]
  /\ upset \in [Jobs -> SUBSET Causes]
  /\ faults \in 0..MaxFaults
  /\ cancels \in 0..MaxCancels
  /\ retries \in 0..MaxRetries

Init ==
  /\ status = [j \in Jobs |-> Absent]
  /\ createdAt = [j \in Jobs |-> 0]
  /\ due = [j \in Jobs |-> FALSE]
  /\ dedup = [j \in Jobs |-> FALSE]
  /\ total = [j \in Jobs |-> 0]
  /\ sentCount = [j \in Jobs |-> 0]
  /\ failedCount = [j \in Jobs |-> 0]
  /\ dlqCount = [j \in Jobs |-> 0]
  /\ rec = [j \in Jobs |-> [r \in Recipients |-> Absent]]
  /\ attempts = [j \in Jobs |-> [r \in Recipients |-> 0]]
  /\ wpc = "idle"
  /\ wjob = NoJob
  /\ batch = {}
  /\ current = NoRow
  /\ snapshot = NoLocals
  /\ verdict = "completed"
  /\ req = [c \in Clients |-> NoRequest]
  /\ accepted = [j \in Jobs |-> [r \in Recipients |-> 0]]
  /\ announced = [j \in Jobs |-> 0]
  /\ reopened = [j \in Jobs |-> 0]
  /\ late = [j \in Jobs |-> 0]
  /\ sentBefore = [j \in Jobs |-> {}]
  /\ upset = [j \in Jobs |-> {}]
  /\ faults = 0
  /\ cancels = 0
  /\ retries = 0

Bump(counter, j) == [counter EXCEPT ![j] = @ + 1]

\* Mutants: a row dead-lettered as the reserved `failed`; a row marked sent
\* before it is sent.
SetRow_Failed(j, r, st) ==
  rec' = [rec EXCEPT ![j][r] = IF st = "dlq" THEN "failed" ELSE st]
SetRow_SentFirst(j, r, st) ==
  rec' = [rec EXCEPT ![j][r] = IF st = "sending" THEN "sent" ELSE st]

\* update_recipient: by job and recipient, whatever the row's status is.
SetRow(j, r, st) == rec' = [rec EXCEPT ![j][r] = st]

-----------------------------------------------------------------------------
(* create_blast: validation, the optional already_sent read, insert_job,   *)
(* then insert_recipients one row at a time.                               *)

HandlersOn(j, pc) == {c \in Clients : req[c].job = j /\ req[c].pc = pc}

Creating(j) == HandlersOn(j, "create_rows") # {}

\* Recipients of the session with a `sent` row in any job.
AlreadySent == {r \in Recipients : \E j \in Jobs : rec[j][r] = "sent"}

\* The session exists, the body validates, the recipients parse; `wanted` is
\* the request's list after intra-array dedup, `j` the fresh uuid.
CreateArrive(c, j) ==
  /\ req[c].pc = "idle"
  /\ status[j] = Absent
  /\ \A d \in Clients : req[d].job # j
  /\ \E wanted \in SUBSET Recipients \ {{}}, dd \in BOOLEAN :
       req' = [req EXCEPT ![c] = [pc |-> IF dd THEN "create_dedup" ELSE "create_job",
                                  job |-> j, dedup |-> dd,
                                  todo |-> wanted, dups |-> {}]]
  /\ sentBefore' = [sentBefore EXCEPT ![j] =
                       {r \in Recipients : \E k \in Jobs : rec[k][r] = "sent"}]
  /\ UNCHANGED <<jobVars, countVars, rowVars, workerVars, accepted, announced,
                 reopened, late, upset, boundVars>>

\* accepted.retain(|r| !sent.contains(r))
CreateDedup(c) ==
  /\ req[c].pc = "create_dedup"
  /\ req' = [req EXCEPT ![c] = Advance(c, "create_job", req[c].todo \ AlreadySent,
                                        req[c].todo \cap AlreadySent)]
  /\ UNCHANGED <<jobVars, countVars, rowVars, workerVars, seenVars, boundVars>>

\* insert_job; a send_at in the future leaves the job not yet due.
CreateJob(c) ==
  LET j == req[c].job IN
  /\ req[c].pc = "create_job"
  /\ status' = [status EXCEPT ![j] = "pending"]
  /\ createdAt' = [createdAt EXCEPT ![j] =
                     Cardinality({k \in Jobs : status[k] # Absent})]
  /\ \E now \in BOOLEAN : due' = [due EXCEPT ![j] = now]
  /\ dedup' = [dedup EXCEPT ![j] = req[c].dedup]
  /\ total' = [total EXCEPT ![j] = Cardinality(req[c].todo)]
  /\ req' = [req EXCEPT ![c] = Advance(c, "create_rows", req[c].todo, req[c].dups)]
  /\ UNCHANGED <<countVars, rowVars, workerVars, seenVars, boundVars>>

\* One INSERT of insert_recipients, accepted rows before duplicates, with
\* ON CONFLICT DO NOTHING.
CreateRow(c) ==
  LET j    == req[c].job
      todo == req[c].todo
      dups == req[c].dups
      st   == IF todo # {} THEN "pending" ELSE "skipped_dup"
  IN
  /\ req[c].pc = "create_rows"
  /\ \E r \in Recipients :
       /\ IsLowest(r, IF todo # {} THEN todo ELSE dups)
       /\ IF rec[j][r] = Absent THEN SetRow(j, r, st) ELSE UNCHANGED rec
       /\ req' = [req EXCEPT ![c] =
                    IF todo \cup dups = {r} THEN NoRequest
                    ELSE Advance(c, "create_rows", todo \ {r}, dups \ {r})]
  /\ UNCHANGED <<jobVars, countVars, attempts, workerVars, seenVars, boundVars>>

-----------------------------------------------------------------------------
(* cancel_blast: read the row, refuse a terminal one, conditional UPDATE.  *)

CancelArrive(c, j) ==
  /\ req[c].pc = "idle"
  /\ cancels < MaxCancels
  /\ status[j] \in {"pending", "running"}
  /\ req' = [req EXCEPT ![c] = Asking("cancel_update", j)]
  /\ cancels' = cancels + 1
  /\ UNCHANGED <<jobVars, countVars, rowVars, workerVars, seenVars, faults,
                 retries>>

\* cancel_job: UPDATE .. WHERE status IN ('pending','running')
CancelUpdate(c) ==
  LET j == req[c].job IN
  /\ req[c].pc = "cancel_update"
  /\ IF status[j] \in {"pending", "running"}
     THEN /\ status' = [status EXCEPT ![j] = "cancelled"]
          /\ late' = [late EXCEPT ![j] = 0]
     ELSE UNCHANGED <<status, late>>
  /\ req' = [req EXCEPT ![c] = NoRequest]
  /\ UNCHANGED <<createdAt, due, dedup, total, countVars, rowVars, workerVars,
                 accepted, announced, reopened, sentBefore, upset, boundVars>>

-----------------------------------------------------------------------------
(* retry_blast: read the row, refuse a running one, requeue_failed, then   *)
(* reopen_job.                                                             *)

RetryArrive(c, j) ==
  /\ req[c].pc = "idle"
  /\ retries < MaxRetries
  /\ status[j] \notin {Absent, "running"}
  /\ req' = [req EXCEPT ![c] = Asking("retry_requeue", j)]
  /\ retries' = retries + 1
  /\ UNCHANGED <<jobVars, countVars, rowVars, workerVars, seenVars, faults,
                 cancels>>

\* Mutant: the retry endpoint requeues delivered rows too.
Requeueable_Sent(st) == st \in {"dlq", "sent"}

\* requeue_failed; zero rows changed answers 400 and ends the handler.
Requeueable(st) == st = "dlq"

RetryRequeue(c) ==
  LET j == req[c].job
      dead == {r \in Recipients : Requeueable(rec[j][r])}
  IN
  /\ req[c].pc = "retry_requeue"
  /\ rec' = [rec EXCEPT ![j] =
               [r \in Recipients |-> IF r \in dead THEN "pending" ELSE @[r]]]
  /\ attempts' = [attempts EXCEPT ![j] =
                    [r \in Recipients |-> IF r \in dead THEN 0 ELSE @[r]]]
  /\ req' = [req EXCEPT ![c] = IF dead = {} THEN NoRequest
                               ELSE Asking("retry_reopen", j)]
  /\ upset' = IF dead # {} /\ wjob = j
              THEN [upset EXCEPT ![j] = @ \cup {"late_retry"}] ELSE upset
  /\ UNCHANGED <<jobVars, countVars, workerVars, accepted, announced, reopened,
                 late, sentBefore, boundVars>>

\* reopen_job: UPDATE .. SET status = 'pending' WHERE status != 'running'
RetryReopen(c) ==
  LET j == req[c].job IN
  /\ req[c].pc = "retry_reopen"
  /\ IF status[j] # "running"
     THEN /\ status' = [status EXCEPT ![j] = "pending"]
          /\ reopened' = Bump(reopened, j)
     ELSE UNCHANGED <<status, reopened>>
  /\ req' = [req EXCEPT ![c] = NoRequest]
  /\ UNCHANGED <<createdAt, due, dedup, total, countVars, rowVars, workerVars,
                 accepted, announced, late, sentBefore, upset, boundVars>>

-----------------------------------------------------------------------------
(* The worker: run_blast_worker, tick_once, process_job, finalize_job.     *)

Step(from, to) == wpc = from /\ wpc' = to

\* process_job and tick_once return: their locals are gone.
ToIdle ==
  /\ wpc' = "idle"
  /\ wjob' = NoJob
  /\ batch' = {}
  /\ current' = NoRow
  /\ snapshot' = NoLocals
  /\ verdict' = "completed"

\* running_job found a job to continue: process_job without a reset.
WorkerResume(j) ==
  /\ Step("idle", "check")
  /\ j \in Running
  /\ wjob' = j
  /\ UNCHANGED <<jobVars, countVars, rowVars, locals, req, seenVars, boundVars>>

MayClaim(j) ==
  /\ Running = {}
  /\ status[j] = "pending"
  /\ due[j]
  /\ \A k \in Jobs : status[k] = "pending" /\ due[k] => createdAt[j] <= createdAt[k]

\* running_job found none; the SELECT of claim_next_due names the oldest.
WorkerSelect(j) ==
  /\ Step("idle", "claim")
  /\ MayClaim(j)
  /\ wjob' = j
  /\ UNCHANGED <<jobVars, countVars, rowVars, locals, req, seenVars, boundVars>>

\* The conditional UPDATE of claim_next_due.
WorkerClaim ==
  /\ wpc = "claim"
  /\ IF status[wjob] = "pending"
     THEN /\ status' = [status EXCEPT ![wjob] = "running"]
          /\ wpc' = "reset"
          /\ UNCHANGED <<wjob, locals>>
          /\ upset' = IF Creating(wjob)
                      THEN [upset EXCEPT ![wjob] = @ \cup {"early_claim"}] ELSE upset
     ELSE /\ ToIdle
          /\ UNCHANGED <<status, upset>>
  /\ UNCHANGED <<createdAt, due, dedup, total, countVars, rowVars, req, accepted,
                 announced, reopened, late, sentBefore, boundVars>>

\* reset_sending_recipients
WasInFlight(st) == st = "sending"

WorkerReset ==
  /\ Step("reset", "check")
  /\ rec' = [rec EXCEPT ![wjob] =
               [r \in Recipients |-> IF WasInFlight(@[r]) THEN "pending" ELSE @[r]]]
  /\ UNCHANGED <<jobVars, countVars, attempts, wjob, locals, req, seenVars,
                 boundVars>>

\* job_status before each batch: stop unless still running.
StillRunning(j) == status[j] = "running"

WorkerCheck ==
  /\ wpc = "check"
  /\ IF StillRunning(wjob)
     THEN wpc' = "fetch" /\ UNCHANGED <<wjob, locals>>
     ELSE ToIdle
  /\ UNCHANGED <<jobVars, countVars, rowVars, req, seenVars, boundVars>>

\* pending_recipients: the BATCH_SIZE lowest row ids.
FirstPending(j) ==
  LET pending == RowsIn(j, "pending")
  IN {r \in pending : Cardinality({q \in pending : q < r}) < BatchSize}

WorkerFetch ==
  /\ wpc = "fetch"
  /\ batch' = FirstPending(wjob)
  /\ snapshot' = attempts[wjob]
  /\ wpc' = IF batch' = {} THEN "verdict" ELSE "mark"
  /\ UNCHANGED <<jobVars, countVars, rowVars, wjob, current, verdict, req, seenVars,
                 boundVars>>

\* Mutant: the job is closed after its first batch.
NextInBatch_OneBatch ==
  /\ current' = NoRow
  /\ wpc' = IF batch = {} THEN "verdict" ELSE "mark"

\* End of one iteration of the for loop over the batch.
NextInBatch ==
  /\ current' = NoRow
  /\ wpc' = IF batch = {} THEN "check" ELSE "mark"

\* The next row of the batch, in id order; mark_recipient_sending.
WorkerMark ==
  /\ Step("mark", "dispatch")
  /\ \E r \in Recipients :
       /\ IsLowest(r, batch)
       /\ current' = r
       /\ batch' = batch \ {r}
       /\ SetRow(wjob, r, "sending")
  /\ UNCHANGED <<jobVars, countVars, attempts, wjob, snapshot, verdict, req,
                 seenVars, boundVars>>

\* dispatch: the send is accepted and reported, refused and reported, or
\* accepted with the answer lost, which the code sees as an error.
WorkerDispatch ==
  \E taken, reported \in BOOLEAN :
    /\ wpc = "dispatch"
    /\ reported => taken
    /\ taken /\ ~reported => faults < MaxFaults
    /\ faults' = IF taken /\ ~reported THEN faults + 1 ELSE faults
    /\ accepted' = IF taken THEN [accepted EXCEPT ![wjob][current] = @ + 1]
                   ELSE accepted
    /\ late' = IF status[wjob] = "cancelled" THEN Bump(late, wjob) ELSE late
    /\ wpc' = IF reported THEN "settle_sent" ELSE "count_failed"
    /\ UNCHANGED <<jobVars, countVars, rowVars, wjob, locals, req, announced,
                   reopened, sentBefore, upset, cancels, retries>>

\* mark_recipient_sent
WorkerSettleSent ==
  /\ Step("settle_sent", "count_sent")
  /\ SetRow(wjob, current, "sent")
  /\ UNCHANGED <<jobVars, countVars, attempts, wjob, locals, req, seenVars,
                 boundVars>>

\* incr_sent
WorkerCountSent ==
  /\ wpc = "count_sent"
  /\ sentCount' = Bump(sentCount, wjob)
  /\ NextInBatch
  /\ UNCHANGED <<jobVars, failedCount, dlqCount, rowVars, wjob, batch, snapshot,
                 verdict, req, seenVars, boundVars>>

\* incr_failed
WorkerCountFailed ==
  /\ Step("count_failed", "settle_failed")
  /\ failedCount' = Bump(failedCount, wjob)
  /\ UNCHANGED <<jobVars, sentCount, dlqCount, rowVars, wjob, locals, req, seenVars,
                 boundVars>>

\* Mutant: one attempt too many.
AttemptsLeft_OneMore(tried) == tried < Cap

\* if recipient.attempts + 1 < max_attempts, on the batch's copy of the row
AttemptsLeft(tried) == tried + 1 < Cap

\* mark_recipient_retry
WorkerRetryLater ==
  /\ wpc = "settle_failed"
  /\ AttemptsLeft(snapshot[current])
  /\ SetRow(wjob, current, "pending")
  /\ attempts' = [attempts EXCEPT ![wjob][current] = @ + 1]
  /\ NextInBatch
  /\ UNCHANGED <<jobVars, countVars, wjob, batch, snapshot, verdict, req, seenVars,
                 boundVars>>

\* mark_recipient_dlq
WorkerDeadLetter ==
  /\ Step("settle_failed", "count_dlq")
  /\ ~AttemptsLeft(snapshot[current])
  /\ SetRow(wjob, current, "dlq")
  /\ attempts' = [attempts EXCEPT ![wjob][current] = @ + 1]
  /\ UNCHANGED <<jobVars, countVars, wjob, locals, req, seenVars, boundVars>>

\* incr_dlq
WorkerCountDlq ==
  /\ wpc = "count_dlq"
  /\ dlqCount' = Bump(dlqCount, wjob)
  /\ NextInBatch
  /\ UNCHANGED <<jobVars, sentCount, failedCount, rowVars, wjob, batch, snapshot,
                 verdict, req, seenVars, boundVars>>

\* finalize_job: the verdict is read from the job's dlq_count ..
WorkerVerdict ==
  /\ Step("verdict", "finish")
  /\ verdict' = IF dlqCount[wjob] > 0 THEN "completed_with_failures" ELSE "completed"
  /\ UNCHANGED <<jobVars, countVars, rowVars, wjob, batch, current, snapshot, req,
                 seenVars, boundVars>>

\* .. and finish_job writes it whatever the status is by then ..
FinishJob(j, st) == status' = [status EXCEPT ![j] = st]

WorkerFinish ==
  /\ Step("finish", "announce")
  /\ FinishJob(wjob, verdict)
  /\ UNCHANGED <<createdAt, due, dedup, total, countVars, rowVars, wjob, locals,
                 req, seenVars, boundVars>>

\* .. then broadcast_completed tells the webhooks.
WorkerAnnounce ==
  /\ wpc = "announce"
  /\ announced' = Bump(announced, wjob)
  /\ ToIdle
  /\ UNCHANGED <<jobVars, countVars, rowVars, req, accepted, reopened, late,
                 sentBefore, upset, boundVars>>

-----------------------------------------------------------------------------
(* What goes wrong, and time.                                              *)

\* Handlers past their first write, or the worker, hold j.
HeldJobs == {j \in Jobs : wjob = j \/ \E c \in Clients : req[c].job = j}

Upsetting(S, cause) ==
  upset' = [j \in Jobs |-> IF j \in S THEN upset[j] \cup {cause} ELSE upset[j]]

\* A statement of the tick fails: `?` ends tick_once, the loop goes on.
WorkerError ==
  /\ wpc \notin {"idle", "dispatch", "announce"}
  /\ faults < MaxFaults
  /\ faults' = faults + 1
  /\ ToIdle
  /\ Upsetting({wjob}, "fault")
  /\ UNCHANGED <<jobVars, countVars, rowVars, req, accepted, announced, reopened,
                 late, sentBefore, cancels, retries>>

\* A handler's statement fails, or its client hangs up and the future is
\* dropped at an .await: the remaining statements never run.
Abandon(c) ==
  /\ req[c].pc # "idle"
  /\ faults < MaxFaults
  /\ faults' = faults + 1
  /\ Upsetting({req[c].job}, "fault")
  /\ req' = [req EXCEPT ![c] = NoRequest]
  /\ UNCHANGED <<jobVars, countVars, rowVars, workerVars, accepted, announced,
                 reopened, late, sentBefore, cancels, retries>>

\* The process dies and comes back: only the database survives.
Crash ==
  /\ HeldJobs # {}
  /\ faults < MaxFaults
  /\ faults' = faults + 1
  /\ Upsetting(HeldJobs, "fault")
  /\ ToIdle
  /\ req' = [c \in Clients |-> NoRequest]
  /\ UNCHANGED <<jobVars, countVars, rowVars, accepted, announced, reopened, late,
                 sentBefore, cancels, retries>>

\* The job's send_at passes.
BecomeDue(j) ==
  /\ status[j] # Absent
  /\ ~due[j]
  /\ due' = [due EXCEPT ![j] = TRUE]
  /\ UNCHANGED <<status, createdAt, dedup, total, countVars, rowVars, workerVars,
                 req, seenVars, boundVars>>

-----------------------------------------------------------------------------
Handler(c) ==
  CreateDedup(c) \/ CreateJob(c) \/ CreateRow(c) \/ CancelUpdate(c)
    \/ RetryRequeue(c) \/ RetryReopen(c)

Arrival(c) ==
  \E j \in Jobs : CreateArrive(c, j) \/ CancelArrive(c, j) \/ RetryArrive(c, j)

Worker ==
  \/ \E j \in Jobs : WorkerResume(j) \/ WorkerSelect(j)
  \/ WorkerClaim \/ WorkerReset \/ WorkerCheck \/ WorkerFetch
  \/ WorkerMark \/ WorkerDispatch \/ WorkerSettleSent \/ WorkerCountSent
  \/ WorkerCountFailed \/ WorkerRetryLater \/ WorkerDeadLetter \/ WorkerCountDlq
  \/ WorkerVerdict \/ WorkerFinish \/ WorkerAnnounce

Next ==
  \/ Worker
  \/ \E c \in Clients : Arrival(c) \/ Handler(c) \/ Abandon(c)
  \/ WorkerError
  \/ Crash
  \/ \E j \in Jobs : BecomeDue(j)

Spec == Init /\ [][Next]_vars

\* The worker is a loop spawned for the life of the process and woken by an
\* interval; a handler in flight runs on unless it is dropped; time passes.
\* Nothing makes a client arrive or a failure happen.
Fairness ==
  /\ WF_vars(Worker)
  /\ \A c \in Clients : WF_vars(Handler(c))
  /\ \A j \in Jobs : WF_vars(BecomeDue(j))

FairSpec == Spec /\ Fairness

-----------------------------------------------------------------------------
(* Properties.                                                             *)

\* The worker is single and sequential: never two jobs running at once, even
\* after errors, restarts and reopened jobs.
AtMostOneRunning ==
  \A j, k \in Running : j = k

\* A row that may still be sent has attempts left, and a dead-lettered one has
\* used exactly max_attempts, although the worker decides on a stale copy.
AttemptsCapped ==
  \A j \in Jobs, r \in Recipients :
    /\ rec[j][r] \in {"pending", "sending"} => attempts[j][r] < Cap
    /\ rec[j][r] = "dlq" => attempts[j][r] = Cap

\* No message reaches a recipient of a job twice unless something failed, and
\* then at most one extra copy per failure.
DuplicatesNeedFaults ==
  \A j \in Jobs, r \in Recipients : accepted[j][r] <= 1 + faults

\* A row says `sent` only if WhatsApp accepted the message, and skipped_dup
\* only if it never got one.
RowsTellTheTruth ==
  \A j \in Jobs, r \in Recipients :
    /\ rec[j][r] = "sent" => accepted[j][r] > 0
    /\ rec[j][r] \in {"skipped_dup", Absent} => accepted[j][r] = 0

\* sent_count never runs ahead of the `sent` rows, and falls behind them by at
\* most one per failure, plus the one being counted.
SentCountLags ==
  \A j \in Jobs :
    LET sent == Cardinality(RowsIn(j, "sent"))
        open == IF wjob = j /\ wpc = "count_sent" THEN 1 ELSE 0
    IN /\ sentCount[j] + open <= sent
       /\ sent <= sentCount[j] + open + faults

\* A finished job that saw no failure, no early claim and no overlapping retry
\* has settled every row, and its verdict agrees with the dead letters.
CompletionSettles ==
  \A j \in Jobs :
    /\ status[j] \in Finished
    /\ upset[j] = {}
    /\ HandlersOn(j, "retry_reopen") = {}
    => /\ \A r \in Recipients : rec[j][r] \notin {"pending", "sending"}
       /\ status[j] = "completed" => RowsIn(j, "dlq") = {}

\* What the owner of a job is told of it is true: its figure of sent messages, its
\* verdict, that it is cancelled - after the cancel's UPDATE at most the rest of one
\* batch still goes out - and one event for each time it closes.
JobsAreTold ==
  /\ SentCountLags
  /\ CompletionSettles
  /\ \A j \in Jobs : late[j] <= BatchSize
  /\ \A j \in Jobs : announced[j] <= 1 + reopened[j]

\* A settled delivery is final: no statement moves a row out of `sent`, though
\* mark_recipient_* does not look at the row's status.
SentIsFinal ==
  [][\A j \in Jobs, r \in Recipients :
       rec[j][r] = "sent" => rec'[j][r] = "sent"]_vars

\* Every job that is stored is eventually closed, finished or cancelled, and every
\* finish is announced to the webhooks, unless the process failed between finish_job
\* and the broadcast, or an earlier closing was a cancel, of which no event tells: again
\* and again no job is open, and no finish untold.
EveryJobCloses ==
  []<>\A j \in Jobs :
        /\ status[j] \notin {"pending", "running"}
        /\ status[j] \in Finished =>
             announced[j] > reopened[j] \/ upset[j] # {} \/ cancels > 0

\* Each pair of job and recipient obeys the ledger.
PairOf == [pending |-> "queued", sending |-> "queued", sent |-> "delivered",
           dlq |-> "dead", skipped_dup |-> "skipped", absent |-> "absent"]

Ledger == INSTANCE BlastLedger WITH
  state    <- [j \in Jobs |-> [r \in Recipients |-> PairOf[rec[j][r]]]],
  failures <- attempts,
  handed   <- accepted

KeepsTheLedger == Ledger!LedgerSpec

-----------------------------------------------------------------------------
(* The inductive invariant the safety properties rest on.                  *)

\* A row is in the worker's hand between its mark and its settlement.
InHand == {"dispatch", "settle_sent", "count_failed", "settle_failed"}
InLoop == InHand \cup {"mark", "count_sent", "count_dlq"}

\* Nothing runs between the claim's SELECT and its UPDATE: only the claim
\* itself ever starts a job.
ClaimsAlone == wpc = "claim" => Running = {}

\* The rest of the batch is still as the worker read it: no handler touches a
\* pending row.
BatchIsFresh ==
  /\ wpc \notin InLoop => batch = {}
  /\ \A r \in batch : rec[wjob][r] = "pending" /\ snapshot[r] = attempts[wjob][r]

\* So is the row in hand, but for its mark.
HandIsFresh ==
  wpc \in InHand =>
    /\ current \in Recipients
    /\ rec[wjob][current] = "sending"
    /\ snapshot[current] = attempts[wjob][current]

UnwrittenRows ==
  \A j \in Jobs, r \in Recipients : rec[j][r] = Absent => attempts[j][r] = 0

Settling(j, r) == wpc = "settle_sent" /\ j = wjob /\ r = current

\* Every copy of an unsettled message is paid for by a failure.
CopiesArePaid ==
  \A j \in Jobs, r \in Recipients :
    /\ accepted[j][r] <= 1 + faults
    /\ rec[j][r] # "sent" /\ ~Settling(j, r) => accepted[j][r] <= faults
    /\ Settling(j, r) => accepted[j][r] > 0

\* The safety properties with what makes them inductive: the worker's copies
\* of status, row and attempts agree with the tables at every point it uses one.
WorkerInv ==
  /\ AtMostOneRunning
  /\ ClaimsAlone
  /\ BatchIsFresh
  /\ HandIsFresh
  /\ UnwrittenRows
  /\ AttemptsCapped
  /\ RowsTellTheTruth
  /\ CopiesArePaid
=============================================================================
