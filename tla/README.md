# waxum in TLA+

waxum is a WhatsApp gateway: one Rust process that keeps many WhatsApp sessions
connected and offers them over REST, webhooks and NATS. Much of its code turns one
request into one library call. What is hard is the rest: workers that drain queues in a
database nobody locks, delivery tasks that race each other to a circuit breaker,
requests, event handlers and a watchdog that share one session, bookkeeping around sends
that fail half-way, calls that end while they are answered. This project models those
parts, checks them with TLC and proves their safety with TLAPS.

Contents: [the system](#the-system) · [the modules](#the-modules) ·
[reading a module against the code](#reading-a-module-against-the-code) ·
[the runs](#the-runs) · [fairness](#fairness) · [the proofs](#the-proofs) ·
[where code and documentation disagree](#where-code-and-documentation-disagree) ·
[what is not modelled](#what-is-not-modelled) · [plan](#plan) ·
[how to run](#how-to-run)

## The system

Paths are relative to `src/src/`.

| component | state it keeps | operations | hard because | correct when |
|---|---|---|---|---|
| **blast queue** `api/shared/blast`, `db/blast.rs` | rows of `blast_jobs` and `blast_recipients`; the worker's locals | create with dedup, cancel, retry; one worker: claim, reset, fetch a batch, mark, send, settle, count, close, announce | no transaction anywhere; the worker acts on a batch, a status and attempts read earlier; a crash between any two statements | one job runs at a time, attempts are capped, `sent` is true and final, duplicates only after failures, every job closes and is announced |
| **scheduler** `api/shared/schedule`, `db/scheduled.rs` | rows of `scheduled_messages`; the loop's batch | park, cancel, poll, claim, dispatch, settle, announce | a stale batch, a second loop on the database, a crash between claim and settlement | at most once, a cancel answered 200 is honoured, oldest first, never early |
| **webhooks** `state.rs`, `api/shared/webhooks` | a circuit per URL, a dead-letter ring per session, the registry and its table | register, unregister, broadcast, deliver with retries, dead-letter, replay, enable, purge | tasks that started before a circuit opened report after it; a probe may die; check and insert are two steps | a probe decides alone, a receiver is always probed again, a dead letter is in one place, memory and table agree |
| **new chats** `api/shared/new_chats`, `db/new_chats.rs` | `new_chats`, `new_chat_limits`; a lock per session | admit, record, forget, set and clear the limit | check and record span awaits; the rollback runs without the lock; requests are dropped | the limit holds, only chats that were started count, `Retry-After` is right |
| **session lifecycle** `api/shared/sessions/handlers`, `bulk`, `transfer` | a slot with the client, status, cooldown; the row; the store on disk | connect, wait, pair, create, disconnect, logout, delete, export, import, cloud, sweeps; startup, watchdog, events | all of them work on one session at once without a lock; replaced clients go on reporting | a live status has a task behind it, a client that talks can be stopped, nobody touches the store under a client, a wiped login stays wiped, a lock silences the session |
| **sending** `api/shared/messages`, `api/web/polls`, `api/web/status`, `nats/consumer.rs` | none of its own: it wraps admission, the send and the history | 44 endpoints and 16 commands, at once or replayed | every step may fail after the one before left something; acknowledgement deadlines | no request twice, no command lost or answered wrongly, no chat counted for nothing |
| **calls** `api/web/calls`, `storage.rs` | ringing calls, calls under way, audio channels, recordings | accept, reject, ring, tts, play, media socket, terminate, record | inserts and removes in pairs of steps, while the other side gives up or hangs up | answered once, no call that nobody can end, a recording only of a finished call |
| **incoming messages** `sessions/handlers/events.rs`, `search`, `db/messages.rs`, `store` | recent ids, contacts, history and its index, the chat store | deduplicate, record, forward; page, search, stream store events | repeats by two clients at once; what is told and what is recorded are extracted apart | repeats are dropped, what is told is found, nothing is lost, readers and streams miss nothing |
| **registries** `state.rs`, `db/session.rs`, `db/tokens.rs`, `middleware/jwt.rs` | webhooks, tags, tokens, in memory and stored | create, delete, purge, register, tag, mint, revoke, use | several statements per request, no transaction, snapshots | what is stored is what is served, nothing of a deleted session is left, a token stays in its scope |
| **cloud flows** `api/cloud/flows` | a private key and a URL in the session's row | configure, data exchange, manage | Meta has the public half; a configure is two steps in two systems | keys agree, an exchange is told once to the right URL and answered in the end |
| **cloud accounts** `api/cloud`, `cloud` | the account in the row | the administrative, commerce and send endpoints | several reads and several calls to Meta per request | one account per request, the answer is true |
| instance lock, process start, events stream, other endpoints | see [below](#what-is-not-modelled) | | | |

Interaction. Every send, whoever starts it, goes through `admit` before WhatsApp and
`record_outgoing` after it; the HTTP middleware and the NATS consumer wrap it in a scope
that forgets what a failed send recorded. The blast worker and the scheduler rebuild a
stored request and call the same send functions. Session events, and those of the
workers, go through `broadcast_to_webhooks`, which spawns one delivery task per matching
webhook. A session's client feeds `handle_event`, whose arms are split here by what they
work on: the lifecycle, incoming messages, calls. `connect_cloud` changes the row that
flows and cloud accounts read. The queues share the database and nothing else.

## The modules

| module | models |
|---|---|
| `Blast` | the queue, the worker and the three endpoints, one action per SQL statement or call to WhatsApp |
| `BlastLedger` | what a blast promises about each (job, recipient) pair: the abstract specification of `Blast` |
| `BlastProofs` | proofs: types; the worker's invariant and what follows from it; what a job's owner is told; `Blast` implements `BlastLedger` |
| `Scheduler` | scheduled sends with any number of poll loops |
| `Sends` | what every send endpoint and every command does in which order, composed with admission, history, the scheduler's replay and the consumer's redelivery |
| `SendingProofs` | the safety of `Scheduler` and of `Sends` |
| `NewChats`, `NewChatsProofs` | admission, rollback and limit of new chats; their safety |
| `Webhooks` | circuits, delivery tasks, dead-letter rings |
| `Content` | what a message becomes in the event and in the history: pure operators, used by `Inbox` |
| `Inbox` | incoming messages through deduplication, contacts, history, forwarding; the reader that pages, the stream of store events |
| `EventProofs` | the safety of `Webhooks` and of `Inbox` |
| `Sessions`, `SessionsProofs` | one session: its row, its store, its slot, and every task that works on them; all five of its properties |
| `Calls`, `CallsProofs` | ringing calls, calls under way, their audio channels, streams, media sockets and recordings; their safety |
| `Registry`, `RegistryProofs` | webhooks, tags and tokens next to the sessions they belong to, across deletion, reload and restart; their safety |
| `Cloud` | what the next two share: the accounts of a Cloud session, and what goes wrong |
| `Flows` | the keys of WhatsApp Flows, data exchanges and Meta's retries |
| `CloudAccount` | the requests that administer a Cloud account or send for it, while the account changes |
| `CloudProofs` | the safety of `Flows` and of `CloudAccount` |
| `MC*` | the instances for TLC |

`Blast` instantiates `BlastLedger` under a refinement mapping: a row's status is mapped
to the ledger's state of its pair (`pending` and `sending` are both `queued`), its
attempts to the recorded failures, the accepted copies to the copies handed over.

Three modules of proofs extend two components each. So that their names stay apart, one of
the two has longer ones: `SendsSpec`, `InboxInit`, `AccountNext`, and `ProcessDies`,
`ParkRequest`, `DeliverBatch` where the other has `Crash`, `Park`, `Deliver`.

`Sends` composes what `NewChats` and `Scheduler` model by themselves: it keeps the order
of the steps around admission and the replay, and leaves the windows, the lock and the
claims to them. `Inbox` and `Calls` take over from `Sessions` where an event is no longer
about the connection.

## Reading a module against the code

*Grain.* The code is async and holds no lock across a statement, except the lock of
`new_chats`. An action is therefore what runs between two awaits that matter: one SQL
statement, one access to a `DashMap` entry, or one network call, with the sequential code
around it. Everything else may come in between. Statements that the code issues in
sequence are never merged, because none of them is in a transaction. Two accesses to
different maps without an await in between are still two actions (`Calls!Insert`,
`Calls!Channels`): other threads run.

*Program counters.* `wpc`, `ppc`, `pc`, `stage`, `phase` and `at` name the statement a
worker, loop, send, task or request is about to execute; its locals (`batch`, `current`,
`snapshot`, `verdict`, `now`, `quota`, `creds`, the fields of `req` and `agent`) are
variables and keep the values they were read with, so that a stale copy is stale in the
model too. They are reset when the code drops them. A request that is refused before it
changes anything is no step.

*Observations.* Variables that a declaration calls observations, and `accepted`,
`announced`, `events`, `reached`, `late`, `sentBefore`, `stranded`, `upset`, `probeBy`,
`probes`, `reopened`, are not state of the program. They record what WhatsApp, Meta, a
webhook or a client has seen, never enable or disable a step, and are what the properties
talk about. So are `disturbed` and `turned` of `Sessions`, `clash` of `Registry`, `clean`
and `sound` of `Flows`: they say that two requests overlapped which the code does not keep
apart. A property that holds only without such an overlap says so; what happens with it is
described [below](#where-code-and-documentation-disagree).

*Failures.* Each module with failures has a counter `faults` (`deaths` in `Webhooks`)
bounded by a constant. A fault is a crash of the process (locals, memory and requests in
flight are gone, rows and files stay), a statement that returns an error, a send or call
that was accepted and reports an error, a lost acknowledgement, or a client that hangs
up, upon which axum drops its handler. `Sessions` bounds dropped sockets apart
(`MaxDrops`), because they are no failure of waxum.

*Blast.* `CreateArrive`, `CreateDedup`, `CreateJob`, `CreateRow` are `create_blast`: the
job row is inserted, and is claimable, before the recipient rows. `Cancel*` and `Retry*`
are the other two endpoints; each reads first and updates later. `WorkerResume`,
`WorkerSelect`, `WorkerClaim`, `WorkerReset` are `tick_once` and `claim_due_job`;
`WorkerCheck` reads the status once per batch; `WorkerFetch` takes the oldest pending
rows; `WorkerMark` .. `WorkerCountDlq` are the body of the loop over a batch;
`WorkerVerdict` .. `WorkerAnnounce` are `finalize_job`. Recipients are numbered in the
order of their row ids.

*Scheduler.* `Poll` reads at most `Limit` due rows, `Claim` is the conditional UPDATE,
`Dispatch` the call of the stored endpoint, `MarkSent`/`MarkFailed` the settlement,
`Announce` the event. `CancelRead` and `CancelWrite` are the endpoint's read and
conditional UPDATE. An error of a claim ends the tick (`ClaimFails`); an error of a
settlement is logged and the event still goes out (`MarkLost`).

*Webhooks.* Times are timers that count down: `wait` is the time to `opened_until`,
`probeLeft` the time until a probe is given up, `left` the time a delivery run may still
take. `Tick` lets a second pass only if every run in flight has time left: that is how
the timeouts and delays of `deliver_webhook` bound a run. `Allows`, `LetThrough` and
`StartProbe` are `webhook_circuit_allows`; `RecordFailure` is its three branches; `Close`
is `webhook_record_success` and what the endpoints that reset a circuit write. A replay
is `Take`, then `Replay`: the entry is in neither the ring nor a task in between.

*New chats.* `Lock` .. `Record` are `admit`, statement by statement under the session's
lock; `Deliver`, `Store` and `Undo` are the send, `record_outgoing` and the rollback.
`DeleteLimit` and `InsertLimit` are the two statements of `set_limit`.

*Sessions.* A `SessionState` is a `Runtime`, since a delete and a create give a session a
new one while tasks hold the old; `current` is the one in the map. A client is one connect
task and what it builds: `FindPath` .. `NoteWaiting` are `connect_client`, `Return` and
`MarkRow` the end of `bot.run()` and `mark_disconnected_if_still_current`. The library's
client is external: `sock` is its socket, `told` what it last reported, and it reports to
one handler at a time. `PairingQrCode`, `Connected`, `Disconnected`, `LoggedOut` are the
arms of `handle_event`, each gated by `is_current_client` (`Heard`). The requests share
`Enter`, `Halt` and `Finish`; a record `agent` says where each of them is, which runtime
and client it holds and what it will write. `List` and `Walk` are both the startup walk
and the sweeps.

*Sends.* An endpoint is the list of its steps that can fail, refuse or leave something
behind (`client`, `admit`, `check`, `send`, `store`), once for a Cloud session and once
for a multi-device one; the handlers differ in these lists and hardly in anything else.
`Undo` is the scope's rollback, `ParkRequest` and `Replay` the scheduler's, `Deliver`,
`Publish`, `Ack`, `Nak`, `AckWait` the consumer's part in a delivery.

*Calls.* `wire` is what WhatsApp knows of a call, `inbox` the events about it that
`handle_event` has not handled. `TakeIncoming` removes the entry of a ringing call, which
is what makes accepts and rejects exclusive. `Insert`, `Channels` and the pairs
`…Unlists`, `…Unhooks` are the accesses to the two maps; a stream, a socket and a
terminate may all end one call.

*Inbox and Content.* A batch goes through `Sight` (the window of recent ids),
`PersistContacts`, `Insert` and `Record` (row, then index), `Forward`; a webhook of Meta
through `CloudReceive`, `CloudForward`, `CloudOk`. `Content` has the extractors of the
event payload and those of the history row as two sets of operators, as in the code;
`ToldIsInTheHistory` compares them. `Newer` is `ORDER BY`: the rows before a row; `Page` is
`LIMIT` and `OFFSET`: the rows with so many before them.

*Registry.* Every request is a chain of statements of a record in `req`. `linked` says
whether the database has the foreign key that cascades; tables migrated from earlier
releases lack it (`db/session.rs:588`). `Restart` empties what is in memory and loads the
webhooks; `Reload` is `reconnect_all`, which loads them again (`crud.rs:505`) beside the
requests and may register a row it has read while an unregister is removing it. `ops` is
what is asked in one behaviour: TLC takes it from three sets (`Mixes`), because webhooks,
tags and tokens meet only through sessions; the theorems hold for any. `Snapshot`,
`Truncate`, `Write` are `persist_tags`. `Use` .. `Answer` are a request that carries a
token, through `jwt_auth_middleware` to its handler.

*Flows and cloud accounts.* A key pair is its name. `Register` and `Store` are
`configure_flow_endpoint`: Meta first, the row second. `Refusal` is the order of checks of
`flow_data_exchange`. In `CloudAccount` a handler is its kind: when it checks its input,
how often it reads the row, and which ids its calls to Meta touch and change.

## The runs

The runs bound only what would make the state space infinite: faults, requests, and the
clock. Constants are given in the `.cfg` of each run.

| run | question | instance and why it is enough |
|---|---|---|
| `blast_faults` | Do rows, counters, verdict and events stay consistent, does every step obey the ledger, does every job close and is it announced? | one job, two recipients, a batch of two, two attempts, one fault anywhere, one cancel and one retry by two clients. Two recipients make the batch stale after its first row; two attempts separate a retry from a dead letter |
| `scheduler_pollers` | At most once, told truly, settled in the end? | two loops, two messages, batches of one, two faults and a cancel: a loop holds a row another one claims or a client cancels. Three seconds: due, not yet due, and within the grace |
| `webhooks_circuit` | Does a probe decide alone, is a dead letter in one place, is every receiver probed again? | one URL, three deliveries: enough for a threshold of two, a straggler and a probe. Capacity one forces evictions, the cooldown reaches its cap, both probes may die |
| `new_chats_admit` | Is the window never overfilled, are rows earned? | three chats, any of which the session may have started before, two sends, one fault, and an operator who sets or clears a limit of one at any point; the clock runs until rows leave the window |
| `new_chats_slip` | the documentation's claim about the limit | two chats, three sends, no fault |
| `sessions_one` | The five properties of the lifecycle | one request of any of the twelve kinds against startup, the watchdog, and two clients with their events; two runtimes, one fault, one dropped socket. The races of this code are between a request and the tasks that run by themselves; two control requests at once are excepted in four of the five properties anyway, and all five are proved for any number |
| `sends_all` | Requests once, commands not lost, chats not counted for nothing, everything settles | one request to any endpoint and one command with two deliveries, to two chats and a group under a limit of one: the request and a delivery race for the one chat, two deliveries overlap, and the limit refuses the other |
| `calls_all` | Answered once, registries follow the calls, recordings, release | two calls and two requests of any kind: two accepts race for one call, or a terminate races with the stream of another request |
| `inbox_all` | Repeats, told and found, paging, forwarding, streams | two messages of two shapes, the image wrapped; two handlers, window and page of one: a repeat falls inside and outside of the window, a page ends between the messages; two stores |
| `registry_all` | Stored is served, deleted is gone, tags, scope | three requests, two at once, on two sessions of which one has a prefix, in three mixes: webhooks with create, delete, purge and reload; tags with delete; tokens with create and delete. A deletion, a new session of the same id and a restart fit in |
| `flows_all` | Keys, pairs, once, answered | two configures, one exchange, three accounts of which two share a number and two an app: each refusal of the handler occurs; the key is rotated between encryption and receipt, and between receipt and forward |
| `cloud_account` | One account, true answers | one request of any kind; requests meet only through the row, which `Attach` and `Delete` change between any two of its steps |

The largest run, `sessions_one`, has 1.9 million distinct states, `registry_all` 1.1
million, `new_chats_admit` 0.94 and `flows_all` 0.85 million; `scheduler_pollers` has 71 000
and `cloud_account` 15 000, the others lie between 0.28 and 0.73 million.

The properties are defined at the end of each module under the comment that says what
they mean. Each module also has a `TypeOK`. Some properties are made of parts:
`JobsAreTold` of `SentCountLags`, `CompletionSettles`, a bound on what goes out after a
cancel and one on the events; `ToldTheTruth` of `CancelHonoured` and the events;
`RegistriesFollowCalls` of `LiveCallsAreHeld`, `ChannelsHaveTheirCall` and
`RegisteredCallsRing`; `RegistryIsStored` also says that what was removed is not served.
Deadlock is not checked: all systems here come to rest when the bounded clients, faults
and clock are used up.

Several are quantitative: `DuplicatesNeedFaults`, `EveryCopyHasAFault` and
`SentCountLags` say how far the system may be off after how many failures, which is more
than that it is right when nothing fails.

## Fairness

Nothing makes a client arrive, an event happen, an operator act or a failure strike: no
fairness is assumed of those, and faults are bounded, since a database that fails for ever
closes no job. What is assumed is that a task that was spawned runs on.

- `Blast`: the worker is spawned for the life of the process and woken by an interval
  (`run_blast_worker`), so `WF_vars(Worker)`; a handler in flight runs on unless it is
  dropped; a job's `send_at` passes.
- `Scheduler`: each loop, likewise, and the clock. Weak fairness of a whole loop and not
  of its statements, because a loop is one sequential task.
- `Webhooks`: a spawned delivery task runs to its end, and time passes. No event needs to
  arrive: `AlwaysProbedAgain` says that the next one would be let through.
- `Sends`: tasks run on, the scheduler polls, and JetStream hands over what is ready and
  waits no longer than `ack_wait` (`nats/consumer.rs:26`). A request parked again and a
  command delivered again are new work, so `EverySendSettles` says that again and again
  nothing is under way.
- `Calls`: handlers and spawned tasks run on, a payload has an end, and a media socket
  whose call is over is closed by the direction that ended. Nobody needs to hang up. The
  steps of a request are one formula: it is one sequential task.
- `Inbox`: handlers run on, because the library awaits a running handler also when the
  client is replaced, and so does the task of a stream.
- `Flows`: handlers run on, and Meta fetches the key and asks again after a 421, which is
  what the constant's documentation says of it (`flows/handlers.rs:51`).

`NewChats`, `Sessions`, `Registry` and `CloudAccount` have no liveness property. In
`Sessions` a client may stay disconnected as long as WhatsApp likes; what the code owes is
that its status says so, which is the invariant `LiveStatusIsServed`.

## The proofs

All proofs are checked by tlapm with Z3, Zenon and LS4. They hold for every value of the
constants under the `ASSUME` of each module, which TLC evaluates in every run.

**Blast.** `TypeCorrect` is inductive by itself. `WorkerInv` is the inductive invariant of
the queue. A worker that acts on copies is right if its copies are: `BatchIsFresh` and
`HandIsFresh` say that the rest of the batch is still pending, with the attempts that were
read, and that the row in hand is `sending`; they hold because no handler touches a
pending row's status, and a requeue touches only dead letters. `ClaimsAlone` says that
nothing runs between the claim's SELECT and UPDATE, whence `AtMostOneRunning`.
`CopiesArePaid` relates copies to failures: every copy of a message that is not settled as
`sent` is paid for by a fault. `AttemptsCapped`, `RowsTellTheTruth` and
`DuplicatesNeedFaults` are parts or consequences; `SentIsFinal` follows step by step.
`BlastKeepsTheLedger` shows that each step of `Blast` is a step of `BlastLedger` or a
stutter; the marks, counts, crashes and the endpoints' reads stutter.

`ToldInvariant` adds to `WorkerInv` who may write what of a job that nothing upset, which
events a job may still cause, and how many rows of a cancelled one are ahead of the worker;
the counts are cardinalities of sets of rows, and each step moves at most one row. From it: `JobsAreTold`.

**Scheduler.** `LoopInv`: a claimed row has one owner (`OwnersAreUnique`), the owner knows
whether WhatsApp has the message (`CopiesFollowTheLoop`), and what is left of a batch is
no younger than any pending row outside it (`BatchesAreOldest`), because a row parked
later than the poll is due later than the poll. From it: `AtMostOnce`, `CancelHonoured`,
`RowsTellTheTruth`, `SettledIsFinal`, `NeverEarly`, `OldestFirst`. `ToldTheTruth` needs
one more part, `EventsFollowTheLoop`: nothing has been told of a row that nobody claimed or
that is in the hands of a loop, and a loop about to tell knows what became of its row.

**Webhooks.** `CircuitInv`: when a circuit opens, every run in flight ends before the
cooldown (`NobodyIsLate`: its time left is less than the circuit's), so that when the
cooldown is over and a probe is let through nobody else is on the way. It needs
`MaxRun < Base` and `MaxRun < ProbeTimeout`: a run of `n` attempts takes `n` timeouts of
10 s and the delays in between, 65 s for the default three attempts, 265 s for five; the
shortest cooldown is 300 s and the probe timeout 600 s. An operator who sets more than
five attempts is outside of the assumption. From it: `ProbeIsAlone` and
`EscalationIsEarned`. `DeadLettersAreOnce` is inductive with the types.

**New chats.** `AdmitInv`: the lock's holder is the one send inside `admit` (`LockInv`),
and what it found out stays true until it acts on it (`FindingsHold`): its chat has no
row, and the window has room, because nobody else inserts meanwhile, and the rollback,
which does not take the lock, only deletes. From it: `NeverPastTheLimit` and
`RowsAreEarned`. `ReachedIsKnown` is inductive with `SendsAreAccounted`: a send on its way
to WhatsApp was let through because its chat is on record, in the history, or forgotten by
the send that recorded it. `RetryAfterIsExact` rests on `NthNewest`: among `n` or more
rows there is an `n`-th newest, found by a least-element argument over the time a row is
behind the newest.

**Sessions.** `ServedTheorem`: `LiveStatusIsServed`, whatever overlaps, fails, is abandoned
or restarts, and for any number of requests, clients and runtimes. Two parts make it
inductive. `SlotIsRun`: the installed client is one whose `bot.run()` has not returned;
so when a client returns and finds another one installed, it may leave the status alone.
`Known`: runtimes that no task has seen are as `SessionState::new` makes them, so that a
task that still holds the runtime of a deleted session cannot make a new one live.
The other four properties rest on `CInv`, which says who may hold a client and a store as
long as no two control operations overlapped. `FormInv` is what each request holds at each
of its places; `NetInv`: a client that was told it is logged out has no socket; `CoolInv`:
a new runtime is in no cooldown. `ChargeInv` has the argument (`Calm`): one request is in
charge, or one task builds a client, never two (`Alone`); while one does what needs
silence, no client is live (`Loud`, `Quiet`); what the one in charge, or the builder, has
read still holds (`Held`, `Building`), because only it could change it; and a live client
is installed or in the hand of the logout that stops it (`Owned`). `LiveIsInstalled`,
`StoreAtRest`, `LoginIsKept` and `CoolingIsQuiet` follow.

**Sends.** The 44 endpoints and 16 commands are first reduced to their shape: each has one
send, and a command's is its last step (`EndpointsSendOnce`, `CommandsSendLast`). Then every
step of `SendsNext` is one of fifteen moves (`NextMoves`), and the invariant is kept by
the moves. `OutcomesFollow` ties a task's outcome to its place; `RequestFollows`: what is
left of a request and what WhatsApp has of it make one send. `CopiesArePaid`: copies taken,
deliveries that may still send, and one if the stream will hand the command over again
unprovoked, are at most one more than the faults. From it: `EveryCopyHasAFault`;
`AckedIsDone` with `AckedIsEarned`; `FailuresLeaveNoChat` is inductive with the rest.

**Calls.** `CallsInvariant`: what each kind of request may hold at each of its places; the
right to answer a call is in one place, WhatsApp's event, the registry's entry or the
request that took it, whence `AnsweredOnce`; what is left of a call at each stage of its
life, in which the sink of a recording closes only after the end of its call, whence
`NoRecordingOfALiveCall`; and, until events are lost, a write fails or the process dies,
which request or event will close each gap between the call and the registries, whence
`RegistriesFollowCalls`.

**Incoming messages.** `InboxInv`. The window of recent ids is the end of what was sighted,
so a repeat that gets through is farther back than the window (`RepeatsAreFarApart`). A
message is kept in an order, contacts, row and index, event, and every handler is at one
place of it; the row and the event agree for each of the shapes of `Content`
(`RowsSayTheSame`), whence `ToldIsInTheHistory`. For paging, ranks (how many rows are newer)
are 0, 1, 2 and so on, each once: they differ, and as many different numbers below `n` as
there are rows are all of them (`Ranks`). So a page that is not the last one is full. A row
that is appended lowers no rank, so that what a reader still has to see has a rank past its
offset (`WalkKeeps`), whence `WalkMissesNothing`.

**Registry.** Three invariants, one for each kind of thing. Webhooks: for each gap between
what is served and what is stored there is a request or a load that will close it, and a
removal has left nothing at each of its steps (`RegistryIsStored`, `DeletedLeavesNothing`).
Tags: the file is behind the memory only while somebody is about to write it
(`TagsAreKept`). Tokens: what a token may do is part of what it was minted for, whichever
of its rows exist (`TokensKeepTheirScope`), whatever fails and overlaps. The first two hold
until a failure, or an overlap that the code does not keep apart (`clash`).

**Flows.** `FlowsInv`: a configure that nobody disturbed is alone with the row
(`CleanIsAlone`), and what it is about to store is what Meta has (`CleanIsRegistered`),
whence `KeysAgree`. The stored pair, and the pair an exchange took along, were stored
together (`PairsAreKept`), whence `CredentialsAreWhole`. An exchange that may still reach
the business has not reached it (`NotYetForwarded`): a 421 comes before the forward and
nothing after it brings Meta to ask again, whence `ForwardedOnce`.

**Cloud accounts.** `KindsAreGood` looks at every kind of handler once: one that may blame
its caller for what Meta answered writes only with its last call. `AccountInv` says, request
by request (`FitsWith`), that what was called belongs to what was read, and what was
changed to the calls made. From it: `AnswersAreTrue` and `ActsForOneAccount`.

Every invariant and action property that a run checks is a theorem. Only model-checked is
liveness, which needs fairness and `ENABLED` and is outside of the prover:
`EveryJobCloses`, `EveryMessageSettles`, `AlwaysProbedAgain`, `EverySendSettles`,
`EndedCallsAreReleased`, `DeliveredIsTold`, `StreamCatchesUp` and `ExchangesHeal`.

## Where code and documentation disagree

One disagreement has a run that TLC must find violated:

- `LimitIsKept` (`new_chats_slip`): a failed send forgets its chat's row although another
  send has been let through to that chat because of it; one chat more than the limit is
  started, although `new_chats/handlers.rs:13` says that many sends at once cannot slip
  past it.

Others were met on the way. They are described here, and a property says how far each of
them reaches.

*Blast.*
- `tick_once` resumes a running job without resetting its `sending` rows, which happens
  only after a claim; the row in flight at a crash is never retried, although
  `db/blast.rs:414` says it is. A job is claimable before its recipients are inserted, so
  that an empty queue may close it as `completed`, which `blast/models.rs:22` defines as
  every recipient terminal. `finish_job` (`db/blast.rs:804`) writes whatever the status: a
  cancel answered 200 while the job is being closed is overwritten. `dlq_count` is never
  reset by a retry, and a crash between the dead letter and its count closes a job as
  `completed` with a recipient in the DLQ; a retry that overlaps the finish leaves
  requeued rows pending in a finished job. `CompletionSettles` holds of the jobs that saw
  none of this (`upset` is empty).
- After a cancel the rest of the worker's batch still goes out (`late` bounds it by the
  batch), although `cancelled` is documented as "remaining recipients never send".

*Scheduler.* A row whose loop dies after the claim stays `sending`: nothing recovers it
(`EveryMessageSettles` excepts `stranded` rows).

*Sessions.*
- Two control operations at once, or `reconnect_all` over a session that is up
  (`disturbed` notes both), build a second client, which replaces the first in the slot
  without stopping it, although `connection.rs:60` names "two live clients racing for the same
  on-disk device store" as what a rebuild must avoid. A delete, or `cloud`, during a
  connect leaves a running client without a slot, and so does an import over a client that
  is up but not logged in.
- A pairing connects a session in an account-lock cooldown, and so may a `reconnect_all`
  that listed it before the lock; the watchdog does not (`CoolingIsQuiet`).
- A session that a restart finds `WaitingForQr` or `Disconnected` in its row is not
  connected by the startup walk, though its store may be linked. A late status write of an
  event, after the client returned, leaves the row `LoggedIn` with nothing behind it; the
  status in memory is right (`LiveStatusIsServed`).

*Sending.* `execute_comment` (`messages/handlers/text.rs:574`) does not call
`record_outgoing`, although `search/handlers.rs:9` says that every send core does. Some
endpoints validate after admission: a refused request has counted its chat until the
scope's rollback, which a replay does not have (`FailuresLeaveNoChat` excepts replays).

*Calls.* `accept` takes the entry of a ringing call before the preparation that may fail:
the call then rings on and can no longer be accepted or rejected. The entry of a call
waxum rang or accepted stays when the other side hangs up, until a terminate; the
properties ask for release of the calls that a task drives. A recording is written in
place, so that a reader, or a crash, may meet half of one.

*Incoming messages.* A crash between the insert of a row and that of its index loses the
words for search. A restart empties the window of recent ids. Webhooks of Meta are not
deduplicated. The history of a deleted session stays.

*Registries.* Two registers of a URL at once register it twice, so that every event goes
there twice. A removal between the two steps of a register is undone by its second step.
`purge_sessions` leaves the tags of what it deletes. Two changes of tags at once may store
the older snapshot, and `remove_tag` may take a tag that was added in between. A token is
created in several statements without a transaction, and is usable, with less than its
scope, between them (`TokensKeepTheirScope`: never with more).

*Flows and cloud accounts.* Two configures at once may store the key of the one and
register that of the other (`sound` excepts them; `ExchangesHeal` shows that exchanges
are answered while keys agree). A configure without a URL drops the one that was stored.
Attaching another number keeps the private key of the old one. An embedded signup may
spend its code and then fail. A request that reads account and ids in two queries may mix
two accounts; `ActsForOneAccount` says that it still acts with one token, and for one
account unless the account changed meanwhile.

## What is not modelled

- Blast: pacing sleeps, progress events, listing, and the `failed` status of jobs, whose
  branch needs a stored body that is not JSON and cannot be reached.
- Webhooks: event matching, signatures, the `skipped` counter, the write-only
  `webhook_dlq` table.
- New chats: the incidents kept at a logout and the figures the endpoints report; a phone
  number and its LID are one chat.
- Sessions: one session, so the limits and the queue of startup connects that sessions
  share; QR and pair codes as data, device properties, proxies, paused clients.
- Calls: samples, codecs, the transcript. Recordings are on a local disk; the object
  store's protocol is external.
- Incoming messages: receipts, presence, groups and the other events, which are forwarded
  and keep no state; the query syntax of the full-text index.
- Tokens: signatures, expiry and the superadmin's token, which do not depend on order.
- Instance lock (`preflight.rs:51`): one read and one write of a pidfile; two processes
  that start at the same moment both own the storage. That is a fact and no invariant.
- Events stream: a broadcast channel per session whose slow readers skip; a subscription
  per request and no state of its own.
- Process start, the database layer's three dialects and migrations, the network guard,
  link previews, metrics, the console, and the web endpoints that make one library call
  each: no state of their own, or pure I/O. The WhatsApp library, its chat store and the
  Graph API are third-party code, modelled where waxum's code depends on what they do.

The wall clock is monotone in all modules; the code uses `Utc::now` for the queues.

## Plan

1. `Blast`, `BlastLedger`, `Scheduler`, `Webhooks`, `NewChats`; `Sessions`, `Sends`, `Calls`,
   `Content`, `Inbox`, `Registry`, `Flows`, `CloudAccount`: done.
2. Theorems for every safety property that a run checks: done.
3. Left: an abstract queue (at most once with lost settlements) that `Scheduler` implements,
   an abstract breaker that `Webhooks` implements, and the queue of startup connects that
   several sessions share.

## How to run

    tlc -workers 2 -config MCBlast_faults.cfg MCBlast
    tlapm BlastProofs.tla

`PROJECT.json` lists the runs, the lines each definition models, the hazards and the
theorems. The definitions marked "Mutant" in the modules are plausible bugs: put in place
of the definition after them, each makes TLC refute a property.
