------------------------------ MODULE NewChats ------------------------------
(***************************************************************************)
(* The limit on new chats of one session: admission before a send, the     *)
(* rollback of a send that failed, and the endpoints that change the limit *)
(* (api/shared/new_chats/handlers.rs, db/new_chats.rs).                    *)
(*                                                                         *)
(* An action is one statement of the database, one move of the session's   *)
(* lock, or the send itself; every send is a task of its own.              *)
(*                                                                         *)
(* Left out: groups and newsletters (never counted), the two JIDs of a     *)
(* number (one chat here), the purge of a deleted session, the incidents,  *)
(* and the figures the endpoints report.                                   *)
(***************************************************************************)
EXTENDS Integers, FiniteSets

CONSTANTS
  Chats,      \* direct chats
  Sends,      \* ids of sends
  Operators,  \* clients that change the limit
  Limits,     \* limits they may set: [max, window]
  NoLimit,    \* no row in new_chat_limits
  NoChat,     \* the chat of a send that has not arrived
  Free,       \* the session's lock is free
  History,    \* history_enabled()
  MaxClock,   \* bound: the clock stops
  MaxFaults   \* bound: failed statements, lost answers and dropped requests

ASSUME NewChatsAssumption ==
  /\ IsFiniteSet(Chats)
  /\ Limits \subseteq [max : Nat \ {0}, window : Nat \ {0}]
  /\ NoLimit \notin Limits
  /\ NoChat \notin Chats
  /\ Free \notin Sends
  /\ History \in BOOLEAN
  /\ MaxClock \in Nat
  /\ MaxFaults \in Nat

VARIABLES
  started, startedAt,  \* new_chats: the chats recorded, and created_at
  messaged,            \* chats with a row in messages
  limit,               \* new_chat_limits
  opc, wanted,         \* operators: where they are, the limit they store
  lock,                \* SESSION_LOCKS: who holds it
  pc, to, scoped,      \* sends: where they are, the chat, inside a scope
  now, quota,          \* sends: admit's now, the limit it read
  recorded,            \* sends: RECORDED is not empty
  after,               \* sends: retry_after_secs of a refusal
  clock, faults,
  reached              \* observation: chats started: WhatsApp took a message
                       \* for a chat without stored messages

tables == <<started, startedAt, messaged>>
limitVars == <<limit, opc, wanted>>
sendVars == <<to, scoped, now, quota, recorded, after>>
vars == <<tables, limitVars, lock, pc, sendVars, clock, faults, reached>>

\* Where a send holds the lock, and where it has ended.
Locked == {"lookup", "limit", "count", "record"}
Ended == {"ok", "failed", "forgot", "refused", "dropped"}
SendPC == Locked \cup Ended \cup {"wait", "send", "store", "undo"}

TypeOK ==
  /\ started \in SUBSET Chats
  /\ startedAt \in [Chats -> 0..MaxClock]
  /\ messaged \in SUBSET Chats
  /\ limit \in Limits \cup {NoLimit}
  /\ opc \in [Operators -> {"idle", "insert"}]
  /\ wanted \in [Operators -> Limits \cup {NoLimit}]
  /\ lock \in Sends \cup {Free}
  /\ pc \in [Sends -> SendPC]
  /\ to \in [Sends -> Chats \cup {NoChat}]
  /\ scoped \in [Sends -> BOOLEAN]
  /\ now \in [Sends -> 0..MaxClock]
  /\ quota \in [Sends -> Limits \cup {NoLimit}]
  /\ recorded \in [Sends -> BOOLEAN]
  /\ after \in [Sends -> Nat]
  /\ clock \in 0..MaxClock
  /\ faults \in 0..MaxFaults
  /\ reached \in SUBSET Chats

\* The session may have started chats before.
Init ==
  /\ started \in SUBSET Chats
  /\ startedAt = [c \in Chats |-> 0]
  /\ messaged = {}
  /\ limit \in Limits \cup {NoLimit}
  /\ opc = [o \in Operators |-> "idle"]
  /\ wanted = [o \in Operators |-> NoLimit]
  /\ lock = Free
  /\ pc = [s \in Sends |-> "wait"]
  /\ to = [s \in Sends |-> NoChat]
  /\ scoped = [s \in Sends |-> FALSE]
  /\ now = [s \in Sends |-> 0]
  /\ quota = [s \in Sends |-> NoLimit]
  /\ recorded = [s \in Sends |-> FALSE]
  /\ after = [s \in Sends |-> 0]
  /\ clock = 0
  /\ faults = 0
  /\ reached = started

Goto(s, p) == pc' = [pc EXCEPT ![s] = p]

\* A failed statement, a lost answer or a dropped request.
Fault == faults < MaxFaults /\ faults' = faults + 1

NoFault == UNCHANGED faults

-----------------------------------------------------------------------------
(* admit.                                                                  *)

\* Mutant: nobody waits for the lock.
LockFree_Always == TRUE

LockFree == lock = Free

\* A send to c gets the lock.  The HTTP layer and the NATS consumer run it inside
\* a scope, the blast and scheduler workers do not.
Lock(s, c, inScope) ==
  /\ pc[s] = "wait"
  /\ LockFree
  /\ lock' = s
  /\ to' = [to EXCEPT ![s] = c]
  /\ scoped' = [scoped EXCEPT ![s] = inScope]
  /\ Goto(s, "lookup")
  /\ UNCHANGED <<tables, limitVars, now, quota, recorded, after, clock, faults, reached>>

\* chat_known
Known(c) == c \in started \/ c \in messaged

\* admit returns: its guard releases the lock, its locals are gone.
Return(s, p) ==
  /\ Goto(s, p)
  /\ lock' = Free
  /\ now' = [now EXCEPT ![s] = 0]
  /\ quota' = [quota EXCEPT ![s] = NoLimit]

\* A known chat is let through, and so is any when the lookup fails.
Lookup(s) ==
  /\ pc[s] = "lookup"
  /\ \/ /\ ~Known(to[s]) /\ NoFault
        /\ now' = [now EXCEPT ![s] = clock]
        /\ Goto(s, "limit")
        /\ UNCHANGED <<lock, quota>>
     \/ /\ (Known(to[s]) /\ NoFault) \/ Fault
        /\ Return(s, "send")
  /\ UNCHANGED <<tables, limitVars, to, scoped, recorded, after, clock, reached>>

\* get_limit: an error counts as no limit.
ReadLimit(s) ==
  /\ pc[s] = "limit"
  /\ \/ NoFault /\ quota' = [quota EXCEPT ![s] = limit]
     \/ Fault /\ quota' = [quota EXCEPT ![s] = NoLimit]
  /\ Goto(s, IF quota'[s] = NoLimit THEN "record" ELSE "count")
  /\ UNCHANGED <<tables, limitVars, lock, to, scoped, now, recorded, after, clock, reached>>

\* Rows less than w old at time t; `started` holds them by chat.
InWindow(t, w) == {c \in started : startedAt[c] > t - w}

\* in_window[len - max]: the n-th newest row of C.
FreesSlot(C, at, n) ==
  CHOOSE c \in C : /\ Cardinality({d \in C : at[d] > at[c]}) < n
                   /\ n <= Cardinality({d \in C : at[d] >= at[c]})

AtLeast1(n) == IF n < 1 THEN 1 ELSE n

\* retry_after, for the rows C that are inside the window of limit q.
RetryAfter(C, q, t) == AtLeast1(startedAt[FreesSlot(C, startedAt, q.max)] + q.window - t)

\* started_since and retry_after: refused, or room for one more.  A failed read
\* lets the send through.
Count(s) ==
  LET q == quota[s]
      C == InWindow(now[s], q.window)
  IN /\ pc[s] = "count"
     /\ \/ /\ Cardinality(C) < q.max /\ NoFault
           /\ Goto(s, "record")
           /\ UNCHANGED <<lock, now, quota, after>>
        \/ /\ ~(Cardinality(C) < q.max) /\ NoFault
           /\ after' = [after EXCEPT ![s] = RetryAfter(C, q, now[s])]
           /\ Return(s, "refused")
        \/ /\ Fault
           /\ quota' = [quota EXCEPT ![s] = NoLimit]
           /\ Goto(s, "record")
           /\ UNCHANGED <<lock, now, after>>
     /\ UNCHANGED <<tables, limitVars, to, scoped, recorded, clock, reached>>

\* INSERT OR IGNORE
Insert(s) ==
  /\ started' = started \cup {to[s]}
  /\ startedAt' = IF to[s] \in started THEN startedAt
                  ELSE [startedAt EXCEPT ![to[s]] = now[s]]

\* record, and the push to the scope's list; a failed insert is not counted.
Record(s) ==
  /\ pc[s] = "record"
  /\ \/ NoFault /\ Insert(s) /\ recorded' = [recorded EXCEPT ![s] = TRUE]
     \/ Fault /\ UNCHANGED <<started, startedAt, recorded>>
  /\ Return(s, "send")
  /\ UNCHANGED <<messaged, limitVars, to, scoped, after, clock, reached>>

-----------------------------------------------------------------------------
(* The send, and its rollback.                                             *)

\* WhatsApp has a message for c.
Reach(c) == reached' = IF c \in messaged THEN reached ELSE reached \cup {c}

\* The handler sends: WhatsApp takes the message, refuses it, or takes it and the
\* answer is lost.
Deliver(s) ==
  /\ pc[s] = "send"
  /\ \/ Reach(to[s]) /\ Goto(s, "store") /\ NoFault
     \/ UNCHANGED reached /\ Goto(s, "undo") /\ NoFault
     \/ Reach(to[s]) /\ Goto(s, "undo") /\ Fault
  /\ UNCHANGED <<tables, limitVars, lock, sendVars, clock>>

\* record_outgoing: never fails the send.
Store(s) ==
  /\ pc[s] = "store"
  /\ \/ messaged' = (IF History THEN messaged \cup {to[s]} ELSE messaged) /\ NoFault
     \/ messaged' = messaged /\ Fault
  /\ Goto(s, "ok")
  /\ UNCHANGED <<started, startedAt, limitVars, lock, sendVars, clock, reached>>

\* Mutant: a failed send is not rolled back.
MustForget_Never(s) == FALSE

\* Only what this send recorded inside its scope is forgotten.
MustForget(s) == scoped[s] /\ recorded[s]

\* rollback_failed_sends, and the consumer's: without the lock.
Undo(s) ==
  /\ pc[s] = "undo"
  /\ \/ /\ MustForget(s) /\ NoFault
        /\ started' = started \ {to[s]}
        /\ startedAt' = [startedAt EXCEPT ![to[s]] = 0]
        /\ Goto(s, "forgot")
     \/ /\ (~MustForget(s) /\ NoFault) \/ (MustForget(s) /\ Fault)
        /\ Goto(s, "failed")
        /\ UNCHANGED <<started, startedAt>>
  /\ UNCHANGED <<messaged, limitVars, lock, sendVars, clock, reached>>

\* The client hangs up and its request is dropped, or the process dies: the guard
\* releases the lock, nothing is rolled back, and an insert under way may be done.
Drop(s) ==
  /\ pc[s] \notin Ended \cup {"wait"}
  /\ Fault
  /\ IF lock = s THEN Return(s, "dropped")
     ELSE Goto(s, "dropped") /\ UNCHANGED <<lock, now, quota>>
  /\ \/ UNCHANGED <<tables, recorded>>
     \/ /\ pc[s] = "record"
        /\ Insert(s)
        /\ recorded' = [recorded EXCEPT ![s] = TRUE]
        /\ UNCHANGED messaged
  /\ UNCHANGED <<limitVars, to, scoped, after, clock, reached>>

-----------------------------------------------------------------------------
(* The rest of the world.                                                  *)

\* record_incoming: someone writes.
Incoming(c) ==
  /\ History
  /\ messaged' = messaged \cup {c}
  /\ UNCHANGED <<started, startedAt, limitVars, lock, pc, sendVars, clock, faults, reached>>

\* set_limit: the old row is deleted first; clear_new_chat_limit stops there.
DeleteLimit(o, l) ==
  /\ opc[o] = "idle"
  /\ limit' = NoLimit
  /\ wanted' = [wanted EXCEPT ![o] = l]
  /\ opc' = [opc EXCEPT ![o] = IF l = NoLimit THEN "idle" ELSE "insert"]
  /\ UNCHANGED <<tables, lock, pc, sendVars, clock, faults, reached>>

\* The insert fails on the row of another operator, or does not come to pass.
InsertLimit(o) ==
  /\ opc[o] = "insert"
  /\ \/ limit' = (IF limit = NoLimit THEN wanted[o] ELSE limit) /\ NoFault
     \/ limit' = limit /\ Fault
  /\ opc' = [opc EXCEPT ![o] = "idle"]
  /\ wanted' = [wanted EXCEPT ![o] = NoLimit]
  /\ UNCHANGED <<tables, lock, pc, sendVars, clock, reached>>

Second ==
  /\ clock < MaxClock
  /\ clock' = clock + 1
  /\ UNCHANGED <<tables, limitVars, lock, pc, sendVars, faults, reached>>

-----------------------------------------------------------------------------
Step(s) ==
  \/ \E c \in Chats, b \in BOOLEAN : Lock(s, c, b)
  \/ Lookup(s) \/ ReadLimit(s) \/ Count(s) \/ Record(s)
  \/ Deliver(s) \/ Store(s) \/ Undo(s)

Next ==
  \/ \E s \in Sends : Step(s) \/ Drop(s)
  \/ \E c \in Chats : Incoming(c)
  \/ \E o \in Operators :
       (\E l \in Limits \cup {NoLimit} : DeleteLimit(o, l)) \/ InsertLimit(o)
  \/ Second

Spec == Init /\ [][Next]_vars

-----------------------------------------------------------------------------
(* Properties.                                                             *)

\* The lock has the holder that is inside admit, and is released on every way out.
LockInv == \A s \in Sends : pc[s] \in Locked <=> lock = s

\* However many sends arrive at once, a chat recorded against a limit leaves no
\* more rows in the limit's window than it allows.
NeverPastTheLimit ==
  [][\A s \in Sends :
       pc[s] = "record" /\ recorded'[s] /\ ~recorded[s] /\ quota[s] # NoLimit =>
         LET window == {c \in started' : startedAt'[c] > now[s] - quota[s].window}
         IN Cardinality(window) <= quota[s].max]_vars

\* The row of the send's chat is the one it recorded.
Counts(s) == recorded[s] /\ pc[s] # "forgot"

\* A chat is counted because of one send, which recorded it and may still fail, or
\* because it was started; a failure that is rolled back is not counted.
RowsAreEarned ==
  /\ \A c \in started : c \in reached \/ \E s \in Sends : Counts(s) /\ to[s] = c
  /\ \A s, r \in Sends : Counts(s) /\ Counts(r) /\ to[s] = to[r] => s = r
  /\ \A s \in Sends : Counts(s) => to[s] \in started
  /\ \A s \in Sends : pc[s] = "failed" /\ scoped[s] /\ faults = 0 => ~recorded[s]

\* Chat c counts, or is in the history, or the send that recorded it failed and
\* forgot it.
Accounted(c) ==
  Known(c) \/ \E s \in Sends : to[s] = c /\ recorded[s] /\ pc[s] = "forgot"

\* Nothing but the rollback of a send that failed loses a chat that was started,
\* unless something broke.
ReachedIsKnown == faults = 0 => \A c \in reached : Accounted(c)

\* Retry-After is right: when it is over, and not a second earlier, one more row
\* fits beside those the refused send counted.
RetryAfterIsExact ==
  [][\A s \in Sends :
       pc[s] = "count" /\ pc'[s] = "refused" =>
         LET Fits(t) == Cardinality(InWindow(t, quota[s].window)) < quota[s].max
         IN Fits(now[s] + after'[s]) /\ ~Fits(now[s] + after'[s] - 1)]_vars

-----------------------------------------------------------------------------
(* The inductive invariant the safety properties rest on.                  *)

\* A send has a chat from its arrival, counts only against a limit, and has recorded
\* nothing before Record.
Fresh(s) ==
  /\ pc[s] # "wait" => to[s] \in Chats
  /\ pc[s] = "count" => quota[s] # NoLimit
  /\ pc[s] \in Locked \cup {"wait", "refused"} => ~recorded[s]

SendsAreFresh == \A s \in Sends : Fresh(s)

\* What the holder of the lock found out stays true until it returns: its chat has
\* no row, and the window it counted has room.
Finding(s) ==
  /\ pc[s] \in Locked \ {"lookup"} => to[s] \notin started
  /\ pc[s] = "record" /\ quota[s] # NoLimit =>
       Cardinality(InWindow(now[s], quota[s].window)) < quota[s].max

FindingsHold == \A s \in Sends : Finding(s)

\* The lock has one holder at a time, so only its own step can add to what it
\* counted: the rollback, which does not take the lock, only deletes.
AdmitInv == LockInv /\ SendsAreFresh /\ FindingsHold

\* A send on its way to WhatsApp was let through because its chat is known.
SendsAreAccounted ==
  faults = 0 => \A s \in Sends : pc[s] = "send" => Accounted(to[s])

-----------------------------------------------------------------------------
(* What the documentation says and the code does not do.                   *)

\* "a bulk send to many new numbers at once cannot slip past the limit"
\* (handlers.rs): no chat is started beyond it, in instances whose windows outlast
\* the clock and whose limit nobody changes.
LimitIsKept ==
  [][reached' # reached /\ limit # NoLimit => Cardinality(reached') <= limit.max]_vars
=============================================================================
