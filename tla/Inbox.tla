------------------------------- MODULE Inbox -------------------------------
(***************************************************************************)
(* Messages that come in (the Messages arm of handle_event, record_incoming*)
(* and db/messages.rs, cloud_webhook_receive): deduplication, contacts,    *)
(* the message history, the event to the consumers; readers that page      *)
(* through a chat; and the stream of store/events.                         *)
(*                                                                         *)
(* The two handlers are those of an old and a new client of one session,   *)
(* or two requests of Meta.  A message is a number, twice the second it    *)
(* was sent in, or one more.  Left out: other chats, other events, the     *)
(* consumers' own queues (Webhooks), receipts.                             *)
(***************************************************************************)
EXTENDS Content, Naturals, FiniteSets, Sequences, SequencesExt

CONSTANTS
  Messages,       \* message ids
  Form,           \* messages: their shape
  Handlers,       \* handlers of events
  Window,         \* RecentMessageIds::DEFAULT_CAPACITY
  PageSize,       \* limit of a request that lists a chat
  MaxDeliveries,  \* bound: batches delivered
  MaxStores,      \* bound: chat stores installed
  MaxFaults       \* bound: crashes and failed inserts

ASSUME InboxAssumption ==
  /\ Messages \subseteq Nat
  /\ Form \in [Messages -> Shapes]
  /\ Window \in Nat \ {0} /\ PageSize \in Nat \ {0}
  /\ MaxDeliveries \in Nat /\ MaxStores \in Nat /\ MaxFaults \in Nat

VARIABLES
  cloud, history,        \* the session's provider; MESSAGE_HISTORY_ENABLED
  at, batch, delivery,   \* handlers: where they are, the messages they still handle, and
                         \* all of a request of Meta
  recent,                \* recent_message_ids, oldest first
  rows, indexed,         \* the history in order of insertion; the index of its bodies
  contacts,              \* messages whose sender is among the contacts
  store,                 \* the session's chat store, 0 for none
  sub, queued,           \* store/events: the store it listens to, and whether it has to tell
  walk,                  \* a reader that pages through the chat
  sighted,               \* observation: first sightings since the start
  came, told, acked,     \* observations: messages delivered, those the consumers got, those
                         \* Meta got an OK for
  dirty,                 \* observation: the listener was not told of the last change
  deliveries, faults

config == <<cloud, history>>
db == <<rows, indexed, contacts>>
stream == <<sub, queued, dirty>>
observed == <<came, told, acked>>
inboxVars == <<config, at, batch, delivery, recent, sighted, db, store, stream, walk, observed,
          deliveries, faults>>

NoWalk == [at |-> "idle", offset |-> 0, due |-> {}, seen |-> {}]

InboxTypeOK ==
  /\ cloud \in BOOLEAN /\ history \in BOOLEAN
  /\ at \in [Handlers -> {"idle", "contacts", "sight", "record", "forward", "cloud", "ok"}]
  /\ batch \in [Handlers -> Seq(Messages)]
  /\ delivery \in [Handlers -> SUBSET Messages]
  /\ recent \in Seq(Messages) /\ Len(recent) <= Window
  /\ rows \in Seq(Messages) /\ indexed \subseteq Messages
  /\ contacts \subseteq Messages
  /\ store \in 0..MaxStores /\ sub \in 0..MaxStores
  /\ queued \in BOOLEAN /\ dirty \in BOOLEAN
  /\ walk \in [at : {"idle", "page", "done"}, offset : Nat,
               due : SUBSET Messages, seen : SUBSET Messages]
  /\ sighted \in Seq(Messages)
  /\ came \subseteq Messages /\ told \subseteq Messages /\ acked \subseteq Messages
  /\ deliveries \in 0..MaxDeliveries
  /\ faults \in 0..MaxFaults

InboxInit ==
  /\ cloud \in BOOLEAN /\ history \in BOOLEAN
  /\ at = [h \in Handlers |-> "idle"]
  /\ batch = [h \in Handlers |-> <<>>]
  /\ delivery = [h \in Handlers |-> {}]
  /\ recent = <<>> /\ sighted = <<>>
  /\ rows = <<>> /\ indexed = {}
  /\ contacts = {}
  /\ store = 0
  /\ sub = 0 /\ queued = FALSE /\ dirty = FALSE
  /\ walk = NoWalk
  /\ came = {} /\ told = {} /\ acked = {}
  /\ deliveries = 0 /\ faults = 0

\* Bound on what goes wrong.
Fault == faults < MaxFaults /\ faults' = faults + 1
NoFault == UNCHANGED faults

Goto(h, p) == at' = [at EXCEPT ![h] = p]

-----------------------------------------------------------------------------
(* Messages of a multi-device session.                                     *)

\* A change of the chat store, and what its listener notices.
Change ==
  /\ dirty' = (dirty \/ store # 0)
  /\ queued' = (queued \/ (store # 0 /\ sub = store))
  /\ UNCHANGED sub

\* A client delivers a batch, live or from the queue of the time it was offline, maybe of
\* messages delivered before; its chat store has them already.
DeliverBatch(h, b) ==
  /\ ~cloud
  /\ at[h] = "idle"
  /\ deliveries < MaxDeliveries
  /\ deliveries' = deliveries + 1
  /\ batch' = [batch EXCEPT ![h] = b]
  /\ came' = came \cup ToSet(b)
  /\ Goto(h, "contacts")
  /\ Change
  /\ UNCHANGED <<config, delivery, recent, sighted, db, store, walk, told, acked, faults>>

\* upsert of the senders of some messages: what is known of a contact is kept.
Upsert(ms) == contacts' = contacts \cup ms

\* persist_contact_event: the senders of the whole batch, repeats included.
PersistContacts(h) ==
  /\ at[h] = "contacts"
  /\ \/ Upsert(ToSet(batch[h])) /\ NoFault
     \/ UNCHANGED contacts /\ Fault
  /\ Goto(h, "sight")
  /\ UNCHANGED <<config, batch, delivery, recent, sighted, rows, indexed, store, stream,
                 walk, observed, deliveries>>

\* first_sighting: whether a message is remembered ...
Seen(m) == m \in ToSet(recent)

\* Mutant: a message is remembered only once it was forwarded.
Remember_Later(m) == UNCHANGED recent

\* ... and remembering it, which forgets the oldest one.
Remember(m) ==
  recent' = IF Len(recent) < Window THEN Append(recent, m) ELSE Append(Tail(recent), m)

\* Mutant: the first message that is done with ends the batch.
Advance_EndsBatch(h) ==
  /\ batch' = [batch EXCEPT ![h] = <<>>]
  /\ Goto(h, "idle")

\* The next message of the batch, or its end.
Advance(h) ==
  /\ batch' = [batch EXCEPT ![h] = Tail(@)]
  /\ Goto(h, IF Len(batch[h]) = 1 THEN "idle" ELSE "sight")

\* A message seen for the first time goes on, a repeat is dropped.
Sight(h) ==
  LET m == Head(batch[h])
  IN /\ at[h] = "sight"
     /\ IF Seen(m)
        THEN Advance(h) /\ UNCHANGED <<recent, sighted>>
        ELSE /\ Remember(m)
             /\ sighted' = Append(sighted, m)
             /\ Goto(h, "record")
             /\ UNCHANGED batch
     /\ UNCHANGED <<config, delivery, db, store, stream, walk, observed, deliveries, faults>>

\* insert: nothing for an id that is there; a body is indexed with its row.
Insert(m) ==
  IF m \in ToSet(rows)
  THEN UNCHANGED <<rows, indexed>> /\ NoFault
  ELSE /\ rows' = Append(rows, m)
       /\ \/ indexed' = (IF Row(Form[m]).body = None THEN indexed ELSE indexed \cup {m}) /\ NoFault
          \/ UNCHANGED indexed /\ Fault

\* record_incoming: never fails its caller.
Record(h) ==
  /\ at[h] = "record"
  /\ \/ history /\ Insert(Head(batch[h]))
     \/ history /\ UNCHANGED <<rows, indexed>> /\ Fault
     \/ ~history /\ UNCHANGED <<rows, indexed>> /\ NoFault
  /\ Goto(h, "forward")
  /\ UNCHANGED <<config, batch, delivery, recent, sighted, contacts, store, stream, walk,
                 observed, deliveries>>

\* The phone numbers are looked up, and webhooks, NATS and listeners get the event.
Forward(h) ==
  /\ at[h] = "forward"
  /\ told' = told \cup {Head(batch[h])}
  /\ Advance(h)
  /\ UNCHANGED <<config, delivery, recent, sighted, db, store, stream, walk, came, acked,
                 deliveries, faults>>

-----------------------------------------------------------------------------
(* Messages of a Cloud session: neither deduplicated nor recorded.         *)

\* cloud_webhook_receive: a genuine, well-formed request; every other is refused.
CloudReceive(h, b) ==
  /\ cloud
  /\ at[h] = "idle"
  /\ deliveries < MaxDeliveries
  /\ deliveries' = deliveries + 1
  /\ batch' = [batch EXCEPT ![h] = b]
  /\ delivery' = [delivery EXCEPT ![h] = ToSet(b)]
  /\ came' = came \cup ToSet(b)
  /\ Goto(h, "cloud")
  /\ UNCHANGED <<config, recent, sighted, db, store, stream, walk, told, acked, faults>>

\* Each of its messages goes to webhooks and NATS.
CloudForward(h) ==
  /\ at[h] = "cloud"
  /\ told' = told \cup {Head(batch[h])}
  /\ batch' = [batch EXCEPT ![h] = Tail(@)]
  /\ Goto(h, IF Len(batch[h]) = 1 THEN "ok" ELSE "cloud")
  /\ UNCHANGED <<config, delivery, recent, sighted, db, store, stream, walk, came, acked,
                 deliveries, faults>>

\* Meta delivers again what it got no OK for.
CloudOk(h) ==
  /\ at[h] = "ok"
  /\ acked' = acked \cup delivery[h]
  /\ delivery' = [delivery EXCEPT ![h] = {}]
  /\ Goto(h, "idle")
  /\ UNCHANGED <<config, batch, recent, sighted, db, store, stream, walk, came, told,
                 deliveries, faults>>

\* Meta hangs up, and the handler is gone at its next await.
CloudHangUp(h) ==
  /\ at[h] \in {"cloud", "ok"}
  /\ Fault
  /\ batch' = [batch EXCEPT ![h] = <<>>]
  /\ delivery' = [delivery EXCEPT ![h] = {}]
  /\ Goto(h, "idle")
  /\ UNCHANGED <<config, recent, sighted, db, store, stream, walk, observed, deliveries>>

-----------------------------------------------------------------------------
(* Readers of the history.                                                 *)

\* The second a message was sent in.
Timestamp(m) == m \div 2

\* The order of a chat, newest first: the rows before row i, by timestamp, then by row id.
Newer(i) ==
  {j \in DOMAIN rows : \/ Timestamp(rows[j]) > Timestamp(rows[i])
                       \/ Timestamp(rows[j]) = Timestamp(rows[i]) /\ j > i}

\* Mutant: an offset that counts from one.
Page_FromOne(offset) ==
  {i \in DOMAIN rows : Cardinality(Newer(i)) \in (offset + 1)..(offset + PageSize)}

\* list_by_chat: LIMIT rows that have OFFSET rows or more before them.
Page(offset) ==
  {i \in DOMAIN rows : Cardinality(Newer(i)) \in offset..(offset + PageSize - 1)}

\* A reader starts at offset 0; what is there is due to it.
StartWalk ==
  /\ walk.at = "idle"
  /\ rows # <<>>
  /\ walk' = [NoWalk EXCEPT !.at = "page", !.due = ToSet(rows)]
  /\ UNCHANGED <<config, at, batch, delivery, recent, sighted, db, store, stream, observed,
                 deliveries, faults>>

\* list_chat_messages: one page after the other, until one is not full.
ReadPage ==
  LET p == Page(walk.offset)
  IN /\ walk.at = "page"
     /\ walk' = [walk EXCEPT !.seen = @ \cup {rows[i] : i \in p},
                             !.offset = @ + Cardinality(p),
                             !.at = IF Cardinality(p) < PageSize THEN "done" ELSE "page"]
     /\ UNCHANGED <<config, at, batch, delivery, recent, sighted, db, store, stream,
                    observed, deliveries, faults>>

\* search: the rows whose body is in the index ...
Hits == ToSet(rows) \cap indexed

\* ... and, when the index gives an error, those whose body is like the query.
LikeHits == {m \in ToSet(rows) : Row(Form[m]).body # None}

\* What a reader gets of a row: a pointer if all of it is there, and of a kind that can be
\* downloaded.
Served(m) == [Row(Form[m]) EXCEPT !.pointer = MediaType(@)]

-----------------------------------------------------------------------------
(* The stream of store/events, with a client that reads the store again    *)
(* whenever it gets an event.                                              *)

\* The session connects, with a new chat store.
InstallStore ==
  /\ ~cloud
  /\ store < MaxStores
  /\ store' = store + 1
  /\ dirty' = TRUE
  /\ UNCHANGED <<config, at, batch, delivery, recent, sighted, db, sub, queued, walk,
                 observed, deliveries, faults>>

\* It listens to the store, then tells the client to refresh.
Subscribe ==
  /\ sub = 0 /\ store # 0
  /\ sub' = store
  /\ queued' = TRUE
  /\ UNCHANGED <<config, at, batch, delivery, recent, sighted, db, store, dirty, walk,
                 observed, deliveries, faults>>

\* A change, or the mark that some were missed, becomes an event.
Tell ==
  /\ sub # 0 /\ queued
  /\ queued' = FALSE
  /\ dirty' = FALSE
  /\ UNCHANGED <<config, at, batch, delivery, recent, sighted, db, store, sub, walk, observed,
                 deliveries, faults>>

\* Mutant: the stream stays with the store it has.
Poll_Stays ==
  /\ sub # 0 /\ sub # store
  /\ queued' = FALSE
  /\ UNCHANGED <<config, at, batch, delivery, recent, sighted, db, store, sub, dirty, walk,
                 observed, deliveries, faults>>

\* Every five seconds: is the store still the session's?
Poll ==
  /\ sub # 0 /\ sub # store
  /\ sub' = 0
  /\ queued' = FALSE
  /\ UNCHANGED <<config, at, batch, delivery, recent, sighted, db, store, dirty, walk, observed,
                 deliveries, faults>>

-----------------------------------------------------------------------------
\* The process dies; a listener comes again and reads the store anew.
Crash ==
  /\ Fault
  /\ at' = [h \in Handlers |-> "idle"]
  /\ batch' = [h \in Handlers |-> <<>>]
  /\ delivery' = [h \in Handlers |-> {}]
  /\ recent' = <<>> /\ sighted' = <<>>
  /\ store' = 0 /\ sub' = 0 /\ queued' = FALSE /\ dirty' = FALSE
  /\ UNCHANGED <<config, db, walk, observed, deliveries>>

\* The batches a handler may get.
Batches ==
  {<<m>> : m \in Messages} \cup {b \in Messages \X Messages : b[1] # b[2]}

HandlerStep(h) ==
  PersistContacts(h) \/ Sight(h) \/ Record(h) \/ Forward(h) \/ CloudForward(h) \/ CloudOk(h)

StreamStep == Subscribe \/ Tell \/ Poll

InboxNext ==
  \/ \E h \in Handlers :
       \/ \E b \in Batches : DeliverBatch(h, b) \/ CloudReceive(h, b)
       \/ HandlerStep(h) \/ CloudHangUp(h)
  \/ StartWalk \/ ReadPage
  \/ InstallStore \/ StreamStep
  \/ Crash

InboxSpec == InboxInit /\ [][InboxNext]_inboxVars

\* Handlers run on, and so does the task of a stream.
InboxFairness ==
  /\ \A h \in Handlers : WF_inboxVars(HandlerStep(h))
  /\ WF_inboxVars(StreamStep)

InboxFairSpec == InboxSpec /\ InboxFairness

-----------------------------------------------------------------------------
(* Properties.                                                             *)

\* A message delivered again, by whichever client, is not forwarded again until as many
\* others as the window holds came in between.
RepeatsAreFarApart ==
  \A i, j \in DOMAIN sighted : i < j /\ sighted[i] = sighted[j] => j - i > Window

\* A consumer that looks up a message it was told of finds it, unless an insert failed:
\* it is recorded first, with what the event said of it, and search knows its words.
ToldIsInTheHistory ==
  ~cloud /\ history /\ faults = 0 =>
    \A m \in told :
      LET d == EventData(Form[m])
          r == Served(m)
      IN /\ m \in ToSet(rows) /\ m \in contacts
         /\ r.type = d.type /\ r.quoted = d.quoted
         /\ d.media # None /\ "pointer" \in Form[m].has => r.pointer = d.media
         /\ d.text # None \/ d.caption # None => m \in Hits /\ m \in LikeHits

\* A reader that pages through a chat gets every message that was there when it began,
\* whatever comes in meanwhile, old messages of an offline time included.
WalkMissesNothing == walk.at = "done" => walk.due \subseteq walk.seen

\* A delivered message is forwarded, also when two clients deliver it at once and one of
\* them drops it; and what Meta got an OK for was forwarded whatever failed, since Meta
\* does not deliver it again.
DeliveredIsTold ==
  /\ [](acked \subseteq told)
  /\ []<>(faults > 0 \/ came \subseteq told)

\* The client of a stream learns of every change, also of one in the moment it connects
\* or while its session reconnects with another store.
StreamCatchesUp == []<>(~dirty \/ store = 0)
=============================================================================
