------------------------------- MODULE Sends -------------------------------
(***************************************************************************)
(* Every way a message of one session leaves waxum: the send endpoints     *)
(* (api/shared/messages, api/web/polls, api/web/status), the replay of a   *)
(* parked request by the scheduler's loop (api/shared/schedule) and the    *)
(* consumer of outbound commands (nats/consumer.rs).                       *)
(*                                                                         *)
(* An endpoint is the list of its steps that can fail, refuse, or leave    *)
(* something behind, in the order its handler takes them:                  *)
(*   client   get_client, and the parse of the recipient                   *)
(*   admit    new_chats::admit                                             *)
(*   check    any later step that may fail before the send: media, upload, *)
(*            validation                                                   *)
(*   send     the call that hands the message over                         *)
(*   store    record_outgoing                                              *)
(* A task runs the list; tasks of all kinds interleave between two steps.  *)
(*                                                                         *)
(* Left out: what the messages say, typing indicators, the chat store, the *)
(* windows of the limit and the lock inside admit (NewChats), and the      *)
(* claims of the scheduler's loops (Scheduler).                            *)
(***************************************************************************)
EXTENDS Naturals, Sequences, FiniteSets

CONSTANTS
  Chats,       \* recipients
  Groups,      \* those that are no direct chats
  Requests,    \* HTTP requests
  Commands,    \* messages of the WA_SEND stream
  Histories,   \* what the messages table may hold at first
  ChatLimit,   \* max_new_chats
  MaxDeliver,  \* max_deliver of the consumer
  MaxFailures  \* bound: crashes, hang-ups, slow sends, lost answers and acks

ASSUME SendsAssumption ==
  /\ Groups \subseteq Chats
  /\ Histories \subseteq SUBSET (Chats \ Groups)
  /\ ChatLimit \in Nat
  /\ MaxDeliver \in Nat \ {0}
  /\ Requests \cap (Commands \cup Commands \X (1..MaxDeliver)) = {}
  /\ MaxFailures \in Nat

Orders == Requests \cup Commands
Deliveries == Commands \X (1..MaxDeliver)
Tasks == Requests \cup Deliveries

\* The request or command a task works for.
OrderOf(t) == IF t \in Requests THEN t ELSE t[1]

NoChat == "nochat"

VARIABLES
  cloud,            \* get_cloud_credentials finds some
  started,          \* new_chats rows
  messaged,         \* direct chats with a row in messages
  parked,           \* requests in scheduled_messages
  queue, delivery,  \* commands: their state in the stream, deliveries so far
  script,           \* commands: what they ask for: [todo, to]
  phase,            \* tasks: where they are
  todo, to,         \* tasks: steps left, recipient
  counted,          \* tasks: RECORDED is not empty
  outcome,          \* tasks: how the send ended
  taken,            \* observation: copies of an order WhatsApp took
  results,          \* observation: send_result events of a command
  failures

chatVars == <<started, messaged>>
queueVars == <<queue, delivery, script, results>>
taskVars == <<phase, todo, to, counted, outcome>>
sendsVars == <<cloud, chatVars, parked, queueVars, taskVars, taken, failures>>

Steps == {"client", "admit", "check", "send", "store"}
Ended == {"done", "dead"}
Phases == Ended \cup {"idle", "parked", "run", "undo", "publish", "ack", "nak"}
Outcomes == {"none", "ok", "failed", "refused"}

SendsTypeOK ==
  /\ cloud \in BOOLEAN
  /\ started \subseteq Chats \ Groups
  /\ messaged \subseteq Chats \ Groups
  /\ parked \subseteq Requests
  /\ queue \in [Commands -> {"new", "ready", "out", "acked"}]
  /\ delivery \in [Commands -> 0..MaxDeliver]
  /\ \A c \in Commands : /\ script[c].todo \in Seq(Steps)
                         /\ script[c].to \in Chats \cup {NoChat}
  /\ results \in [Commands -> SUBSET {"ok", "refused"}]
  /\ phase \in [Tasks -> Phases]
  /\ \A t \in Tasks : todo[t] \in Seq(Steps)
  /\ to \in [Tasks -> Chats \cup {NoChat}]
  /\ counted \in [Tasks -> BOOLEAN]
  /\ outcome \in [Tasks -> Outcomes]
  /\ taken \in [Orders -> Nat]
  /\ failures \in 0..MaxFailures

Nothing == [todo |-> <<>>, to |-> NoChat]

SendsInit ==
  /\ cloud \in BOOLEAN
  /\ started = {}
  /\ messaged \in Histories
  /\ parked = {}
  /\ queue = [c \in Commands |-> "new"]
  /\ delivery = [c \in Commands |-> 0]
  /\ script = [c \in Commands |-> Nothing]
  /\ results = [c \in Commands |-> {}]
  /\ phase = [t \in Tasks |-> "idle"]
  /\ todo = [t \in Tasks |-> <<>>]
  /\ to = [t \in Tasks |-> NoChat]
  /\ counted = [t \in Tasks |-> FALSE]
  /\ outcome = [t \in Tasks |-> "none"]
  /\ taken = [o \in Orders |-> 0]
  /\ failures = 0

Fault == failures < MaxFailures /\ failures' = failures + 1
NoFault == UNCHANGED failures

-----------------------------------------------------------------------------
(* The endpoints.  parks: a send_at in the future stores the request;      *)
(* cloud: the steps for a session of the Cloud API, none if the handler    *)
(* does not look; web: the steps otherwise.                                *)

Endpoint(parks, cloudSteps, webSteps) ==
  [parks |-> parks, cloud |-> cloudSteps, web |-> webSteps]

\* The shape most send handlers share.
Plain == <<"client", "admit", "send", "store">>

\* The same, where a step between admit and the send may fail.
Checked == <<"client", "admit", "check", "send", "store">>

\* Answers to an interactive message do not start a chat.
Reply == <<"client", "send", "store">>

\* Mentions, and the members of a group to mention, may fail after admit.
Text == Endpoint(TRUE, <<"send">>, Checked)

\* Media is loaded and uploaded after admit; the Cloud API gets an upload or a link.
Image == Endpoint(TRUE, <<"check", "send">>, Checked)

\* As an image.
Video == Endpoint(TRUE, <<"check", "send">>, Checked)

\* As an image.
Audio == Endpoint(TRUE, <<"check", "send">>, Checked)

\* As an image.
Document == Endpoint(TRUE, <<"check", "send">>, Checked)

\* As an image.
Sticker == Endpoint(TRUE, <<"check", "send">>, Checked)

\* Nothing to load.
Location == Endpoint(TRUE, <<"send">>, Plain)

\* A contact card.
Contact == Endpoint(TRUE, <<"send">>, Plain)

\* Mutant: the branch of a stored message goes on to the branch of a text.
Forward_FallsThrough ==
  Endpoint(TRUE, <<>>, <<"client", "admit", "check", "send", "store", "send", "store">>)

\* The stored message may be missing; its branch returns.
Forward == Endpoint(TRUE, <<>>, Checked)

\* The only send core that records nothing.
Comment == Endpoint(TRUE, <<>>, <<"client", "admit", "send">>)

\* An invitation to a call.
ScheduledCall == Endpoint(TRUE, <<>>, Plain)

\* Its change or cancellation.
ScheduledCallEdit == Endpoint(TRUE, <<>>, Plain)

\* An invitation to run a newsletter.
AdminInvite == Endpoint(TRUE, <<>>, Plain)

\* An invitation to follow one.
FollowerInvite == Endpoint(TRUE, <<>>, Plain)

\* A newsletter message, forwarded.
NewsletterForward == Endpoint(TRUE, <<>>, Plain)

\* An order.
Order == Endpoint(TRUE, <<>>, Plain)

\* An invoice.
Invoice == Endpoint(TRUE, <<>>, Plain)

\* An invitation to pay.
PaymentInvite == Endpoint(TRUE, <<>>, Plain)

\* Money sent.
Payment == Endpoint(TRUE, <<>>, Plain)

\* A request for money.
RequestPayment == Endpoint(TRUE, <<>>, Plain)

\* The request for money, withdrawn.
CancelPayment == Endpoint(TRUE, <<>>, Plain)

\* The request for money, refused.
DeclinePayment == Endpoint(TRUE, <<>>, Plain)

\* A poll.
PollMessage == Endpoint(TRUE, <<>>, Plain)

\* Native-flow buttons.
Interactive == Endpoint(TRUE, <<>>, Plain)

\* A template.
HighlyStructured == Endpoint(TRUE, <<>>, Plain)

\* Reply buttons.
Buttons == Endpoint(TRUE, <<"send">>, Plain)

\* A list to choose from.
List == Endpoint(TRUE, <<"send">>, Plain)

\* The header image may fail to load.
CtaUrl == Endpoint(TRUE, <<>>, Checked)

\* No buttons is refused after admit.
QuickReply == Endpoint(TRUE, <<>>, Checked)

\* A raw vote.
PollUpdate == Endpoint(TRUE, <<>>, Reply)

\* A press of a button.
ButtonsResponse == Endpoint(TRUE, <<>>, Reply)

\* A choice of a row.
ListResponse == Endpoint(TRUE, <<>>, Reply)

\* A native-flow answer.
InteractiveResponse == Endpoint(TRUE, <<>>, Reply)

\* A press of a template's button.
TemplateButtonReply == Endpoint(TRUE, <<>>, Reply)

\* A vote in a stored poll, which is checked first.
Vote == Endpoint(FALSE, <<>>, <<"client", "check", "send", "store">>)

\* Recorded like a message.
Pin == Endpoint(FALSE, <<>>, Reply)

\* The chat store notes it, messages does not.
Reaction == Endpoint(FALSE, <<"send">>, <<"client", "send">>)

\* As a reaction.
Edit == Endpoint(FALSE, <<>>, <<"client", "send">>)

\* One read receipt, or one per message for the Cloud API; a sender may not parse.
Read == Endpoint(FALSE, <<"send">>, <<"client", "check", "send">>)

\* The original sender may not parse.
Revoke == Endpoint(FALSE, <<>>, <<"client", "check", "send">>)

\* To the status broadcast, which has no chat.
StatusReaction == Endpoint(FALSE, <<>>, <<"client", "check", "send">>)

\* Recorded under the broadcast.
TextStatus == Endpoint(FALSE, <<>>, Reply)

\* As a text status, with an upload.
ImageStatus == Endpoint(FALSE, <<>>, <<"client", "check", "send", "store">>)

\* The id may not be one.
RevokeStatus == Endpoint(FALSE, <<>>, <<"client", "check", "send">>)

\* Endpoints that can start a conversation, and those inside an existing chat.
Openers ==
  {Text, Image, Video, Audio, Document, Sticker, Location, Contact, Forward, Comment,
   ScheduledCall, ScheduledCallEdit, AdminInvite, FollowerInvite, NewsletterForward,
   Order, Invoice, PaymentInvite, Payment, RequestPayment, CancelPayment, DeclinePayment,
   PollMessage, Interactive, HighlyStructured, Buttons, List, CtaUrl, QuickReply}

InChat ==
  {PollUpdate, ButtonsResponse, ListResponse, InteractiveResponse, TemplateButtonReply,
   Vote, Pin, Reaction, Edit, Read, Revoke}

\* Statuses go to the broadcast.
Statuses == {StatusReaction, TextStatus, ImageStatus, RevokeStatus}

-----------------------------------------------------------------------------
(* The commands: the arms of dispatch_command.  process_outbound_command   *)
(* reads the client before it parses the recipient; nothing is stored, and *)
(* no session of the Cloud API is served.                                  *)

\* An arm with a plain message, and one that loads and uploads media.
PlainArm == <<"client", "admit", "send">>
MediaArm == <<"client", "admit", "check", "send">>

\* A text.
TextCommand == PlainArm

\* Media is loaded and uploaded after admit.
ImageCommand == MediaArm

\* As an image.
VideoCommand == MediaArm

\* As an image.
AudioCommand == MediaArm

\* As an image.
DocumentCommand == MediaArm

\* As an image.
StickerCommand == MediaArm

\* As a text.
LocationCommand == PlainArm

\* As a text.
ContactCommand == PlainArm

\* As a text.
PollCommand == PlainArm

\* As a text.
ButtonsCommand == PlainArm

\* As a text.
ListCommand == PlainArm

\* As a text.
InteractiveCommand == PlainArm

\* Inside an existing chat.
ReactionCommand == <<"client", "send">>

\* As a reaction.
EditCommand == <<"client", "send">>

\* As a reaction; the original sender may not parse.
RevokeCommand == <<"client", "check", "send">>

\* A receipt; the sender may not parse.
ReadCommand == <<"client", "check", "send">>

CommandOpeners ==
  {TextCommand, ImageCommand, VideoCommand, AudioCommand, DocumentCommand, StickerCommand,
   LocationCommand, ContactCommand, PollCommand, ButtonsCommand, ListCommand,
   InteractiveCommand}

CommandsInChat == {ReactionCommand, RevokeCommand, EditCommand, ReadCommand}

-----------------------------------------------------------------------------
(* Requests.                                                               *)

\* A session with Cloud credentials takes the cloud steps of a handler that has some.
Route(e) == IF cloud /\ e.cloud # <<>> THEN e.cloud ELSE e.web

\* Only the limit and the messages table look at the recipient of a send.
Recipient(s, c) == IF \E i \in DOMAIN s : s[i] \in {"admit", "store"} THEN c ELSE NoChat

\* A task starts with the steps s, for chat c.
Begin(t, p, s, c) ==
  /\ phase' = [phase EXCEPT ![t] = p]
  /\ todo' = [todo EXCEPT ![t] = s]
  /\ to' = [to EXCEPT ![t] = Recipient(s, c)]

\* A send handler runs at once.
Arrive(r, e, c) ==
  /\ phase[r] = "idle"
  /\ Begin(r, "run", Route(e), c)
  /\ UNCHANGED <<cloud, chatVars, parked, queueVars, counted, outcome, taken, failures>>

\* maybe_schedule: the row is written and the answer given.
ParkRequest(r, e, c) ==
  /\ phase[r] = "idle" /\ e.parks
  /\ parked' = parked \cup {r}
  /\ Begin(r, "parked", Route(e), c)
  /\ UNCHANGED <<cloud, chatVars, queueVars, counted, outcome, taken, failures>>

\* dispatch: the send core of the endpoint, without the scope of a request.
Replay(r) ==
  /\ phase[r] = "parked"
  /\ phase' = [phase EXCEPT ![r] = "run"]
  /\ UNCHANGED <<cloud, chatVars, parked, queueVars, todo, to, counted, outcome, taken,
                 failures>>

\* Requests and commands run in a scope, replays do not.
Scoped(t) == t \notin parked

-----------------------------------------------------------------------------
(* The steps of a task.                                                    *)

\* Task t is about to take this step, and has taken it.
At(t, step) == phase[t] = "run" /\ todo[t] # <<>> /\ Head(todo[t]) = step

Advance(t) == todo' = [todo EXCEPT ![t] = Tail(@)] /\ UNCHANGED <<phase, outcome>>

\* The locals of a task whose steps are over; the chat it counted stays on record.
Close(t) == to' = [to EXCEPT ![t] = IF counted[t] THEN @ ELSE NoChat]

\* Where a send goes that failed, and one the limit refused: the handler answers,
\* its scope undoes what it recorded; the consumer answers a refusal, not a failure.
Fail(t) ==
  /\ outcome' = [outcome EXCEPT ![t] = "failed"]
  /\ phase' = [phase EXCEPT ![t] = "undo"]
  /\ todo' = [todo EXCEPT ![t] = <<>>]

Refuse(t) ==
  /\ outcome' = [outcome EXCEPT ![t] = "refused"]
  /\ phase' = [phase EXCEPT ![t] = IF t \in Requests THEN "done" ELSE "publish"]
  /\ todo' = [todo EXCEPT ![t] = <<>>]
  /\ Close(t)

\* get_client finds no live client, always so for the Cloud API; or the recipient is
\* no JID.
Client(t) ==
  /\ At(t, "client")
  /\ \/ ~cloud /\ Advance(t)
     \/ Fail(t)
  /\ UNCHANGED <<cloud, chatVars, parked, queueVars, to, counted, taken, failures>>

\* A later step that may fail.
Check(t) ==
  /\ At(t, "check")
  /\ Advance(t) \/ Fail(t)
  /\ UNCHANGED <<cloud, chatVars, parked, queueVars, to, counted, taken, failures>>

\* is_direct_chat
Direct(c) == c \notin Groups

\* chat_known
Known(c) == c \in started \/ c \in messaged

\* admit: a failed lookup lets the send through, uncounted.
Admit(t) ==
  /\ At(t, "admit")
  /\ \/ /\ Known(to[t]) \/ ~Direct(to[t])
        /\ Advance(t)
        /\ UNCHANGED <<started, counted, to, failures>>
     \/ /\ Direct(to[t]) /\ ~Known(to[t]) /\ Cardinality(started) < ChatLimit
        /\ started' = started \cup {to[t]}
        /\ counted' = [counted EXCEPT ![t] = TRUE]
        /\ Advance(t) /\ NoFault
        /\ UNCHANGED to
     \/ /\ Direct(to[t]) /\ ~Known(to[t]) /\ ~(Cardinality(started) < ChatLimit)
        /\ Refuse(t)
        /\ UNCHANGED <<started, counted, failures>>
     \/ /\ Direct(to[t]) /\ Fault
        /\ Advance(t)
        /\ UNCHANGED <<started, counted, to>>
  /\ UNCHANGED <<cloud, messaged, parked, queueVars, taken>>

\* WhatsApp takes the message, or does not, or takes it and the answer is lost.
Send(t) ==
  /\ At(t, "send")
  /\ \/ taken' = [taken EXCEPT ![OrderOf(t)] = @ + 1] /\ Advance(t) /\ NoFault
     \/ UNCHANGED taken /\ Fail(t) /\ NoFault
     \/ taken' = [taken EXCEPT ![OrderOf(t)] = @ + 1] /\ Fail(t) /\ Fault
  /\ UNCHANGED <<cloud, chatVars, parked, queueVars, to, counted>>

\* record_outgoing never fails the send, even when its insert does.
Store(t) ==
  /\ At(t, "store")
  /\ \/ /\ messaged' = messaged \cup ({to[t]} \ Groups)
        /\ NoFault
     \/ UNCHANGED messaged /\ Fault
  /\ Advance(t)
  /\ UNCHANGED <<cloud, started, parked, queueVars, to, counted, taken>>

\* The handler returns Ok: the request is answered, the command's result published.
Succeed(t) ==
  /\ phase[t] = "run" /\ todo[t] = <<>>
  /\ outcome' = [outcome EXCEPT ![t] = "ok"]
  /\ phase' = [phase EXCEPT ![t] = IF t \in Requests THEN "done" ELSE "publish"]
  /\ Close(t)
  /\ UNCHANGED <<cloud, chatVars, parked, queueVars, todo, counted, taken, failures>>

\* Mutant: the consumer runs its sends outside a scope.
MustForget_OnlyHttp(t) == counted[t] /\ t \in Requests \ parked

\* rollback_failed_sends and the consumer forget what their scope recorded.
MustForget(t) == counted[t] /\ Scoped(t)

\* Mutant: a failure that recorded nothing is never answered.
Undo_OnlyCounted(t) ==
  /\ phase[t] = "undo"
  /\ \/ /\ MustForget(t)
        /\ started' = started \ {to[t]}
        /\ phase' = [phase EXCEPT ![t] = IF t \in Requests THEN "done" ELSE "nak"]
        /\ Close(t)
     \/ ~MustForget(t) /\ UNCHANGED <<started, phase, to>>
  /\ UNCHANGED <<cloud, messaged, parked, queueVars, todo, counted, outcome, taken, failures>>

\* The failure is undone and answered.
Undo(t) ==
  /\ phase[t] = "undo"
  /\ started' = IF MustForget(t) THEN started \ {to[t]} ELSE started
  /\ counted' = [counted EXCEPT ![t] = @ /\ ~Scoped(t)]
  /\ phase' = [phase EXCEPT ![t] = IF t \in Requests THEN "done" ELSE "nak"]
  /\ to' = [to EXCEPT ![t] = IF counted'[t] THEN @ ELSE NoChat]
  /\ UNCHANGED <<cloud, messaged, parked, queueVars, todo, outcome, taken, failures>>

-----------------------------------------------------------------------------
(* The consumer.                                                           *)

\* A producer publishes a command.
Enqueue(c, s, d) ==
  /\ queue[c] = "new"
  /\ queue' = [queue EXCEPT ![c] = "ready"]
  /\ script' = [script EXCEPT ![c] = [todo |-> s, to |-> Recipient(s, d)]]
  /\ UNCHANGED <<cloud, chatVars, parked, delivery, results, taskVars, taken, failures>>

\* The stream hands it over, to a task of its own, at most max_deliver times.
Deliver(c) ==
  /\ queue[c] = "ready" /\ delivery[c] < MaxDeliver
  /\ queue' = [queue EXCEPT ![c] = "out"]
  /\ delivery' = [delivery EXCEPT ![c] = @ + 1]
  /\ Begin(<<c, delivery'[c]>>, "run", script[c].todo, script[c].to)
  /\ UNCHANGED <<cloud, chatVars, parked, script, results, counted, outcome, taken, failures>>

\* publish_to_nats: a failure is only logged.
Publish(t) ==
  /\ phase[t] = "publish"
  /\ \/ results' = [results EXCEPT ![OrderOf(t)] = @ \cup {outcome[t]}] /\ NoFault
     \/ UNCHANGED results /\ Fault
  /\ phase' = [phase EXCEPT ![t] = "ack"]
  /\ UNCHANGED <<cloud, chatVars, parked, queue, delivery, script, todo, to, counted,
                 outcome, taken>>

\* Whichever delivery acks, the command leaves the stream.
Ack(t) ==
  /\ phase[t] = "ack"
  /\ \/ /\ queue' = [queue EXCEPT ![OrderOf(t)] = "acked"]
        /\ script' = [script EXCEPT ![OrderOf(t)] = Nothing]
        /\ NoFault
     \/ UNCHANGED <<queue, script>> /\ Fault
  /\ phase' = [phase EXCEPT ![t] = "done"]
  /\ UNCHANGED <<cloud, chatVars, parked, delivery, results, todo, to, counted,
                 outcome, taken>>

\* Mutant: a failed command is acked away.
Nak_Acks(t) ==
  /\ phase[t] = "nak"
  /\ queue' = [queue EXCEPT ![OrderOf(t)] = "acked"]
  /\ phase' = [phase EXCEPT ![t] = "done"]
  /\ UNCHANGED <<cloud, chatVars, parked, delivery, script, results, todo, to, counted,
                 outcome, taken, failures>>

\* AckKind::Nak: the command is ready again; the one of an older delivery may count
\* or not.
Nak(t) ==
  LET c == OrderOf(t)
  IN /\ phase[t] = "nak"
     /\ \/ queue[c] = "out" /\ queue' = [queue EXCEPT ![c] = "ready"] /\ NoFault
        \/ (queue[c] # "out" \/ t[2] # delivery[c]) /\ UNCHANGED queue /\ NoFault
        \/ UNCHANGED queue /\ Fault
     /\ phase' = [phase EXCEPT ![t] = "done"]
     /\ UNCHANGED <<cloud, chatVars, parked, delivery, script, results, todo, to,
                    counted, outcome, taken>>

\* ack_wait is over.  A task that still runs is a slow one; nothing stops it.
AckWait(c) ==
  /\ queue[c] = "out"
  /\ queue' = [queue EXCEPT ![c] = "ready"]
  /\ IF phase[<<c, delivery[c]>>] \in Ended THEN NoFault ELSE Fault
  /\ UNCHANGED <<cloud, chatVars, parked, delivery, script, results, taskVars, taken>>

-----------------------------------------------------------------------------
(* Faults.                                                                 *)

\* A task with a handler under way.
Running(t) == phase[t] \notin Ended \cup {"idle", "parked"}

Kill(T) ==
  /\ phase' = [t \in Tasks |-> IF t \in T THEN "dead" ELSE phase[t]]
  /\ todo' = [t \in Tasks |-> IF t \in T THEN <<>> ELSE todo[t]]
  /\ to' = [t \in Tasks |-> IF t \in T /\ ~counted[t] THEN NoChat ELSE to[t]]
  /\ UNCHANGED <<counted, outcome>>

\* The process dies: nothing is undone, the commands under way stay out.
ProcessDies ==
  /\ Fault
  /\ \E t \in Tasks : Running(t)
  /\ Kill({t \in Tasks : Running(t)})
  /\ UNCHANGED <<cloud, chatVars, parked, queueVars, taken>>

\* The client of a request hangs up: its handler is dropped where it stands.
HangUp(r) ==
  /\ Fault
  /\ Running(r) /\ Scoped(r)
  /\ Kill({r})
  /\ UNCHANGED <<cloud, chatVars, parked, queueVars, taken>>

-----------------------------------------------------------------------------
TaskStep(t) ==
  \/ Client(t) \/ Check(t) \/ Admit(t) \/ Send(t) \/ Store(t)
  \/ Succeed(t) \/ Undo(t)
  \/ Publish(t) \/ Ack(t) \/ Nak(t)

\* Nothing is left to do.
Quiet ==
  /\ \A t \in Tasks : phase[t] \in Ended \cup {"idle"}
  /\ \A r \in Requests : phase[r] # "idle"
  /\ \A c \in Commands : queue[c] = "acked" \/ delivery[c] = MaxDeliver

SendsNext ==
  \/ \E r \in Requests, c \in Chats :
       \E e \in Openers \cup InChat : Arrive(r, e, c) \/ ParkRequest(r, e, c)
  \/ \E r \in Requests, e \in Statuses, g \in Groups : Arrive(r, e, g)
  \/ \E r \in Requests : Replay(r) \/ HangUp(r)
  \/ \E c \in Commands, d \in Chats, s \in CommandOpeners \cup CommandsInChat :
       Enqueue(c, s, d)
  \/ \E c \in Commands : Deliver(c) \/ AckWait(c)
  \/ \E t \in Tasks : TaskStep(t)
  \/ ProcessDies
  \/ Quiet /\ UNCHANGED sendsVars

SendsSpec == SendsInit /\ [][SendsNext]_sendsVars

\* Tasks run on, the scheduler polls, the stream hands over what is ready and waits no
\* longer than ack_wait.
SendsFairness ==
  /\ \A r \in Requests : WF_sendsVars(Replay(r) \/ TaskStep(r))
  /\ \A d \in Deliveries : WF_sendsVars(TaskStep(d))
  /\ \A c \in Commands : WF_sendsVars(Deliver(c) \/ AckWait(c))

SendsFairSpec == SendsSpec /\ SendsFairness

-----------------------------------------------------------------------------
(* Properties.                                                             *)

\* How the deliveries of command c ended.
OutcomesOf(c) == {outcome[<<c, n>>] : n \in 1..MaxDeliver}

\* A command leaves the stream only when it is done: some delivery of it was taken by
\* WhatsApp or refused by the limit, and unless something broke its result says which.
\* A producer that reads a success can rely on it.
AckedIsDone ==
  \A c \in Commands :
    /\ queue[c] = "acked" =>
         /\ OutcomesOf(c) \cap {"ok", "refused"} # {}
         /\ failures = 0 => results[c] # {}
    /\ "ok" \in results[c] => taken[c] > 0

\* WhatsApp gets no request twice, through whichever endpoint and loop it goes; and
\* every copy of a command after the first has a crash, a lost answer, a lost ack or a
\* send slower than ack_wait behind it.
EveryCopyHasAFault ==
  /\ \A r \in Requests : taken[r] <= 1
  /\ \A c \in Commands : taken[c] <= 1 + failures
  /\ failures = 0 => \A t \in Tasks : outcome[t] = "ok" => taken[OrderOf(t)] = 1

\* A send that failed inside a scope leaves no chat counted: each one counted has a send
\* that recorded it and got through, is still under way, or was a replay.
FailuresLeaveNoChat ==
  \A c \in started :
    \E t \in Tasks :
      /\ counted[t] /\ to[t] = c
      /\ ~(phase[t] \in {"nak", "done"} /\ outcome[t] = "failed" /\ Scoped(t))

\* Every published command leaves the stream or uses up its deliveries, and every
\* request and every replay comes to an end: again and again nothing is under way.
EverySendSettles ==
  []<>/\ \A c \in Commands :
          \/ queue[c] \in {"new", "acked"}
          \/ delivery[c] = MaxDeliver /\ phase[<<c, MaxDeliver>>] \in Ended
      /\ \A r \in Requests : phase[r] \in Ended \cup {"idle"}

=============================================================================
