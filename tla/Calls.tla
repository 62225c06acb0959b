------------------------------- MODULE Calls -------------------------------
(***************************************************************************)
(* Voice calls (api/web/calls/handlers.rs, the call events of handle_event *)
(* and the recordings of storage.rs): the registry of calls that ring, the *)
(* registry of handles of calls under way, the audio channels kept beside  *)
(* it, and the tasks that stream into, record and end a call.              *)
(*                                                                         *)
(* An action is what a handler or task does between two awaits; the two    *)
(* inserts of a new call are two steps, other threads run between them.    *)
(* A request is one HTTP request, or one media socket.                     *)
(*                                                                         *)
(* Left out: samples and codecs, recipients, the orientation of a video,   *)
(* voices, the transcript (it only reads a recording); one session.        *)
(***************************************************************************)
EXTENDS Naturals, Sequences

CONSTANTS
  Calls,      \* call ids
  Requests,   \* HTTP requests and media sockets
  MaxFaults   \* bound: crashes, lost events, hang-ups of HTTP clients, failed writes

NoCall == "nocall"

ASSUME CallsAssumption == MaxFaults \in Nat /\ NoCall \notin Calls

VARIABLES
  autoReject,             \* AUTO_REJECT_INCOMING_CALLS
  kind, wire,             \* calls: how they came about; what WhatsApp knows of them
  inbox,                  \* calls: events not handled yet, in order
  incoming,               \* incoming_calls
  active,                 \* active_calls
  audio,                  \* call_audio_channels
  stream,                 \* calls: the task that plays a payload, then hangs up
  recorder, recordings,   \* calls: the recording task; recordings written
  op, at, call, payload,  \* requests: what they do, where they are, their call,
                          \* whether they bring a payload to play
  answers,                \* observation: accepts and rejects of a call
  faults

registries == <<incoming, active, audio>>
tasks == <<stream, recorder, recordings>>
requestVars == <<op, at, call, payload>>
vars == <<autoReject, kind, wire, inbox, registries, tasks, requestVars, answers, faults>>

Ops == {"none", "accept", "reject", "ring", "tts", "play", "media", "terminate"}
Places == {"idle", "prepare", "start", "insert", "channels", "drive", "hangup", "unlist",
           "reject", "end", "signal", "unhook", "done"}

TypeOK ==
  /\ autoReject \in BOOLEAN
  /\ kind \in [Calls -> {"none", "in", "out", "media"}]
  /\ wire \in [Calls -> {"none", "offered", "live", "over"}]
  /\ inbox \in [Calls -> Seq({"offer", "terminate", "missed"})]
  /\ incoming \subseteq Calls /\ active \subseteq Calls /\ audio \subseteq Calls
  /\ stream \in [Calls -> {"none", "play", "hangup", "unlist", "unhook", "done"}]
  /\ recorder \in [Calls -> {"none", "on", "write", "done"}]
  /\ recordings \in [Calls -> {"none", "empty", "whole"}]
  /\ op \in [Requests -> Ops]
  /\ at \in [Requests -> Places]
  /\ call \in [Requests -> Calls \cup {NoCall}]
  /\ payload \in [Requests -> BOOLEAN]
  /\ answers \in [Calls -> Nat]
  /\ faults \in 0..MaxFaults

Init ==
  /\ autoReject \in BOOLEAN
  /\ kind = [c \in Calls |-> "none"]
  /\ wire = [c \in Calls |-> "none"]
  /\ inbox = [c \in Calls |-> <<>>]
  /\ incoming = {} /\ active = {} /\ audio = {}
  /\ stream = [c \in Calls |-> "none"]
  /\ recorder = [c \in Calls |-> "none"]
  /\ recordings = [c \in Calls |-> "none"]
  /\ op = [r \in Requests |-> "none"]
  /\ at = [r \in Requests |-> "idle"]
  /\ call = [r \in Requests |-> NoCall]
  /\ payload = [r \in Requests |-> FALSE]
  /\ answers = [c \in Calls |-> 0]
  /\ faults = 0

\* Bound on what goes wrong.
Fault == faults < MaxFaults /\ faults' = faults + 1
NoFault == UNCHANGED faults

\* A request goes on; these requests are over.  What they were about is forgotten, but
\* for the call that a request asked to terminate.
Goto(r, p) == at' = [at EXCEPT ![r] = p] /\ UNCHANGED <<op, call, payload>>

Done(R) ==
  LET F == {r \in R : op[r] # "terminate"}
  IN /\ at' = [r \in Requests |-> IF r \in R THEN "done" ELSE at[r]]
     /\ op' = [r \in Requests |-> IF r \in F THEN "none" ELSE op[r]]
     /\ call' = [r \in Requests |-> IF r \in F THEN NoCall ELSE call[r]]
     /\ payload' = [r \in Requests |-> payload[r] /\ r \notin F]

\* What WhatsApp knows of a call, and an answer it was given.
Wire(c, w) == wire' = [wire EXCEPT ![c] = w]
Answered(c) == answers' = [answers EXCEPT ![c] = @ + 1]

-----------------------------------------------------------------------------
(* WhatsApp, and the events it sends.                                      *)

\* Somebody calls.
Offer(c) ==
  /\ kind[c] = "none"
  /\ kind' = [kind EXCEPT ![c] = "in"]
  /\ Wire(c, "offered")
  /\ inbox' = [inbox EXCEPT ![c] = <<"offer">>]
  /\ UNCHANGED <<autoReject, registries, tasks, requestVars, answers, faults>>

\* The other side ends the call: it gives up, hangs up, or another device answers.
PeerEnds(c) ==
  /\ wire[c] \in {"offered", "live"}
  /\ Wire(c, "over")
  /\ \E e \in {"terminate", "missed"} :
       inbox' = [inbox EXCEPT ![c] = IF kind[c] = "in" THEN Append(@, e) ELSE @]
  /\ UNCHANGED <<autoReject, kind, registries, tasks, requestVars, answers, faults>>

\* The next event of call c is e, and it is handled.
Handled(c, e) ==
  /\ inbox[c] # <<>> /\ Head(inbox[c]) = e
  /\ inbox' = [inbox EXCEPT ![c] = Tail(@)]

\* An offer is registered, or rejected at once; one made while the session was offline
\* is neither, nor one whose rejection fails.
HandleOffer(c) ==
  /\ Handled(c, "offer")
  /\ \/ /\ ~autoReject
        /\ incoming' = incoming \cup {c}
        /\ UNCHANGED <<wire, answers>>
     \/ /\ autoReject
        /\ Wire(c, "over") /\ Answered(c)
        /\ UNCHANGED incoming
     \/ UNCHANGED <<wire, answers, incoming>>
  /\ UNCHANGED <<autoReject, kind, active, audio, tasks, requestVars, faults>>

\* Accepted elsewhere, rejected, terminated or missed.
HandleEnd(c) ==
  /\ Handled(c, "terminate") \/ Handled(c, "missed")
  /\ incoming' = incoming \ {c}
  /\ UNCHANGED <<autoReject, kind, wire, active, audio, tasks, requestVars, answers, faults>>

\* The connection drops with events on their way.
LoseEvents(c) ==
  /\ inbox[c] # <<>>
  /\ Fault
  /\ inbox' = [inbox EXCEPT ![c] = <<>>]
  /\ UNCHANGED <<autoReject, kind, wire, registries, tasks, requestVars, answers>>

-----------------------------------------------------------------------------
(* Requests about an incoming call.                                        *)

\* A request of kind o about call c begins at place p, with something to play or not.
Begin(r, o, c, p, b) ==
  /\ at[r] = "idle"
  /\ op' = [op EXCEPT ![r] = o]
  /\ call' = [call EXCEPT ![r] = c]
  /\ payload' = [payload EXCEPT ![r] = b]
  /\ at' = [at EXCEPT ![r] = p]

\* Mutant: the registry is read, and cleaned by the event that ends the call.
TakeIncoming_Get(c) == c \in incoming /\ UNCHANGED incoming

\* incoming_calls().remove: whoever gets the entry answers the call.
TakeIncoming(c) == c \in incoming /\ incoming' = incoming \ {c}

\* accept_call, with something to say or without.
Accept(r, c) ==
  /\ TakeIncoming(c)
  /\ \/ Begin(r, "accept", c, "prepare", TRUE)
     \/ Begin(r, "accept", c, "start", FALSE)
  /\ UNCHANGED <<autoReject, kind, wire, inbox, active, audio, tasks, answers, faults>>

\* reject_call
Reject(r, c) ==
  /\ TakeIncoming(c)
  /\ Begin(r, "reject", c, "reject", FALSE)
  /\ UNCHANGED <<autoReject, kind, wire, inbox, active, audio, tasks, answers, faults>>

\* voip().reject, which may fail.
SendReject(r) ==
  /\ at[r] = "reject"
  /\ \/ /\ Wire(call[r], "over")
        /\ Answered(call[r])
     \/ UNCHANGED <<wire, answers>>
  /\ Done({r})
  /\ UNCHANGED <<autoReject, kind, inbox, registries, tasks, faults>>

-----------------------------------------------------------------------------
(* Requests that place a call.                                             *)

\* A request that will place a call begins; its call has no id yet.
Place(r, o, p, b) ==
  /\ Begin(r, o, NoCall, p, b)
  /\ UNCHANGED <<autoReject, kind, wire, inbox, registries, tasks, answers, faults>>

\* ring_call and media_stream_ws resolve the recipient; tts_call and play_call have
\* their payload ready before they ring.
Ring(r) == Place(r, "ring", "start", FALSE)
Tts(r) == Place(r, "tts", "prepare", TRUE)
Play(r) == Place(r, "play", "prepare", TRUE)
OpenSocket(r) == Place(r, "media", "start", FALSE)

\* Preparing a payload succeeds or fails.  The entry of an accepted call is gone by then.
Prepare(r, ops) ==
  /\ at[r] = "prepare" /\ op[r] \in ops
  /\ Goto(r, "start") \/ Done({r})
  /\ UNCHANGED <<autoReject, kind, wire, inbox, registries, tasks, answers, faults>>

\* generate_tts_pcm, in three attempts, then the encoder.
Synthesise(r) == Prepare(r, {"accept", "tts"})

\* decode_url_to_pcm, then the encoder.
Fetch(r) == Prepare(r, {"accept", "play"})

\* accept().start(): fails, or starts, even if the caller just gave up.
StartAccept(r) ==
  /\ at[r] = "start" /\ op[r] = "accept"
  /\ \/ /\ wire' = [wire EXCEPT ![call[r]] = IF @ = "offered" THEN "live" ELSE @]
        /\ Answered(call[r])
        /\ Goto(r, "insert")
     \/ Done({r}) /\ UNCHANGED <<wire, answers>>
  /\ UNCHANGED <<autoReject, kind, inbox, registries, tasks, faults>>

\* call().start(), which gives the call its id.
StartCall(r, c) ==
  /\ at[r] = "start" /\ op[r] # "accept"
  /\ \/ /\ kind[c] = "none"
        /\ kind' = [kind EXCEPT ![c] = IF op[r] = "media" THEN "media" ELSE "out"]
        /\ Wire(c, "live")
        /\ call' = [call EXCEPT ![r] = c]
        /\ at' = [at EXCEPT ![r] = "insert"]
        /\ UNCHANGED <<op, payload>>
     \/ Done({r}) /\ UNCHANGED <<kind, wire>>
  /\ UNCHANGED <<autoReject, inbox, registries, tasks, answers, faults>>

\* The handle is listed.  A payload has no channels: its tasks start at once, the one
\* that records if asked to.
Insert(r) ==
  LET c == call[r]
  IN /\ at[r] = "insert"
     /\ active' = active \cup {c}
     /\ IF op[r] \in {"tts", "play"}
        THEN /\ stream' = [stream EXCEPT ![c] = "play"]
             /\ \E b \in {"none", "on"} : recorder' = [recorder EXCEPT ![c] = b]
             /\ Done({r})
        ELSE Goto(r, "channels") /\ UNCHANGED <<stream, recorder>>
     /\ UNCHANGED <<autoReject, kind, wire, inbox, incoming, audio, recordings, answers, faults>>

\* The channels are kept; an accepted call with a payload gets its task.
Channels(r) ==
  LET c == call[r]
  IN /\ at[r] = "channels"
     /\ audio' = audio \cup {c}
     /\ stream' = IF payload[r] THEN [stream EXCEPT ![c] = "play"] ELSE stream
     /\ IF op[r] = "media" THEN Goto(r, "drive") ELSE Done({r})
     /\ UNCHANGED <<autoReject, kind, wire, inbox, incoming, active, recorder, recordings,
                    answers, faults>>

-----------------------------------------------------------------------------
(* The end of a call.                                                      *)

\* drive_media_socket: one of the two directions ended, with the call or because the
\* client closed its socket.
SocketEnds(r) ==
  /\ at[r] = "drive"
  /\ Goto(r, "hangup")
  /\ UNCHANGED <<autoReject, kind, wire, inbox, registries, tasks, answers, faults>>

\* terminate of its handle, and the two removes.
SocketHangsUp(r) ==
  /\ at[r] = "hangup"
  /\ Wire(call[r], "over")
  /\ Goto(r, "unlist")
  /\ UNCHANGED <<autoReject, kind, inbox, registries, tasks, answers, faults>>

SocketUnlists(r) ==
  /\ at[r] = "unlist"
  /\ active' = active \ {call[r]}
  /\ Goto(r, "unhook")
  /\ UNCHANGED <<autoReject, kind, wire, inbox, incoming, audio, tasks, answers, faults>>

\* An id is known from the event of an incoming call, and from the response, or the
\* first message of the socket, of one waxum placed.
IdIsKnown(c) ==
  \/ kind[c] = "in"
  \/ kind[c] # "none" /\ \A r \in Requests : call[r] = c => at[r] \notin {"insert", "channels"}

\* terminate_call: takes the handle, or falls back to a signal.
Terminate(r, c) ==
  /\ IdIsKnown(c)
  /\ active' = active \ {c}
  /\ Begin(r, "terminate", c, IF c \in active THEN "end" ELSE "signal", FALSE)
  /\ UNCHANGED <<autoReject, kind, wire, inbox, incoming, audio, tasks, answers, faults>>

\* Mutant: the handle is dropped without a word to the peer.
End_Silent(r) ==
  /\ at[r] = "end"
  /\ Goto(r, "unhook")
  /\ UNCHANGED <<autoReject, kind, wire, inbox, registries, tasks, answers, faults>>

\* handle.terminate()
End(r) ==
  /\ at[r] = "end"
  /\ Wire(call[r], "over")
  /\ Goto(r, "unhook")
  /\ UNCHANGED <<autoReject, kind, inbox, registries, tasks, answers, faults>>

\* voip().terminate: the peer may hear of it, or not.
Signal(r) ==
  /\ at[r] = "signal"
  /\ \/ wire[call[r]] \in {"offered", "live"} /\ Wire(call[r], "over")
     \/ UNCHANGED wire
  /\ Done({r})
  /\ UNCHANGED <<autoReject, kind, inbox, registries, tasks, answers, faults>>

\* The channels go last.
Unhook(r) ==
  /\ at[r] = "unhook"
  /\ audio' = audio \ {call[r]}
  /\ Done({r})
  /\ UNCHANGED <<autoReject, kind, wire, inbox, incoming, active, tasks, answers, faults>>

-----------------------------------------------------------------------------
(* The tasks of a call.                                                    *)

\* The task of call c that plays its payload goes from one place to another.
Stream(c, from, to) == stream[c] = from /\ stream' = [stream EXCEPT ![c] = to]

StreamRest ==
  UNCHANGED <<autoReject, kind, inbox, incoming, recorder, recordings, requestVars, answers,
            faults>>

\* Mutant: a call that ended early ends the task.
StreamEnds_Returns(c) ==
  /\ IF wire[c] = "over" THEN Stream(c, "play", "done") ELSE Stream(c, "play", "hangup")
  /\ StreamRest /\ UNCHANGED <<wire, active, audio>>

\* The payload is over, or the engine closed its end early.
StreamEnds(c) ==
  /\ Stream(c, "play", "hangup")
  /\ StreamRest /\ UNCHANGED <<wire, active, audio>>

\* terminate, whatever the call has come to.
StreamHangsUp(c) ==
  /\ Stream(c, "hangup", "unlist")
  /\ Wire(c, "over")
  /\ StreamRest /\ UNCHANGED <<active, audio>>

\* The handle is unlisted; an accepted call has channels to drop.
StreamUnlists(c) ==
  /\ Stream(c, "unlist", IF kind[c] = "in" THEN "unhook" ELSE "done")
  /\ active' = active \ {c}
  /\ StreamRest /\ UNCHANGED <<wire, audio>>

StreamUnhooks(c) ==
  /\ Stream(c, "unhook", "done")
  /\ audio' = audio \ {c}
  /\ StreamRest /\ UNCHANGED <<wire, active>>

\* Mutant: frames are flushed to the store while they come.
SinkClosed_Early(c) == TRUE

\* The engine closed the sink.
SinkClosed(c) == wire[c] = "over"

\* What get_recording and transcribe_call find: the file, as far as it is written.
Serves(c) == recordings[c] # "none"

\* record_peer_task: when the sink closes a file is made, for a call without audio too ...
Record(c) ==
  /\ recorder[c] = "on" /\ SinkClosed(c)
  /\ \/ /\ recordings' = [recordings EXCEPT ![c] = "empty"]
        /\ recorder' = [recorder EXCEPT ![c] = "write"]
        /\ NoFault
     \/ recorder' = [recorder EXCEPT ![c] = "done"] /\ UNCHANGED recordings /\ Fault
  /\ UNCHANGED <<autoReject, kind, wire, inbox, registries, stream, requestVars, answers>>

\* ... and written.
WriteRecording(c) ==
  /\ recorder[c] = "write"
  /\ recorder' = [recorder EXCEPT ![c] = "done"]
  /\ \/ recordings' = [recordings EXCEPT ![c] = "whole"] /\ NoFault
     \/ UNCHANGED recordings /\ Fault
  /\ UNCHANGED <<autoReject, kind, wire, inbox, registries, stream, requestVars, answers>>

-----------------------------------------------------------------------------
(* Faults.                                                                 *)

\* The client of an HTTP request hangs up while its handler awaits; a media socket has
\* a task of its own.
HangUp(r) ==
  /\ at[r] \in {"prepare", "start", "reject", "end", "signal"} /\ op[r] # "media"
  /\ Fault
  /\ Done({r})
  /\ UNCHANGED <<autoReject, kind, wire, inbox, registries, tasks, answers>>

\* The process dies: the registries and tasks are gone, and so are its calls.
Crash ==
  /\ Fault
  /\ incoming' = {} /\ active' = {} /\ audio' = {}
  /\ wire' = [c \in Calls |-> IF wire[c] = "live" THEN "over" ELSE wire[c]]
  /\ inbox' = [c \in Calls |-> <<>>]
  /\ stream' = [c \in Calls |-> IF stream[c] = "none" THEN "none" ELSE "done"]
  /\ recorder' = [c \in Calls |-> IF recorder[c] = "none" THEN "none" ELSE "done"]
  /\ Done({r \in Requests : at[r] # "idle"})
  /\ UNCHANGED <<autoReject, kind, recordings, answers>>

-----------------------------------------------------------------------------
RequestStep(r) ==
  \/ SendReject(r) \/ Synthesise(r) \/ Fetch(r) \/ StartAccept(r)
  \/ \E c \in Calls : StartCall(r, c)
  \/ Insert(r) \/ Channels(r)
  \/ SocketHangsUp(r) \/ SocketUnlists(r)
  \/ End(r) \/ Signal(r) \/ Unhook(r)

StreamStep(c) ==
  StreamEnds(c) \/ StreamHangsUp(c) \/ StreamUnlists(c) \/ StreamUnhooks(c)

Next ==
  \/ \E c \in Calls : Offer(c) \/ PeerEnds(c) \/ HandleOffer(c) \/ HandleEnd(c) \/ LoseEvents(c)
  \/ \E r \in Requests :
       \/ \E c \in Calls : Accept(r, c) \/ Reject(r, c) \/ Terminate(r, c)
       \/ Ring(r) \/ Tts(r) \/ Play(r) \/ OpenSocket(r)
       \/ RequestStep(r) \/ SocketEnds(r) \/ HangUp(r)
  \/ \E c \in Calls : StreamStep(c) \/ Record(c) \/ WriteRecording(c)
  \/ Crash

Spec == Init /\ [][Next]_vars

\* Handlers and tasks run on, a payload has an end, and a socket whose call is over is
\* closed by the direction that ended.
Fairness ==
  /\ \A r \in Requests :
       WF_vars(RequestStep(r) \/ (SocketEnds(r) /\ wire[call[r]] = "over"))
  /\ \A c \in Calls : WF_vars(StreamStep(c)) /\ WF_vars(Record(c) \/ WriteRecording(c))

FairSpec == Spec /\ Fairness

-----------------------------------------------------------------------------
(* Properties.                                                             *)

\* However accepts and rejects race, and whatever the caller does meanwhile, a call is
\* answered at most once.
AnsweredOnce == \A c \in Calls : answers[c] <= 1

\* Some task has the handle of call c and will list it or hang up.
Held(c) ==
  \/ \E r \in Requests :
       call[r] = c /\ at[r] \in {"insert", "channels", "drive", "hangup", "end"}
  \/ stream[c] \in {"play", "hangup"}

\* No call goes on that nobody can end: it is listed for terminate_call, or a task has
\* its handle, whichever tasks end it at the same time.
LiveCallsAreHeld == \A c \in Calls : wire[c] = "live" => c \in active \/ Held(c)

\* The channels of a call waxum placed never outlive its entry, but for the moment
\* between the two removes.
ChannelsHaveTheirCall ==
  \A c \in audio :
    \/ c \in active \/ kind[c] = "in"
    \/ \E r \in Requests : call[r] = c /\ at[r] \in {"channels", "drive", "hangup", "unlist",
                                                     "end", "unhook"}

\* A call in the registry of incoming calls rings, or the event that it does not is on
\* its way, or it was ended with terminate_call, which leaves the entry to an event of
\* its own.
RegisteredCallsRing ==
  \A c \in incoming :
    \/ wire[c] = "offered" \/ \E i \in 1..Len(inbox[c]) : inbox[c][i] # "offer"
    \/ \E r \in Requests : op[r] = "terminate" /\ call[r] = c

\* Unless events were lost or a task died, the three registries follow the calls, however
\* the tasks, the requests and the other side interleave.
RegistriesFollowCalls ==
  faults = 0 => LiveCallsAreHeld /\ ChannelsHaveTheirCall /\ RegisteredCallsRing

\* A recording appears only when its call is over: what get_recording serves is never
\* a call that still goes on, whoever ended it and whenever the engine closed the sink.
NoRecordingOfALiveCall == \A c \in Calls : Serves(c) => wire[c] = "over"

\* Nothing of call c is left but its recording.
Released(c) ==
  /\ c \notin active /\ c \notin audio /\ wire[c] = "over"
  /\ recorder[c] = "none" \/ recordings[c] = "whole" \/ faults > 0

\* A call with a payload, and a media socket whose call ended, leaves the registries,
\* and a recorded one leaves a recording, even if the peer never spoke: again and again
\* none is left that has not.
EndedCallsAreReleased ==
  []<>\A c \in Calls :
        stream[c] # "none" \/ (kind[c] = "media" /\ wire[c] = "over") => Released(c)
=============================================================================
