---------------------------- MODULE CallsProofs ----------------------------
(***************************************************************************)
(* Theorems about Calls for every value of its constants.  The invariant   *)
(* below says what each kind of request may hold at each of its places,    *)
(* and what is left of a call at each stage of its life.                   *)
(***************************************************************************)
EXTENDS Calls, SequenceTheorems, TLAPS

\* What the events of a call that are not handled yet may be.
Ringing == {<<"offer">>, <<"offer", "terminate">>, <<"offer", "missed">>}
Ending == {<<"terminate">>, <<"missed">>, <<"offer", "terminate">>, <<"offer", "missed">>}
Backlogs == {<<>>} \cup Ringing \cup Ending

Placing == {"ring", "tts", "play", "media"}
Answering == {"accept", "reject"}

\* A request of kind o can be at place p.
Legal(o, p) ==
  \/ o = "none" /\ p \in {"idle", "done"}
  \/ o = "accept" /\ p \in {"prepare", "start", "insert", "channels"}
  \/ o = "reject" /\ p = "reject"
  \/ o = "ring" /\ p \in {"start", "insert", "channels"}
  \/ o \in {"tts", "play"} /\ p \in {"prepare", "start", "insert"}
  \/ o = "media" /\ p \in {"start", "insert", "channels", "drive", "hangup", "unlist",
                           "unhook"}
  \/ o = "terminate" /\ p \in {"end", "signal", "unhook", "done"}

\* A request of kind o at place p can be about call c, of the kind K says, with a payload
\* or without.
Fits(K, o, p, c, b) ==
  /\ Legal(o, p)
  /\ c = NoCall <=> o = "none" \/ (o \in Placing /\ p \in {"prepare", "start"})
  /\ o \in Answering => K[c] = "in"
  /\ o \in Placing /\ c # NoCall => K[c] \in {"out", "media"}
  /\ b => o \in {"accept", "tts", "play"}

RequestInv == \A r \in Requests : Fits(kind, op[r], at[r], call[r], payload[r])

\* Nothing is known of a call that has not begun.
Fresh(c) ==
  /\ wire[c] = "none" /\ inbox[c] = <<>> /\ answers[c] = 0
  /\ c \notin incoming /\ c \notin active /\ c \notin audio
  /\ stream[c] = "none" /\ recorder[c] = "none" /\ recordings[c] = "none"
  /\ \A r \in Requests : call[r] # c

FreshInv == \A c \in Calls : kind[c] = "none" => Fresh(c)

\* Events come in order, and the last of them when the call is over.
InboxInv ==
  \A c \in Calls :
    /\ inbox[c] \in Backlogs
    /\ wire[c] \in {"offered", "live"} => inbox[c] \notin Ending

\* Call c can still be answered by whoever comes.
Waiting(c) == c \in incoming \/ inbox[c] \in Ringing

\* The right to answer a call is in one place: its offer, its entry, or one request.
AnswerInv ==
  \A c \in Calls :
    /\ answers[c] <= 1
    /\ inbox[c] \in Ringing => c \notin incoming
    /\ Waiting(c) =>
         /\ answers[c] = 0 /\ kind[c] = "in" /\ stream[c] = "none"
         /\ \A r \in Requests : call[r] = c => op[r] \notin Answering

TurnInv ==
  \A r \in Requests : op[r] \in Answering =>
    /\ at[r] \in {"prepare", "start", "reject"} => answers[call[r]] = 0
    /\ \A q \in Requests : call[q] = call[r] /\ op[q] \in Answering => q = r

\* What is written, unlisted or unhooked belongs to a call that is over.
OverInv ==
  /\ \A c \in Calls :
       /\ recorder[c] = "write" \/ recordings[c] # "none" => wire[c] = "over"
       /\ stream[c] \in {"unlist", "unhook"} => wire[c] = "over"
  /\ \A r \in Requests : at[r] = "unlist" => wire[call[r]] = "over"

\* A request that placed a call has it for itself until the client learns its id.
PlacedInv ==
  \A r \in Requests : op[r] \in Placing /\ at[r] \in {"insert", "channels"} =>
    /\ \A q \in Requests : call[q] = call[r] => q = r
    /\ stream[call[r]] = "none" /\ call[r] \notin audio
    /\ at[r] = "channels" => call[r] \in active

\* A call waxum placed to play a payload has no channels.
StreamInv ==
  \A c \in Calls : stream[c] # "none" /\ kind[c] # "in" => c \notin audio

\* Unless something failed, a call goes on only while it is listed, about to be listed,
\* or ended by the request that took its handle ...
LiveInv ==
  faults = 0 => \A c \in Calls : wire[c] = "live" =>
    c \in active \/ \E r \in Requests : call[r] = c /\ at[r] \in {"insert", "end"}

\* ... its channels outlive its entry only in the hands of a request that drops them ...
ChannelInv ==
  faults = 0 => \A c \in audio :
    \/ c \in active \/ kind[c] = "in"
    \/ \E r \in Requests :
         call[r] = c /\ at[r] \in {"drive", "hangup", "unlist", "end", "unhook"}

\* ... and while it waits for an answer it rings, or its end is on the way.
RingInv ==
  faults = 0 => \A c \in Calls : Waiting(c) =>
    \/ wire[c] = "offered" \/ inbox[c] \in Ending
    \/ \E r \in Requests : op[r] = "terminate" /\ call[r] = c

CallsInv ==
  /\ RequestInv /\ FreshInv /\ InboxInv
  /\ AnswerInv /\ TurnInv /\ OverInv
  /\ PlacedInv /\ StreamInv
  /\ LiveInv /\ ChannelInv /\ RingInv

-----------------------------------------------------------------------------
(* The backlog of a call, and the place of a request.                      *)

USE DEF registries, tasks, requestVars

LEMMA AppendTwo == \A a, e : Append(<<a>>, e) = <<a, e>>
<1> SUFFICES ASSUME NEW a, NEW e
             PROVE  Append(<<a>>, e) = <<a, e>>
  OBVIOUS
<1> DEFINE S == {a, e}
           s == Append(<<a>>, e)
           t == <<a, e>>
<1>1. a \in S /\ e \in S
  OBVIOUS
<1> HIDE DEF S
<1>2. Len(s) = 2 /\ s \in Seq(S) /\ s[1] = a /\ s[2] = e
  BY <1>1
<1>3. Len(t) = 2 /\ t \in Seq(S) /\ t[1] = a /\ t[2] = e
  BY <1>1
<1> HIDE DEF s, t
<1>4. \A i \in 1..Len(s) : s[i] = t[i]
  BY <1>2, <1>3
<1>5. s = t
  BY <1>2, <1>3, <1>4, SeqEqual
<1> QED
  BY <1>5 DEF s, t

\* No backlog holds more than an offer and an end, in this order.
LEMMA Backlog ==
  /\ <<>> \in Backlogs /\ <<>> \notin Ringing /\ <<>> \notin Ending
  /\ <<"offer">> \in Backlogs /\ <<"offer">> \in Ringing /\ <<"offer">> \notin Ending
  /\ \A s \in Backlogs :
       /\ s # <<>> /\ Head(s) = "offer" =>
            /\ s \in Ringing /\ Tail(s) \in Backlogs /\ Tail(s) \notin Ringing
            /\ Tail(s) \in Ending <=> s \in Ending
       /\ s # <<>> /\ Head(s) \in {"terminate", "missed"} =>
            Tail(s) = <<>> /\ s \notin Ringing
       /\ s \notin Ending => \A e \in {"terminate", "missed"} :
            /\ Append(s, e) \in Backlogs /\ Append(s, e) \in Ending
            /\ Append(s, e) \in Ringing <=> s \in Ringing
       /\ s \in Ending => \E i \in 1..Len(s) : s[i] # "offer"
<1> DEFINE o == <<"offer">>
           t == <<"terminate">>
           m == <<"missed">>
           ot == <<"offer", "terminate">>
           om == <<"offer", "missed">>
<1>1. /\ Head(o) = "offer" /\ Head(ot) = "offer" /\ Head(om) = "offer"
      /\ Head(t) = "terminate" /\ Head(m) = "missed"
  OBVIOUS
<1>2. Tail(o) = <<>> /\ Tail(t) = <<>> /\ Tail(m) = <<>> /\ Tail(ot) = t /\ Tail(om) = m
  OBVIOUS
<1>3. Append(<<>>, "terminate") = t /\ Append(<<>>, "missed") = m
  OBVIOUS
<1>4. Append(o, "terminate") = ot /\ Append(o, "missed") = om
  BY AppendTwo
<1>5. /\ t[1] = "terminate" /\ m[1] = "missed" /\ ot[2] = "terminate" /\ om[2] = "missed"
      /\ Len(t) = 1 /\ Len(m) = 1 /\ Len(ot) = 2 /\ Len(om) = 2
  OBVIOUS
<1>6. /\ Backlogs = {<<>>, o, t, m, ot, om}
      /\ Ringing = {o, ot, om} /\ Ending = {t, m, ot, om}
  <2>1. Ringing = {o, ot, om} /\ Ending = {t, m, ot, om}
    BY Zenon DEF Ringing, Ending
  <2> HIDE DEF o, t, m, ot, om
  <2> QED
    BY <2>1 DEF Backlogs
<1>7. /\ <<>> # o /\ <<>> # t /\ <<>> # m /\ <<>> # ot /\ <<>> # om
      /\ o # t /\ o # m /\ o # ot /\ o # om
      /\ t # m /\ t # ot /\ t # om /\ m # ot /\ m # om
  OBVIOUS
<1> HIDE DEF o, t, m, ot, om
<1>8. /\ <<>> \in Backlogs /\ <<>> \notin Ringing /\ <<>> \notin Ending
      /\ o \in Backlogs /\ o \in Ringing /\ o \notin Ending
  BY <1>6, <1>7
<1>9. ASSUME NEW s \in Backlogs, s # <<>>, Head(s) = "offer"
      PROVE  /\ s \in Ringing /\ Tail(s) \in Backlogs /\ Tail(s) \notin Ringing
             /\ Tail(s) \in Ending <=> s \in Ending
  BY <1>1, <1>2, <1>6, <1>7, <1>9
<1>10. ASSUME NEW s \in Backlogs, s # <<>>, Head(s) \in {"terminate", "missed"}
       PROVE  Tail(s) = <<>> /\ s \notin Ringing
  BY <1>1, <1>2, <1>6, <1>7, <1>10
<1>11. ASSUME NEW s \in Backlogs, s \notin Ending, NEW e \in {"terminate", "missed"}
       PROVE  /\ Append(s, e) \in Backlogs /\ Append(s, e) \in Ending
              /\ Append(s, e) \in Ringing <=> s \in Ringing
  BY <1>3, <1>4, <1>6, <1>7, <1>11
<1>12. ASSUME NEW s \in Ending
       PROVE  \E i \in 1..Len(s) : s[i] # "offer"
  BY <1>5, <1>6
<1> QED
  BY <1>8, <1>9, <1>10, <1>11, <1>12 DEF o

\* Request p is now of kind o, at place x, about call c, with payload b; the others are
\* where they were.
Now(p, o, x, c, b) ==
  /\ op'[p] = o /\ at'[p] = x /\ call'[p] = c /\ payload'[p] = b
  /\ \A r \in Requests : r # p =>
       op'[r] = op[r] /\ at'[r] = at[r] /\ call'[r] = call[r] /\ payload'[r] = payload[r]

LEMMA Begun ==
  ASSUME TypeOK, NEW p \in Requests, NEW o, NEW c, NEW x, NEW b, Begin(p, o, c, x, b)
  PROVE  at[p] = "idle" /\ Now(p, o, x, c, b)
BY DEF TypeOK, Begin, Now

LEMMA Gone ==
  ASSUME TypeOK, NEW p \in Requests, NEW x, Goto(p, x)
  PROVE  Now(p, op[p], x, call[p], payload[p])
BY DEF TypeOK, Goto, Now

LEMMA Finished ==
  ASSUME TypeOK, NEW p \in Requests, Done({p})
  PROVE  /\ op[p] = "terminate" => Now(p, op[p], "done", call[p], payload[p])
         /\ op[p] # "terminate" => Now(p, "none", "done", NoCall, FALSE)
BY DEF TypeOK, Done, Now

\* The types the proofs below need, without those of the backlogs.
Types ==
  /\ kind \in [Calls -> {"none", "in", "out", "media"}]
  /\ wire \in [Calls -> {"none", "offered", "live", "over"}]
  /\ DOMAIN inbox = Calls /\ inbox = [c \in Calls |-> inbox[c]]
  /\ incoming \subseteq Calls /\ active \subseteq Calls /\ audio \subseteq Calls
  /\ stream \in [Calls -> {"none", "play", "hangup", "unlist", "unhook", "done"}]
  /\ recorder \in [Calls -> {"none", "on", "write", "done"}]
  /\ recordings \in [Calls -> {"none", "empty", "whole"}]
  /\ answers \in [Calls -> Nat]
  /\ \A r \in Requests : call[r] = NoCall \/ call[r] \in Calls
  /\ faults \in Nat

LEMMA TypesHold == TypeOK => Types
BY CallsAssumption DEF TypeOK, Types

\* Which requests are about a call, and of which kind.
Roles ==
  \A r \in Requests :
    /\ at[r] \in {"insert", "channels", "drive", "hangup", "unlist", "end", "signal", "unhook"} =>
         call[r] \in Calls
    /\ op[r] \in Answering => call[r] \in Calls /\ kind[call[r]] = "in"
    /\ op[r] \in Placing /\ at[r] \in {"insert", "channels"} => kind[call[r]] \in {"out", "media"}
    /\ call[r] \in Calls => call[r] # NoCall

LEMMA RolesHold == Types /\ RequestInv => Roles
<1> SUFFICES ASSUME Types, NEW r \in Requests, Fits(kind, op[r], at[r], call[r], payload[r])
             PROVE  /\ at[r] \in {"insert", "channels", "drive", "hangup", "unlist", "end",
                                  "signal", "unhook"} => call[r] \in Calls
                    /\ op[r] \in Answering => call[r] \in Calls /\ kind[call[r]] = "in"
                    /\ op[r] \in Placing /\ at[r] \in {"insert", "channels"} =>
                         kind[call[r]] \in {"out", "media"}
                    /\ call[r] \in Calls => call[r] # NoCall
  BY DEF RequestInv, Roles
<1>1. call[r] \in Calls => call[r] # NoCall
  BY CallsAssumption
<1>2. CASE call[r] = NoCall
  BY <1>1, <1>2 DEF Fits, Legal, Placing, Answering
<1>3. CASE call[r] \in Calls
  BY <1>1, <1>3 DEF Fits
<1> QED
  BY <1>2, <1>3 DEF Types

\* A step of one request keeps the others in order, if no call changes its kind.
LEMMA RequestKept ==
  ASSUME Types, RequestInv, FreshInv, NEW p \in Requests,
         NEW o, NEW x, NEW c, NEW b, Now(p, o, x, c, b), Fits(kind', o, x, c, b),
         \A k \in Calls : kind[k] # "none" => kind'[k] = kind[k]
  PROVE  RequestInv'
<1>1. ASSUME NEW r \in Requests, r # p
      PROVE  Fits(kind', op'[r], at'[r], call'[r], payload'[r])
  <2>1. op'[r] = op[r] /\ at'[r] = at[r] /\ call'[r] = call[r] /\ payload'[r] = payload[r]
    BY <1>1 DEF Now
  <2>2. Fits(kind, op[r], at[r], call[r], payload[r])
    BY DEF RequestInv
  <2>3. CASE call[r] = NoCall
    BY <2>1, <2>2, <2>3 DEF Fits, Answering, Placing
  <2>4. CASE call[r] \in Calls
    <3>1. kind'[call[r]] = kind[call[r]]
      BY <2>4 DEF FreshInv, Fresh
    <3> QED
      BY <2>1, <2>2, <3>1 DEF Fits
  <2> QED
    BY <2>3, <2>4 DEF Types
<1>2. Fits(kind', op'[p], at'[p], call'[p], payload'[p])
  BY DEF Now, Fits
<1> QED
  BY <1>1, <1>2 DEF RequestInv

-----------------------------------------------------------------------------
(* Each step keeps the invariant.                                          *)

LEMMA OfferKeeps ==
  ASSUME TypeOK, CallsInv, NEW k \in Calls, Offer(k)
  PROVE  CallsInv'
<1>1. Types /\ Roles
  BY TypesHold, RolesHold DEF CallsInv
<1>2. RequestInv'
  BY <1>1 DEF CallsInv, Types, RequestInv, Offer, Wire, Placing, Answering, Fits, Legal
<1>3. FreshInv'
  BY <1>1, Backlog, CallsAssumption DEF CallsInv, Types, FreshInv, Offer, Wire, Fresh
<1>4. InboxInv'
  BY <1>1, Backlog DEF CallsInv, Types, InboxInv, Offer, Wire
<1>5. AnswerInv'
  BY <1>1, Backlog
     DEF CallsInv, Types, AnswerInv, FreshInv, Offer, Wire, Fresh, Waiting, Answering
<1>6. TurnInv'
  BY <1>1, Backlog DEF CallsInv, Types, TurnInv, Offer, Wire, Waiting, Answering
<1>7. OverInv'
  BY <1>1 DEF CallsInv, Types, OverInv, FreshInv, Offer, Wire, Fresh
<1>8. PlacedInv'
  BY <1>1 DEF CallsInv, Types, PlacedInv, Offer, Wire, Placing
<1>9. StreamInv'
  BY <1>1 DEF CallsInv, Types, StreamInv, Offer, Wire
<1>10. LiveInv'
  BY <1>1 DEF CallsInv, Types, LiveInv, Offer, Wire
<1>11. ChannelInv'
  BY <1>1 DEF CallsInv, Types, ChannelInv, Offer, Wire
<1>12. RingInv'
  BY <1>1, Backlog DEF CallsInv, Types, RingInv, Offer, Wire, Waiting
<1> QED
  BY <1>2, <1>3, <1>4, <1>5, <1>6, <1>7, <1>8, <1>9, <1>10, <1>11, <1>12 DEF CallsInv

LEMMA PeerEndsKeeps ==
  ASSUME TypeOK, CallsInv, NEW k \in Calls, PeerEnds(k)
  PROVE  CallsInv'
<1>1. Types /\ Roles
  BY TypesHold, RolesHold DEF CallsInv
<1>2. RequestInv'
  BY <1>1 DEF CallsInv, Types, RequestInv, PeerEnds, Wire, Placing, Answering, Fits, Legal
<1>3. FreshInv'
  BY <1>1, Backlog, CallsAssumption DEF CallsInv, Types, FreshInv, PeerEnds, Wire, Fresh
<1>4. InboxInv'
  BY <1>1, Backlog DEF CallsInv, Types, InboxInv, PeerEnds, Wire
<1>5. AnswerInv'
  BY <1>1, Backlog
     DEF CallsInv, Types, AnswerInv, InboxInv, PeerEnds, Wire, Waiting, Answering
<1>6. TurnInv'
  BY <1>1, Backlog DEF CallsInv, Types, TurnInv, PeerEnds, Wire, Waiting, Answering
<1>7. OverInv'
  BY <1>1 DEF CallsInv, Types, OverInv, PeerEnds, Wire
<1>8. PlacedInv'
  BY <1>1 DEF CallsInv, Types, PlacedInv, PeerEnds, Wire, Placing
<1>9. StreamInv'
  BY <1>1 DEF CallsInv, Types, StreamInv, PeerEnds, Wire
<1>10. LiveInv'
  BY <1>1 DEF CallsInv, Types, LiveInv, PeerEnds, Wire
<1>11. ChannelInv'
  BY <1>1 DEF CallsInv, Types, ChannelInv, PeerEnds, Wire
<1>12. RingInv'
  BY <1>1, Backlog
     DEF CallsInv, Types, RingInv, InboxInv, AnswerInv, PeerEnds, Wire, Waiting, Answering
<1> QED
  BY <1>2, <1>3, <1>4, <1>5, <1>6, <1>7, <1>8, <1>9, <1>10, <1>11, <1>12 DEF CallsInv

LEMMA HandleOfferKeeps ==
  ASSUME TypeOK, CallsInv, NEW k \in Calls, HandleOffer(k)
  PROVE  CallsInv'
<1>1. Types /\ Roles
  BY TypesHold, RolesHold DEF CallsInv
<1>2. inbox[k] \in Ringing
  BY Backlog DEF HandleOffer, Handled, CallsInv, InboxInv
<1>3. RequestInv'
  BY <1>1, <1>2
     DEF CallsInv, Types, RequestInv, HandleOffer, Handled, Wire, Answered, Placing,
         Answering, Fits, Legal
<1>4. FreshInv'
  BY <1>1, <1>2, Backlog, CallsAssumption
     DEF CallsInv, Types, FreshInv, HandleOffer, Handled, Wire, Answered, Fresh
<1>5. InboxInv'
  BY <1>1, <1>2, Backlog DEF CallsInv, Types, InboxInv, HandleOffer, Handled, Wire, Answered
<1>6. AnswerInv'
  BY <1>1, <1>2, Backlog
     DEF CallsInv, Types, AnswerInv, InboxInv, HandleOffer, Handled, Wire, Answered,
         Waiting, Answering
<1>7. TurnInv'
  BY <1>1, <1>2, Backlog, CallsAssumption
     DEF CallsInv, Types, TurnInv, Roles, AnswerInv, HandleOffer, Handled, Wire, Answered,
         Waiting, Answering, Placing
<1>8. OverInv'
  BY <1>1, <1>2, CallsAssumption
     DEF CallsInv, Types, OverInv, Roles, HandleOffer, Handled, Wire, Answered, Placing,
         Answering
<1>9. PlacedInv'
  BY <1>1, <1>2
     DEF CallsInv, Types, PlacedInv, HandleOffer, Handled, Wire, Answered, Placing
<1>10. StreamInv'
  BY <1>1, <1>2 DEF CallsInv, Types, StreamInv, HandleOffer, Handled, Wire, Answered
<1>11. LiveInv'
  BY <1>1, <1>2 DEF CallsInv, Types, LiveInv, HandleOffer, Handled, Wire, Answered
<1>12. ChannelInv'
  BY <1>1, <1>2 DEF CallsInv, Types, ChannelInv, HandleOffer, Handled, Wire, Answered
<1>13. RingInv'
  BY <1>1, <1>2, Backlog
     DEF CallsInv, Types, RingInv, InboxInv, AnswerInv, HandleOffer, Handled, Wire,
         Answered, Waiting, Answering
<1> QED
  BY <1>3, <1>4, <1>5, <1>6, <1>7, <1>8, <1>9, <1>10, <1>11, <1>12, <1>13 DEF CallsInv

LEMMA HandleEndKeeps ==
  ASSUME TypeOK, CallsInv, NEW k \in Calls, HandleEnd(k)
  PROVE  CallsInv'
<1>1. Types /\ Roles
  BY TypesHold, RolesHold DEF CallsInv
<1>2. inbox' = [inbox EXCEPT ![k] = <<>>] /\ inbox[k] \notin Ringing
  BY Backlog DEF HandleEnd, Handled, CallsInv, InboxInv
<1>3. RequestInv'
  BY <1>1, <1>2
     DEF CallsInv, Types, RequestInv, HandleEnd, Handled, Placing, Answering, Fits, Legal
<1>4. FreshInv'
  BY <1>1, <1>2, Backlog, CallsAssumption
     DEF CallsInv, Types, FreshInv, HandleEnd, Handled, Fresh
<1>5. InboxInv'
  BY <1>1, <1>2, Backlog, CallsAssumption
     DEF CallsInv, Types, InboxInv, Roles, HandleEnd, Handled, Placing, Answering
<1>6. AnswerInv'
  BY <1>1, <1>2, Backlog, CallsAssumption
     DEF CallsInv, Types, AnswerInv, Roles, HandleEnd, Handled, Waiting, Answering,
         Placing
<1>7. TurnInv'
  BY <1>1, <1>2, Backlog
     DEF CallsInv, Types, TurnInv, HandleEnd, Handled, Waiting, Answering
<1>8. OverInv'
  BY <1>1, <1>2 DEF CallsInv, Types, OverInv, HandleEnd, Handled
<1>9. PlacedInv'
  BY <1>1, <1>2 DEF CallsInv, Types, PlacedInv, HandleEnd, Handled, Placing
<1>10. StreamInv'
  BY <1>1, <1>2 DEF CallsInv, Types, StreamInv, HandleEnd, Handled
<1>11. LiveInv'
  BY <1>1, <1>2 DEF CallsInv, Types, LiveInv, HandleEnd, Handled
<1>12. ChannelInv'
  BY <1>1, <1>2 DEF CallsInv, Types, ChannelInv, HandleEnd, Handled
<1>13. RingInv'
  BY <1>1, <1>2, Backlog, CallsAssumption
     DEF CallsInv, Types, RingInv, Roles, HandleEnd, Handled, Waiting, Placing, Answering
<1> QED
  BY <1>3, <1>4, <1>5, <1>6, <1>7, <1>8, <1>9, <1>10, <1>11, <1>12, <1>13 DEF CallsInv

LEMMA LoseEventsKeeps ==
  ASSUME TypeOK, CallsInv, NEW k \in Calls, LoseEvents(k)
  PROVE  CallsInv'
<1>1. Types /\ Roles
  BY TypesHold, RolesHold DEF CallsInv
<1>2. RequestInv'
  BY <1>1
     DEF CallsInv, Types, RequestInv, LoseEvents, Fault, Placing, Answering, Fits, Legal
<1>3. FreshInv'
  BY <1>1, Backlog, CallsAssumption DEF CallsInv, Types, FreshInv, LoseEvents, Fault, Fresh
<1>4. InboxInv'
  BY <1>1, Backlog DEF CallsInv, Types, InboxInv, LoseEvents, Fault
<1>5. AnswerInv'
  BY <1>1, Backlog DEF CallsInv, Types, AnswerInv, LoseEvents, Fault, Waiting, Answering
<1>6. TurnInv'
  BY <1>1, Backlog DEF CallsInv, Types, TurnInv, LoseEvents, Fault, Waiting, Answering
<1>7. OverInv'
  BY <1>1 DEF CallsInv, Types, OverInv, LoseEvents, Fault
<1>8. PlacedInv'
  BY <1>1 DEF CallsInv, Types, PlacedInv, LoseEvents, Fault, Placing
<1>9. StreamInv'
  BY <1>1 DEF CallsInv, Types, StreamInv, LoseEvents, Fault
<1>10. LiveInv'
  BY <1>1 DEF CallsInv, Types, LiveInv, LoseEvents, Fault
<1>11. ChannelInv'
  BY <1>1 DEF CallsInv, Types, ChannelInv, LoseEvents, Fault
<1>12. RingInv'
  BY <1>1, Backlog DEF CallsInv, Types, RingInv, LoseEvents, Fault, Waiting
<1> QED
  BY <1>2, <1>3, <1>4, <1>5, <1>6, <1>7, <1>8, <1>9, <1>10, <1>11, <1>12 DEF CallsInv

LEMMA AcceptKeeps ==
  ASSUME TypeOK, CallsInv, NEW p \in Requests, NEW k \in Calls, Accept(p, k)
  PROVE  CallsInv'
<1>1. Types /\ Roles
  BY TypesHold, RolesHold DEF CallsInv
<1>2. op[p] = "none" /\ call[p] = NoCall /\ kind[k] = "in"
  BY <1>1, CallsAssumption
     DEF Accept, TakeIncoming, Begin, CallsInv, Types, RequestInv, Fits, Legal, Placing,
         Answering, AnswerInv, Waiting
<1>3. \/ Now(p, "accept", "prepare", k, TRUE)
      \/ Now(p, "accept", "start", k, FALSE)
  BY <1>2, Begun DEF Accept, TakeIncoming
<1>4. RequestInv'
  <2>1. \A c \in Calls : kind[c] # "none" => kind'[c] = kind[c]
    BY <1>1 DEF Accept, TakeIncoming, Types
  <2>2. CASE Now(p, "accept", "prepare", k, TRUE)
    <3>1. Fits(kind', "accept", "prepare", k, TRUE)
      BY <1>1, <1>2, <2>1, <2>2, CallsAssumption
         DEF Accept, TakeIncoming, Types, Roles, CallsInv, RequestInv, Fits, Legal,
             Placing, Answering
    <3> QED
      BY <1>1, <2>1, <2>2, <3>1, RequestKept DEF CallsInv
  <2>3. CASE Now(p, "accept", "start", k, FALSE)
    <3>1. Fits(kind', "accept", "start", k, FALSE)
      BY <1>1, <1>2, <2>1, <2>3, CallsAssumption
         DEF Accept, TakeIncoming, Types, Roles, CallsInv, RequestInv, Fits, Legal,
             Placing, Answering
    <3> QED
      BY <1>1, <2>1, <2>3, <3>1, RequestKept DEF CallsInv
  <2> QED
    BY <1>3, <2>2, <2>3
<1>5. FreshInv'
  <2> SUFFICES ASSUME NEW c \in Calls, kind'[c] = "none"
               PROVE  Fresh(c)'
    BY DEF FreshInv
  <2>1. kind[c] = "none"
    BY DEF Accept, TakeIncoming
  <2>2. Fresh(c)
    BY <2>1 DEF CallsInv, FreshInv
  <2>3. \A r \in Requests : call'[r] # c
    BY <1>2, <1>3, <2>1, <2>2, CallsAssumption DEF Fresh, Now
  <2> QED
    BY <1>1, <1>2, <2>1, <2>2, <2>3 DEF Fresh, Types, Accept, TakeIncoming
<1>6. InboxInv'
  BY <1>1, <1>2, <1>3 DEF CallsInv, Types, InboxInv, Accept, TakeIncoming, Now
<1>7. AnswerInv'
  BY <1>1, <1>2, <1>3
     DEF CallsInv, Types, AnswerInv, Accept, TakeIncoming, Now, Waiting, Answering
<1>8. TurnInv'
  BY <1>1, <1>2, <1>3
     DEF CallsInv, Types, TurnInv, AnswerInv, Accept, TakeIncoming, Now, Waiting,
         Answering
<1>9. OverInv'
  BY <1>1, <1>2, <1>3 DEF CallsInv, Types, OverInv, Accept, TakeIncoming, Now
<1>10. PlacedInv'
  BY <1>1, <1>2, <1>3, CallsAssumption
     DEF CallsInv, Types, PlacedInv, Roles, AnswerInv, Accept, TakeIncoming, Now, Placing,
         Answering, Waiting
<1>11. StreamInv'
  BY <1>1, <1>2, <1>3 DEF CallsInv, Types, StreamInv, Accept, TakeIncoming, Now
<1>12. LiveInv'
  BY <1>1, <1>2, <1>3, CallsAssumption
     DEF CallsInv, Types, LiveInv, Roles, Accept, TakeIncoming, Now, Placing, Answering
<1>13. ChannelInv'
  BY <1>1, <1>2, <1>3, CallsAssumption
     DEF CallsInv, Types, ChannelInv, Roles, Accept, TakeIncoming, Now, Placing, Answering
<1>14. RingInv'
  BY <1>1, <1>2, <1>3 DEF CallsInv, Types, RingInv, Accept, TakeIncoming, Now, Waiting
<1> QED
  BY <1>4, <1>5, <1>6, <1>7, <1>8, <1>9, <1>10, <1>11, <1>12, <1>13, <1>14 DEF CallsInv

LEMMA RejectKeeps ==
  ASSUME TypeOK, CallsInv, NEW p \in Requests, NEW k \in Calls, Reject(p, k)
  PROVE  CallsInv'
<1>1. Types /\ Roles
  BY TypesHold, RolesHold DEF CallsInv
<1>2. op[p] = "none" /\ call[p] = NoCall /\ kind[k] = "in"
  BY <1>1, CallsAssumption
     DEF Reject, TakeIncoming, Begin, CallsInv, Types, RequestInv, Fits, Legal, Placing,
         Answering, AnswerInv, Waiting
<1>3. Now(p, "reject", "reject", k, FALSE)
  BY <1>2, Begun DEF Reject, TakeIncoming
<1>4. RequestInv'
  <2>1. \A c \in Calls : kind[c] # "none" => kind'[c] = kind[c]
    BY <1>1 DEF Reject, TakeIncoming, Types
  <2>2. Fits(kind', "reject", "reject", k, FALSE)
    BY <1>1, <1>2, <2>1, CallsAssumption
       DEF Reject, TakeIncoming, Types, Roles, CallsInv, RequestInv, Fits, Legal, Placing,
           Answering
  <2> QED
    BY <1>1, <1>3, <2>1, <2>2, RequestKept DEF CallsInv
<1>5. FreshInv'
  <2> SUFFICES ASSUME NEW c \in Calls, kind'[c] = "none"
               PROVE  Fresh(c)'
    BY DEF FreshInv
  <2>1. kind[c] = "none"
    BY DEF Reject, TakeIncoming
  <2>2. Fresh(c)
    BY <2>1 DEF CallsInv, FreshInv
  <2>3. \A r \in Requests : call'[r] # c
    BY <1>2, <1>3, <2>1, <2>2, CallsAssumption DEF Fresh, Now
  <2> QED
    BY <1>1, <1>2, <2>1, <2>2, <2>3 DEF Fresh, Types, Reject, TakeIncoming
<1>6. InboxInv'
  BY <1>1, <1>2, <1>3 DEF CallsInv, Types, InboxInv, Reject, TakeIncoming, Now
<1>7. AnswerInv'
  BY <1>1, <1>2, <1>3
     DEF CallsInv, Types, AnswerInv, Reject, TakeIncoming, Now, Waiting, Answering
<1>8. TurnInv'
  BY <1>1, <1>2, <1>3
     DEF CallsInv, Types, TurnInv, AnswerInv, Reject, TakeIncoming, Now, Waiting,
         Answering
<1>9. OverInv'
  BY <1>1, <1>2, <1>3 DEF CallsInv, Types, OverInv, Reject, TakeIncoming, Now
<1>10. PlacedInv'
  BY <1>1, <1>2, <1>3, CallsAssumption
     DEF CallsInv, Types, PlacedInv, Roles, AnswerInv, Reject, TakeIncoming, Now, Placing,
         Answering, Waiting
<1>11. StreamInv'
  BY <1>1, <1>2, <1>3 DEF CallsInv, Types, StreamInv, Reject, TakeIncoming, Now
<1>12. LiveInv'
  BY <1>1, <1>2, <1>3, CallsAssumption
     DEF CallsInv, Types, LiveInv, Roles, Reject, TakeIncoming, Now, Placing, Answering
<1>13. ChannelInv'
  BY <1>1, <1>2, <1>3, CallsAssumption
     DEF CallsInv, Types, ChannelInv, Roles, Reject, TakeIncoming, Now, Placing, Answering
<1>14. RingInv'
  BY <1>1, <1>2, <1>3 DEF CallsInv, Types, RingInv, Reject, TakeIncoming, Now, Waiting
<1> QED
  BY <1>4, <1>5, <1>6, <1>7, <1>8, <1>9, <1>10, <1>11, <1>12, <1>13, <1>14 DEF CallsInv

LEMMA SendRejectKeeps ==
  ASSUME TypeOK, CallsInv, NEW p \in Requests, SendReject(p)
  PROVE  CallsInv'
<1>1. Types /\ Roles
  BY TypesHold, RolesHold DEF CallsInv
<1>2. op[p] = "reject" /\ call[p] \in Calls /\ kind[call[p]] = "in"
  BY <1>1, CallsAssumption
     DEF SendReject, Wire, Answered, CallsInv, Types, RequestInv, Fits, Legal, Placing,
         Answering
<1>3. Now(p, "none", "done", NoCall, FALSE)
  BY <1>2, Finished DEF SendReject, Wire, Answered
<1>4. RequestInv'
  <2>1. \A c \in Calls : kind[c] # "none" => kind'[c] = kind[c]
    BY <1>1 DEF SendReject, Wire, Answered, Types
  <2>2. Fits(kind', "none", "done", NoCall, FALSE)
    BY <1>1, <1>2, <2>1, CallsAssumption
       DEF SendReject, Wire, Answered, Types, Roles, CallsInv, RequestInv, Fits, Legal,
           Placing, Answering
  <2> QED
    BY <1>1, <1>3, <2>1, <2>2, RequestKept DEF CallsInv
<1>5. FreshInv'
  <2> SUFFICES ASSUME NEW c \in Calls, kind'[c] = "none"
               PROVE  Fresh(c)'
    BY DEF FreshInv
  <2>1. kind[c] = "none"
    BY DEF SendReject, Wire, Answered
  <2>2. Fresh(c)
    BY <2>1 DEF CallsInv, FreshInv
  <2>3. \A r \in Requests : call'[r] # c
    BY <1>2, <1>3, <2>1, <2>2, CallsAssumption DEF Fresh, Now
  <2> QED
    BY <1>1, <1>2, <2>1, <2>2, <2>3 DEF Fresh, Types, SendReject, Wire, Answered
<1>6. InboxInv'
  BY <1>1, <1>2, <1>3 DEF CallsInv, Types, InboxInv, SendReject, Wire, Answered, Now
<1>7. AnswerInv'
  BY <1>1, <1>2, <1>3
     DEF CallsInv, Types, AnswerInv, TurnInv, SendReject, Wire, Answered, Now, Waiting,
         Answering
<1>8. TurnInv'
  BY <1>1, <1>2, <1>3, CallsAssumption
     DEF CallsInv, Types, TurnInv, Roles, SendReject, Wire, Answered, Now, Waiting,
         Answering, Placing
<1>9. OverInv'
  BY <1>1, <1>2, <1>3, CallsAssumption
     DEF CallsInv, Types, OverInv, Roles, SendReject, Wire, Answered, Now, Placing,
         Answering
<1>10. PlacedInv'
  BY <1>1, <1>2, <1>3, CallsAssumption
     DEF CallsInv, Types, PlacedInv, Roles, SendReject, Wire, Answered, Now, Placing,
         Answering
<1>11. StreamInv'
  BY <1>1, <1>2, <1>3 DEF CallsInv, Types, StreamInv, SendReject, Wire, Answered, Now
<1>12. LiveInv'
  BY <1>1, <1>2, <1>3 DEF CallsInv, Types, LiveInv, SendReject, Wire, Answered, Now
<1>13. ChannelInv'
  BY <1>1, <1>2, <1>3 DEF CallsInv, Types, ChannelInv, SendReject, Wire, Answered, Now
<1>14. RingInv'
  BY <1>1, <1>2, <1>3
     DEF CallsInv, Types, RingInv, AnswerInv, SendReject, Wire, Answered, Now, Waiting,
         Answering
<1> QED
  BY <1>4, <1>5, <1>6, <1>7, <1>8, <1>9, <1>10, <1>11, <1>12, <1>13, <1>14 DEF CallsInv

LEMMA RingKeeps ==
  ASSUME TypeOK, CallsInv, NEW p \in Requests, Ring(p)
  PROVE  CallsInv'
<1>1. Types /\ Roles
  BY TypesHold, RolesHold DEF CallsInv
<1>2. op[p] = "none" /\ call[p] = NoCall
  BY <1>1, CallsAssumption
     DEF Ring, Place, Begin, CallsInv, Types, RequestInv, Fits, Legal, Placing, Answering
<1>3. Now(p, "ring", "start", NoCall, FALSE)
  BY <1>2, Begun DEF Ring, Place
<1>4. RequestInv'
  <2>1. \A c \in Calls : kind[c] # "none" => kind'[c] = kind[c]
    BY <1>1 DEF Ring, Place, Types
  <2>2. Fits(kind', "ring", "start", NoCall, FALSE)
    BY <1>1, <1>2, <2>1, CallsAssumption
       DEF Ring, Place, Types, Roles, CallsInv, RequestInv, Fits, Legal, Placing,
           Answering
  <2> QED
    BY <1>1, <1>3, <2>1, <2>2, RequestKept DEF CallsInv
<1>5. FreshInv'
  BY <1>1, <1>2, <1>3, CallsAssumption
     DEF CallsInv, Types, FreshInv, Ring, Place, Now, Fresh
<1>6. InboxInv'
  BY <1>1, <1>2, <1>3 DEF CallsInv, Types, InboxInv, Ring, Place, Now
<1>7. AnswerInv'
  BY <1>1, <1>2, <1>3 DEF CallsInv, Types, AnswerInv, Ring, Place, Now, Waiting, Answering
<1>8. TurnInv'
  BY <1>1, <1>2, <1>3 DEF CallsInv, Types, TurnInv, Ring, Place, Now, Waiting, Answering
<1>9. OverInv'
  BY <1>1, <1>2, <1>3 DEF CallsInv, Types, OverInv, Ring, Place, Now
<1>10. PlacedInv'
  BY <1>1, <1>2, <1>3 DEF CallsInv, Types, PlacedInv, Ring, Place, Now, Placing
<1>11. StreamInv'
  BY <1>1, <1>2, <1>3 DEF CallsInv, Types, StreamInv, Ring, Place, Now
<1>12. LiveInv'
  BY <1>1, <1>2, <1>3, CallsAssumption
     DEF CallsInv, Types, LiveInv, Roles, Ring, Place, Now, Placing, Answering
<1>13. ChannelInv'
  BY <1>1, <1>2, <1>3, CallsAssumption
     DEF CallsInv, Types, ChannelInv, Roles, Ring, Place, Now, Placing, Answering
<1>14. RingInv'
  BY <1>1, <1>2, <1>3 DEF CallsInv, Types, RingInv, Ring, Place, Now, Waiting
<1> QED
  BY <1>4, <1>5, <1>6, <1>7, <1>8, <1>9, <1>10, <1>11, <1>12, <1>13, <1>14 DEF CallsInv

LEMMA TtsKeeps ==
  ASSUME TypeOK, CallsInv, NEW p \in Requests, Tts(p)
  PROVE  CallsInv'
<1>1. Types /\ Roles
  BY TypesHold, RolesHold DEF CallsInv
<1>2. op[p] = "none" /\ call[p] = NoCall
  BY <1>1, CallsAssumption
     DEF Tts, Place, Begin, CallsInv, Types, RequestInv, Fits, Legal, Placing, Answering
<1>3. Now(p, "tts", "prepare", NoCall, TRUE)
  BY <1>2, Begun DEF Tts, Place
<1>4. RequestInv'
  <2>1. \A c \in Calls : kind[c] # "none" => kind'[c] = kind[c]
    BY <1>1 DEF Tts, Place, Types
  <2>2. Fits(kind', "tts", "prepare", NoCall, TRUE)
    BY <1>1, <1>2, <2>1, CallsAssumption
       DEF Tts, Place, Types, Roles, CallsInv, RequestInv, Fits, Legal, Placing, Answering
  <2> QED
    BY <1>1, <1>3, <2>1, <2>2, RequestKept DEF CallsInv
<1>5. FreshInv'
  BY <1>1, <1>2, <1>3, CallsAssumption DEF CallsInv, Types, FreshInv, Tts, Place, Now, Fresh
<1>6. InboxInv'
  BY <1>1, <1>2, <1>3 DEF CallsInv, Types, InboxInv, Tts, Place, Now
<1>7. AnswerInv'
  BY <1>1, <1>2, <1>3 DEF CallsInv, Types, AnswerInv, Tts, Place, Now, Waiting, Answering
<1>8. TurnInv'
  BY <1>1, <1>2, <1>3 DEF CallsInv, Types, TurnInv, Tts, Place, Now, Waiting, Answering
<1>9. OverInv'
  BY <1>1, <1>2, <1>3 DEF CallsInv, Types, OverInv, Tts, Place, Now
<1>10. PlacedInv'
  BY <1>1, <1>2, <1>3 DEF CallsInv, Types, PlacedInv, Tts, Place, Now, Placing
<1>11. StreamInv'
  BY <1>1, <1>2, <1>3 DEF CallsInv, Types, StreamInv, Tts, Place, Now
<1>12. LiveInv'
  BY <1>1, <1>2, <1>3, CallsAssumption
     DEF CallsInv, Types, LiveInv, Roles, Tts, Place, Now, Placing, Answering
<1>13. ChannelInv'
  BY <1>1, <1>2, <1>3, CallsAssumption
     DEF CallsInv, Types, ChannelInv, Roles, Tts, Place, Now, Placing, Answering
<1>14. RingInv'
  BY <1>1, <1>2, <1>3 DEF CallsInv, Types, RingInv, Tts, Place, Now, Waiting
<1> QED
  BY <1>4, <1>5, <1>6, <1>7, <1>8, <1>9, <1>10, <1>11, <1>12, <1>13, <1>14 DEF CallsInv

LEMMA PlayKeeps ==
  ASSUME TypeOK, CallsInv, NEW p \in Requests, Play(p)
  PROVE  CallsInv'
<1>1. Types /\ Roles
  BY TypesHold, RolesHold DEF CallsInv
<1>2. op[p] = "none" /\ call[p] = NoCall
  BY <1>1, CallsAssumption
     DEF Play, Place, Begin, CallsInv, Types, RequestInv, Fits, Legal, Placing, Answering
<1>3. Now(p, "play", "prepare", NoCall, TRUE)
  BY <1>2, Begun DEF Play, Place
<1>4. RequestInv'
  <2>1. \A c \in Calls : kind[c] # "none" => kind'[c] = kind[c]
    BY <1>1 DEF Play, Place, Types
  <2>2. Fits(kind', "play", "prepare", NoCall, TRUE)
    BY <1>1, <1>2, <2>1, CallsAssumption
       DEF Play, Place, Types, Roles, CallsInv, RequestInv, Fits, Legal, Placing,
           Answering
  <2> QED
    BY <1>1, <1>3, <2>1, <2>2, RequestKept DEF CallsInv
<1>5. FreshInv'
  BY <1>1, <1>2, <1>3, CallsAssumption
     DEF CallsInv, Types, FreshInv, Play, Place, Now, Fresh
<1>6. InboxInv'
  BY <1>1, <1>2, <1>3 DEF CallsInv, Types, InboxInv, Play, Place, Now
<1>7. AnswerInv'
  BY <1>1, <1>2, <1>3 DEF CallsInv, Types, AnswerInv, Play, Place, Now, Waiting, Answering
<1>8. TurnInv'
  BY <1>1, <1>2, <1>3 DEF CallsInv, Types, TurnInv, Play, Place, Now, Waiting, Answering
<1>9. OverInv'
  BY <1>1, <1>2, <1>3 DEF CallsInv, Types, OverInv, Play, Place, Now
<1>10. PlacedInv'
  BY <1>1, <1>2, <1>3 DEF CallsInv, Types, PlacedInv, Play, Place, Now, Placing
<1>11. StreamInv'
  BY <1>1, <1>2, <1>3 DEF CallsInv, Types, StreamInv, Play, Place, Now
<1>12. LiveInv'
  BY <1>1, <1>2, <1>3, CallsAssumption
     DEF CallsInv, Types, LiveInv, Roles, Play, Place, Now, Placing, Answering
<1>13. ChannelInv'
  BY <1>1, <1>2, <1>3, CallsAssumption
     DEF CallsInv, Types, ChannelInv, Roles, Play, Place, Now, Placing, Answering
<1>14. RingInv'
  BY <1>1, <1>2, <1>3 DEF CallsInv, Types, RingInv, Play, Place, Now, Waiting
<1> QED
  BY <1>4, <1>5, <1>6, <1>7, <1>8, <1>9, <1>10, <1>11, <1>12, <1>13, <1>14 DEF CallsInv

LEMMA OpenSocketKeeps ==
  ASSUME TypeOK, CallsInv, NEW p \in Requests, OpenSocket(p)
  PROVE  CallsInv'
<1>1. Types /\ Roles
  BY TypesHold, RolesHold DEF CallsInv
<1>2. op[p] = "none" /\ call[p] = NoCall
  BY <1>1, CallsAssumption
     DEF OpenSocket, Place, Begin, CallsInv, Types, RequestInv, Fits, Legal, Placing,
         Answering
<1>3. Now(p, "media", "start", NoCall, FALSE)
  BY <1>2, Begun DEF OpenSocket, Place
<1>4. RequestInv'
  <2>1. \A c \in Calls : kind[c] # "none" => kind'[c] = kind[c]
    BY <1>1 DEF OpenSocket, Place, Types
  <2>2. Fits(kind', "media", "start", NoCall, FALSE)
    BY <1>1, <1>2, <2>1, CallsAssumption
       DEF OpenSocket, Place, Types, Roles, CallsInv, RequestInv, Fits, Legal, Placing,
           Answering
  <2> QED
    BY <1>1, <1>3, <2>1, <2>2, RequestKept DEF CallsInv
<1>5. FreshInv'
  BY <1>1, <1>2, <1>3, CallsAssumption
     DEF CallsInv, Types, FreshInv, OpenSocket, Place, Now, Fresh
<1>6. InboxInv'
  BY <1>1, <1>2, <1>3 DEF CallsInv, Types, InboxInv, OpenSocket, Place, Now
<1>7. AnswerInv'
  BY <1>1, <1>2, <1>3
     DEF CallsInv, Types, AnswerInv, OpenSocket, Place, Now, Waiting, Answering
<1>8. TurnInv'
  BY <1>1, <1>2, <1>3
     DEF CallsInv, Types, TurnInv, OpenSocket, Place, Now, Waiting, Answering
<1>9. OverInv'
  BY <1>1, <1>2, <1>3 DEF CallsInv, Types, OverInv, OpenSocket, Place, Now
<1>10. PlacedInv'
  BY <1>1, <1>2, <1>3 DEF CallsInv, Types, PlacedInv, OpenSocket, Place, Now, Placing
<1>11. StreamInv'
  BY <1>1, <1>2, <1>3 DEF CallsInv, Types, StreamInv, OpenSocket, Place, Now
<1>12. LiveInv'
  BY <1>1, <1>2, <1>3, CallsAssumption
     DEF CallsInv, Types, LiveInv, Roles, OpenSocket, Place, Now, Placing, Answering
<1>13. ChannelInv'
  BY <1>1, <1>2, <1>3, CallsAssumption
     DEF CallsInv, Types, ChannelInv, Roles, OpenSocket, Place, Now, Placing, Answering
<1>14. RingInv'
  BY <1>1, <1>2, <1>3 DEF CallsInv, Types, RingInv, OpenSocket, Place, Now, Waiting
<1> QED
  BY <1>4, <1>5, <1>6, <1>7, <1>8, <1>9, <1>10, <1>11, <1>12, <1>13, <1>14 DEF CallsInv

LEMMA SynthesiseKeeps ==
  ASSUME TypeOK, CallsInv, NEW p \in Requests, Synthesise(p)
  PROVE  CallsInv'
<1>1. Types /\ Roles
  BY TypesHold, RolesHold DEF CallsInv
<1>2. \/ op[p] = "accept" /\ call[p] \in Calls /\ kind[call[p]] = "in"
      \/ op[p] = "tts" /\ call[p] = NoCall
  BY <1>1, CallsAssumption
     DEF Synthesise, Prepare, CallsInv, Types, RequestInv, Fits, Legal, Placing, Answering
<1>3. \/ Now(p, op[p], "start", call[p], payload[p])
      \/ Now(p, "none", "done", NoCall, FALSE)
  BY <1>2, Gone, Finished DEF Synthesise, Prepare
<1>4. RequestInv'
  <2>1. \A c \in Calls : kind[c] # "none" => kind'[c] = kind[c]
    BY <1>1 DEF Synthesise, Prepare, Types
  <2>2. CASE Now(p, op[p], "start", call[p], payload[p])
    <3>1. Fits(kind', op[p], "start", call[p], payload[p])
      BY <1>1, <1>2, <2>1, <2>2, CallsAssumption
         DEF Synthesise, Prepare, Types, Roles, CallsInv, RequestInv, Fits, Legal,
             Placing, Answering
    <3> QED
      BY <1>1, <2>1, <2>2, <3>1, RequestKept DEF CallsInv
  <2>3. CASE Now(p, "none", "done", NoCall, FALSE)
    <3>1. Fits(kind', "none", "done", NoCall, FALSE)
      BY <1>1, <1>2, <2>1, <2>3, CallsAssumption
         DEF Synthesise, Prepare, Types, Roles, CallsInv, RequestInv, Fits, Legal,
             Placing, Answering
    <3> QED
      BY <1>1, <2>1, <2>3, <3>1, RequestKept DEF CallsInv
  <2> QED
    BY <1>3, <2>2, <2>3
<1>5. FreshInv'
  BY <1>1, <1>2, <1>3, CallsAssumption
     DEF CallsInv, Types, FreshInv, Synthesise, Prepare, Now, Fresh
<1>6. InboxInv'
  BY <1>1, <1>2, <1>3 DEF CallsInv, Types, InboxInv, Synthesise, Prepare, Now
<1>7. AnswerInv'
  BY <1>1, <1>2, <1>3
     DEF CallsInv, Types, AnswerInv, Synthesise, Prepare, Now, Waiting, Answering
<1>8. TurnInv'
  BY <1>1, <1>2, <1>3
     DEF CallsInv, Types, TurnInv, Synthesise, Prepare, Now, Waiting, Answering
<1>9. OverInv'
  BY <1>1, <1>2, <1>3 DEF CallsInv, Types, OverInv, Synthesise, Prepare, Now
<1>10. PlacedInv'
  BY <1>1, <1>2, <1>3, CallsAssumption
     DEF CallsInv, Types, PlacedInv, Roles, Synthesise, Prepare, Now, Placing, Answering
<1>11. StreamInv'
  BY <1>1, <1>2, <1>3 DEF CallsInv, Types, StreamInv, Synthesise, Prepare, Now
<1>12. LiveInv'
  BY <1>1, <1>2, <1>3 DEF CallsInv, Types, LiveInv, Synthesise, Prepare, Now
<1>13. ChannelInv'
  BY <1>1, <1>2, <1>3 DEF CallsInv, Types, ChannelInv, Synthesise, Prepare, Now
<1>14. RingInv'
  BY <1>1, <1>2, <1>3 DEF CallsInv, Types, RingInv, Synthesise, Prepare, Now, Waiting
<1> QED
  BY <1>4, <1>5, <1>6, <1>7, <1>8, <1>9, <1>10, <1>11, <1>12, <1>13, <1>14 DEF CallsInv

LEMMA FetchKeeps ==
  ASSUME TypeOK, CallsInv, NEW p \in Requests, Fetch(p)
  PROVE  CallsInv'
<1>1. Types /\ Roles
  BY TypesHold, RolesHold DEF CallsInv
<1>2. \/ op[p] = "accept" /\ call[p] \in Calls /\ kind[call[p]] = "in"
      \/ op[p] = "play" /\ call[p] = NoCall
  BY <1>1, CallsAssumption
     DEF Fetch, Prepare, CallsInv, Types, RequestInv, Fits, Legal, Placing, Answering
<1>3. \/ Now(p, op[p], "start", call[p], payload[p])
      \/ Now(p, "none", "done", NoCall, FALSE)
  BY <1>2, Gone, Finished DEF Fetch, Prepare
<1>4. RequestInv'
  <2>1. \A c \in Calls : kind[c] # "none" => kind'[c] = kind[c]
    BY <1>1 DEF Fetch, Prepare, Types
  <2>2. CASE Now(p, op[p], "start", call[p], payload[p])
    <3>1. Fits(kind', op[p], "start", call[p], payload[p])
      BY <1>1, <1>2, <2>1, <2>2, CallsAssumption
         DEF Fetch, Prepare, Types, Roles, CallsInv, RequestInv, Fits, Legal, Placing,
             Answering
    <3> QED
      BY <1>1, <2>1, <2>2, <3>1, RequestKept DEF CallsInv
  <2>3. CASE Now(p, "none", "done", NoCall, FALSE)
    <3>1. Fits(kind', "none", "done", NoCall, FALSE)
      BY <1>1, <1>2, <2>1, <2>3, CallsAssumption
         DEF Fetch, Prepare, Types, Roles, CallsInv, RequestInv, Fits, Legal, Placing,
             Answering
    <3> QED
      BY <1>1, <2>1, <2>3, <3>1, RequestKept DEF CallsInv
  <2> QED
    BY <1>3, <2>2, <2>3
<1>5. FreshInv'
  BY <1>1, <1>2, <1>3, CallsAssumption
     DEF CallsInv, Types, FreshInv, Fetch, Prepare, Now, Fresh
<1>6. InboxInv'
  BY <1>1, <1>2, <1>3 DEF CallsInv, Types, InboxInv, Fetch, Prepare, Now
<1>7. AnswerInv'
  BY <1>1, <1>2, <1>3
     DEF CallsInv, Types, AnswerInv, Fetch, Prepare, Now, Waiting, Answering
<1>8. TurnInv'
  BY <1>1, <1>2, <1>3 DEF CallsInv, Types, TurnInv, Fetch, Prepare, Now, Waiting, Answering
<1>9. OverInv'
  BY <1>1, <1>2, <1>3 DEF CallsInv, Types, OverInv, Fetch, Prepare, Now
<1>10. PlacedInv'
  BY <1>1, <1>2, <1>3, CallsAssumption
     DEF CallsInv, Types, PlacedInv, Roles, Fetch, Prepare, Now, Placing, Answering
<1>11. StreamInv'
  BY <1>1, <1>2, <1>3 DEF CallsInv, Types, StreamInv, Fetch, Prepare, Now
<1>12. LiveInv'
  BY <1>1, <1>2, <1>3 DEF CallsInv, Types, LiveInv, Fetch, Prepare, Now
<1>13. ChannelInv'
  BY <1>1, <1>2, <1>3 DEF CallsInv, Types, ChannelInv, Fetch, Prepare, Now
<1>14. RingInv'
  BY <1>1, <1>2, <1>3 DEF CallsInv, Types, RingInv, Fetch, Prepare, Now, Waiting
<1> QED
  BY <1>4, <1>5, <1>6, <1>7, <1>8, <1>9, <1>10, <1>11, <1>12, <1>13, <1>14 DEF CallsInv

LEMMA StartAcceptKeeps ==
  ASSUME TypeOK, CallsInv, NEW p \in Requests, StartAccept(p)
  PROVE  CallsInv'
<1>1. Types /\ Roles
  BY TypesHold, RolesHold DEF CallsInv
<1>2. op[p] = "accept" /\ call[p] \in Calls /\ kind[call[p]] = "in"
  BY <1>1, CallsAssumption
     DEF StartAccept, Answered, CallsInv, Types, RequestInv, Fits, Legal, Placing,
         Answering
<1>3. \/ /\ wire' = [wire EXCEPT ![call[p]] = IF @ = "offered" THEN "live" ELSE @]
         /\ Now(p, op[p], "insert", call[p], payload[p])
      \/ UNCHANGED wire /\ Now(p, "none", "done", NoCall, FALSE)
  BY <1>2, Gone, Finished DEF StartAccept, Answered
<1>4. RequestInv'
  <2>1. \A c \in Calls : kind[c] # "none" => kind'[c] = kind[c]
    BY <1>1 DEF StartAccept, Answered, Types
  <2>2. CASE /\ wire' = [wire EXCEPT ![call[p]] = IF @ = "offered" THEN "live" ELSE @]
              /\ Now(p, op[p], "insert", call[p], payload[p])
    <3>1. Fits(kind', op[p], "insert", call[p], payload[p])
      BY <1>1, <1>2, <2>1, <2>2, CallsAssumption
         DEF StartAccept, Answered, Types, Roles, CallsInv, RequestInv, Fits, Legal,
             Placing, Answering
    <3> QED
      BY <1>1, <2>1, <2>2, <3>1, RequestKept DEF CallsInv
  <2>3. CASE UNCHANGED wire /\ Now(p, "none", "done", NoCall, FALSE)
    <3>1. Fits(kind', "none", "done", NoCall, FALSE)
      BY <1>1, <1>2, <2>1, <2>3, CallsAssumption
         DEF StartAccept, Answered, Types, Roles, CallsInv, RequestInv, Fits, Legal,
             Placing, Answering
    <3> QED
      BY <1>1, <2>1, <2>3, <3>1, RequestKept DEF CallsInv
  <2> QED
    BY <1>3, <2>2, <2>3
<1>5. FreshInv'
  <2> SUFFICES ASSUME NEW c \in Calls, kind'[c] = "none"
               PROVE  Fresh(c)'
    BY DEF FreshInv
  <2>1. kind[c] = "none"
    BY DEF StartAccept, Answered
  <2>2. Fresh(c)
    BY <2>1 DEF CallsInv, FreshInv
  <2>3. \A r \in Requests : call'[r] # c
    BY <1>2, <1>3, <2>1, <2>2, CallsAssumption DEF Fresh, Now
  <2> QED
    BY <1>1, <1>2, <2>1, <2>2, <2>3 DEF Fresh, Types, StartAccept, Answered
<1>6. InboxInv'
  BY <1>1, <1>2, <1>3 DEF CallsInv, Types, InboxInv, StartAccept, Answered, Now
<1>7. AnswerInv'
  BY <1>1, <1>2, <1>3
     DEF CallsInv, Types, AnswerInv, TurnInv, StartAccept, Answered, Now, Waiting,
         Answering
<1>8. TurnInv'
  BY <1>1, <1>2, <1>3, CallsAssumption
     DEF CallsInv, Types, TurnInv, Roles, StartAccept, Answered, Now, Waiting, Answering,
         Placing
<1>9. OverInv'
  BY <1>1, <1>2, <1>3, CallsAssumption
     DEF CallsInv, Types, OverInv, Roles, StartAccept, Answered, Now, Placing, Answering
<1>10. PlacedInv'
  BY <1>1, <1>2, <1>3, CallsAssumption
     DEF CallsInv, Types, PlacedInv, Roles, StartAccept, Answered, Now, Placing, Answering
<1>11. StreamInv'
  BY <1>1, <1>2, <1>3 DEF CallsInv, Types, StreamInv, StartAccept, Answered, Now
<1>12. LiveInv'
  BY <1>1, <1>2, <1>3, CallsAssumption
     DEF CallsInv, Types, LiveInv, Roles, StartAccept, Answered, Now, Placing, Answering
<1>13. ChannelInv'
  BY <1>1, <1>2, <1>3 DEF CallsInv, Types, ChannelInv, StartAccept, Answered, Now
<1>14. RingInv'
  BY <1>1, <1>2, <1>3
     DEF CallsInv, Types, RingInv, AnswerInv, StartAccept, Answered, Now, Waiting,
         Answering
<1> QED
  BY <1>4, <1>5, <1>6, <1>7, <1>8, <1>9, <1>10, <1>11, <1>12, <1>13, <1>14 DEF CallsInv

LEMMA StartCallKeeps ==
  ASSUME TypeOK, CallsInv, NEW p \in Requests, NEW k \in Calls, StartCall(p, k)
  PROVE  CallsInv'
<1>1. Types /\ Roles
  BY TypesHold, RolesHold DEF CallsInv
<1>2. op[p] \in Placing /\ call[p] = NoCall
  BY <1>1, CallsAssumption
     DEF StartCall, Wire, CallsInv, Types, RequestInv, Fits, Legal, Placing, Answering
<1>3. \/ /\ kind[k] = "none" /\ wire' = [wire EXCEPT ![k] = "live"]
         /\ kind' = [kind EXCEPT ![k] = IF op[p] = "media" THEN "media" ELSE "out"]
         /\ Now(p, op[p], "insert", k, payload[p])
      \/ UNCHANGED <<kind, wire>> /\ Now(p, "none", "done", NoCall, FALSE)
  <2>1. CASE /\ kind[k] = "none" /\ Wire(k, "live")
             /\ kind' = [kind EXCEPT ![k] = IF op[p] = "media" THEN "media" ELSE "out"]
             /\ call' = [call EXCEPT ![p] = k]
             /\ at' = [at EXCEPT ![p] = "insert"]
             /\ UNCHANGED <<op, payload>>
    BY <2>1 DEF Wire, TypeOK, Now
  <2>2. CASE Done({p}) /\ UNCHANGED <<kind, wire>>
    BY <1>2, <2>2, Finished DEF Placing
  <2> QED
    BY <2>1, <2>2 DEF StartCall
<1>4. UNCHANGED <<autoReject, inbox, incoming, active, audio, stream, recorder, recordings,
                  answers, faults>>
  BY DEF StartCall
<1>5. CASE /\ kind[k] = "none" /\ wire' = [wire EXCEPT ![k] = "live"]
           /\ kind' = [kind EXCEPT ![k] = IF op[p] = "media" THEN "media" ELSE "out"]
           /\ Now(p, op[p], "insert", k, payload[p])
  <2>1. Fits(kind', op[p], "insert", k, payload[p])
    BY <1>1, <1>2, <1>5, CallsAssumption
       DEF CallsInv, RequestInv, Fits, Legal, Placing, Answering, Types
  <2>2. \A c \in Calls : kind[c] # "none" => kind'[c] = kind[c]
    BY <1>1, <1>5 DEF Types
  <2>3. RequestInv'
    BY <1>1, <1>5, <2>1, <2>2, RequestKept DEF CallsInv
  <2>4. FreshInv'
    BY <1>1, <1>2, <1>4, <1>5, CallsAssumption DEF CallsInv, FreshInv, Fresh, Types, Now
  <2>5. Fresh(k)
    BY <1>5 DEF CallsInv, FreshInv
  <2>6. inbox[k] \notin Ringing /\ inbox[k] \notin Ending
    BY <2>5, Backlog DEF Fresh
  <2>7. /\ wire'[k] = "live" /\ kind'[k] \in {"out", "media"}
        /\ \A c \in Calls : c # k => wire'[c] = wire[c] /\ kind'[c] = kind[c]
    BY <1>1, <1>5 DEF Types
  <2>8. Now(p, op[p], "insert", k, payload[p]) /\ audio \subseteq Calls
    BY <1>1, <1>5 DEF Types
  <2>9. InboxInv'
    BY <1>1, <1>2, <1>4, <2>5, <2>6, <2>7, <2>8, Backlog, CallsAssumption
       DEF CallsInv, InboxInv, Fresh, Types, Now
  <2>10. AnswerInv'
    BY <1>1, <1>2, <1>4, <2>5, <2>6, <2>7, <2>8, CallsAssumption
       DEF CallsInv, AnswerInv, Fresh, Waiting, Answering, Now
  <2>11. TurnInv'
    BY <1>1, <1>2, <1>4, <2>5, <2>6, <2>7, <2>8, CallsAssumption
       DEF CallsInv, TurnInv, Roles, Answering, Now
  <2>12. OverInv'
    BY <1>1, <1>2, <1>4, <2>5, <2>6, <2>7, <2>8, CallsAssumption
       DEF CallsInv, OverInv, Roles, Fresh, Now
  <2>13. PlacedInv'
    BY <1>1, <1>2, <1>4, <2>5, <2>6, <2>7, <2>8, CallsAssumption
       DEF CallsInv, PlacedInv, Roles, Placing, Fresh, Now
  <2>14. StreamInv'
    BY <1>1, <1>2, <1>4, <2>5, <2>6, <2>7, <2>8, CallsAssumption
       DEF CallsInv, StreamInv, Fresh, Now
  <2>15. LiveInv'
    BY <1>1, <1>2, <1>4, <2>5, <2>6, <2>7, <2>8, CallsAssumption
       DEF CallsInv, LiveInv, Roles, Now
  <2>16. ChannelInv'
    BY <1>1, <1>2, <1>4, <2>5, <2>6, <2>7, <2>8, CallsAssumption
       DEF CallsInv, ChannelInv, Roles, Placing, Fresh, Now
  <2>17. RingInv'
    BY <1>1, <1>2, <1>4, <2>5, <2>6, <2>7, <2>8, CallsAssumption
       DEF CallsInv, RingInv, Waiting, Fresh, Roles, Now
  <2> QED
    BY <2>3, <2>4, <2>9, <2>10, <2>11, <2>12, <2>13, <2>14, <2>15, <2>16, <2>17 DEF CallsInv
<1>6. CASE UNCHANGED <<kind, wire>> /\ Now(p, "none", "done", NoCall, FALSE)
  <2>1. Fits(kind', "none", "done", NoCall, FALSE)
    BY <1>1, <1>2, <1>6, CallsAssumption
       DEF CallsInv, RequestInv, Fits, Legal, Placing, Answering, Types
  <2>2. \A c \in Calls : kind[c] # "none" => kind'[c] = kind[c]
    BY <1>1, <1>6 DEF Types
  <2>3. RequestInv'
    BY <1>1, <1>6, <2>1, <2>2, RequestKept DEF CallsInv
  <2>4. FreshInv'
    BY <1>1, <1>2, <1>4, <1>6, CallsAssumption DEF CallsInv, FreshInv, Fresh, Types, Now
  <2>5. InboxInv'
    BY <1>1, <1>2, <1>4, <1>6, Backlog, CallsAssumption DEF CallsInv, InboxInv, Types, Now
  <2>6. AnswerInv'
    BY <1>1, <1>2, <1>4, <1>6, CallsAssumption
       DEF CallsInv, AnswerInv, Waiting, Answering, Types, Now
  <2>7. TurnInv'
    BY <1>1, <1>2, <1>4, <1>6, CallsAssumption
       DEF CallsInv, TurnInv, Roles, Answering, Types, Now
  <2>8. OverInv'
    BY <1>1, <1>2, <1>4, <1>6, CallsAssumption DEF CallsInv, OverInv, Roles, Types, Now
  <2>9. PlacedInv'
    BY <1>1, <1>2, <1>4, <1>6, CallsAssumption
       DEF CallsInv, PlacedInv, Roles, Placing, Types, Now
  <2>10. StreamInv'
    BY <1>1, <1>2, <1>4, <1>6, CallsAssumption DEF CallsInv, StreamInv, Types, Now
  <2>11. LiveInv'
    BY <1>1, <1>2, <1>4, <1>6, CallsAssumption DEF CallsInv, LiveInv, Roles, Types, Now
  <2>12. ChannelInv'
    BY <1>1, <1>2, <1>4, <1>6, CallsAssumption
       DEF CallsInv, ChannelInv, Roles, Placing, Types, Now
  <2>13. RingInv'
    BY <1>1, <1>2, <1>4, <1>6, CallsAssumption
       DEF CallsInv, RingInv, Waiting, Roles, Types, Now
  <2> QED
    BY <2>3, <2>4, <2>5, <2>6, <2>7, <2>8, <2>9, <2>10, <2>11, <2>12, <2>13 DEF CallsInv
<1> QED
  BY <1>3, <1>5, <1>6

LEMMA InsertKeeps ==
  ASSUME TypeOK, CallsInv, NEW p \in Requests, Insert(p)
  PROVE  CallsInv'
<1>1. Types /\ Roles
  BY TypesHold, RolesHold DEF CallsInv
<1>2. \/ op[p] = "accept" /\ call[p] \in Calls /\ kind[call[p]] = "in"
      \/ op[p] \in Placing /\ call[p] \in Calls /\ kind[call[p]] \in {"out", "media"}
  BY <1>1, CallsAssumption
     DEF Insert, CallsInv, Types, RequestInv, Fits, Legal, Placing, Answering
<1>3. \/ op[p] \notin {"tts", "play"} /\ Now(p, op[p], "channels", call[p], payload[p])
      \/ op[p] \in {"tts", "play"} /\ Now(p, "none", "done", NoCall, FALSE)
  BY <1>2, Gone, Finished DEF Insert, Placing
<1>4. RequestInv'
  <2>1. \A c \in Calls : kind[c] # "none" => kind'[c] = kind[c]
    BY <1>1 DEF Insert, Types
  <2>2. CASE op[p] \notin {"tts", "play"} /\ Now(p, op[p], "channels", call[p], payload[p])
    <3>1. Fits(kind', op[p], "channels", call[p], payload[p])
      BY <1>1, <1>2, <2>1, <2>2, CallsAssumption
         DEF Insert, Types, Roles, CallsInv, RequestInv, Fits, Legal, Placing, Answering
    <3> QED
      BY <1>1, <2>1, <2>2, <3>1, RequestKept DEF CallsInv
  <2>3. CASE op[p] \in {"tts", "play"} /\ Now(p, "none", "done", NoCall, FALSE)
    <3>1. Fits(kind', "none", "done", NoCall, FALSE)
      BY <1>1, <1>2, <2>1, <2>3, CallsAssumption
         DEF Insert, Types, Roles, CallsInv, RequestInv, Fits, Legal, Placing, Answering
    <3> QED
      BY <1>1, <2>1, <2>3, <3>1, RequestKept DEF CallsInv
  <2> QED
    BY <1>3, <2>2, <2>3
<1>5. FreshInv'
  <2> SUFFICES ASSUME NEW c \in Calls, kind'[c] = "none"
               PROVE  Fresh(c)'
    BY DEF FreshInv
  <2>1. kind[c] = "none"
    BY DEF Insert
  <2>2. Fresh(c)
    BY <2>1 DEF CallsInv, FreshInv
  <2>3. \A r \in Requests : call'[r] # c
    BY <1>2, <1>3, <2>1, <2>2, CallsAssumption DEF Fresh, Now
  <2> QED
    BY <1>1, <1>2, <2>1, <2>2, <2>3 DEF Fresh, Types, Insert
<1>6. InboxInv'
  BY <1>1, <1>2, <1>3 DEF CallsInv, Types, InboxInv, Insert, Now, Placing
<1>7. AnswerInv'
  BY <1>1, <1>2, <1>3
     DEF CallsInv, Types, AnswerInv, Insert, Now, Waiting, Answering, Placing
<1>8. TurnInv'
  BY <1>1, <1>2, <1>3 DEF CallsInv, Types, TurnInv, Insert, Now, Waiting, Answering, Placing
<1>9. OverInv'
  BY <1>1, <1>2, <1>3 DEF CallsInv, Types, OverInv, Insert, Now, Placing
<1>10. PlacedInv'
  BY <1>1, <1>2, <1>3, CallsAssumption
     DEF CallsInv, Types, PlacedInv, Roles, Insert, Now, Placing, Answering
<1>11. StreamInv'
  BY <1>1, <1>2, <1>3 DEF CallsInv, Types, StreamInv, PlacedInv, Insert, Now, Placing
<1>12. LiveInv'
  BY <1>1, <1>2, <1>3 DEF CallsInv, Types, LiveInv, Insert, Now, Placing
<1>13. ChannelInv'
  BY <1>1, <1>2, <1>3 DEF CallsInv, Types, ChannelInv, Insert, Now, Placing
<1>14. RingInv'
  BY <1>1, <1>2, <1>3 DEF CallsInv, Types, RingInv, Insert, Now, Waiting, Placing
<1> QED
  BY <1>4, <1>5, <1>6, <1>7, <1>8, <1>9, <1>10, <1>11, <1>12, <1>13, <1>14 DEF CallsInv

LEMMA ChannelsKeeps ==
  ASSUME TypeOK, CallsInv, NEW p \in Requests, Channels(p)
  PROVE  CallsInv'
<1>1. Types /\ Roles
  BY TypesHold, RolesHold DEF CallsInv
<1>2. \/ op[p] = "accept" /\ call[p] \in Calls /\ kind[call[p]] = "in"
      \/ op[p] \in Placing /\ ~payload[p] /\ call[p] \in Calls /\ kind[call[p]] \in {"out", "media"}
  BY <1>1, CallsAssumption
     DEF Channels, CallsInv, Types, RequestInv, Fits, Legal, Placing, Answering
<1>3. \/ op[p] = "media" /\ Now(p, op[p], "drive", call[p], payload[p])
      \/ op[p] # "media" /\ Now(p, "none", "done", NoCall, FALSE)
  BY <1>2, Gone, Finished DEF Channels, Placing
<1>4. RequestInv'
  <2>1. \A c \in Calls : kind[c] # "none" => kind'[c] = kind[c]
    BY <1>1 DEF Channels, Types
  <2>2. CASE op[p] = "media" /\ Now(p, op[p], "drive", call[p], payload[p])
    <3>1. Fits(kind', op[p], "drive", call[p], payload[p])
      BY <1>1, <1>2, <2>1, <2>2, CallsAssumption
         DEF Channels, Types, Roles, CallsInv, RequestInv, Fits, Legal, Placing, Answering
    <3> QED
      BY <1>1, <2>1, <2>2, <3>1, RequestKept DEF CallsInv
  <2>3. CASE op[p] # "media" /\ Now(p, "none", "done", NoCall, FALSE)
    <3>1. Fits(kind', "none", "done", NoCall, FALSE)
      BY <1>1, <1>2, <2>1, <2>3, CallsAssumption
         DEF Channels, Types, Roles, CallsInv, RequestInv, Fits, Legal, Placing, Answering
    <3> QED
      BY <1>1, <2>1, <2>3, <3>1, RequestKept DEF CallsInv
  <2> QED
    BY <1>3, <2>2, <2>3
<1>5. FreshInv'
  <2> SUFFICES ASSUME NEW c \in Calls, kind'[c] = "none"
               PROVE  Fresh(c)'
    BY DEF FreshInv
  <2>1. kind[c] = "none"
    BY DEF Channels
  <2>2. Fresh(c)
    BY <2>1 DEF CallsInv, FreshInv
  <2>3. \A r \in Requests : call'[r] # c
    BY <1>2, <1>3, <2>1, <2>2, CallsAssumption DEF Fresh, Now
  <2> QED
    BY <1>1, <1>2, <2>1, <2>2, <2>3 DEF Fresh, Types, Channels
<1>6. InboxInv'
  BY <1>1, <1>2, <1>3 DEF CallsInv, Types, InboxInv, Channels, Now, Placing
<1>7. AnswerInv'
  BY <1>1, <1>2, <1>3
     DEF CallsInv, Types, AnswerInv, Channels, Now, Waiting, Answering, Placing
<1>8. TurnInv'
  BY <1>1, <1>2, <1>3
     DEF CallsInv, Types, TurnInv, Channels, Now, Waiting, Answering, Placing
<1>9. OverInv'
  BY <1>1, <1>2, <1>3 DEF CallsInv, Types, OverInv, Channels, Now, Placing
<1>10. PlacedInv'
  BY <1>1, <1>2, <1>3, CallsAssumption
     DEF CallsInv, Types, PlacedInv, Roles, Channels, Now, Placing, Answering
<1>11. StreamInv'
  BY <1>1, <1>2, <1>3 DEF CallsInv, Types, StreamInv, PlacedInv, Channels, Now, Placing
<1>12. LiveInv'
  BY <1>1, <1>2, <1>3 DEF CallsInv, Types, LiveInv, Channels, Now, Placing
<1>13. ChannelInv'
  BY <1>1, <1>2, <1>3 DEF CallsInv, Types, ChannelInv, PlacedInv, Channels, Now, Placing
<1>14. RingInv'
  BY <1>1, <1>2, <1>3 DEF CallsInv, Types, RingInv, Channels, Now, Waiting, Placing
<1> QED
  BY <1>4, <1>5, <1>6, <1>7, <1>8, <1>9, <1>10, <1>11, <1>12, <1>13, <1>14 DEF CallsInv

LEMMA SocketEndsKeeps ==
  ASSUME TypeOK, CallsInv, NEW p \in Requests, SocketEnds(p)
  PROVE  CallsInv'
<1>1. Types /\ Roles
  BY TypesHold, RolesHold DEF CallsInv
<1>2. op[p] = "media" /\ call[p] \in Calls /\ kind[call[p]] \in {"out", "media"}
  BY <1>1, CallsAssumption
     DEF SocketEnds, CallsInv, Types, RequestInv, Fits, Legal, Placing, Answering
<1>3. Now(p, op[p], "hangup", call[p], payload[p])
  BY <1>2, Gone DEF SocketEnds
<1>4. RequestInv'
  <2>1. \A c \in Calls : kind[c] # "none" => kind'[c] = kind[c]
    BY <1>1 DEF SocketEnds, Types
  <2>2. Fits(kind', op[p], "hangup", call[p], payload[p])
    BY <1>1, <1>2, <2>1, CallsAssumption
       DEF SocketEnds, Types, Roles, CallsInv, RequestInv, Fits, Legal, Placing, Answering
  <2> QED
    BY <1>1, <1>3, <2>1, <2>2, RequestKept DEF CallsInv
<1>5. FreshInv'
  BY <1>1, <1>2, <1>3, CallsAssumption DEF CallsInv, Types, FreshInv, SocketEnds, Now, Fresh
<1>6. InboxInv'
  BY <1>1, <1>2, <1>3 DEF CallsInv, Types, InboxInv, SocketEnds, Now
<1>7. AnswerInv'
  BY <1>1, <1>2, <1>3 DEF CallsInv, Types, AnswerInv, SocketEnds, Now, Waiting, Answering
<1>8. TurnInv'
  BY <1>1, <1>2, <1>3 DEF CallsInv, Types, TurnInv, SocketEnds, Now, Waiting, Answering
<1>9. OverInv'
  BY <1>1, <1>2, <1>3 DEF CallsInv, Types, OverInv, SocketEnds, Now
<1>10. PlacedInv'
  BY <1>1, <1>2, <1>3 DEF CallsInv, Types, PlacedInv, SocketEnds, Now, Placing
<1>11. StreamInv'
  BY <1>1, <1>2, <1>3 DEF CallsInv, Types, StreamInv, SocketEnds, Now
<1>12. LiveInv'
  BY <1>1, <1>2, <1>3 DEF CallsInv, Types, LiveInv, SocketEnds, Now
<1>13. ChannelInv'
  BY <1>1, <1>2, <1>3 DEF CallsInv, Types, ChannelInv, SocketEnds, Now
<1>14. RingInv'
  BY <1>1, <1>2, <1>3 DEF CallsInv, Types, RingInv, SocketEnds, Now, Waiting
<1> QED
  BY <1>4, <1>5, <1>6, <1>7, <1>8, <1>9, <1>10, <1>11, <1>12, <1>13, <1>14 DEF CallsInv

LEMMA SocketHangsUpKeeps ==
  ASSUME TypeOK, CallsInv, NEW p \in Requests, SocketHangsUp(p)
  PROVE  CallsInv'
<1>1. Types /\ Roles
  BY TypesHold, RolesHold DEF CallsInv
<1>2. op[p] = "media" /\ call[p] \in Calls /\ kind[call[p]] \in {"out", "media"}
  BY <1>1, CallsAssumption
     DEF SocketHangsUp, Wire, CallsInv, Types, RequestInv, Fits, Legal, Placing, Answering
<1>3. Now(p, op[p], "unlist", call[p], payload[p])
  BY <1>2, Gone DEF SocketHangsUp, Wire
<1>4. RequestInv'
  <2>1. \A c \in Calls : kind[c] # "none" => kind'[c] = kind[c]
    BY <1>1 DEF SocketHangsUp, Wire, Types
  <2>2. Fits(kind', op[p], "unlist", call[p], payload[p])
    BY <1>1, <1>2, <2>1, CallsAssumption
       DEF SocketHangsUp, Wire, Types, Roles, CallsInv, RequestInv, Fits, Legal, Placing,
           Answering
  <2> QED
    BY <1>1, <1>3, <2>1, <2>2, RequestKept DEF CallsInv
<1>5. FreshInv'
  <2> SUFFICES ASSUME NEW c \in Calls, kind'[c] = "none"
               PROVE  Fresh(c)'
    BY DEF FreshInv
  <2>1. kind[c] = "none"
    BY DEF SocketHangsUp, Wire
  <2>2. Fresh(c)
    BY <2>1 DEF CallsInv, FreshInv
  <2>3. \A r \in Requests : call'[r] # c
    BY <1>2, <1>3, <2>1, <2>2, CallsAssumption DEF Fresh, Now
  <2> QED
    BY <1>1, <1>2, <2>1, <2>2, <2>3 DEF Fresh, Types, SocketHangsUp, Wire
<1>6. InboxInv'
  BY <1>1, <1>2, <1>3 DEF CallsInv, Types, InboxInv, SocketHangsUp, Wire, Now
<1>7. AnswerInv'
  BY <1>1, <1>2, <1>3
     DEF CallsInv, Types, AnswerInv, SocketHangsUp, Wire, Now, Waiting, Answering
<1>8. TurnInv'
  BY <1>1, <1>2, <1>3
     DEF CallsInv, Types, TurnInv, SocketHangsUp, Wire, Now, Waiting, Answering
<1>9. OverInv'
  BY <1>1, <1>2, <1>3 DEF CallsInv, Types, OverInv, SocketHangsUp, Wire, Now
<1>10. PlacedInv'
  BY <1>1, <1>2, <1>3 DEF CallsInv, Types, PlacedInv, SocketHangsUp, Wire, Now, Placing
<1>11. StreamInv'
  BY <1>1, <1>2, <1>3 DEF CallsInv, Types, StreamInv, SocketHangsUp, Wire, Now
<1>12. LiveInv'
  BY <1>1, <1>2, <1>3 DEF CallsInv, Types, LiveInv, SocketHangsUp, Wire, Now
<1>13. ChannelInv'
  BY <1>1, <1>2, <1>3 DEF CallsInv, Types, ChannelInv, SocketHangsUp, Wire, Now
<1>14. RingInv'
  BY <1>1, <1>2, <1>3
     DEF CallsInv, Types, RingInv, AnswerInv, SocketHangsUp, Wire, Now, Waiting, Answering
<1> QED
  BY <1>4, <1>5, <1>6, <1>7, <1>8, <1>9, <1>10, <1>11, <1>12, <1>13, <1>14 DEF CallsInv

LEMMA SocketUnlistsKeeps ==
  ASSUME TypeOK, CallsInv, NEW p \in Requests, SocketUnlists(p)
  PROVE  CallsInv'
<1>1. Types /\ Roles
  BY TypesHold, RolesHold DEF CallsInv
<1>2. op[p] = "media" /\ call[p] \in Calls /\ kind[call[p]] \in {"out", "media"}
  BY <1>1, CallsAssumption
     DEF SocketUnlists, CallsInv, Types, RequestInv, Fits, Legal, Placing, Answering
<1>3. Now(p, op[p], "unhook", call[p], payload[p])
  BY <1>2, Gone DEF SocketUnlists
<1>4. RequestInv'
  <2>1. \A c \in Calls : kind[c] # "none" => kind'[c] = kind[c]
    BY <1>1 DEF SocketUnlists, Types
  <2>2. Fits(kind', op[p], "unhook", call[p], payload[p])
    BY <1>1, <1>2, <2>1, CallsAssumption
       DEF SocketUnlists, Types, Roles, CallsInv, RequestInv, Fits, Legal, Placing,
           Answering
  <2> QED
    BY <1>1, <1>3, <2>1, <2>2, RequestKept DEF CallsInv
<1>5. FreshInv'
  BY <1>1, <1>2, <1>3, CallsAssumption
     DEF CallsInv, Types, FreshInv, SocketUnlists, Now, Fresh
<1>6. InboxInv'
  BY <1>1, <1>2, <1>3 DEF CallsInv, Types, InboxInv, SocketUnlists, Now
<1>7. AnswerInv'
  BY <1>1, <1>2, <1>3 DEF CallsInv, Types, AnswerInv, SocketUnlists, Now, Waiting, Answering
<1>8. TurnInv'
  BY <1>1, <1>2, <1>3 DEF CallsInv, Types, TurnInv, SocketUnlists, Now, Waiting, Answering
<1>9. OverInv'
  BY <1>1, <1>2, <1>3 DEF CallsInv, Types, OverInv, SocketUnlists, Now
<1>10. PlacedInv'
  BY <1>1, <1>2, <1>3 DEF CallsInv, Types, PlacedInv, SocketUnlists, Now, Placing
<1>11. StreamInv'
  BY <1>1, <1>2, <1>3 DEF CallsInv, Types, StreamInv, SocketUnlists, Now
<1>12. LiveInv'
  BY <1>1, <1>2, <1>3 DEF CallsInv, Types, LiveInv, OverInv, SocketUnlists, Now
<1>13. ChannelInv'
  BY <1>1, <1>2, <1>3 DEF CallsInv, Types, ChannelInv, SocketUnlists, Now
<1>14. RingInv'
  BY <1>1, <1>2, <1>3 DEF CallsInv, Types, RingInv, SocketUnlists, Now, Waiting
<1> QED
  BY <1>4, <1>5, <1>6, <1>7, <1>8, <1>9, <1>10, <1>11, <1>12, <1>13, <1>14 DEF CallsInv

LEMMA TerminateKeeps ==
  ASSUME TypeOK, CallsInv, NEW p \in Requests, NEW k \in Calls, Terminate(p, k)
  PROVE  CallsInv'
<1>1. Types /\ Roles
  BY TypesHold, RolesHold DEF CallsInv
<1>2. op[p] = "none" /\ call[p] = NoCall
  BY <1>1, CallsAssumption
     DEF Terminate, IdIsKnown, Begin, CallsInv, Types, RequestInv, Fits, Legal, Placing,
         Answering
<1>3. Now(p, "terminate", IF k \in active THEN "end" ELSE "signal", k, FALSE)
  BY <1>2, Begun DEF Terminate, IdIsKnown
<1>4. RequestInv'
  <2>1. \A c \in Calls : kind[c] # "none" => kind'[c] = kind[c]
    BY <1>1 DEF Terminate, IdIsKnown, Types
  <2>2. Fits(kind', "terminate", IF k \in active THEN "end" ELSE "signal", k, FALSE)
    BY <1>1, <1>2, <2>1, CallsAssumption
       DEF Terminate, IdIsKnown, Types, Roles, CallsInv, RequestInv, Fits, Legal, Placing,
           Answering
  <2> QED
    BY <1>1, <1>3, <2>1, <2>2, RequestKept DEF CallsInv
<1>5. FreshInv'
  BY <1>1, <1>2, <1>3, CallsAssumption
     DEF CallsInv, Types, FreshInv, Terminate, IdIsKnown, Now, Fresh
<1>6. InboxInv'
  BY <1>1, <1>2, <1>3 DEF CallsInv, Types, InboxInv, Terminate, IdIsKnown, Now
<1>7. AnswerInv'
  BY <1>1, <1>2, <1>3
     DEF CallsInv, Types, AnswerInv, Terminate, IdIsKnown, Now, Waiting, Answering
<1>8. TurnInv'
  BY <1>1, <1>2, <1>3
     DEF CallsInv, Types, TurnInv, Terminate, IdIsKnown, Now, Waiting, Answering
<1>9. OverInv'
  BY <1>1, <1>2, <1>3 DEF CallsInv, Types, OverInv, Terminate, IdIsKnown, Now
<1>10. PlacedInv'
  BY <1>1, <1>2, <1>3, CallsAssumption
     DEF CallsInv, Types, PlacedInv, Roles, Terminate, IdIsKnown, Now, Placing, Answering
<1>11. StreamInv'
  BY <1>1, <1>2, <1>3 DEF CallsInv, Types, StreamInv, Terminate, IdIsKnown, Now
<1>12. LiveInv'
  BY <1>1, <1>2, <1>3, CallsAssumption
     DEF CallsInv, Types, LiveInv, Roles, Terminate, IdIsKnown, Now, Placing, Answering
<1>13. ChannelInv'
  BY <1>1, <1>2, <1>3, CallsAssumption
     DEF CallsInv, Types, ChannelInv, Roles, Terminate, IdIsKnown, Now, Placing, Answering
<1>14. RingInv'
  BY <1>1, <1>2, <1>3 DEF CallsInv, Types, RingInv, Terminate, IdIsKnown, Now, Waiting
<1> QED
  BY <1>4, <1>5, <1>6, <1>7, <1>8, <1>9, <1>10, <1>11, <1>12, <1>13, <1>14 DEF CallsInv

LEMMA EndKeeps ==
  ASSUME TypeOK, CallsInv, NEW p \in Requests, End(p)
  PROVE  CallsInv'
<1>1. Types /\ Roles
  BY TypesHold, RolesHold DEF CallsInv
<1>2. op[p] = "terminate" /\ call[p] \in Calls
  BY <1>1, CallsAssumption
     DEF End, Wire, CallsInv, Types, RequestInv, Fits, Legal, Placing, Answering
<1>3. Now(p, op[p], "unhook", call[p], payload[p])
  BY <1>2, Gone DEF End, Wire
<1>4. RequestInv'
  <2>1. \A c \in Calls : kind[c] # "none" => kind'[c] = kind[c]
    BY <1>1 DEF End, Wire, Types
  <2>2. Fits(kind', op[p], "unhook", call[p], payload[p])
    BY <1>1, <1>2, <2>1, CallsAssumption
       DEF End, Wire, Types, Roles, CallsInv, RequestInv, Fits, Legal, Placing, Answering
  <2> QED
    BY <1>1, <1>3, <2>1, <2>2, RequestKept DEF CallsInv
<1>5. FreshInv'
  <2> SUFFICES ASSUME NEW c \in Calls, kind'[c] = "none"
               PROVE  Fresh(c)'
    BY DEF FreshInv
  <2>1. kind[c] = "none"
    BY DEF End, Wire
  <2>2. Fresh(c)
    BY <2>1 DEF CallsInv, FreshInv
  <2>3. \A r \in Requests : call'[r] # c
    BY <1>2, <1>3, <2>1, <2>2, CallsAssumption DEF Fresh, Now
  <2> QED
    BY <1>1, <1>2, <2>1, <2>2, <2>3 DEF Fresh, Types, End, Wire
<1>6. InboxInv'
  BY <1>1, <1>2, <1>3 DEF CallsInv, Types, InboxInv, End, Wire, Now
<1>7. AnswerInv'
  BY <1>1, <1>2, <1>3 DEF CallsInv, Types, AnswerInv, End, Wire, Now, Waiting, Answering
<1>8. TurnInv'
  BY <1>1, <1>2, <1>3 DEF CallsInv, Types, TurnInv, End, Wire, Now, Waiting, Answering
<1>9. OverInv'
  BY <1>1, <1>2, <1>3 DEF CallsInv, Types, OverInv, End, Wire, Now
<1>10. PlacedInv'
  BY <1>1, <1>2, <1>3 DEF CallsInv, Types, PlacedInv, End, Wire, Now, Placing
<1>11. StreamInv'
  BY <1>1, <1>2, <1>3 DEF CallsInv, Types, StreamInv, End, Wire, Now
<1>12. LiveInv'
  BY <1>1, <1>2, <1>3 DEF CallsInv, Types, LiveInv, End, Wire, Now
<1>13. ChannelInv'
  BY <1>1, <1>2, <1>3 DEF CallsInv, Types, ChannelInv, End, Wire, Now
<1>14. RingInv'
  BY <1>1, <1>2, <1>3 DEF CallsInv, Types, RingInv, End, Wire, Now, Waiting
<1> QED
  BY <1>4, <1>5, <1>6, <1>7, <1>8, <1>9, <1>10, <1>11, <1>12, <1>13, <1>14 DEF CallsInv

LEMMA SignalKeeps ==
  ASSUME TypeOK, CallsInv, NEW p \in Requests, Signal(p)
  PROVE  CallsInv'
<1>1. Types /\ Roles
  BY TypesHold, RolesHold DEF CallsInv
<1>2. op[p] = "terminate" /\ call[p] \in Calls
  BY <1>1, CallsAssumption
     DEF Signal, Wire, CallsInv, Types, RequestInv, Fits, Legal, Placing, Answering
<1>3. Now(p, op[p], "done", call[p], payload[p])
  BY <1>2, Finished DEF Signal, Wire
<1>4. RequestInv'
  <2>1. \A c \in Calls : kind[c] # "none" => kind'[c] = kind[c]
    BY <1>1 DEF Signal, Wire, Types
  <2>2. Fits(kind', op[p], "done", call[p], payload[p])
    BY <1>1, <1>2, <2>1, CallsAssumption
       DEF Signal, Wire, Types, Roles, CallsInv, RequestInv, Fits, Legal, Placing,
           Answering
  <2> QED
    BY <1>1, <1>3, <2>1, <2>2, RequestKept DEF CallsInv
<1>5. FreshInv'
  <2> SUFFICES ASSUME NEW c \in Calls, kind'[c] = "none"
               PROVE  Fresh(c)'
    BY DEF FreshInv
  <2>1. kind[c] = "none"
    BY DEF Signal, Wire
  <2>2. Fresh(c)
    BY <2>1 DEF CallsInv, FreshInv
  <2>3. \A r \in Requests : call'[r] # c
    BY <1>2, <1>3, <2>1, <2>2, CallsAssumption DEF Fresh, Now
  <2> QED
    BY <1>1, <1>2, <2>1, <2>2, <2>3 DEF Fresh, Types, Signal, Wire
<1>6. InboxInv'
  BY <1>1, <1>2, <1>3 DEF CallsInv, Types, InboxInv, Signal, Wire, Now
<1>7. AnswerInv'
  BY <1>1, <1>2, <1>3 DEF CallsInv, Types, AnswerInv, Signal, Wire, Now, Waiting, Answering
<1>8. TurnInv'
  BY <1>1, <1>2, <1>3 DEF CallsInv, Types, TurnInv, Signal, Wire, Now, Waiting, Answering
<1>9. OverInv'
  BY <1>1, <1>2, <1>3, CallsAssumption
     DEF CallsInv, Types, OverInv, Roles, Signal, Wire, Now, Placing, Answering
<1>10. PlacedInv'
  BY <1>1, <1>2, <1>3 DEF CallsInv, Types, PlacedInv, Signal, Wire, Now, Placing
<1>11. StreamInv'
  BY <1>1, <1>2, <1>3 DEF CallsInv, Types, StreamInv, Signal, Wire, Now
<1>12. LiveInv'
  BY <1>1, <1>2, <1>3 DEF CallsInv, Types, LiveInv, Signal, Wire, Now
<1>13. ChannelInv'
  BY <1>1, <1>2, <1>3 DEF CallsInv, Types, ChannelInv, Signal, Wire, Now
<1>14. RingInv'
  BY <1>1, <1>2, <1>3 DEF CallsInv, Types, RingInv, Signal, Wire, Now, Waiting
<1> QED
  BY <1>4, <1>5, <1>6, <1>7, <1>8, <1>9, <1>10, <1>11, <1>12, <1>13, <1>14 DEF CallsInv

LEMMA UnhookKeeps ==
  ASSUME TypeOK, CallsInv, NEW p \in Requests, Unhook(p)
  PROVE  CallsInv'
<1>1. Types /\ Roles
  BY TypesHold, RolesHold DEF CallsInv
<1>2. op[p] \in {"media", "terminate"} /\ call[p] \in Calls
  BY <1>1, CallsAssumption
     DEF Unhook, CallsInv, Types, RequestInv, Fits, Legal, Placing, Answering
<1>3. \/ op[p] = "terminate" /\ Now(p, op[p], "done", call[p], payload[p])
      \/ op[p] = "media" /\ Now(p, "none", "done", NoCall, FALSE)
  BY <1>2, Finished DEF Unhook
<1>4. RequestInv'
  <2>1. \A c \in Calls : kind[c] # "none" => kind'[c] = kind[c]
    BY <1>1 DEF Unhook, Types
  <2>2. CASE op[p] = "terminate" /\ Now(p, op[p], "done", call[p], payload[p])
    <3>1. Fits(kind', op[p], "done", call[p], payload[p])
      BY <1>1, <1>2, <2>1, <2>2, CallsAssumption
         DEF Unhook, Types, Roles, CallsInv, RequestInv, Fits, Legal, Placing, Answering
    <3> QED
      BY <1>1, <2>1, <2>2, <3>1, RequestKept DEF CallsInv
  <2>3. CASE op[p] = "media" /\ Now(p, "none", "done", NoCall, FALSE)
    <3>1. Fits(kind', "none", "done", NoCall, FALSE)
      BY <1>1, <1>2, <2>1, <2>3, CallsAssumption
         DEF Unhook, Types, Roles, CallsInv, RequestInv, Fits, Legal, Placing, Answering
    <3> QED
      BY <1>1, <2>1, <2>3, <3>1, RequestKept DEF CallsInv
  <2> QED
    BY <1>3, <2>2, <2>3
<1>5. FreshInv'
  BY <1>1, <1>2, <1>3, CallsAssumption DEF CallsInv, Types, FreshInv, Unhook, Now, Fresh
<1>6. InboxInv'
  BY <1>1, <1>2, <1>3 DEF CallsInv, Types, InboxInv, Unhook, Now
<1>7. AnswerInv'
  BY <1>1, <1>2, <1>3 DEF CallsInv, Types, AnswerInv, Unhook, Now, Waiting, Answering
<1>8. TurnInv'
  BY <1>1, <1>2, <1>3 DEF CallsInv, Types, TurnInv, Unhook, Now, Waiting, Answering
<1>9. OverInv'
  BY <1>1, <1>2, <1>3 DEF CallsInv, Types, OverInv, Unhook, Now
<1>10. PlacedInv'
  BY <1>1, <1>2, <1>3, CallsAssumption
     DEF CallsInv, Types, PlacedInv, Roles, Unhook, Now, Placing, Answering
<1>11. StreamInv'
  BY <1>1, <1>2, <1>3 DEF CallsInv, Types, StreamInv, Unhook, Now
<1>12. LiveInv'
  BY <1>1, <1>2, <1>3 DEF CallsInv, Types, LiveInv, Unhook, Now
<1>13. ChannelInv'
  BY <1>1, <1>2, <1>3 DEF CallsInv, Types, ChannelInv, Unhook, Now
<1>14. RingInv'
  BY <1>1, <1>2, <1>3 DEF CallsInv, Types, RingInv, Unhook, Now, Waiting
<1> QED
  BY <1>4, <1>5, <1>6, <1>7, <1>8, <1>9, <1>10, <1>11, <1>12, <1>13, <1>14 DEF CallsInv

LEMMA StreamEndsKeeps ==
  ASSUME TypeOK, CallsInv, NEW k \in Calls, StreamEnds(k)
  PROVE  CallsInv'
<1>1. Types /\ Roles
  BY TypesHold, RolesHold DEF CallsInv
<1>2. RequestInv'
  BY <1>1
     DEF CallsInv, Types, RequestInv, StreamEnds, Stream, StreamRest, Placing, Answering,
         Fits, Legal
<1>3. FreshInv'
  BY <1>1, CallsAssumption
     DEF CallsInv, Types, FreshInv, StreamEnds, Stream, StreamRest, Fresh
<1>4. InboxInv'
  BY <1>1 DEF CallsInv, Types, InboxInv, StreamEnds, Stream, StreamRest
<1>5. AnswerInv'
  BY <1>1 DEF CallsInv, Types, AnswerInv, StreamEnds, Stream, StreamRest, Waiting, Answering
<1>6. TurnInv'
  BY <1>1 DEF CallsInv, Types, TurnInv, StreamEnds, Stream, StreamRest, Waiting, Answering
<1>7. OverInv'
  BY <1>1 DEF CallsInv, Types, OverInv, StreamEnds, Stream, StreamRest
<1>8. PlacedInv'
  BY <1>1 DEF CallsInv, Types, PlacedInv, StreamEnds, Stream, StreamRest, Placing
<1>9. StreamInv'
  BY <1>1 DEF CallsInv, Types, StreamInv, StreamEnds, Stream, StreamRest
<1>10. LiveInv'
  BY <1>1 DEF CallsInv, Types, LiveInv, StreamEnds, Stream, StreamRest
<1>11. ChannelInv'
  BY <1>1 DEF CallsInv, Types, ChannelInv, StreamEnds, Stream, StreamRest
<1>12. RingInv'
  BY <1>1 DEF CallsInv, Types, RingInv, StreamEnds, Stream, StreamRest, Waiting
<1> QED
  BY <1>2, <1>3, <1>4, <1>5, <1>6, <1>7, <1>8, <1>9, <1>10, <1>11, <1>12 DEF CallsInv

LEMMA StreamHangsUpKeeps ==
  ASSUME TypeOK, CallsInv, NEW k \in Calls, StreamHangsUp(k)
  PROVE  CallsInv'
<1>1. Types /\ Roles
  BY TypesHold, RolesHold DEF CallsInv
<1>2. RequestInv'
  BY <1>1
     DEF CallsInv, Types, RequestInv, StreamHangsUp, Stream, StreamRest, Wire, Placing,
         Answering, Fits, Legal
<1>3. FreshInv'
  BY <1>1, CallsAssumption
     DEF CallsInv, Types, FreshInv, StreamHangsUp, Stream, StreamRest, Wire, Fresh
<1>4. InboxInv'
  BY <1>1 DEF CallsInv, Types, InboxInv, StreamHangsUp, Stream, StreamRest, Wire
<1>5. AnswerInv'
  BY <1>1
     DEF CallsInv, Types, AnswerInv, StreamHangsUp, Stream, StreamRest, Wire, Waiting,
         Answering
<1>6. TurnInv'
  BY <1>1
     DEF CallsInv, Types, TurnInv, StreamHangsUp, Stream, StreamRest, Wire, Waiting,
         Answering
<1>7. OverInv'
  BY <1>1 DEF CallsInv, Types, OverInv, StreamHangsUp, Stream, StreamRest, Wire
<1>8. PlacedInv'
  BY <1>1 DEF CallsInv, Types, PlacedInv, StreamHangsUp, Stream, StreamRest, Wire, Placing
<1>9. StreamInv'
  BY <1>1 DEF CallsInv, Types, StreamInv, StreamHangsUp, Stream, StreamRest, Wire
<1>10. LiveInv'
  BY <1>1 DEF CallsInv, Types, LiveInv, StreamHangsUp, Stream, StreamRest, Wire
<1>11. ChannelInv'
  BY <1>1 DEF CallsInv, Types, ChannelInv, StreamHangsUp, Stream, StreamRest, Wire
<1>12. RingInv'
  BY <1>1
     DEF CallsInv, Types, RingInv, AnswerInv, StreamHangsUp, Stream, StreamRest, Wire,
         Waiting, Answering
<1> QED
  BY <1>2, <1>3, <1>4, <1>5, <1>6, <1>7, <1>8, <1>9, <1>10, <1>11, <1>12 DEF CallsInv

LEMMA StreamUnlistsKeeps ==
  ASSUME TypeOK, CallsInv, NEW k \in Calls, StreamUnlists(k)
  PROVE  CallsInv'
<1>1. Types /\ Roles
  BY TypesHold, RolesHold DEF CallsInv
<1>2. RequestInv'
  BY <1>1
     DEF CallsInv, Types, RequestInv, StreamUnlists, Stream, StreamRest, Placing,
         Answering, Fits, Legal
<1>3. FreshInv'
  BY <1>1, CallsAssumption
     DEF CallsInv, Types, FreshInv, StreamUnlists, Stream, StreamRest, Fresh
<1>4. InboxInv'
  BY <1>1 DEF CallsInv, Types, InboxInv, StreamUnlists, Stream, StreamRest
<1>5. AnswerInv'
  BY <1>1
     DEF CallsInv, Types, AnswerInv, StreamUnlists, Stream, StreamRest, Waiting, Answering
<1>6. TurnInv'
  BY <1>1
     DEF CallsInv, Types, TurnInv, StreamUnlists, Stream, StreamRest, Waiting, Answering
<1>7. OverInv'
  BY <1>1 DEF CallsInv, Types, OverInv, StreamUnlists, Stream, StreamRest
<1>8. PlacedInv'
  BY <1>1 DEF CallsInv, Types, PlacedInv, StreamUnlists, Stream, StreamRest, Placing
<1>9. StreamInv'
  BY <1>1 DEF CallsInv, Types, StreamInv, StreamUnlists, Stream, StreamRest
<1>10. LiveInv'
  BY <1>1 DEF CallsInv, Types, LiveInv, OverInv, StreamUnlists, Stream, StreamRest
<1>11. ChannelInv'
  BY <1>1 DEF CallsInv, Types, ChannelInv, StreamInv, StreamUnlists, Stream, StreamRest
<1>12. RingInv'
  BY <1>1 DEF CallsInv, Types, RingInv, StreamUnlists, Stream, StreamRest, Waiting
<1> QED
  BY <1>2, <1>3, <1>4, <1>5, <1>6, <1>7, <1>8, <1>9, <1>10, <1>11, <1>12 DEF CallsInv

LEMMA StreamUnhooksKeeps ==
  ASSUME TypeOK, CallsInv, NEW k \in Calls, StreamUnhooks(k)
  PROVE  CallsInv'
<1>1. Types /\ Roles
  BY TypesHold, RolesHold DEF CallsInv
<1>2. RequestInv'
  BY <1>1
     DEF CallsInv, Types, RequestInv, StreamUnhooks, Stream, StreamRest, Placing,
         Answering, Fits, Legal
<1>3. FreshInv'
  BY <1>1, CallsAssumption
     DEF CallsInv, Types, FreshInv, StreamUnhooks, Stream, StreamRest, Fresh
<1>4. InboxInv'
  BY <1>1 DEF CallsInv, Types, InboxInv, StreamUnhooks, Stream, StreamRest
<1>5. AnswerInv'
  BY <1>1
     DEF CallsInv, Types, AnswerInv, StreamUnhooks, Stream, StreamRest, Waiting, Answering
<1>6. TurnInv'
  BY <1>1
     DEF CallsInv, Types, TurnInv, StreamUnhooks, Stream, StreamRest, Waiting, Answering
<1>7. OverInv'
  BY <1>1 DEF CallsInv, Types, OverInv, StreamUnhooks, Stream, StreamRest
<1>8. PlacedInv'
  BY <1>1 DEF CallsInv, Types, PlacedInv, StreamUnhooks, Stream, StreamRest, Placing
<1>9. StreamInv'
  BY <1>1 DEF CallsInv, Types, StreamInv, StreamUnhooks, Stream, StreamRest
<1>10. LiveInv'
  BY <1>1 DEF CallsInv, Types, LiveInv, StreamUnhooks, Stream, StreamRest
<1>11. ChannelInv'
  BY <1>1 DEF CallsInv, Types, ChannelInv, StreamUnhooks, Stream, StreamRest
<1>12. RingInv'
  BY <1>1 DEF CallsInv, Types, RingInv, StreamUnhooks, Stream, StreamRest, Waiting
<1> QED
  BY <1>2, <1>3, <1>4, <1>5, <1>6, <1>7, <1>8, <1>9, <1>10, <1>11, <1>12 DEF CallsInv

LEMMA RecordKeeps ==
  ASSUME TypeOK, CallsInv, NEW k \in Calls, Record(k)
  PROVE  CallsInv'
<1>1. Types /\ Roles
  BY TypesHold, RolesHold DEF CallsInv
<1>2. RequestInv'
  BY <1>1
     DEF CallsInv, Types, RequestInv, Record, SinkClosed, Fault, NoFault, Placing,
         Answering, Fits, Legal
<1>3. FreshInv'
  BY <1>1, CallsAssumption
     DEF CallsInv, Types, FreshInv, Record, SinkClosed, Fault, NoFault, Fresh
<1>4. InboxInv'
  BY <1>1 DEF CallsInv, Types, InboxInv, Record, SinkClosed, Fault, NoFault
<1>5. AnswerInv'
  BY <1>1
     DEF CallsInv, Types, AnswerInv, Record, SinkClosed, Fault, NoFault, Waiting,
         Answering
<1>6. TurnInv'
  BY <1>1
     DEF CallsInv, Types, TurnInv, Record, SinkClosed, Fault, NoFault, Waiting, Answering
<1>7. OverInv'
  BY <1>1 DEF CallsInv, Types, OverInv, Record, SinkClosed, Fault, NoFault
<1>8. PlacedInv'
  BY <1>1 DEF CallsInv, Types, PlacedInv, Record, SinkClosed, Fault, NoFault, Placing
<1>9. StreamInv'
  BY <1>1 DEF CallsInv, Types, StreamInv, Record, SinkClosed, Fault, NoFault
<1>10. LiveInv'
  BY <1>1 DEF CallsInv, Types, LiveInv, Record, SinkClosed, Fault, NoFault
<1>11. ChannelInv'
  BY <1>1 DEF CallsInv, Types, ChannelInv, Record, SinkClosed, Fault, NoFault
<1>12. RingInv'
  BY <1>1 DEF CallsInv, Types, RingInv, Record, SinkClosed, Fault, NoFault, Waiting
<1> QED
  BY <1>2, <1>3, <1>4, <1>5, <1>6, <1>7, <1>8, <1>9, <1>10, <1>11, <1>12 DEF CallsInv

LEMMA WriteRecordingKeeps ==
  ASSUME TypeOK, CallsInv, NEW k \in Calls, WriteRecording(k)
  PROVE  CallsInv'
<1>1. Types /\ Roles
  BY TypesHold, RolesHold DEF CallsInv
<1>2. RequestInv'
  BY <1>1
     DEF CallsInv, Types, RequestInv, WriteRecording, Fault, NoFault, Placing, Answering,
         Fits, Legal
<1>3. FreshInv'
  BY <1>1, CallsAssumption
     DEF CallsInv, Types, FreshInv, WriteRecording, Fault, NoFault, Fresh
<1>4. InboxInv'
  BY <1>1 DEF CallsInv, Types, InboxInv, WriteRecording, Fault, NoFault
<1>5. AnswerInv'
  BY <1>1 DEF CallsInv, Types, AnswerInv, WriteRecording, Fault, NoFault, Waiting, Answering
<1>6. TurnInv'
  BY <1>1 DEF CallsInv, Types, TurnInv, WriteRecording, Fault, NoFault, Waiting, Answering
<1>7. OverInv'
  BY <1>1 DEF CallsInv, Types, OverInv, WriteRecording, Fault, NoFault
<1>8. PlacedInv'
  BY <1>1 DEF CallsInv, Types, PlacedInv, WriteRecording, Fault, NoFault, Placing
<1>9. StreamInv'
  BY <1>1 DEF CallsInv, Types, StreamInv, WriteRecording, Fault, NoFault
<1>10. LiveInv'
  BY <1>1 DEF CallsInv, Types, LiveInv, WriteRecording, Fault, NoFault
<1>11. ChannelInv'
  BY <1>1 DEF CallsInv, Types, ChannelInv, WriteRecording, Fault, NoFault
<1>12. RingInv'
  BY <1>1 DEF CallsInv, Types, RingInv, WriteRecording, Fault, NoFault, Waiting
<1> QED
  BY <1>2, <1>3, <1>4, <1>5, <1>6, <1>7, <1>8, <1>9, <1>10, <1>11, <1>12 DEF CallsInv

LEMMA HangUpKeeps ==
  ASSUME TypeOK, CallsInv, NEW p \in Requests, HangUp(p)
  PROVE  CallsInv'
<1>1. Types /\ Roles
  BY TypesHold, RolesHold DEF CallsInv
<1>2. op[p] # "none" /\ op[p] # "media"
  BY <1>1, CallsAssumption
     DEF HangUp, Fault, CallsInv, Types, RequestInv, Fits, Legal, Placing, Answering
<1>3. \/ op[p] = "terminate" /\ Now(p, op[p], "done", call[p], payload[p])
      \/ op[p] # "terminate" /\ Now(p, "none", "done", NoCall, FALSE)
  BY <1>2, Finished DEF HangUp, Fault
<1>4. RequestInv'
  <2>1. \A c \in Calls : kind[c] # "none" => kind'[c] = kind[c]
    BY <1>1 DEF HangUp, Fault, Types
  <2>2. CASE op[p] = "terminate" /\ Now(p, op[p], "done", call[p], payload[p])
    <3>1. Fits(kind', op[p], "done", call[p], payload[p])
      BY <1>1, <1>2, <2>1, <2>2, CallsAssumption
         DEF HangUp, Fault, Types, Roles, CallsInv, RequestInv, Fits, Legal, Placing,
             Answering
    <3> QED
      BY <1>1, <2>1, <2>2, <3>1, RequestKept DEF CallsInv
  <2>3. CASE op[p] # "terminate" /\ Now(p, "none", "done", NoCall, FALSE)
    <3>1. Fits(kind', "none", "done", NoCall, FALSE)
      BY <1>1, <1>2, <2>1, <2>3, CallsAssumption
         DEF HangUp, Fault, Types, Roles, CallsInv, RequestInv, Fits, Legal, Placing,
             Answering
    <3> QED
      BY <1>1, <2>1, <2>3, <3>1, RequestKept DEF CallsInv
  <2> QED
    BY <1>3, <2>2, <2>3
<1>5. FreshInv'
  BY <1>1, <1>2, <1>3, CallsAssumption
     DEF CallsInv, Types, FreshInv, HangUp, Fault, Now, Fresh
<1>6. InboxInv'
  BY <1>1, <1>2, <1>3 DEF CallsInv, Types, InboxInv, HangUp, Fault, Now
<1>7. AnswerInv'
  BY <1>1, <1>2, <1>3 DEF CallsInv, Types, AnswerInv, HangUp, Fault, Now, Waiting, Answering
<1>8. TurnInv'
  BY <1>1, <1>2, <1>3 DEF CallsInv, Types, TurnInv, HangUp, Fault, Now, Waiting, Answering
<1>9. OverInv'
  BY <1>1, <1>2, <1>3 DEF CallsInv, Types, OverInv, HangUp, Fault, Now
<1>10. PlacedInv'
  BY <1>1, <1>2, <1>3, CallsAssumption
     DEF CallsInv, Types, PlacedInv, Roles, HangUp, Fault, Now, Placing, Answering
<1>11. StreamInv'
  BY <1>1, <1>2, <1>3 DEF CallsInv, Types, StreamInv, HangUp, Fault, Now
<1>12. LiveInv'
  BY <1>1, <1>2, <1>3 DEF CallsInv, Types, LiveInv, HangUp, Fault, Now
<1>13. ChannelInv'
  BY <1>1, <1>2, <1>3 DEF CallsInv, Types, ChannelInv, HangUp, Fault, Now
<1>14. RingInv'
  BY <1>1, <1>2, <1>3 DEF CallsInv, Types, RingInv, HangUp, Fault, Now, Waiting
<1> QED
  BY <1>4, <1>5, <1>6, <1>7, <1>8, <1>9, <1>10, <1>11, <1>12, <1>13, <1>14 DEF CallsInv

LEMMA CrashKeeps ==
  ASSUME TypeOK, CallsInv, Crash
  PROVE  CallsInv'
<1>1. Types /\ Roles
  BY TypesHold, RolesHold DEF CallsInv
<1>2. RequestInv'
  <2> SUFFICES ASSUME NEW r \in Requests
               PROVE  Fits(kind', op'[r], at'[r], call'[r], payload'[r])
    BY DEF RequestInv
  <2>1. Fits(kind, op[r], at[r], call[r], payload[r])
    BY DEF CallsInv, RequestInv
  <2>2. UNCHANGED kind
    BY DEF Crash
  <2>3. CASE op[r] = "terminate"
    <3>1. op'[r] = op[r] /\ at'[r] = "done" /\ call'[r] = call[r] /\ payload'[r] = payload[r]
      BY <2>1, <2>3 DEF Crash, Done, TypeOK, Fits, Legal
    <3> QED
      BY <2>1, <2>2, <2>3, <3>1 DEF Fits, Legal, Placing, Answering
  <2>4. CASE op[r] # "terminate"
    <3>1. /\ op'[r] = "none" /\ at'[r] \in {"idle", "done"} /\ call'[r] = NoCall /\ ~payload'[r]
      BY <2>1, <2>4 DEF Crash, Done, TypeOK, Fits, Legal, Placing
    <3> QED
      BY <3>1 DEF Fits, Legal, Placing, Answering
  <2> QED
    BY <2>3, <2>4
<1>3. FreshInv'
  BY <1>1, Backlog, CallsAssumption
     DEF CallsInv, Types, FreshInv, Crash, Fault, Done, TypeOK, Fresh
<1>4. InboxInv'
  BY <1>1, Backlog, CallsAssumption
     DEF CallsInv, Types, InboxInv, Crash, Fault, Done, TypeOK
<1>5. AnswerInv'
  BY <1>1, Backlog, CallsAssumption
     DEF CallsInv, Types, AnswerInv, Crash, Fault, Done, TypeOK, Waiting, Answering
<1>6. TurnInv'
  BY <1>1, Backlog, CallsAssumption
     DEF CallsInv, Types, TurnInv, Crash, Fault, Done, TypeOK, Waiting, Answering
<1>7. OverInv'
  BY <1>1, CallsAssumption DEF CallsInv, Types, OverInv, Crash, Fault, Done, TypeOK
<1>8. PlacedInv'
  BY <1>1, CallsAssumption
     DEF CallsInv, Types, PlacedInv, Crash, Fault, Done, TypeOK, Placing
<1>9. StreamInv'
  BY <1>1, CallsAssumption DEF CallsInv, Types, StreamInv, Crash, Fault, Done, TypeOK
<1>10. LiveInv'
  BY <1>1, CallsAssumption DEF CallsInv, Types, LiveInv, Crash, Fault, Done, TypeOK
<1>11. ChannelInv'
  BY <1>1, CallsAssumption DEF CallsInv, Types, ChannelInv, Crash, Fault, Done, TypeOK
<1>12. RingInv'
  BY <1>1, Backlog, CallsAssumption
     DEF CallsInv, Types, RingInv, Crash, Fault, Done, TypeOK, Waiting
<1> QED
  BY <1>2, <1>3, <1>4, <1>5, <1>6, <1>7, <1>8, <1>9, <1>10, <1>11, <1>12 DEF CallsInv

-----------------------------------------------------------------------------
(* Types.                                                                  *)

LEMMA DoneTyped ==
  ASSUME TypeOK, NEW R, Done(R)
  PROVE  /\ op' \in [Requests -> Ops] /\ at' \in [Requests -> Places]
         /\ call' \in [Requests -> Calls \cup {NoCall}]
         /\ payload' \in [Requests -> BOOLEAN]
BY DEF TypeOK, Done, Ops, Places

LEMMA BeginTyped ==
  ASSUME TypeOK, NEW r, NEW o \in Ops, NEW c \in Calls \cup {NoCall}, NEW p \in Places,
         NEW b \in BOOLEAN, Begin(r, o, c, p, b)
  PROVE  /\ op' \in [Requests -> Ops] /\ at' \in [Requests -> Places]
         /\ call' \in [Requests -> Calls \cup {NoCall}]
         /\ payload' \in [Requests -> BOOLEAN]
BY DEF TypeOK, Begin

LEMMA GotoTyped ==
  ASSUME TypeOK, NEW r, NEW p \in Places, Goto(r, p)
  PROVE  /\ op' \in [Requests -> Ops] /\ at' \in [Requests -> Places]
         /\ call' \in [Requests -> Calls \cup {NoCall}]
         /\ payload' \in [Requests -> BOOLEAN]
BY DEF TypeOK, Goto

LEMMA WireTyped ==
  ASSUME TypeOK, NEW c, NEW w \in {"none", "offered", "live", "over"}, Wire(c, w)
  PROVE  wire' \in [Calls -> {"none", "offered", "live", "over"}]
BY DEF TypeOK, Wire

LEMMA AnsweredTyped ==
  ASSUME TypeOK, NEW c, Answered(c)
  PROVE  answers' \in [Calls -> Nat]
<1>1. answers \in [Calls -> Nat]
  BY DEF TypeOK
<1>2. \A d \in Calls : answers[d] + 1 \in Nat
  BY <1>1
<1> QED
  BY <1>1, <1>2 DEF Answered

LEMMA HandledTyped ==
  ASSUME TypeOK, NEW c \in Calls, NEW e, Handled(c, e)
  PROVE  inbox' \in [Calls -> Seq({"offer", "terminate", "missed"})]
<1>1. inbox \in [Calls -> Seq({"offer", "terminate", "missed"})] /\ inbox[c] # <<>>
  BY DEF TypeOK, Handled
<1>2. Tail(inbox[c]) \in Seq({"offer", "terminate", "missed"})
  BY <1>1, HeadTailProperties
<1> QED
  BY <1>1, <1>2 DEF Handled

LEMMA StreamTyped ==
  ASSUME TypeOK, NEW c, stream' = [stream EXCEPT ![c] = "play"]
  PROVE  stream' \in [Calls -> {"none", "play", "hangup", "unlist", "unhook", "done"}]
BY DEF TypeOK

LEMMA RecorderTyped ==
  ASSUME TypeOK, NEW c, NEW b \in {"none", "on"}, recorder' = [recorder EXCEPT ![c] = b]
  PROVE  recorder' \in [Calls -> {"none", "on", "write", "done"}]
BY DEF TypeOK
\* A request past its first places has a call.
LEMMA HasCall ==
  ASSUME TypeOK, RequestInv, NEW p \in Requests,
         at[p] \in {"insert", "channels"} \/ (at[p] = "start" /\ op[p] = "accept")
  PROVE  call[p] \in Calls
<1>1. Fits(kind, op[p], at[p], call[p], payload[p])
  BY DEF RequestInv
<1>2. call[p] # NoCall
  BY <1>1 DEF Fits, Legal, Placing
<1> QED
  BY <1>2 DEF TypeOK

LEMMA FaultTyped == TypeOK /\ (Fault \/ NoFault) => faults' \in 0..MaxFaults
BY CallsAssumption DEF TypeOK, Fault, NoFault

LEMMA NextTypeOK == TypeOK /\ CallsInv /\ [Next]_vars => TypeOK'
<1> SUFFICES ASSUME TypeOK, CallsInv, [Next]_vars
             PROVE  TypeOK'
  OBVIOUS
<1>1. CASE UNCHANGED vars
  BY <1>1 DEF TypeOK, vars
<1>2. ASSUME NEW k \in Calls, Offer(k)
      PROVE  TypeOK'
  BY <1>2 DEF Offer, Wire, TypeOK
<1>3. ASSUME NEW k \in Calls, PeerEnds(k)
      PROVE  TypeOK'
  BY <1>3 DEF PeerEnds, Wire, TypeOK
<1>4. ASSUME NEW k \in Calls, HandleOffer(k)
      PROVE  TypeOK'
  <2>1. wire' \in [Calls -> {"none", "offered", "live", "over"}]
    BY <1>4, WireTyped DEF HandleOffer, TypeOK
  <2>2. answers' \in [Calls -> Nat]
    BY <1>4, AnsweredTyped DEF HandleOffer, TypeOK
  <2>3. incoming' \subseteq Calls
    BY <1>4 DEF HandleOffer, TypeOK
  <2> QED
    BY <1>4, <2>1, <2>2, <2>3, HandledTyped DEF HandleOffer, TypeOK, tasks, requestVars
<1>5. ASSUME NEW k \in Calls, HandleEnd(k)
      PROVE  TypeOK'
  BY <1>5, HandledTyped DEF HandleEnd, TypeOK, tasks, requestVars
<1>6. ASSUME NEW k \in Calls, LoseEvents(k)
      PROVE  TypeOK'
  BY <1>6, FaultTyped DEF LoseEvents, TypeOK
<1>7. ASSUME NEW p \in Requests, NEW k \in Calls, Accept(p, k)
      PROVE  TypeOK'
  BY <1>7, BeginTyped DEF Accept, TakeIncoming, TypeOK, Ops, Places
<1>8. ASSUME NEW p \in Requests, NEW k \in Calls, Reject(p, k)
      PROVE  TypeOK'
  BY <1>8, BeginTyped DEF Reject, TakeIncoming, TypeOK, Ops, Places
<1>9. ASSUME NEW p \in Requests, SendReject(p)
      PROVE  TypeOK'
  <2>1. wire' \in [Calls -> {"none", "offered", "live", "over"}]
    BY <1>9, WireTyped DEF SendReject, TypeOK
  <2>2. answers' \in [Calls -> Nat]
    BY <1>9, AnsweredTyped DEF SendReject, TypeOK
  <2> QED
    BY <1>9, <2>1, <2>2, DoneTyped DEF SendReject, TypeOK, registries, tasks
<1>10. ASSUME NEW p \in Requests, Ring(p)
      PROVE  TypeOK'
  BY <1>10, BeginTyped DEF Ring, Place, TypeOK, Ops, Places
<1>11. ASSUME NEW p \in Requests, Tts(p)
      PROVE  TypeOK'
  BY <1>11, BeginTyped DEF Tts, Place, TypeOK, Ops, Places
<1>12. ASSUME NEW p \in Requests, Play(p)
      PROVE  TypeOK'
  BY <1>12, BeginTyped DEF Play, Place, TypeOK, Ops, Places
<1>13. ASSUME NEW p \in Requests, OpenSocket(p)
      PROVE  TypeOK'
  BY <1>13, BeginTyped DEF OpenSocket, Place, TypeOK, Ops, Places
<1>14. ASSUME NEW p \in Requests, Synthesise(p)
      PROVE  TypeOK'
  BY <1>14, GotoTyped, DoneTyped DEF Synthesise, Prepare, TypeOK, Ops, Places
<1>15. ASSUME NEW p \in Requests, Fetch(p)
      PROVE  TypeOK'
  BY <1>15, GotoTyped, DoneTyped DEF Fetch, Prepare, TypeOK, Ops, Places
<1>16. ASSUME NEW p \in Requests, StartAccept(p)
      PROVE  TypeOK'
  <2>0. at[p] = "start" /\ op[p] = "accept"
    BY <1>16 DEF StartAccept
  <2>. DEFINE w == IF wire[call[p]] = "offered" THEN "live" ELSE wire[call[p]]
  <2>1. call[p] \in Calls
    BY <2>0, HasCall DEF CallsInv
  <2>2. w \in {"none", "offered", "live", "over"}
    BY <2>1 DEF TypeOK
  <2>3. wire' \in [Calls -> {"none", "offered", "live", "over"}]
    <3>1. wire' = wire \/ wire' = [wire EXCEPT ![call[p]] = w]
      BY <1>16 DEF StartAccept
    <3> HIDE DEF w
    <3> QED
      BY <3>1, <2>2 DEF TypeOK
  <2>4. answers' \in [Calls -> Nat]
    BY <1>16, AnsweredTyped DEF StartAccept, TypeOK
  <2>5. /\ op' \in [Requests -> Ops] /\ at' \in [Requests -> Places]
        /\ call' \in [Requests -> Calls \cup {NoCall}]
        /\ payload' \in [Requests -> BOOLEAN]
    BY <1>16, GotoTyped, DoneTyped DEF StartAccept, Places
  <2> QED
    BY <1>16, <2>3, <2>4, <2>5 DEF StartAccept, TypeOK, registries, tasks
<1>17. ASSUME NEW p \in Requests, NEW k \in Calls, StartCall(p, k)
      PROVE  TypeOK'
  <2>1. CASE Done({p}) /\ UNCHANGED <<kind, wire>>
    BY <1>17, <2>1, DoneTyped DEF StartCall, TypeOK, registries, tasks
  <2>2. CASE /\ kind' = [kind EXCEPT ![k] = IF op[p] = "media" THEN "media" ELSE "out"]
             /\ Wire(k, "live")
             /\ call' = [call EXCEPT ![p] = k]
             /\ at' = [at EXCEPT ![p] = "insert"]
             /\ UNCHANGED <<op, payload>>
    <3>1. kind' \in [Calls -> {"none", "in", "out", "media"}]
      BY <2>2 DEF TypeOK
    <3>2. wire' \in [Calls -> {"none", "offered", "live", "over"}]
      BY <2>2, WireTyped
    <3>3. call' \in [Requests -> Calls \cup {NoCall}]
      BY <2>2 DEF TypeOK
    <3>4. at' \in [Requests -> Places]
      BY <2>2 DEF TypeOK, Places
    <3> QED
      BY <1>17, <2>2, <3>1, <3>2, <3>3, <3>4 DEF StartCall, TypeOK, registries, tasks
  <2> QED
    BY <1>17, <2>1, <2>2 DEF StartCall
<1>18. ASSUME NEW p \in Requests, Insert(p)
      PROVE  TypeOK'
  <2>0. at[p] = "insert"
    BY <1>18 DEF Insert
  <2>1. call[p] \in Calls
    BY <2>0, HasCall DEF CallsInv
  <2>2. active' \subseteq Calls
    BY <1>18, <2>1 DEF Insert, TypeOK
  <2>3. /\ op' \in [Requests -> Ops] /\ at' \in [Requests -> Places]
        /\ call' \in [Requests -> Calls \cup {NoCall}]
        /\ payload' \in [Requests -> BOOLEAN]
    BY <1>18, GotoTyped, DoneTyped DEF Insert, Places
  <2>4. stream' \in [Calls -> {"none", "play", "hangup", "unlist", "unhook", "done"}]
    BY <1>18, StreamTyped DEF Insert, TypeOK
  <2>5. recorder' \in [Calls -> {"none", "on", "write", "done"}]
    BY <1>18, RecorderTyped DEF Insert, TypeOK
  <2> QED
    BY <1>18, <2>2, <2>3, <2>4, <2>5 DEF Insert, TypeOK
<1>19. ASSUME NEW p \in Requests, Channels(p)
      PROVE  TypeOK'
  <2>0. at[p] = "channels"
    BY <1>19 DEF Channels
  <2>1. call[p] \in Calls
    BY <2>0, HasCall DEF CallsInv
  <2>2. audio' \subseteq Calls
    BY <1>19, <2>1 DEF Channels, TypeOK
  <2>3. /\ op' \in [Requests -> Ops] /\ at' \in [Requests -> Places]
        /\ call' \in [Requests -> Calls \cup {NoCall}]
        /\ payload' \in [Requests -> BOOLEAN]
    BY <1>19, GotoTyped, DoneTyped DEF Channels, Places
  <2>4. stream' \in [Calls -> {"none", "play", "hangup", "unlist", "unhook", "done"}]
    BY <1>19, StreamTyped DEF Channels, TypeOK
  <2> QED
    BY <1>19, <2>2, <2>3, <2>4 DEF Channels, TypeOK
<1>20. ASSUME NEW p \in Requests, SocketEnds(p)
      PROVE  TypeOK'
  BY <1>20, GotoTyped DEF SocketEnds, TypeOK, Ops, Places
<1>21. ASSUME NEW p \in Requests, SocketHangsUp(p)
      PROVE  TypeOK'
  BY <1>21, GotoTyped DEF SocketHangsUp, Wire, TypeOK, Ops, Places
<1>22. ASSUME NEW p \in Requests, SocketUnlists(p)
      PROVE  TypeOK'
  BY <1>22, GotoTyped DEF SocketUnlists, TypeOK, Ops, Places
<1>23. ASSUME NEW p \in Requests, NEW k \in Calls, Terminate(p, k)
      PROVE  TypeOK'
  BY <1>23, BeginTyped DEF Terminate, IdIsKnown, TypeOK, Ops, Places
<1>24. ASSUME NEW p \in Requests, End(p)
      PROVE  TypeOK'
  BY <1>24, GotoTyped DEF End, Wire, TypeOK, Ops, Places
<1>25. ASSUME NEW p \in Requests, Signal(p)
      PROVE  TypeOK'
  BY <1>25, DoneTyped DEF Signal, Wire, TypeOK, Ops, Places
<1>26. ASSUME NEW p \in Requests, Unhook(p)
      PROVE  TypeOK'
  BY <1>26, DoneTyped DEF Unhook, TypeOK, Ops, Places
<1>27. ASSUME NEW k \in Calls, StreamEnds(k)
      PROVE  TypeOK'
  BY <1>27 DEF StreamEnds, Stream, StreamRest, TypeOK
<1>28. ASSUME NEW k \in Calls, StreamHangsUp(k)
      PROVE  TypeOK'
  BY <1>28 DEF StreamHangsUp, Stream, StreamRest, Wire, TypeOK
<1>29. ASSUME NEW k \in Calls, StreamUnlists(k)
      PROVE  TypeOK'
  BY <1>29 DEF StreamUnlists, Stream, StreamRest, TypeOK
<1>30. ASSUME NEW k \in Calls, StreamUnhooks(k)
      PROVE  TypeOK'
  BY <1>30 DEF StreamUnhooks, Stream, StreamRest, TypeOK
<1>31. ASSUME NEW k \in Calls, Record(k)
      PROVE  TypeOK'
  BY <1>31, FaultTyped DEF Record, SinkClosed, TypeOK
<1>32. ASSUME NEW k \in Calls, WriteRecording(k)
      PROVE  TypeOK'
  BY <1>32, FaultTyped DEF WriteRecording, TypeOK
<1>33. ASSUME NEW p \in Requests, HangUp(p)
      PROVE  TypeOK'
  BY <1>33, DoneTyped, FaultTyped DEF HangUp, TypeOK, Ops, Places
<1>34. CASE Crash
  BY <1>34, DoneTyped, FaultTyped DEF Crash, TypeOK
<1> QED
  BY <1>1, <1>2, <1>3, <1>4, <1>5, <1>6, <1>7, <1>8, <1>9, <1>10, <1>11, <1>12, <1>13,
     <1>14, <1>15, <1>16, <1>17, <1>18, <1>19, <1>20, <1>21, <1>22, <1>23, <1>24, <1>25,
     <1>26, <1>27, <1>28, <1>29, <1>30, <1>31, <1>32, <1>33, <1>34
     DEF Next, RequestStep, StreamStep

LEMMA InitTypeOK == Init => TypeOK
BY CallsAssumption DEF Init, TypeOK, Ops, Places

-----------------------------------------------------------------------------
(* The theorems.                                                           *)

LEMMA InitCallsInv == Init => CallsInv
BY Backlog, CallsAssumption
   DEF Init, CallsInv, RequestInv, FreshInv, Fresh, InboxInv, AnswerInv, TurnInv, OverInv,
       PlacedInv, StreamInv, LiveInv, ChannelInv, RingInv, Fits, Legal, Waiting, Placing,
       Answering

LEMMA CallsInvStep ==
  ASSUME TypeOK, CallsInv, [Next]_vars
  PROVE  CallsInv'
<1>1. CASE UNCHANGED vars
  BY <1>1 DEF vars, CallsInv, RequestInv, FreshInv, Fresh, InboxInv, AnswerInv, TurnInv,
              OverInv, PlacedInv, StreamInv, LiveInv, ChannelInv, RingInv, Fits, Waiting
<1>2. ASSUME NEW k \in Calls,
             \/ Offer(k) \/ PeerEnds(k) \/ HandleOffer(k)
             \/ HandleEnd(k) \/ LoseEvents(k) \/ StreamEnds(k)
      PROVE  CallsInv'
  BY <1>2, OfferKeeps, PeerEndsKeeps, HandleOfferKeeps, HandleEndKeeps, LoseEventsKeeps,
     StreamEndsKeeps
<1>3. ASSUME NEW k \in Calls,
             \/ StreamHangsUp(k) \/ StreamUnlists(k) \/ StreamUnhooks(k)
             \/ Record(k) \/ WriteRecording(k)
      PROVE  CallsInv'
  BY <1>3, StreamHangsUpKeeps, StreamUnlistsKeeps, StreamUnhooksKeeps, RecordKeeps,
     WriteRecordingKeeps
<1>4. ASSUME NEW p \in Requests, NEW k \in Calls,
             \/ Accept(p, k) \/ Reject(p, k) \/ StartCall(p, k)
             \/ Terminate(p, k)
      PROVE  CallsInv'
  BY <1>4, AcceptKeeps, RejectKeeps, StartCallKeeps, TerminateKeeps
<1>5. ASSUME NEW p \in Requests,
             \/ SendReject(p) \/ Ring(p) \/ Tts(p)
             \/ Play(p) \/ OpenSocket(p) \/ Synthesise(p)
      PROVE  CallsInv'
  BY <1>5, SendRejectKeeps, RingKeeps, TtsKeeps, PlayKeeps, OpenSocketKeeps, SynthesiseKeeps
<1>6. ASSUME NEW p \in Requests,
             \/ Fetch(p) \/ StartAccept(p) \/ Insert(p)
             \/ Channels(p) \/ SocketEnds(p) \/ SocketHangsUp(p)
      PROVE  CallsInv'
  BY <1>6, FetchKeeps, StartAcceptKeeps, InsertKeeps, ChannelsKeeps, SocketEndsKeeps,
     SocketHangsUpKeeps
<1>7. ASSUME NEW p \in Requests,
             \/ SocketUnlists(p) \/ End(p) \/ Signal(p)
             \/ Unhook(p) \/ HangUp(p)
      PROVE  CallsInv'
  BY <1>7, SocketUnlistsKeeps, EndKeeps, SignalKeeps, UnhookKeeps, HangUpKeeps
<1>8. CASE Crash
  BY <1>8, CrashKeeps
<1> QED
  BY <1>1, <1>2, <1>3, <1>4, <1>5, <1>6, <1>7, <1>8 DEF Next, RequestStep, StreamStep

\* What each request may hold at each of its places, and what is left of a call at each
\* stage of its life.
THEOREM CallsInvariant == Spec => [](TypeOK /\ CallsInv)
<1>1. TypeOK /\ CallsInv /\ [Next]_vars => CallsInv'
  BY CallsInvStep
<1> QED
  BY <1>1, InitCallsInv, InitTypeOK, NextTypeOK, PTL DEF Spec

\* Every variable of the model keeps its type: what a request lists is a call.
THEOREM TypeCorrect == Spec => []TypeOK
<1> QED
  BY CallsInvariant, PTL

\* incoming_calls().remove() hands a call to one request, and an offer is rejected at once
\* or registered: no call is answered twice.
THEOREM EachCallIsAnsweredOnce == Spec => []AnsweredOnce
<1>1. CallsInv => AnsweredOnce
  BY DEF CallsInv, AnswerInv, AnsweredOnce
<1> QED
  BY <1>1, CallsInvariant, PTL

\* The recording task writes when the engine has closed the sink, and a call that is over
\* does not come back: no recording of a live call is served.
THEOREM RecordingsAreOfEndedCalls == Spec => []NoRecordingOfALiveCall
<1>1. CallsInv => NoRecordingOfALiveCall
  BY DEF CallsInv, OverInv, NoRecordingOfALiveCall, Serves
<1> QED
  BY <1>1, CallsInvariant, PTL

\* Unless something failed, the registries follow the calls through every interleaving of
\* requests, tasks and events.
THEOREM RegistriesFollow == Spec => []RegistriesFollowCalls
<1>1. ASSUME CallsInv, faults = 0
      PROVE  LiveCallsAreHeld
  <2> SUFFICES ASSUME NEW c \in Calls, wire[c] = "live", c \notin active
               PROVE  Held(c)
    BY DEF LiveCallsAreHeld
  <2>1. PICK r \in Requests : call[r] = c /\ at[r] \in {"insert", "end"}
    BY <1>1 DEF CallsInv, LiveInv
  <2> QED
    BY <2>1 DEF Held
<1>2. ASSUME CallsInv, faults = 0
      PROVE  ChannelsHaveTheirCall
  <2> SUFFICES ASSUME NEW c \in audio, c \notin active, kind[c] # "in"
               PROVE  \E r \in Requests : call[r] = c /\
                        at[r] \in {"channels", "drive", "hangup", "unlist", "end", "unhook"}
    BY DEF ChannelsHaveTheirCall
  <2>1. PICK r \in Requests :
          call[r] = c /\ at[r] \in {"drive", "hangup", "unlist", "end", "unhook"}
    BY <1>2 DEF CallsInv, ChannelInv
  <2> QED
    BY <2>1
<1>3. ASSUME TypeOK, CallsInv, faults = 0
      PROVE  RegisteredCallsRing
  <2> SUFFICES ASSUME NEW c \in incoming
               PROVE  \/ wire[c] = "offered" \/ \E i \in 1..Len(inbox[c]) : inbox[c][i] # "offer"
                      \/ \E r \in Requests : op[r] = "terminate" /\ call[r] = c
    BY DEF RegisteredCallsRing
  <2>1. c \in Calls /\ inbox[c] \in Backlogs
    BY <1>3 DEF TypeOK, CallsInv, InboxInv
  <2>2. \/ wire[c] = "offered" \/ inbox[c] \in Ending
        \/ \E r \in Requests : op[r] = "terminate" /\ call[r] = c
    BY <1>3, <2>1 DEF CallsInv, RingInv, Waiting
  <2>3. inbox[c] \in Ending => \E i \in 1..Len(inbox[c]) : inbox[c][i] # "offer"
    BY <2>1, Backlog
  <2> QED
    BY <2>2, <2>3
<1>4. TypeOK /\ CallsInv => RegistriesFollowCalls
  BY <1>1, <1>2, <1>3 DEF RegistriesFollowCalls
<1> QED
  BY <1>4, CallsInvariant, PTL
=============================================================================
