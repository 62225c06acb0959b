------------------------------ MODULE Content ------------------------------
(***************************************************************************)
(* What waxum reads out of a message (the extract_* functions of           *)
(* sessions/handlers/events.rs and their users): the event sent to the     *)
(* consumers, and the row of the message history.                          *)
(*                                                                         *)
(* A message is the kind of its content, whether that content is wrapped   *)
(* (ephemeral, view-once, device-sent, document with caption), the fields  *)
(* it carries, and what it quotes.  Strings are left out: a field is there *)
(* or not.                                                                 *)
(***************************************************************************)

MediaKinds == {"image", "video", "audio", "ptt", "document", "sticker"}

\* A tap on a button or list row.
ResponseKinds ==
  {"interactive_response", "buttons_response", "list_response", "template_button_reply"}

Kinds == MediaKinds \cup ResponseKinds \cup
  {"conversation", "extended", "location", "contact", "contacts", "poll", "poll_vote",
   "reaction", "buttons", "list", "template", "interactive"}

\* Kinds whose content has a ContextInfo that extract_quoted_context looks at.
QuotingKinds == Kinds \ {"conversation", "poll_vote", "reaction"}

Fields == {"text", "caption", "id", "pointer"}

Shapes ==
  [kind : Kinds, wrapped : BOOLEAN, has : SUBSET Fields, quotes : {"nothing", "id", "sender"}]

None == "none"

\* get_base_message: every extract_* starts with it.
BaseMessage(m) == [m EXCEPT !.wrapped = FALSE]

\* What a reader that looks for the content of kind k in m finds: what is wrapped is
\* not there.
Finds(m, ks) == ~m.wrapped /\ m.kind \in ks

\* extract_interactive_selection: the reply and what was chosen.
Selection(msg) ==
  LET m == BaseMessage(msg)
  IN IF Finds(m, ResponseKinds)
     THEN [kind |-> m.kind, id |-> "id" \in m.has, text |-> "text" \in m.has]
     ELSE [kind |-> None, id |-> FALSE, text |-> FALSE]

\* extract_message_content.  An empty conversation has no type.
MessageType(msg) ==
  LET m == BaseMessage(msg)
  IN CASE Finds(m, {"conversation"}) -> IF "text" \in m.has THEN "text" ELSE "unknown"
       [] Finds(m, {"extended"})     -> "text"
       [] Finds(m, {"interactive"})  -> "unknown"
       [] OTHER                      -> m.kind

\* Its text: of a document the file name, of a reply the label, else the id.
Text(msg) ==
  LET m == BaseMessage(msg)
  IN IF "text" \in m.has
        /\ Finds(m, {"conversation", "extended", "document", "contact", "poll", "reaction"}
                      \cup ResponseKinds)
     THEN "text"
     ELSE IF Selection(msg).id THEN "id" ELSE None

Caption(msg) ==
  IF Finds(BaseMessage(msg), {"image", "video", "document"}) /\ "caption" \in msg.has
  THEN "caption" ELSE None

\* extract_media_metadata: what the event says of the media; a voice note is audio.
MediaKind(m) == IF m.kind = "ptt" THEN "audio" ELSE m.kind

Media(msg) == IF Finds(BaseMessage(msg), MediaKinds) THEN MediaKind(msg) ELSE None

\* Mutant: the pointer is looked for in the wrapper.
Pointer_Wrapped(msg) ==
  IF Finds(msg, MediaKinds) /\ "pointer" \in msg.has THEN MediaKind(msg) ELSE None

\* extract_media_pointer: only a complete one.
Pointer(msg) ==
  IF Finds(BaseMessage(msg), MediaKinds) /\ "pointer" \in msg.has THEN MediaKind(msg) ELSE None

\* media_pointer_to_model: kinds of media that can be downloaded.
MediaType(k) == IF k \in {"image", "video", "audio", "document", "sticker"} THEN k ELSE None

\* extract_location
Location(msg) == Finds(BaseMessage(msg), {"location"})

\* extract_quoted_context: nothing without the id of the quoted message.
Quoted(msg) ==
  IF Finds(BaseMessage(msg), QuotingKinds) /\ msg.quotes # "nothing" THEN msg.quotes ELSE None

\* The data of a "message" event.
EventData(msg) ==
  [type     |-> MessageType(msg),
   text     |-> Text(msg),
   caption  |-> Caption(msg),
   media    |-> Media(msg),
   location |-> Location(msg),
   quoted   |-> Quoted(msg),
   selected |-> Selection(msg).id]

\* The row of a message, with body: text.or(caption).
Row(msg) ==
  [type    |-> MessageType(msg),
   body    |-> IF Text(msg) # None THEN Text(msg) ELSE Caption(msg),
   pointer |-> Pointer(msg),
   quoted  |-> Quoted(msg)]

\* normalize_one_message: the data of an event from the Cloud API, where a reply to
\* buttons is one type with its object.
CloudData(msg) ==
  [type     |-> CASE msg.kind \in {"conversation", "extended"} -> "text"
                  [] msg.kind = "ptt"                          -> "audio"
                  [] msg.kind \in ResponseKinds                -> "interactive"
                  [] OTHER                                     -> msg.kind,
   text     |-> IF msg.kind \in {"conversation", "extended"} /\ "text" \in msg.has
                THEN "text" ELSE None,
   caption  |-> IF msg.kind \in MediaKinds /\ "caption" \in msg.has THEN "caption" ELSE None,
   media    |-> IF msg.kind \in MediaKinds THEN MediaKind(msg) ELSE None,
   location |-> msg.kind = "location",
   quoted   |-> IF msg.quotes = "nothing" THEN None ELSE msg.quotes,
   selected |-> msg.kind \in ResponseKinds]
=============================================================================
