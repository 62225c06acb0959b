---------------------------- MODULE CloudAccount ----------------------------
(***************************************************************************)
(* The requests that administer a Cloud account, or send for it, through   *)
(* Meta's Graph API (api/cloud, cloud/client.rs, cloud/graph.rs): what     *)
(* they check, which ids and which token of the session's row they use, in *)
(* which calls, and how they answer, while connect_cloud attaches the      *)
(* session to another account and delete_session drops it.                 *)
(*                                                                         *)
(* A handler is its kind: the order of its reads and checks, and its calls *)
(* with what each one touches.  What a call says is left out, and so is    *)
(* what Meta makes of it beyond "changed".                                 *)
(***************************************************************************)
EXTENDS Cloud, Sequences, Functions

CONSTANTS
  IdOf,         \* the ids stored with an account; NoId: none was given
  MayTouch,     \* Meta: the ids that the token of an account may touch
  NoId,
  Requests

\* Ids of the row; "object" is an id that the caller names.
Fields == {"number", "waba", "business", "app"}
Ids == {IdOf[a][f] : a \in Accounts, f \in Fields} \ {NoId}

ASSUME CloudAssumption ==
  /\ Accounts \cap {"web", "gone", None} = {}
  /\ \A a \in Accounts : DOMAIN IdOf[a] = Fields /\ MayTouch[a] \subseteq Ids
  /\ \A a \in Accounts : IdOf[a]["number"] # NoId /\ IdOf[a]["waba"] # NoId
  /\ MaxConnects \in Nat /\ MaxFaults \in Nat

VARIABLES
  attached,         \* the session's row: its account, or "web", or "gone"
  req,              \* requests
  during            \* observation: accounts the row had while a request ran

accountVars == <<attached, req, connects, faults, during>>

-----------------------------------------------------------------------------
(* The kinds of handlers.  checked: when it may refuse its input by itself; *)
(* reads: what it takes from the row; calls: what it asks of Meta, one      *)
(* after the other.                                                        *)

Ask(touches) == [touches |-> touches, writes |-> FALSE]
Change(touches) == [touches |-> touches, writes |-> TRUE]

\* A handler of admin/handlers.rs reads the credentials, then the ids.
Admin(calls) == [checked |-> "never", reads |-> "both", calls |-> calls]
Get(f) == Admin(<<Ask({f})>>)
Post(f) == Admin(<<Change({f})>>)

\* Handlers that need the credentials alone, which name the number and the WABA.
Plain(calls) == [checked |-> "never", reads |-> "credentials", calls |-> calls]
Fetch(f) == Plain(<<Ask({f})>>)
Send(f) == Plain(<<Change({f})>>)

Checked(kind) == [kind EXCEPT !.checked = "first"]
CheckedLate(kind) == [kind EXCEPT !.checked = "late"]

\* The account and its numbers.
AccountReads ==
  [get_waba |-> Get("waba"), owned_wabas |-> Get("business"), client_wabas |-> Get("business"),
   business_portfolio |-> Get("business"), list_phone_numbers |-> Get("waba"),
   get_phone_number |-> Get("number")]

\* Registration of the number.
Registration ==
  [register_phone |-> Checked(Post("number")), deregister_phone |-> Post("number"),
   request_code |-> Checked(Post("number")), verify_code |-> Post("number"),
   set_two_step_pin |-> Checked(Post("number"))]

\* debug_token reads the credentials once more, for the token that it asks about.
TokenCheck == [debug_token |-> [Admin(<<Ask({})>>) EXCEPT !.reads = "thrice"]]

\* resumable_upload: a session of the app, then the bytes.
Upload == <<Ask({"app"}), Ask({})>>

\* The business profile, whose photo is uploaded first.
Profile ==
  [get_business_profile |-> Get("number"), update_business_profile |-> Checked(Post("number")),
   upload_business_profile_photo |->
     CheckedLate(Admin(Upload \o <<Change({"number"})>>))]

\* The typing indicator, and the apps that hear of the WABA.
Subscriptions ==
  [send_typing |-> Post("number"), list_subscribed_apps |-> Get("waba"),
   subscribe_app |-> Checked(Post("waba")), unsubscribe_app |-> Post("waba")]

\* Message templates of the WABA.
Templates ==
  [list_templates |-> Get("waba"), create_template |-> Checked(Post("waba")),
   delete_template |-> Post("waba"), template_namespace |-> Get("waba")]

\* One template, by its id.
TemplateById ==
  [get_template |-> Checked(Get("object")), edit_template |-> Checked(Post("object"))]

\* QR codes of the number.
QrCodes ==
  [list_qr_codes |-> Checked(Get("number")), create_qr_code |-> Checked(Post("number")),
   get_qr_code |-> Checked(Get("number")), update_qr_code |-> Checked(Post("number")),
   delete_qr_code |-> Checked(Post("number"))]

\* Blocked users, and the compliance record.
Blocking ==
  [list_blocked_users |-> Get("number"), block_users |-> Checked(Post("number")),
   unblock_users |-> Checked(Post("number")), get_business_compliance |-> Get("number"),
   set_business_compliance |-> Post("number")]

\* Analytics of the WABA.
Analytics ==
  [analytics |-> Checked(Get("waba")), conversation_analytics |-> Checked(Get("waba"))]

\* Credit lines, shared with the WABA.
Credit ==
  [credit_lines |-> Get("business"), credit_line_allocations |-> Checked(Get("object")),
   share_credit_line |-> Checked(Admin(<<Change({"object", "waba"})>>)),
   get_credit_sharing |-> Checked(Get("object")), revoke_credit_sharing |-> Checked(Post("object"))]

\* Users of the WABA.
Users ==
  [list_assigned_users |-> Admin(<<Ask({"waba", "business"})>>),
   assign_user |-> Checked(Post("waba")), list_system_users |-> Get("business")]

\* Metrics and migration of Flows.
FlowAdmin ==
  [flow_metrics |-> Checked(Get("object")), flow_public_key |-> Get("number"),
   migrate_flows |-> Checked(Post("waba"))]

\* Orders, sent from the number.
Orders ==
  [send_order_details |-> Checked(Post("number")), send_order_status |-> Post("number")]

\* Commerce settings and catalog messages.
Commerce ==
  [get_commerce_settings |-> Fetch("number"), update_commerce_settings |-> Checked(Send("number")),
   send_product |-> Send("number"), send_product_list |-> Checked(Send("number")),
   send_catalog |-> Send("number")]

\* Media of the number; a download asks for the URL first.
Media ==
  [cloud_upload_media |-> CheckedLate(Send("number")), cloud_get_media |-> Fetch("object"),
   cloud_download_media |-> Plain(<<Ask({"object"}), Ask({"object"})>>),
   cloud_delete_media |-> Send("object")]

\* Texts, and what is sent as the caller wrote it.
Texts ==
  [send_text |-> Send("number"), mark_read |-> Send("number"), send_raw |-> Send("number")]

\* Messages that carry more than a text, one call each.
Attachments ==
  [send_media |-> Send("number"), send_location |-> Send("number"),
   send_contacts |-> Send("number"), send_reaction |-> Send("number")]

\* Interactive messages and templates, one call each.
Interactives ==
  [send_interactive_buttons |-> Send("number"), send_interactive_list |-> Send("number"),
   send_template |-> Send("number")]

\* Flows: those of the WABA, and one by its id.
FlowCalls ==
  [create_flow |-> Checked(Send("waba")), list_flows |-> Fetch("waba"),
   get_flow |-> Fetch("object"), get_flow_assets |-> Fetch("object"),
   update_flow_metadata |-> Checked(Send("object")), update_flow_json |-> Send("object"),
   publish_flow |-> Send("object"), deprecate_flow |-> Send("object"),
   delete_flow |-> Send("object")]

\* Media in a message goes up first.
MediaMessage == CheckedLate(Plain(<<Ask({"number"}), Change({"number"})>>))

\* Embedded signup: the caller's code is traded for a token, the app subscribed to the WABA
\* and its numbers listed.
SignupCalls == <<Ask({"app"}), Change({"waba"}), Ask({"waba"})>>

\* It takes nothing of the row, which the caller attaches afterwards.
Signup == [checked |-> "never", reads |-> "nothing", calls |-> SignupCalls]

\* All of them.
Kinds ==
  (UNION {Range(group) : group \in
    {AccountReads, Registration, TokenCheck, Profile, Subscriptions, Templates, TemplateById,
     QrCodes, Blocking, Analytics, Credit, Users, FlowAdmin, Orders, Commerce, Media,
     Texts, Attachments, Interactives, FlowCalls}})
  \cup {MediaMessage, Signup}

-----------------------------------------------------------------------------
NoKind == [checked |-> "never", reads |-> "nothing", calls |-> <<>>]
NewRequest ==
  [at |-> "new", kind |-> NoKind, object |-> NoId, token |-> None, ids |-> None,
   step |-> 0, calls |-> {}, changed |-> {}, answer |-> None]

Steps == {"new", "credentials", "ids", "again", "call", "done"}
Replies == {"200", "400", "404", "500"}
Logged == [token : Accounts, touched : SUBSET (Ids \cup {NoId})]

AccountTypeOK ==
  /\ attached \in Accounts \cup {"web", "gone"}
  /\ \A r \in Requests :
       /\ req[r].at \in Steps /\ req[r].kind \in Kinds \cup {NoKind}
       /\ req[r].object \in Ids \cup {NoId}
       /\ req[r].token \in Accounts \cup {None} /\ req[r].ids \in Accounts \cup {None}
       /\ req[r].step \in 0..Len(req[r].kind.calls)
       /\ req[r].calls \subseteq Logged /\ req[r].changed \subseteq 1..3
       /\ req[r].answer \in Replies \cup {None}
  /\ connects \in 0..MaxConnects /\ faults \in 0..MaxFaults
  /\ during \in [Requests -> SUBSET Accounts]

AccountInit ==
  /\ attached = "web"
  /\ req = [r \in Requests |-> NewRequest]
  /\ connects = 0 /\ faults = 0
  /\ during = [r \in Requests |-> {}]

Running(r) == req[r].at \notin {"new", "done"}

Reply(r, a) == req' = [req EXCEPT ![r].at = "done", ![r].answer = a]
MovesTo(r, to) == req' = [req EXCEPT ![r].at = to]

-----------------------------------------------------------------------------
(* The row.                                                                *)

\* connect_cloud: one UPDATE of all that the account is; nothing if the row is gone.
Attach(a) ==
  /\ connects < MaxConnects
  /\ connects' = connects + 1
  /\ attached # "gone"
  /\ attached' = a
  /\ during' = [r \in Requests |-> IF Running(r) THEN during[r] \cup {a} ELSE during[r]]
  /\ UNCHANGED <<req, faults>>

\* delete_session: the row goes.
Delete ==
  /\ attached # "gone"
  /\ attached' = "gone"
  /\ UNCHANGED <<req, connects, faults, during>>

-----------------------------------------------------------------------------
(* Requests.                                                               *)

Named(kind) == UNION {kind.calls[i].touches : i \in DOMAIN kind.calls}

\* A request comes in: its input is refused at once, or its reads begin.  A caller who signs
\* up brings a code of an account, its app and its WABA; others name an object, if they must.
Receive(r, kind, o, a) ==
  /\ req[r].at = "new"
  /\ o # NoId <=> "object" \in Named(kind)
  /\ a # None <=> kind.reads = "nothing"
  /\ a # None => IdOf[a]["app"] # NoId
  /\ LET begun == [NewRequest EXCEPT !.kind = kind, !.object = o, !.token = a, !.ids = a]
     IN \/ req' = [req EXCEPT ![r] = [begun EXCEPT !.at =
                     IF kind.reads = "nothing" THEN "call" ELSE "credentials"]]
        \/ /\ kind.checked = "first"
           /\ req' = [req EXCEPT ![r] = [begun EXCEPT !.at = "done", !.answer = "400"]]
  /\ during' = [during EXCEPT ![r] = (({attached} \cap Accounts) \cup {a}) \ {None}]
  /\ UNCHANGED <<attached, connects, faults>>

\* get_cloud_credentials: of a Cloud session, number, WABA and token come from one row, and
\* so does the client, for the whole request.  No credentials: "only supported for ...".
ReadCredentials(r) ==
  /\ req[r].at = "credentials"
  /\ \/ /\ attached \in Accounts
        /\ req' = [req EXCEPT
                     ![r].token = attached, ![r].ids = attached,
                     ![r].at = IF req[r].kind.reads = "credentials" THEN "call" ELSE "ids"]
        /\ NoFault
     \/ attached \notin Accounts /\ Reply(r, "400") /\ NoFault
     \/ Reply(r, "500") /\ Fault
  /\ UNCHANGED <<attached, connects, during>>

\* ctx: an id that the call needs and the account was attached without.
Missing(r) == \E f \in Named(req[r].kind) \ {"object"} : IdOf[attached][f] = NoId

\* ctx: the second query, for the ids of WABA, business and app, that may find another row
\* than the first.  A missing id is a 400 that names it.
ReadIds(r) ==
  /\ req[r].at = "ids"
  /\ \/ attached = "gone" /\ Reply(r, "404") /\ NoFault
     \/ attached \in Accounts /\ Missing(r) /\ Reply(r, "400") /\ NoFault
     \/ /\ attached \in Accounts /\ ~Missing(r) /\ NoFault
        /\ req' = [req EXCEPT ![r].ids = attached,
                              ![r].at = IF req[r].kind.reads = "thrice" THEN "again" ELSE "call"]
     \/ Reply(r, "500") /\ Fault
  /\ UNCHANGED <<attached, connects, during>>

\* debug_token: a third query, for the token to inspect; without one, an empty token.
ReadAgain(r) ==
  /\ req[r].at = "again"
  /\ \/ MovesTo(r, "call") /\ NoFault
     \/ Reply(r, "500") /\ Fault
  /\ UNCHANGED <<attached, connects, during>>

\* Some inputs are refused after the reads, before the first call: no file, no image.
CheckLate(r) ==
  /\ req[r].at = "call" /\ req[r].step = 0
  /\ req[r].kind.checked = "late"
  /\ Reply(r, "400")
  /\ UNCHANGED <<attached, connects, faults, during>>

\* The number is the one of the client; other ids are the ids that were read.
IdFor(r, f) ==
  IF f = "object" THEN req[r].object
  ELSE IF f = "number" THEN IdOf[req[r].token]["number"]
  ELSE IdOf[req[r].ids][f]

\* Mutant: a call that Meta may have carried out is answered like one that it refused.
Failure_Alike(r, outcome) == IF req[r].kind.reads \in {"both", "thrice"} THEN "400" ELSE "500"

\* meta: a 4xx is the caller's fault; all else is 500, and everything is in the other handlers.
Failure(r, outcome) ==
  IF req[r].kind.reads \in {"both", "thrice"} /\ outcome = "refused" THEN "400" ELSE "500"

Log(r, t, touched) == req[r].calls \cup {[token |-> t, touched |-> touched]}

\* Mutant: each call is made with the account that the session has by then.
Call_Rereads(r) ==
  LET kind == req[r].kind
      n == req[r].step + 1
  IN /\ req[r].at = "call"
     /\ attached \in Accounts
     /\ req' = [req EXCEPT ![r].step = n,
                           ![r].calls =
                             Log(r, attached, {IdFor(r, f) : f \in kind.calls[n].touches}),
                           ![r].at = IF n = Len(kind.calls) THEN "done" ELSE "call",
                           ![r].answer = IF n = Len(kind.calls) THEN "200" ELSE None]
     /\ UNCHANGED <<attached, connects, faults, during>>

\* A call to Meta, with the client's token.  Meta refuses a token that does not reach all it
\* touches, and may refuse others; what it does not refuse it does, or fails at with a 5xx,
\* or it does it and the answer is lost or cannot be read.  The first failure ends a request.
Call(r) ==
  LET kind == req[r].kind
      n == req[r].step + 1
      touched == {IdFor(r, f) : f \in kind.calls[n].touches}
      logged == [req[r] EXCEPT !.step = n, !.calls = Log(r, req[r].token, touched)]
      done == IF kind.calls[n].writes THEN req[r].changed \cup {n} ELSE req[r].changed
      Fails(outcome) == [logged EXCEPT !.at = "done", !.answer = Failure(r, outcome)]
  IN /\ req[r].at = "call"
     /\ \/ /\ touched \subseteq MayTouch[req[r].token]
           /\ req' = [req EXCEPT ![r] =
                        [logged EXCEPT !.changed = done,
                                       !.at = IF n = Len(kind.calls) THEN "done" ELSE "call",
                                       !.answer = IF n = Len(kind.calls) THEN "200" ELSE None]]
           /\ NoFault
        \/ req' = [req EXCEPT ![r] = Fails("refused")] /\ NoFault
        \/ req' = [req EXCEPT ![r] = Fails("5xx")] /\ Fault
        \/ /\ touched \subseteq MayTouch[req[r].token]
           /\ req' = [req EXCEPT ![r] = [Fails("lost") EXCEPT !.changed = done]]
           /\ Fault
     /\ UNCHANGED <<attached, connects, during>>

AccountNext ==
  \/ \E a \in Accounts : Attach(a)
  \/ Delete
  \/ \E r \in Requests :
       \/ \E kind \in Kinds, o \in Ids \cup {NoId}, a \in Accounts \cup {None} :
            Receive(r, kind, o, a)
       \/ ReadCredentials(r) \/ ReadIds(r) \/ ReadAgain(r) \/ CheckLate(r) \/ Call(r)

AccountSpec == AccountInit /\ [][AccountNext]_accountVars

-----------------------------------------------------------------------------
(* Properties.                                                             *)

IdsOf(a) == {IdOf[a][f] : f \in Fields}

\* All calls of a request, of the three that bring a photo up too, are made with one token,
\* of an account that the session had while it ran; and unless the session was attached to
\* another one meanwhile, all they touch is that account's, or what the caller named.
ActsForOneAccount ==
  \A r \in Requests :
    /\ \A c, d \in req[r].calls : c.token = d.token
    /\ \A c \in req[r].calls :
         /\ c.token \in during[r]
         /\ during[r] = {c.token} => c.touched \subseteq IdsOf(c.token) \cup {req[r].object}

Writes(kind) == {i \in DOMAIN kind.calls : kind.calls[i].writes}

\* The answer tells a caller what to do next, also after one of several calls failed: a 400
\* or 404 means that nothing was changed at Meta, so that the request can be put right and
\* sent again, and a success that every change was made.
AnswersAreTrue ==
  \A r \in Requests :
    /\ req[r].answer \in {"400", "404"} => req[r].changed = {}
    /\ req[r].answer = "200" => req[r].changed = Writes(req[r].kind)
=============================================================================
