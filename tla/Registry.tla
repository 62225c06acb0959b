------------------------------ MODULE Registry ------------------------------
(***************************************************************************)
(* What waxum keeps about its sessions next to their rows, in memory and   *)
(* on disk: webhooks (register_webhook, unregister_webhook, the load at    *)
(* boot), tags (state.rs, session_tags.json) and the tokens minted for     *)
(* them (tokens handlers, db/tokens.rs, jwt_auth_middleware), while        *)
(* sessions are created, deleted, purged and reconnected, and the process  *)
(* restarts.                                                               *)
(*                                                                         *)
(* A webhook has the number of the request that made it as its id.  Left   *)
(* out: clients (Sessions), deliveries (Webhooks), expiry, the superadmin  *)
(* token, signatures; two loads of webhooks at once.                       *)
(***************************************************************************)
EXTENDS Naturals, FiniteSets

CONSTANTS
  Requests,     \* requests under way at once
  Sessions,     \* session ids
  AtStart,      \* those with a row at the start
  Urls,         \* URLs of webhooks
  Tags,         \* tags of sessions
  Tokens,       \* ids of tokens
  Prefixes,     \* prefixes of session ids
  PrefixOf,     \* session ids: their prefix, or None
  Mixes,        \* what is asked in one behaviour: one of these sets of operations
  MaxRequests,  \* bound: requests served
  MaxFaults     \* bound: failed statements, crashes

None == "none"

AllOps ==
  {"create", "register", "unregister", "delete", "purge", "set", "add", "remove",
   "mint", "revoke", "use", "reload"}

ASSUME RegistryAssumption ==
  /\ PrefixOf \in [Sessions -> Prefixes \cup {None}]
  /\ AtStart \subseteq Sessions
  /\ None \notin Tags
  /\ Mixes \subseteq SUBSET AllOps
  /\ MaxRequests \in Nat /\ MaxFaults \in Nat

VARIABLES
  linked,                 \* whether the table of webhooks has its foreign key
  ops,                    \* what is asked
  rows,                   \* rows of sessions
  disk, mem,              \* webhooks: their rows, the registry that is served
  file, tags,             \* tags: session_tags.json, in memory
  token,                  \* rows of tokens
  req,                    \* requests under way
  boot,                   \* the load of webhooks after a start, or asked for
  asked, issued, revoked, \* observations: what tokens were asked for, the tokens handed
                          \* out, those whose revocation was answered
  removed,                \* observation: webhooks whose removal was answered
  gone,                   \* observation: sessions deleted, with nothing asked since
  clash,                  \* observation: two requests of a kind that disturb each other,
                          \* or a removal and a load, were under way at once
  served, faults

given == <<linked, ops>>
table == <<given, rows>>
hooks == <<disk, mem>>
labels == <<file, tags>>
access == <<token, asked, issued, revoked>>
seen == <<removed, gone, clash>>
vars == <<table, hooks, labels, access, req, boot, seen, served, faults>>

Hook == [no : 1..MaxRequests, session : Sessions, url : Urls]
Label == [Sessions -> SUBSET Tags]
Scope == [ids : SUBSET Sessions, prefixes : SUBSET Prefixes]
NoTags == [s \in Sessions |-> {}]
Nothing == [ids |-> {}, prefixes |-> {}]

\* A file of which only a part was written.
Torn == [s \in Sessions |-> {None}]

\* What a request of the API is about: one session, the collection of them (where reading
\* and adding differ), or the fleet.
Targets ==
  [target : Sessions \cup {"fleet"}, method : {"any"}]
    \cup [target : {"collection"}, method : {"get", "post"}]

Idle == [op |-> "idle", at |-> None, no |-> 0, on |-> None, what |-> None, view |-> None,
         late |-> FALSE]

Unbooted == [at |-> "list", todo |-> {}, view |-> {}]
Booted == [Unbooted EXCEPT !.at = "done"]

TypeOK ==
  /\ linked \in BOOLEAN /\ ops \in Mixes /\ rows \subseteq Sessions
  /\ disk \subseteq Hook /\ mem \subseteq Hook
  /\ tags \in Label /\ file \in Label \cup {Torn}
  /\ token \in [Tokens -> [row : BOOLEAN, revoked : BOOLEAN, scope : Scope]]
  /\ DOMAIN req = Requests
  /\ \A r \in Requests : req[r].op \in AllOps \cup {"idle"} /\ req[r].no \in 0..MaxRequests
  /\ boot \in [at : {"list", "walk", "load", "done"}, todo : SUBSET Sessions, view : SUBSET Hook]
  /\ asked \in [Tokens -> Scope] /\ issued \subseteq Tokens /\ revoked \subseteq issued
  /\ removed \subseteq Hook /\ gone \subseteq Sessions /\ clash \in BOOLEAN
  /\ served \in 0..MaxRequests /\ faults \in 0..MaxFaults

Init ==
  /\ linked \in BOOLEAN /\ ops \in Mixes /\ rows = AtStart
  /\ disk = {} /\ mem = {}
  /\ file = NoTags /\ tags = NoTags
  /\ token = [t \in Tokens |-> [row |-> FALSE, revoked |-> FALSE, scope |-> Nothing]]
  /\ req = [r \in Requests |-> Idle]
  /\ boot = Booted
  /\ asked = [t \in Tokens |-> Nothing] /\ issued = {} /\ revoked = {}
  /\ removed = {} /\ gone = {} /\ clash = FALSE
  /\ served = 0 /\ faults = 0

\* Bound on what goes wrong.
Fault == faults < MaxFaults /\ faults' = faults + 1
NoFault == UNCHANGED faults

-----------------------------------------------------------------------------
(* Requests.                                                               *)

Busy == {r \in Requests : req[r].op # "idle"}

Tagging == {"set", "add", "remove", "delete"}
Removing == {"delete", "purge"}

\* Two requests that may undo each other's work: any two that write the tags' file; one that
\* removes a session and one that adds to it; a removal of a webhook that is being made.
Disturbs(p, q) ==
  \/ p.op \in Tagging /\ q.op \in Tagging
  \/ /\ p.on = q.on /\ p.op \in Removing
     /\ q.op \in {"create", "register", "set", "add", "remove"}
  \/ p.op = "unregister" /\ q.no = p.what.no

\* The load of webhooks has not read that of h, or will register it.
MayLoad(h) == boot.at = "list" \/ h.session \in boot.todo \/ h \in boot.view

\* A request of kind op, at its first place, with the number no.
Asked(op, at, no, on, what) ==
  [op |-> op, at |-> at, no |-> no, on |-> on, what |-> what, view |-> None, late |-> FALSE]

\* A request comes in, on a session, a token or a webhook.
Begin(r, op, at, on, what) ==
  LET q == Asked(op, at, served + 1, on, what)
  IN /\ op \in ops
     /\ req[r].op = "idle"
     /\ served < MaxRequests
     /\ served' = served + 1
     /\ req' = [req EXCEPT ![r] = q]
     /\ clash' = \/ clash
                 \/ \E o \in Busy : Disturbs(q, req[o]) \/ Disturbs(req[o], q)
                 \/ op \in Removing /\ boot.at # "done"
                 \/ op = "unregister" /\ MayLoad(what)
     /\ gone' = gone \ {on}

At(r, op, p) == req[r].op \in op /\ req[r].at = p
Goto(r, p) == req' = [req EXCEPT ![r].at = p]
Finish(r) == req' = [req EXCEPT ![r] = Idle]

-----------------------------------------------------------------------------
(* Webhooks.                                                               *)

HookOf(q) == [no |-> q.no, session |-> q.on, url |-> q.what]

\* INSERT of a webhook: without its session it fails where the key is there.
InsertHook(h) ==
  \/ /\ h.session \in rows \/ ~linked
     /\ disk' = disk \cup {h}
     /\ NoFault
  \/ h.session \notin rows /\ linked /\ UNCHANGED disk /\ NoFault
  \/ UNCHANGED disk /\ Fault

\* register_webhook: of a session that is there.
Register(r, s, u) ==
  /\ s \in rows
  /\ Begin(r, "register", "lookup", s, u)
  /\ UNCHANGED <<table, hooks, labels, access, boot, removed, faults>>

\* One webhook for a URL: it is looked up ...
LookUp(r) ==
  LET same == {h \in mem : h.session = req[r].on /\ h.url = req[r].what}
  IN /\ At(r, {"register"}, "lookup")
     /\ IF same = {} THEN Goto(r, "memory") ELSE Finish(r)
     /\ UNCHANGED <<table, hooks, labels, access, boot, seen, served, faults>>

\* ... and inserted, without another look.
RegisterInMemory(r) ==
  /\ At(r, {"register"}, "memory")
  /\ mem' = mem \cup {HookOf(req[r])}
  /\ Goto(r, "row")
  /\ UNCHANGED <<table, disk, labels, access, boot, seen, served, faults>>

\* The row is written last, and its error ignored.
RegisterRow(r) ==
  /\ At(r, {"register"}, "row")
  /\ InsertHook(HookOf(req[r]))
  /\ Finish(r)
  /\ UNCHANGED <<table, mem, labels, access, boot, seen, served>>

\* unregister_webhook: out of the registry, a webhook not there is a 404 ...
Unregister(r, h) ==
  /\ h \in mem
  /\ Begin(r, "unregister", "row", h.session, h)
  /\ mem' = mem \ {h}
  /\ UNCHANGED <<table, disk, labels, access, boot, removed, faults>>

\* ... then its row.
UnregisterRow(r) ==
  /\ At(r, {"unregister"}, "row")
  /\ \/ disk' = disk \ {req[r].what} /\ NoFault
     \/ UNCHANGED disk /\ Fault
  /\ removed' = removed \cup {req[r].what}
  /\ Finish(r)
  /\ UNCHANGED <<table, mem, labels, access, boot, gone, clash, served>>

-----------------------------------------------------------------------------
(* Sessions.                                                               *)

\* create_session with an id that is free, with a webhook or None.
Create(r, s, u) ==
  /\ s \notin rows
  /\ Begin(r, "create", "insert", s, u)
  /\ UNCHANGED <<table, hooks, labels, access, boot, removed, faults>>

\* The row: two creations of one id fail here.
CreateRow(r) ==
  LET s == req[r].on
  IN /\ At(r, {"create"}, "insert")
     /\ \/ /\ s \notin rows
           /\ rows' = rows \cup {s}
           /\ IF req[r].what = None THEN Finish(r) ELSE Goto(r, "row")
           /\ NoFault
        \/ s \in rows /\ Finish(r) /\ UNCHANGED rows /\ NoFault
        \/ Finish(r) /\ UNCHANGED rows /\ Fault
     /\ UNCHANGED <<given, hooks, labels, access, boot, seen, served>>

\* Mutant: the webhook of a new session is not stored.
CreateHook_InMemory(r) ==
  /\ At(r, {"create"}, "row")
  /\ Goto(r, "memory")
  /\ UNCHANGED <<table, disk, mem, labels, access, boot, seen, served, faults>>

\* Its webhook: the row first, and an error ends the request.
CreateHook(r) ==
  LET h == HookOf(req[r])
  IN /\ At(r, {"create"}, "row")
     /\ InsertHook(h)
     /\ IF h \in disk' THEN Goto(r, "memory") ELSE Finish(r)
     /\ UNCHANGED <<table, mem, labels, access, boot, seen, served>>

CreateInMemory(r) ==
  /\ At(r, {"create"}, "memory")
  /\ mem' = mem \cup {HookOf(req[r])}
  /\ Finish(r)
  /\ UNCHANGED <<table, disk, labels, access, boot, seen, served, faults>>

\* delete_session, of any id, and purge_sessions, of the sessions it lists: the client is
\* stopped first.
Remove(r, op, s) ==
  /\ op \in Removing
  /\ op = "purge" => s \in rows
  /\ Begin(r, op, "forget", s, None)
  /\ UNCHANGED <<table, hooks, labels, access, boot, removed, faults>>

\* Mutant: a deleted session keeps its webhooks in memory.
Forget_TagsOnly(r) ==
  LET s == req[r].on
  IN /\ At(r, Removing, "forget")
     /\ IF req[r].op = "delete"
        THEN /\ tags' = [tags EXCEPT ![s] = {}]
             /\ Goto(r, IF tags[s] = {} THEN "purge" ELSE "snapshot")
        ELSE Goto(r, "purge") /\ UNCHANGED tags
     /\ UNCHANGED <<table, disk, mem, file, access, boot, seen, served, faults>>

\* The session's webhooks go from memory, and its tags where it is deleted.
Forget(r) ==
  LET s == req[r].on
  IN /\ At(r, Removing, "forget")
     /\ mem' = {h \in mem : h.session # s}
     /\ IF req[r].op = "delete"
        THEN /\ tags' = [tags EXCEPT ![s] = {}]
             /\ Goto(r, IF tags[s] = {} THEN "purge" ELSE "snapshot")
        ELSE Goto(r, "purge") /\ UNCHANGED tags
     /\ UNCHANGED <<table, disk, file, access, boot, seen, served, faults>>

\* purge_dependents: a failure ends the request.
PurgeRows(r) ==
  /\ At(r, Removing, "purge")
  /\ \/ disk' = {h \in disk : h.session # req[r].on} /\ Goto(r, "erase") /\ NoFault
     \/ UNCHANGED disk /\ Finish(r) /\ Fault
  /\ UNCHANGED <<table, mem, labels, access, boot, seen, served>>

\* Then the row, and what hangs on it: webhooks where the key is there, scopes of tokens.
EraseRow(r) ==
  LET s == req[r].on
  IN /\ At(r, Removing, "erase")
     /\ \/ /\ rows' = rows \ {s}
           /\ disk' = IF linked THEN {h \in disk : h.session # s} ELSE disk
           /\ token' = [t \in Tokens |-> [token[t] EXCEPT !.scope.ids = @ \ {s}]]
           /\ gone' = gone \cup {s}
           /\ NoFault
        \/ UNCHANGED <<rows, disk, token, gone>> /\ Fault
     /\ Finish(r)
     /\ UNCHANGED <<given, mem, labels, asked, issued, revoked, boot, removed, clash, served>>

-----------------------------------------------------------------------------
(* Tags.                                                                   *)

\* set_tags, add_tag and remove_tag change the tags in memory ...
SetTags(r, s, ts) ==
  /\ Begin(r, "set", "snapshot", s, None)
  /\ tags' = [tags EXCEPT ![s] = ts]
  /\ UNCHANGED <<table, hooks, file, access, boot, removed, faults>>

AddTag(r, s, t) ==
  /\ t \notin tags[s]
  /\ Begin(r, "add", "snapshot", s, None)
  /\ tags' = [tags EXCEPT ![s] = @ \cup {t}]
  /\ UNCHANGED <<table, hooks, file, access, boot, removed, faults>>

RemoveTag(r, s, t) ==
  /\ t \in tags[s]
  /\ Begin(r, "remove", IF tags[s] = {t} THEN "key" ELSE "snapshot", s, None)
  /\ tags' = [tags EXCEPT ![s] = @ \ {t}]
  /\ UNCHANGED <<table, hooks, file, access, boot, removed, faults>>

\* ... remove_tag also the entry it emptied, whatever was added to it since.
DropKey(r) ==
  /\ At(r, {"remove"}, "key")
  /\ tags' = [tags EXCEPT ![req[r].on] = {}]
  /\ Goto(r, "snapshot")
  /\ UNCHANGED <<table, hooks, file, access, boot, seen, served, faults>>

\* persist_tags takes a snapshot of them ...
Snapshot(r) ==
  /\ At(r, Tagging, "snapshot")
  /\ req' = [req EXCEPT ![r].view = tags, ![r].at = "truncate"]
  /\ UNCHANGED <<table, hooks, labels, access, boot, seen, served, faults>>

AfterWrite(r) == IF req[r].op = "delete" THEN Goto(r, "purge") ELSE Finish(r)

\* ... and replaces the file with it: it is empty first.
Truncate(r) ==
  /\ At(r, Tagging, "truncate")
  /\ \/ file' = Torn /\ Goto(r, "write") /\ NoFault
     \/ UNCHANGED file /\ AfterWrite(r) /\ Fault
  /\ UNCHANGED <<table, hooks, tags, access, boot, seen, served>>

\* Mutant: what is written is what the file had.
Write_Nothing(r) ==
  /\ At(r, Tagging, "write")
  /\ file' = NoTags
  /\ AfterWrite(r)
  /\ UNCHANGED <<table, hooks, tags, access, boot, seen, served, faults>>

\* Two writers at once leave one of the texts, or a mixture.
Write(r) ==
  /\ At(r, Tagging, "write")
  /\ \/ file' = req[r].view
     \/ \E o \in Requests \ {r} : At(o, Tagging, "write") /\ file' = Torn
  /\ AfterWrite(r)
  /\ UNCHANGED <<table, hooks, tags, access, boot, seen, served, faults>>

-----------------------------------------------------------------------------
(* Tokens.                                                                 *)

\* TokenStatus::covers
Covers(scope, s) == s \in scope.ids \/ PrefixOf[s] \in scope.prefixes

\* mint_token: a new id, for sessions that are there and for prefixes.
Mint(r, t, scope) ==
  /\ scope # Nothing
  /\ scope.ids \subseteq rows
  /\ asked[t] = Nothing
  /\ Begin(r, "mint", "token", t, None)
  /\ asked' = [asked EXCEPT ![t] = scope]
  /\ UNCHANGED <<table, hooks, labels, token, issued, revoked, boot, removed, faults>>

MintRow(r) ==
  /\ At(r, {"mint"}, "token")
  /\ \/ token' = [token EXCEPT ![req[r].on].row = TRUE] /\ Goto(r, "ids") /\ NoFault
     \/ UNCHANGED token /\ Finish(r) /\ Fault
  /\ UNCHANGED <<table, hooks, labels, asked, issued, revoked, boot, seen, served>>

\* The sessions it is bound to: one deleted meanwhile fails the request.
MintIds(r) ==
  LET t == req[r].on
  IN /\ At(r, {"mint"}, "ids")
     /\ \/ /\ asked[t].ids \subseteq rows
           /\ token' = [token EXCEPT ![t].scope.ids = asked[t].ids]
           /\ Goto(r, "prefixes")
           /\ NoFault
        \/ ~(asked[t].ids \subseteq rows) /\ UNCHANGED token /\ Finish(r) /\ NoFault
        \/ UNCHANGED token /\ Finish(r) /\ Fault
     /\ UNCHANGED <<table, hooks, labels, asked, issued, revoked, boot, seen, served>>

\* Its prefixes; then the token is signed and handed out.
MintPrefixes(r) ==
  LET t == req[r].on
  IN /\ At(r, {"mint"}, "prefixes")
     /\ \/ /\ token' = [token EXCEPT ![t].scope.prefixes = asked[t].prefixes]
           /\ issued' = issued \cup {t}
           /\ NoFault
        \/ UNCHANGED <<token, issued>> /\ Fault
     /\ Finish(r)
     /\ UNCHANGED <<table, hooks, labels, asked, revoked, boot, seen, served>>

\* revoke_token: one UPDATE.
Revoke(r, t) ==
  /\ t \in issued
  /\ Begin(r, "revoke", "row", t, None)
  /\ UNCHANGED <<table, hooks, labels, access, boot, removed, faults>>

RevokeRow(r) ==
  LET t == req[r].on
  IN /\ At(r, {"revoke"}, "row")
     /\ \/ /\ token' = [token EXCEPT ![t].revoked = TRUE]
           /\ revoked' = revoked \cup {t}
           /\ NoFault
        \/ UNCHANGED <<token, revoked>> /\ Fault
     /\ Finish(r)
     /\ UNCHANGED <<table, hooks, labels, asked, issued, boot, seen, served>>

\* A request with a token that was handed out, on a session, the collection or the fleet.
Use(r, t, target) ==
  /\ t \in issued
  /\ Begin(r, "use", "status", t, target)
  /\ UNCHANGED <<table, hooks, labels, access, boot, removed, faults>>

\* jwt_auth_middleware looks the token up: a missing or revoked one is refused ...
ReadStatus(r) ==
  LET t == req[r].on
  IN /\ At(r, {"use"}, "status")
     /\ \/ /\ token[t].row /\ ~token[t].revoked
           /\ req' = [req EXCEPT ![r].at = "scope", ![r].late = t \in revoked]
           /\ NoFault
        \/ /\ ~token[t].row \/ token[t].revoked
           /\ Finish(r)
           /\ NoFault
        \/ Finish(r) /\ Fault
     /\ UNCHANGED <<table, hooks, labels, access, boot, seen, served>>

\* scoped_collection_access
CollectionAccess(scope, target, method) ==
  /\ target = "collection"
  /\ method = "post" => scope.prefixes # {}

\* ... then its scope, which decides.
ReadScope(r) ==
  LET scope == token[req[r].on].scope
      target == req[r].what.target
      allowed == IF target \in Sessions
                 THEN Covers(scope, target)
                 ELSE CollectionAccess(scope, target, req[r].what.method)
  IN /\ At(r, {"use"}, "scope")
     /\ IF allowed
        THEN req' = [req EXCEPT ![r].at = "inside", ![r].view = scope]
        ELSE Finish(r)
     /\ UNCHANGED <<table, hooks, labels, access, boot, seen, served, faults>>

\* Mutant: the list of sessions is not filtered.
Touches_All(q) == IF q.what.target \in Sessions THEN {q.what.target} ELSE rows

\* Sessions its handler shows or changes: list_sessions filters, create_session refuses ids
\* outside the scope.
Touches(q) ==
  IF q.what.target \in Sessions
  THEN {q.what.target}
  ELSE {s \in (IF q.what.method = "get" THEN rows ELSE Sessions) : Covers(q.view, s)}

Answer(r) ==
  /\ At(r, {"use"}, "inside")
  /\ Finish(r)
  /\ UNCHANGED <<table, hooks, labels, access, boot, seen, served, faults>>

-----------------------------------------------------------------------------
(* Restarts.                                                               *)

\* The process dies, and starts again with the tags of the file, where it can be read.
Crash ==
  /\ Fault
  /\ req' = [r \in Requests |-> Idle]
  /\ mem' = {}
  /\ tags' = IF file = Torn THEN NoTags ELSE file
  /\ boot' = Unbooted
  /\ UNCHANGED <<table, disk, file, access, seen, served>>

\* It stops between two requests: no fault.
Restart ==
  /\ Busy = {}
  /\ boot.at = "done"
  /\ mem' = {}
  /\ tags' = IF file = Torn THEN NoTags ELSE file
  /\ boot' = Unbooted
  /\ UNCHANGED <<table, disk, file, access, req, seen, served, faults>>

\* reconnect_all, of the bulk endpoints, runs the load again beside the requests.
Reload ==
  /\ "reload" \in ops
  /\ boot.at = "done"
  /\ boot' = Unbooted
  /\ served < MaxRequests /\ served' = served + 1
  /\ clash' = (clash \/ \E o \in Busy : req[o].op \in Removing \cup {"unregister"})
  /\ UNCHANGED <<table, hooks, labels, access, req, removed, gone, faults>>

\* reconnect_all_on_startup lists the sessions and goes through them; reading a session's
\* webhooks may fail ...
BootList ==
  /\ boot.at = "list"
  /\ boot' = [boot EXCEPT !.at = "walk", !.todo = rows]
  /\ UNCHANGED <<table, hooks, labels, access, req, seen, served, faults>>

BootRead ==
  /\ boot.at = "walk"
  /\ \/ \E s \in boot.todo :
          \/ /\ boot' = [at |-> "load", todo |-> boot.todo \ {s},
                        view |-> {h \in disk : h.session = s}]
             /\ NoFault
          \/ boot' = [boot EXCEPT !.todo = @ \ {s}] /\ Fault
     \/ boot.todo = {} /\ boot' = Booted /\ NoFault
  /\ UNCHANGED <<table, hooks, labels, access, req, seen, served>>

\* ... load_session_webhooks: their webhooks are registered, whatever their state.
BootLoad ==
  /\ boot.at = "load"
  /\ mem' = mem \cup boot.view
  /\ boot' = [boot EXCEPT !.at = "walk", !.view = {}]
  /\ UNCHANGED <<table, disk, labels, access, req, seen, served, faults>>

-----------------------------------------------------------------------------
Step(r) ==
  \/ LookUp(r) \/ RegisterInMemory(r) \/ RegisterRow(r) \/ UnregisterRow(r)
  \/ CreateRow(r) \/ CreateHook(r) \/ CreateInMemory(r)
  \/ Forget(r) \/ PurgeRows(r) \/ EraseRow(r)
  \/ DropKey(r) \/ Snapshot(r) \/ Truncate(r) \/ Write(r)
  \/ MintRow(r) \/ MintIds(r) \/ MintPrefixes(r) \/ RevokeRow(r)
  \/ ReadStatus(r) \/ ReadScope(r) \/ Answer(r)

Ask(r) ==
  \/ \E s \in Sessions :
       \/ \E u \in Urls : Register(r, s, u)
       \/ \E u \in Urls \cup {None} : Create(r, s, u)
       \/ \E op \in Removing : Remove(r, op, s)
       \/ \E ts \in SUBSET Tags : SetTags(r, s, ts)
       \/ \E t \in Tags : AddTag(r, s, t) \/ RemoveTag(r, s, t)
  \/ \E h \in mem : Unregister(r, h)
  \/ \E t \in Tokens :
       \/ \E scope \in Scope : Mint(r, t, scope)
       \/ Revoke(r, t)
       \/ \E target \in Targets : Use(r, t, target)

Next ==
  \/ \E r \in Requests : Ask(r) \/ Step(r)
  \/ BootList \/ BootRead \/ BootLoad
  \/ Restart \/ Reload \/ Crash

Spec == Init /\ [][Next]_vars

-----------------------------------------------------------------------------
(* Properties.                                                             *)

Quiet == Busy = {} /\ boot.at = "done"

\* The registry that is served is what a restart brings back, and a webhook whose removal
\* was answered is not served again: unless a statement failed, or two requests that disturb
\* each other or a removal and the load of what it removes met, registrations, removals,
\* deletions and loads leave both the same.
RegistryIsStored ==
  ~clash /\ faults = 0 => (Quiet => mem = disk) /\ removed \cap mem = {}

\* Nothing of a deleted session is left to a new one of the same id, in memory or stored.
\* purge_sessions leaves the tags.
DeletedLeavesNothing ==
  ~clash /\ faults = 0 => \A s \in gone : \A h \in mem \cup disk : h.session # s

\* The file has the tags that are served, so that a restart keeps them, unless two requests
\* wrote it at once or the process died on it.
TagsAreKept == Quiet /\ ~clash /\ faults = 0 => file = tags

\* A request that comes in after a revocation was answered reaches no handler, and a token
\* shows and changes only sessions it was asked for, by id or by prefix.
TokensKeepTheirScope ==
  \A r \in Requests :
    At(r, {"use"}, "inside") =>
      /\ ~req[r].late
      /\ req[r].on \in issued
      /\ \A s \in Touches(req[r]) : Covers(asked[req[r].on], s)
=============================================================================
