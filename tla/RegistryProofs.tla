---------------------------- MODULE RegistryProofs ----------------------------
(***************************************************************************)
(* Theorems about Registry for every value of its constants.  The          *)
(* invariant says, unless something failed or two requests that disturb    *)
(* each other met: which request or load will close each gap between the   *)
(* registry of webhooks and its table, what a removal leaves at each of    *)
(* its steps, which request has the file of tags, and what a token and a   *)
(* request that carries it may have of the scope it was asked for.         *)
(***************************************************************************)
EXTENDS Registry, TLAPS

Undisturbed == ~clash /\ faults = 0

-----------------------------------------------------------------------------
(* Requests.                                                               *)

\* Where a request of each kind can be.
Places(op) ==
  CASE op = "idle" -> {None}
    [] op = "register" -> {"lookup", "memory", "row"}
    [] op = "create" -> {"insert", "row", "memory"}
    [] op \in {"unregister", "revoke"} -> {"row"}
    [] op = "delete" -> {"forget", "snapshot", "truncate", "write", "purge", "erase"}
    [] op = "purge" -> {"forget", "purge", "erase"}
    [] op \in {"set", "add"} -> {"snapshot", "truncate", "write"}
    [] op = "remove" -> {"key", "snapshot", "truncate", "write"}
    [] op = "mint" -> {"token", "ids", "prefixes"}
    [] op = "use" -> {"status", "scope", "inside"}
    [] OTHER -> {}

\* A request is a record, at a place of its kind, about something of its kind.
Formed(q) ==
  /\ q = [op |-> q.op, at |-> q.at, no |-> q.no, on |-> q.on, what |-> q.what,
          view |-> q.view, late |-> q.late]
  /\ q.op \in AllOps \cup {"idle"} /\ q.at \in Places(q.op)
  /\ q.op # "idle" => q.no \in 1..MaxRequests
  /\ q.op = "idle" => q.no = 0
  /\ q.op \in {"register", "create", "set", "add", "remove", "delete", "purge"} =>
       q.on \in Sessions
  /\ q.op = "register" => q.what \in Urls
  /\ q.op = "create" => q.what \in Urls \cup {None} /\ (q.at # "insert" => q.what # None)
  /\ q.op = "unregister" => q.what \in Hook /\ q.on = q.what.session
  /\ q.op \in {"mint", "revoke", "use"} => q.on \in Tokens
  /\ q.at \in {"truncate", "write"} => q.view \in Label

FormInv == \A r \in Requests : Formed(req[r]) /\ req[r].no <= served

\* The load has read nothing before it lists, and holds one session's webhooks at a time.
BootInv ==
  /\ boot = [at |-> boot.at, todo |-> boot.todo, view |-> boot.view]
  /\ boot.at \in {"list", "done"} => boot.todo = {}
  /\ boot.at # "load" => boot.view = {}

\* Unless clash says otherwise, no two requests under way disturb each other, and no
\* removal meets a load of what it removes.
ApartInv ==
  ~clash =>
    /\ \A p, q \in Busy : p # q => ~Disturbs(req[p], req[q])
    /\ \A r \in Requests :
         /\ req[r].op \in Removing => boot.at = "done"
         /\ req[r].op = "unregister" => ~MayLoad(req[r].what)

-----------------------------------------------------------------------------
(* Tokens.                                                                 *)

Within(v, w) == v.ids \subseteq w.ids /\ v.prefixes \subseteq w.prefixes

\* A token's rows never say more than it was asked for, and a revocation that was answered
\* is in its row.
TokenInv ==
  \A t \in Tokens :
    /\ Within(token[t].scope, asked[t])
    /\ t \in revoked => token[t].revoked

\* A request past the lookup of its token has one that was handed out and not revoked, and
\* what it was let in with is within what was asked for.
UseInv ==
  \A r \in Requests :
    /\ req[r].op \in {"use", "revoke"} => req[r].on \in issued
    /\ req[r].op = "use" => ~req[r].late
    /\ req[r].op = "use" /\ req[r].at = "inside" =>
         /\ req[r].view \in Scope /\ Within(req[r].view, asked[req[r].on])
         /\ req[r].what.target \in Sessions => Covers(req[r].view, req[r].what.target)

-----------------------------------------------------------------------------
(* Tags.                                                                   *)

\* The tags are in the file, or with the one request that writes it.
TagInv ==
  Undisturbed =>
    /\ (\A r \in Requests : req[r].op \notin Tagging) => file = tags
    /\ \A r \in Requests : req[r].op \in Tagging =>
         /\ req[r].at \in {"truncate", "write"} => req[r].view = tags
         /\ req[r].at \in {"purge", "erase"} => file = tags
         /\ req[r].op = "delete" /\ req[r].at = "forget" => file = tags

-----------------------------------------------------------------------------
(* Webhooks.                                                               *)

\* Numbers of requests and webhooks are those handed out.
NumberInv ==
  /\ \A h \in mem \cup disk \cup removed \cup boot.view : h.no <= served
  /\ \A r \in Requests : req[r].op = "unregister" => req[r].what.no <= served
  /\ Undisturbed => \A h \in removed, r \in Requests :
       req[r].op \in {"register", "create"} => req[r].no # h.no

\* A session stays while a webhook of it is made or stored.
SessionInv ==
  Undisturbed =>
    /\ \A h \in disk : h.session \in rows
    /\ \A r \in Requests :
         /\ req[r].op = "register" => req[r].on \in rows
         /\ req[r].op = "create" /\ req[r].at # "insert" => req[r].on \in rows

\* What a webhook under way has done so far.
MakingInv ==
  Undisturbed => \A r \in Requests :
    /\ req[r].op = "register" /\ req[r].at = "row" => HookOf(req[r]) \in mem
    /\ req[r].op = "create" /\ req[r].at = "memory" => HookOf(req[r]) \in disk
    /\ req[r].op = "unregister" => req[r].what \notin mem

\* A webhook removed is nowhere, not even on its way from the table to the registry.
RemovedInv == Undisturbed => removed \cap (mem \cup disk \cup boot.view) = {}

\* A removal of a session leaves none of its webhooks behind.
ErasingInv ==
  Undisturbed => \A r \in Requests : req[r].op \in Removing =>
    /\ req[r].at # "forget" => \A h \in mem : h.session # req[r].on
    /\ req[r].at = "erase" => \A h \in disk : h.session # req[r].on

GoneInv ==
  Undisturbed => \A s \in gone :
    /\ \A h \in mem \cup disk \cup boot.view : h.session # s
    /\ \A r \in Requests : req[r].op \in {"register", "create"} => req[r].on # s

\* What is served and not stored is about to be stored ...
ServedInv ==
  Undisturbed =>
    /\ boot.view \subseteq disk
    /\ \A h \in mem \ disk : \E r \in Requests :
         req[r].op = "register" /\ req[r].at = "row" /\ HookOf(req[r]) = h

\* ... and what is stored and not served is about to be removed or served.
StoredInv ==
  Undisturbed => \A h \in disk \ mem :
    \/ MayLoad(h)
    \/ \E r \in Requests :
         \/ req[r].op = "unregister" /\ req[r].what = h
         \/ req[r].op = "create" /\ req[r].at = "memory" /\ HookOf(req[r]) = h
         \/ req[r].op \in Removing /\ req[r].on = h.session /\ req[r].at # "forget"

RegistryInv ==
  /\ FormInv /\ BootInv /\ ApartInv
  /\ TokenInv /\ UseInv /\ TagInv
  /\ NumberInv /\ SessionInv /\ MakingInv /\ RemovedInv /\ ErasingInv /\ GoneInv
  /\ ServedInv /\ StoredInv

-----------------------------------------------------------------------------
(* The request that moves, and the others.                                 *)

USE DEF given, table, hooks, labels, access, seen

\* The request r is now q; the others are what they were.
Moved(r, q) ==
  /\ req'[r] = q
  /\ \A o \in Requests : o # r => req'[o] = req[o]

\* The record q, at p.
Placed(q, p) ==
  [op |-> q.op, at |-> p, no |-> q.no, on |-> q.on, what |-> q.what, view |-> q.view,
   late |-> q.late]

\* The record q, at p, with what it has seen.
Seen(q, p, v, l) ==
  [op |-> q.op, at |-> p, no |-> q.no, on |-> q.on, what |-> q.what, view |-> v, late |-> l]

LEMMA Gone ==
  ASSUME DOMAIN req = Requests, NEW r \in Requests, Formed(req[r]), NEW p, Goto(r, p)
  PROVE  Moved(r, Placed(req[r], p))
BY DEF Formed, Goto, Moved, Placed

LEMMA MovedAndSeen ==
  ASSUME NEW r \in Requests, NEW q, NEW p, NEW v, NEW l, Moved(r, Seen(q, p, v, l))
  PROVE  /\ req'[r].op = q.op /\ req'[r].at = p /\ req'[r].no = q.no
         /\ req'[r].on = q.on /\ req'[r].what = q.what
         /\ req'[r].view = v /\ req'[r].late = l
         /\ \A o \in Requests : o # r => req'[o] = req[o]
BY DEF Moved, Seen

LEMMA IdleIsFormed == Formed(Idle) /\ Idle.op = "idle" /\ Idle.no = 0
<1>1. Idle = [op |-> "idle", at |-> None, no |-> 0, on |-> None, what |-> None,
              view |-> None, late |-> FALSE]
  BY DEF Idle
<1> QED
  BY <1>1 DEF Formed, Places, None

LEMMA Finished ==
  ASSUME DOMAIN req = Requests, NEW r \in Requests, Finish(r)
  PROVE  Moved(r, Idle) /\ Formed(Idle) /\ Idle.op = "idle" /\ Idle.no = 0
BY IdleIsFormed DEF Finish, Moved

LEMMA FormedNumbers == \A q : Formed(q) => q.no \in Nat
BY RegistryAssumption DEF Formed

LEMMA Begun ==
  ASSUME DOMAIN req = Requests, NEW r \in Requests,
         NEW op, NEW at, NEW on, NEW what, Begin(r, op, at, on, what)
  PROVE  /\ Moved(r, Asked(op, at, served + 1, on, what))
         /\ req[r].op = "idle" /\ op \in ops
         /\ served < MaxRequests /\ served' = served + 1
         /\ clash => clash'
         /\ ~clash' => /\ \A o \in Requests : req[o].op # "idle" =>
                            /\ ~Disturbs(Asked(op, at, served + 1, on, what), req[o])
                            /\ ~Disturbs(req[o], Asked(op, at, served + 1, on, what))
                       /\ op \in Removing => boot.at = "done"
                       /\ op = "unregister" => ~MayLoad(what)
         /\ gone' = gone \ {on}
<1> DEFINE q == Asked(op, at, served + 1, on, what)
<1>2. /\ req' = [req EXCEPT ![r] = q]
      /\ req[r].op = "idle" /\ op \in ops
      /\ served < MaxRequests /\ served' = served + 1
      /\ clash' = \/ clash
                  \/ \E o \in Busy : Disturbs(q, req[o]) \/ Disturbs(req[o], q)
                  \/ op \in Removing /\ boot.at # "done"
                  \/ op = "unregister" /\ MayLoad(what)
      /\ gone' = gone \ {on}
  BY DEF Begin
<1> HIDE DEF q
<1>3. Moved(r, Asked(op, at, served + 1, on, what))
  BY <1>2 DEF Moved, q
<1>4. clash => clash'
  BY <1>2
<1>5. ~clash' => /\ \A o \in Requests : req[o].op # "idle" =>
                      /\ ~Disturbs(Asked(op, at, served + 1, on, what), req[o])
                      /\ ~Disturbs(req[o], Asked(op, at, served + 1, on, what))
                 /\ op \in Removing => boot.at = "done"
                 /\ op = "unregister" => ~MayLoad(what)
  BY <1>2, Zenon DEF Busy, q
<1> QED
  BY <1>2, <1>3, <1>4, <1>5

\* A request that goes on is of the kind it was, and about what it was.
SameAs(p, q) == p.op = q.op /\ p.no = q.no /\ p.on = q.on /\ p.what = q.what

LEMMA DisturbsAsBefore ==
  \A p, q, u, v : SameAs(p, u) /\ SameAs(q, v) => (Disturbs(p, q) <=> Disturbs(u, v))
BY DEF SameAs, Disturbs

LEMMA ShapeKept ==
  ASSUME FormInv, ApartInv, NEW r \in Requests, NEW q, Moved(r, q), Formed(q),
         q.op = "idle" \/ SameAs(q, req[r]),
         served \in Nat, UNCHANGED <<served, clash, boot>>
  PROVE  FormInv' /\ ApartInv'
<1>1. q.no <= served
  <2>1. q.op = "idle" => q.no = 0
    BY DEF Formed
  <2>2. req[r].no <= served
    BY DEF FormInv
  <2> QED
    BY <2>1, <2>2 DEF SameAs
<1>2. \A o \in Requests : Formed(req'[o]) /\ req'[o].no <= served
  BY <1>1 DEF Moved, FormInv
<1>3. FormInv'
  BY <1>2 DEF FormInv
<1>4. \A o \in Requests : req'[o].op = "idle" \/ SameAs(req'[o], req[o])
  BY DEF Moved, SameAs
<1>5. ASSUME ~clash' PROVE \A o, p \in Busy' : o # p => ~Disturbs(req'[o], req'[p])
  <2> SUFFICES ASSUME NEW o \in Busy', NEW p \in Busy', o # p
               PROVE  ~Disturbs(req'[o], req'[p])
    OBVIOUS
  <2>1. o \in Requests /\ p \in Requests /\ req'[o].op # "idle" /\ req'[p].op # "idle"
    BY DEF Busy
  <2>2. SameAs(req'[o], req[o]) /\ SameAs(req'[p], req[p])
    BY <1>4, <2>1
  <2>3. o \in Busy /\ p \in Busy
    BY <2>1, <2>2 DEF Busy, SameAs
  <2>4. ~Disturbs(req[o], req[p])
    BY <1>5, <2>3 DEF ApartInv
  <2> QED
    BY <2>2, <2>4, DisturbsAsBefore
<1>6. ASSUME ~clash', NEW o \in Requests
      PROVE  (/\ req[o].op \in Removing => boot.at = "done"
              /\ req[o].op = "unregister" => ~MayLoad(req[o].what))'
  <2>1. /\ req[o].op \in Removing => boot.at = "done"
        /\ req[o].op = "unregister" => ~MayLoad(req[o].what)
    BY <1>6 DEF ApartInv
  <2> QED
    BY <1>4, <2>1 DEF SameAs, Removing, MayLoad
<1>7. ApartInv'
  BY <1>5, <1>6, Zenon DEF ApartInv
<1> QED
  BY <1>3, <1>7

LEMMA ShapeBegun ==
  ASSUME DOMAIN req = Requests, served \in Nat, FormInv, ApartInv,
         NEW r \in Requests, NEW op, NEW at, NEW on, NEW what,
         Formed(Asked(op, at, served + 1, on, what)),
         Begin(r, op, at, on, what), boot' = boot
  PROVE  FormInv' /\ ApartInv'
<1> DEFINE q == Asked(op, at, served + 1, on, what)
<1>1. q.op = op /\ q.what = what /\ q.no = served + 1
  BY DEF Asked
<1> HIDE DEF q
<1>2. Moved(r, q) /\ served' = served + 1
  BY Begun DEF q
<1>12. ~clash' => ~clash /\ \A o \in Requests : req[o].op # "idle" =>
                            ~Disturbs(q, req[o]) /\ ~Disturbs(req[o], q)
  BY Begun DEF q
<1>13. ~clash' => /\ op \in Removing => boot.at = "done"
                  /\ op = "unregister" => ~MayLoad(what)
  BY Begun DEF q
<1>3. Formed(q)
  BY DEF q
<1>4. \A o \in Requests : Formed(req'[o]) /\ req'[o].no <= served'
  <2> SUFFICES ASSUME NEW o \in Requests
               PROVE  Formed(req'[o]) /\ req'[o].no <= served'
    OBVIOUS
  <2>1. CASE o = r
    BY <1>1, <1>2, <1>3, <2>1 DEF Moved
  <2>2. CASE o # r
    <3>1. Formed(req[o]) /\ req[o].no <= served /\ req[o].no \in Nat
      BY FormedNumbers DEF FormInv
    <3> QED
      BY <1>2, <2>2, <3>1 DEF Moved
  <2> QED
    BY <2>1, <2>2
<1>5. FormInv'
  BY <1>4 DEF FormInv
<1>6. ASSUME ~clash', NEW o \in Requests, NEW p \in Requests, o # p,
             req'[o].op # "idle", req'[p].op # "idle"
      PROVE  ~Disturbs(req'[o], req'[p])
  <2>1. CASE o = r
    BY <1>2, <1>12, <1>6, <2>1 DEF Moved
  <2>2. CASE p = r
    BY <1>2, <1>12, <1>6, <2>2 DEF Moved
  <2>3. CASE o # r /\ p # r
    <3>1. req'[o] = req[o] /\ req'[p] = req[p]
      BY <1>2, <2>3 DEF Moved
    <3>2. o \in Busy /\ p \in Busy
      BY <1>6, <3>1 DEF Busy
    <3> QED
      BY <1>12, <1>6, <3>1, <3>2 DEF ApartInv
  <2> QED
    BY <2>1, <2>2, <2>3
<1>7. ASSUME ~clash', NEW o \in Requests
      PROVE  (/\ req[o].op \in Removing => boot.at = "done"
              /\ req[o].op = "unregister" => ~MayLoad(req[o].what))'
  <2>1. CASE o = r
    <3>1. req'[o] = q
      BY <1>2, <2>1 DEF Moved
    <3>2. op \in Removing => boot'.at = "done"
      BY <1>13, <1>7, Zenon
    <3>3. op = "unregister" => ~MayLoad(what)
      BY <1>13, <1>7, Zenon
    <3>4. req'[o].op = op /\ req'[o].what = what
      BY <1>1, <3>1
    <3> QED
      BY <3>2, <3>3, <3>4 DEF MayLoad
  <2>2. CASE o # r
    <3>1. /\ req[o].op \in Removing => boot.at = "done"
          /\ req[o].op = "unregister" => ~MayLoad(req[o].what)
      BY <1>12, <1>7 DEF ApartInv
    <3> QED
      BY <1>2, <2>2, <3>1 DEF Moved, MayLoad
  <2> QED
    BY <2>1, <2>2
<1>8. \A o, p \in Busy' : o # p => ~Disturbs(req'[o], req'[p]) \/ clash'
  BY <1>6 DEF Busy
<1>9. ApartInv'
  BY <1>7, <1>8, Zenon DEF ApartInv
<1> QED
  BY <1>5, <1>9
-----------------------------------------------------------------------------
(* What does not concern a part of the invariant keeps it.                 *)

\* The other parts of the invariant of webhooks.
HookInv ==
  /\ NumberInv /\ SessionInv /\ MakingInv /\ RemovedInv /\ ErasingInv /\ GoneInv
  /\ ServedInv /\ StoredInv

Making == {"register", "create"}

\* What ApartInv says when nothing disturbed anything.
Peace ==
  \A r, o \in Requests :
    /\ req[r].op \in Making /\ req[o].op \in Removing => req[r].on # req[o].on
    /\ req[r].op \in Making /\ req[o].op = "unregister" => req[r].no # req[o].what.no
    /\ req[r].op \in Tagging /\ req[o].op \in Tagging => r = o
    /\ req[r].op \in Removing => boot.at = "done" /\ boot.view = {}
    /\ req[r].op = "unregister" => ~MayLoad(req[r].what)

LEMMA PeaceHolds == ApartInv /\ BootInv /\ Undisturbed => Peace
<1> SUFFICES ASSUME ApartInv, BootInv, Undisturbed, NEW r \in Requests, NEW o \in Requests
             PROVE  /\ req[r].op \in Making /\ req[o].op \in Removing => req[r].on # req[o].on
                    /\ req[r].op \in Making /\ req[o].op = "unregister" =>
                         req[r].no # req[o].what.no
                    /\ req[r].op \in Tagging /\ req[o].op \in Tagging => r = o
                    /\ req[r].op \in Removing => boot.at = "done" /\ boot.view = {}
                    /\ req[r].op = "unregister" => ~MayLoad(req[r].what)
  BY DEF Peace
<1>1. ~clash
  BY DEF Undisturbed
<1>2. r # o /\ req[r].op # "idle" /\ req[o].op # "idle" =>
        ~Disturbs(req[r], req[o]) /\ ~Disturbs(req[o], req[r])
  BY <1>1 DEF ApartInv, Busy
<1>3. req[r].op \in Making /\ req[o].op \in Removing => req[r].on # req[o].on
  BY <1>2 DEF Making, Removing, Disturbs
<1>4. req[r].op \in Making /\ req[o].op = "unregister" => req[r].no # req[o].what.no
  BY <1>2 DEF Making, Disturbs
<1>5. req[r].op \in Tagging /\ req[o].op \in Tagging => r = o
  BY <1>2 DEF Tagging, Disturbs
<1>6. req[r].op \in Removing => boot.at = "done" /\ boot.view = {}
  BY <1>1 DEF ApartInv, BootInv
<1>7. req[r].op = "unregister" => ~MayLoad(req[r].what)
  BY <1>1 DEF ApartInv
<1> QED
  BY <1>3, <1>4, <1>5, <1>6, <1>7

LEMMA PeaceAfter == ApartInv' /\ BootInv' /\ Undisturbed' => Peace'
BY PeaceHolds, PTL

LEMMA CalmBefore ==
  ASSUME TypeOK, clash => clash', NoFault \/ Fault
  PROVE  /\ Undisturbed' => Undisturbed /\ NoFault
         /\ served \in Nat
BY RegistryAssumption DEF TypeOK, Undisturbed, NoFault, Fault

LEMMA FaultDisturbs == TypeOK /\ Fault => ~Undisturbed'
BY DEF TypeOK, Fault, Undisturbed

LEMMA TokensAside ==
  ASSUME TokenInv, UseInv, UNCHANGED access, NEW r \in Requests, NEW q, Moved(r, q),
         q.op \notin {"use", "revoke"}
  PROVE  TokenInv' /\ UseInv'
<1>1. TokenInv'
  BY DEF TokenInv, Within
<1>2. UseInv'
  BY DEF UseInv, Moved, Within, Covers
<1> QED
  BY <1>1, <1>2

LEMMA TagsAside ==
  ASSUME TagInv, UNCHANGED labels, Undisturbed' => Undisturbed,
         NEW r \in Requests, NEW q, Moved(r, q), q.op \notin Tagging, req[r].op \notin Tagging
  PROVE  TagInv'
BY DEF TagInv, Moved

LEMMA NumberTypes ==
  TypeOK /\ FormInv =>
    /\ \A h \in mem \cup disk \cup removed \cup boot.view : h.no \in Nat
    /\ \A o \in Requests : req[o].op = "unregister" => req[o].what.no \in Nat
<1> SUFFICES ASSUME TypeOK, FormInv
             PROVE  /\ \A h \in mem \cup disk \cup removed \cup boot.view : h.no \in Nat
                    /\ \A o \in Requests : req[o].op = "unregister" => req[o].what.no \in Nat
  OBVIOUS
<1>1. /\ disk \subseteq Hook /\ mem \subseteq Hook /\ removed \subseteq Hook
      /\ boot.view \subseteq Hook
  BY DEF TypeOK
<1>2. \A o \in Requests : req[o].op = "unregister" => req[o].what \in Hook
  BY DEF FormInv, Formed
<1> QED
  BY <1>1, <1>2, RegistryAssumption DEF Hook

LEMMA HooksAside ==
  ASSUME TypeOK, FormInv, HookInv, UNCHANGED <<rows, disk, mem, boot, removed>>,
         gone' \subseteq gone, served' \in {served, served + 1}, Undisturbed' => Undisturbed,
         NEW r \in Requests, NEW q, Moved(r, q),
         {q.op, req[r].op} \cap (Making \cup Removing \cup {"unregister"}) = {}
  PROVE  HookInv'
<1>0. served \in Nat
  BY RegistryAssumption DEF TypeOK
<1>1. \A o \in Requests : req[o].op \in Making \cup Removing \cup {"unregister"}
                            \/ req'[o].op \in Making \cup Removing \cup {"unregister"} =>
                          o # r /\ req'[o] = req[o]
  BY DEF Moved
<1>2. NumberInv'
  BY <1>0, <1>1, NumberTypes DEF HookInv, NumberInv, Making
<1>3. SessionInv'
  BY <1>1 DEF HookInv, SessionInv, Making
<1>4. MakingInv'
  BY <1>1 DEF HookInv, MakingInv, Making, HookOf
<1>5. RemovedInv' /\ ErasingInv'
  BY <1>1 DEF HookInv, RemovedInv, ErasingInv, Removing
<1>6. GoneInv'
  BY <1>1 DEF HookInv, GoneInv, Making
<1>7. ServedInv'
  BY <1>1 DEF HookInv, ServedInv, Making, HookOf
<1>8. StoredInv'
  BY <1>1 DEF HookInv, StoredInv, Making, Removing, HookOf, MayLoad
<1> QED
  BY <1>2, <1>3, <1>4, <1>5, <1>6, <1>7, <1>8 DEF HookInv

-----------------------------------------------------------------------------
(* Each step keeps the invariant.                                          *)

LEMMA RegisterKeeps ==
  ASSUME TypeOK, RegistryInv, NEW r \in Requests,
         NEW s \in Sessions,
         NEW u \in Urls,
         s \in rows,
         Begin(r, "register", "lookup", s, u),
         UNCHANGED <<table, hooks, labels, access, boot, removed, faults>>
  PROVE  RegistryInv'
<1> USE DEF RegistryInv
<1>1. /\ DOMAIN req = Requests /\ Formed(req[r]) /\ served \in Nat
      /\ req[r].no \in Nat /\ req[r].no <= served
  BY RegistryAssumption, FormedNumbers DEF TypeOK, FormInv
<1>2. Moved(r, Asked("register", "lookup", served + 1, s, u))
  BY <1>1, Begun
<1>3. /\ req[r].op = "idle" /\ req'[r].op = "register" /\ req'[r].at = "lookup"
      /\ req'[r].no = served + 1 /\ req'[r].on = s /\ req'[r].what = u
      /\ req'[r].late = FALSE /\ served < MaxRequests /\ served' = served + 1
      /\ gone' = gone \ {s}
      /\ \A o \in Requests : o # r => req'[o] = req[o]
  BY <1>1, <1>2, Begun DEF Moved, Asked
<1>4. Undisturbed' => Undisturbed /\ Peace
  <2>1. clash => clash'
    BY <1>1, Begun
  <2>2. NoFault
    BY DEF NoFault
  <2> QED
    BY <2>1, <2>2, CalmBefore, PeaceHolds
<1>5. Formed(Asked("register", "lookup", served + 1, s, u))
  <2>1. served + 1 \in 1..MaxRequests
    <3>1. served < MaxRequests
      BY <1>3, Zenon
    <3> QED
      BY <1>1, <3>1, RegistryAssumption
  <2> QED
    BY <2>1 DEF Asked, Formed, Places, None, AllOps, Removing
<1>6. FormInv' /\ ApartInv'
  BY <1>1, <1>5, ShapeBegun
<1>7. BootInv'
  BY DEF BootInv
<1>8. TokenInv' /\ UseInv'
  BY <1>2, <1>3, TokensAside DEF Asked, Removing
<1>9. TagInv'
  BY <1>2, <1>3, <1>4, TagsAside DEF Tagging, Asked
<1>10. HookInv'
  <2>1. NumberInv'
    BY <1>1, <1>3, <1>4, NumberTypes DEF NumberInv
  <2>2. SessionInv'
    BY <1>3, <1>4 DEF SessionInv
  <2>3. MakingInv'
    BY <1>3, <1>4 DEF MakingInv
  <2>4. RemovedInv'
    BY <1>3, <1>4 DEF RemovedInv
  <2>5. ErasingInv'
    BY <1>3, <1>4, Begun DEF ErasingInv, Removing, HookOf, Making, Peace, At
  <2>6. GoneInv'
    BY <1>3, <1>4 DEF GoneInv
  <2>7. ServedInv'
    BY <1>3, <1>4 DEF ServedInv
  <2>8. StoredInv'
    BY <1>3, <1>4, Begun DEF StoredInv, HookOf, Making, Removing, MayLoad, Peace, At
  <2> QED
    BY <2>1, <2>2, <2>3, <2>4, <2>5, <2>6, <2>7, <2>8 DEF HookInv
<1> QED
  BY <1>6, <1>7, <1>8, <1>9, <1>10 DEF HookInv

LEMMA CreateKeeps ==
  ASSUME TypeOK, RegistryInv, NEW r \in Requests,
         NEW s \in Sessions,
         NEW u \in Urls \cup {None},
         Begin(r, "create", "insert", s, u),
         UNCHANGED <<table, hooks, labels, access, boot, removed, faults>>
  PROVE  RegistryInv'
<1> USE DEF RegistryInv
<1>1. /\ DOMAIN req = Requests /\ Formed(req[r]) /\ served \in Nat
      /\ req[r].no \in Nat /\ req[r].no <= served
  BY RegistryAssumption, FormedNumbers DEF TypeOK, FormInv
<1>2. Moved(r, Asked("create", "insert", served + 1, s, u))
  BY <1>1, Begun
<1>3. /\ req[r].op = "idle" /\ req'[r].op = "create" /\ req'[r].at = "insert"
      /\ req'[r].no = served + 1 /\ req'[r].on = s /\ req'[r].what = u
      /\ req'[r].late = FALSE /\ served < MaxRequests /\ served' = served + 1
      /\ gone' = gone \ {s}
      /\ \A o \in Requests : o # r => req'[o] = req[o]
  BY <1>1, <1>2, Begun DEF Moved, Asked
<1>4. Undisturbed' => Undisturbed /\ Peace
  <2>1. clash => clash'
    BY <1>1, Begun
  <2>2. NoFault
    BY DEF NoFault
  <2> QED
    BY <2>1, <2>2, CalmBefore, PeaceHolds
<1>5. Formed(Asked("create", "insert", served + 1, s, u))
  <2>1. served + 1 \in 1..MaxRequests
    <3>1. served < MaxRequests
      BY <1>3, Zenon
    <3> QED
      BY <1>1, <3>1, RegistryAssumption
  <2> QED
    BY <2>1 DEF Asked, Formed, Places, None, AllOps, Removing
<1>6. FormInv' /\ ApartInv'
  BY <1>1, <1>5, ShapeBegun
<1>7. BootInv'
  BY DEF BootInv
<1>8. TokenInv' /\ UseInv'
  BY <1>2, <1>3, TokensAside DEF Asked, Removing
<1>9. TagInv'
  BY <1>2, <1>3, <1>4, TagsAside DEF Tagging, Asked
<1>10. HookInv'
  <2>1. NumberInv'
    BY <1>1, <1>3, <1>4, NumberTypes DEF NumberInv
  <2>2. SessionInv'
    BY <1>3, <1>4 DEF SessionInv
  <2>3. MakingInv'
    BY <1>3, <1>4 DEF MakingInv
  <2>4. RemovedInv'
    BY <1>3, <1>4 DEF RemovedInv
  <2>5. ErasingInv'
    BY <1>3, <1>4, Begun DEF ErasingInv, Removing, HookOf, Making, Peace, At
  <2>6. GoneInv'
    BY <1>3, <1>4 DEF GoneInv
  <2>7. ServedInv'
    BY <1>3, <1>4 DEF ServedInv
  <2>8. StoredInv'
    BY <1>3, <1>4, Begun DEF StoredInv, HookOf, Making, Removing, MayLoad, Peace, At
  <2> QED
    BY <2>1, <2>2, <2>3, <2>4, <2>5, <2>6, <2>7, <2>8 DEF HookInv
<1> QED
  BY <1>6, <1>7, <1>8, <1>9, <1>10 DEF HookInv

LEMMA UnregisterKeeps ==
  ASSUME TypeOK, RegistryInv, NEW r \in Requests,
         NEW h \in mem,
         mem' = mem \ {h},
         Begin(r, "unregister", "row", h.session, h),
         UNCHANGED <<table, disk, labels, access, boot, removed, faults>>
  PROVE  RegistryInv'
<1> USE DEF RegistryInv
<1>1. /\ DOMAIN req = Requests /\ Formed(req[r]) /\ served \in Nat
      /\ req[r].no \in Nat /\ req[r].no <= served
  BY RegistryAssumption, FormedNumbers DEF TypeOK, FormInv
<1>2. Moved(r, Asked("unregister", "row", served + 1, h.session, h))
  BY <1>1, Begun
<1>3. /\ req[r].op = "idle" /\ req'[r].op = "unregister" /\ req'[r].at = "row"
      /\ req'[r].no = served + 1 /\ req'[r].on = h.session /\ req'[r].what = h
      /\ req'[r].late = FALSE /\ served < MaxRequests /\ served' = served + 1
      /\ gone' = gone \ {h.session}
      /\ \A o \in Requests : o # r => req'[o] = req[o]
  BY <1>1, <1>2, Begun DEF Moved, Asked
<1>4. Undisturbed' => Undisturbed /\ Peace
  <2>1. clash => clash'
    BY <1>1, Begun
  <2>2. NoFault
    BY DEF NoFault
  <2> QED
    BY <2>1, <2>2, CalmBefore, PeaceHolds
<1>5. Formed(Asked("unregister", "row", served + 1, h.session, h))
  <2>1. served + 1 \in 1..MaxRequests
    <3>1. served < MaxRequests
      BY <1>3, Zenon
    <3> QED
      BY <1>1, <3>1, RegistryAssumption
  <2>2. h \in Hook
    BY DEF TypeOK
  <2> QED
    BY <2>1, <2>2 DEF Asked, Formed, Places, None, AllOps, Hook
<1>6. FormInv' /\ ApartInv'
  BY <1>1, <1>5, ShapeBegun
<1>7. BootInv'
  BY DEF BootInv
<1>8. TokenInv' /\ UseInv'
  BY <1>2, <1>3, TokensAside DEF Asked, Removing
<1>9. TagInv'
  BY <1>2, <1>3, <1>4, TagsAside DEF Tagging, Asked
<1>10. HookInv'
  <2>1. NumberInv'
    BY <1>1, <1>3, <1>4, NumberTypes DEF NumberInv
  <2>2. SessionInv'
    BY <1>3, <1>4 DEF SessionInv
  <2>3. MakingInv'
    <3>1. Undisturbed' => Undisturbed /\ Peace'
      BY <1>4, <1>6, <1>7, PeaceAfter
    <3>2. Undisturbed' => \A o \in Requests : req[o].op \in Making => req[o].no # h.no
      BY <1>3, <3>1 DEF Peace, Making
    <3> QED
      BY <1>3, <3>1, <3>2 DEF MakingInv, HookOf, Making
  <2>4. RemovedInv'
    BY <1>3, <1>4 DEF RemovedInv
  <2>5. ErasingInv'
    BY <1>3, <1>4, Begun DEF ErasingInv, Removing, HookOf, Making, Peace, At
  <2>6. GoneInv'
    BY <1>3, <1>4 DEF GoneInv
  <2>7. ServedInv'
    BY <1>3, <1>4 DEF ServedInv
  <2>8. StoredInv'
    BY <1>3, <1>4, Begun DEF StoredInv, HookOf, Making, Removing, MayLoad, Peace, At
  <2> QED
    BY <2>1, <2>2, <2>3, <2>4, <2>5, <2>6, <2>7, <2>8 DEF HookInv
<1> QED
  BY <1>6, <1>7, <1>8, <1>9, <1>10 DEF HookInv

LEMMA RemoveKeeps ==
  ASSUME TypeOK, RegistryInv, NEW r \in Requests,
         NEW s \in Sessions,
         NEW op \in Removing,
         Begin(r, op, "forget", s, None),
         UNCHANGED <<table, hooks, labels, access, boot, removed, faults>>
  PROVE  RegistryInv'
<1> USE DEF RegistryInv
<1>1. /\ DOMAIN req = Requests /\ Formed(req[r]) /\ served \in Nat
      /\ req[r].no \in Nat /\ req[r].no <= served
  BY RegistryAssumption, FormedNumbers DEF TypeOK, FormInv
<1>2. Moved(r, Asked(op, "forget", served + 1, s, None))
  BY <1>1, Begun
<1>3. /\ req[r].op = "idle" /\ req'[r].op = op /\ req'[r].at = "forget"
      /\ req'[r].no = served + 1 /\ req'[r].on = s /\ req'[r].what = None
      /\ req'[r].late = FALSE /\ served < MaxRequests /\ served' = served + 1
      /\ gone' = gone \ {s}
      /\ \A o \in Requests : o # r => req'[o] = req[o]
  BY <1>1, <1>2, Begun DEF Moved, Asked
<1>4. Undisturbed' => Undisturbed /\ Peace
  <2>1. clash => clash'
    BY <1>1, Begun
  <2>2. NoFault
    BY DEF NoFault
  <2> QED
    BY <2>1, <2>2, CalmBefore, PeaceHolds
<1>5. Formed(Asked(op, "forget", served + 1, s, None))
  <2>1. served + 1 \in 1..MaxRequests
    <3>1. served < MaxRequests
      BY <1>3, Zenon
    <3> QED
      BY <1>1, <3>1, RegistryAssumption
  <2> QED
    BY <2>1, RegistryAssumption DEF Asked, Formed, Places, None, AllOps, Removing
<1>6. FormInv' /\ ApartInv'
  BY <1>1, <1>5, ShapeBegun
<1>7. BootInv'
  BY DEF BootInv
<1>8. TokenInv' /\ UseInv'
  BY <1>2, <1>3, TokensAside DEF Asked, Removing
<1>9. TagInv'
  <2>1. Undisturbed' => Undisturbed /\ Peace'
    BY <1>4, <1>6, <1>7, PeaceAfter
  <2>2. Undisturbed' => \A o \in Requests : o # r /\ op \in Tagging => req[o].op \notin Tagging
    BY <1>3, <2>1 DEF Peace
  <2> QED
    BY <1>3, <2>1, <2>2 DEF TagInv, Tagging, Removing
<1>10. HookInv'
  <2>1. NumberInv'
    BY <1>1, <1>3, <1>4, NumberTypes DEF NumberInv, HookOf, Making, Removing, Peace, At
  <2>2. SessionInv'
    BY <1>3, <1>4, Begun DEF SessionInv, HookOf, Making, Removing, Peace, At
  <2>3. MakingInv'
    BY <1>3, <1>4, Begun DEF MakingInv, HookOf, Making, Removing, Peace, At
  <2>4. RemovedInv'
    BY <1>3, <1>4 DEF RemovedInv
  <2>5. ErasingInv'
    BY <1>3, <1>4 DEF ErasingInv
  <2>6. GoneInv'
    BY <1>3, <1>4 DEF GoneInv
  <2>7. ServedInv'
    BY <1>3, <1>4 DEF ServedInv
  <2>8. StoredInv'
    BY <1>3, <1>4, Begun DEF StoredInv, HookOf, Making, Removing, MayLoad, Peace, At
  <2> QED
    BY <2>1, <2>2, <2>3, <2>4, <2>5, <2>6, <2>7, <2>8 DEF HookInv
<1> QED
  BY <1>6, <1>7, <1>8, <1>9, <1>10 DEF HookInv

LEMMA TagKeeps ==
  ASSUME TypeOK, RegistryInv, NEW r \in Requests,
         NEW s \in Sessions,
         NEW op \in {"set", "add", "remove"},
         NEW at \in {"snapshot", "key"},
         at = "key" => op = "remove",
         Begin(r, op, at, s, None),
         UNCHANGED <<table, hooks, file, access, boot, removed, faults>>
  PROVE  RegistryInv'
<1> USE DEF RegistryInv
<1>1. /\ DOMAIN req = Requests /\ Formed(req[r]) /\ served \in Nat
      /\ req[r].no \in Nat /\ req[r].no <= served
  BY RegistryAssumption, FormedNumbers DEF TypeOK, FormInv
<1>2. Moved(r, Asked(op, at, served + 1, s, None))
  BY <1>1, Begun
<1>3. /\ req[r].op = "idle" /\ req'[r].op = op /\ req'[r].at = at
      /\ req'[r].no = served + 1 /\ req'[r].on = s /\ req'[r].what = None
      /\ req'[r].late = FALSE /\ served < MaxRequests /\ served' = served + 1
      /\ gone' = gone \ {s}
      /\ \A o \in Requests : o # r => req'[o] = req[o]
  BY <1>1, <1>2, Begun DEF Moved, Asked
<1>4. Undisturbed' => Undisturbed /\ Peace
  <2>1. clash => clash'
    BY <1>1, Begun
  <2>2. NoFault
    BY DEF NoFault
  <2> QED
    BY <2>1, <2>2, CalmBefore, PeaceHolds
<1>5. Formed(Asked(op, at, served + 1, s, None))
  <2>1. served + 1 \in 1..MaxRequests
    <3>1. served < MaxRequests
      BY <1>3, Zenon
    <3> QED
      BY <1>1, <3>1, RegistryAssumption
  <2> QED
    BY <2>1 DEF Asked, Formed, Places, None, AllOps, Removing
<1>6. FormInv' /\ ApartInv'
  BY <1>1, <1>5, ShapeBegun
<1>7. BootInv'
  BY DEF BootInv
<1>8. TokenInv' /\ UseInv'
  BY <1>2, <1>3, TokensAside DEF Asked, Removing
<1>9. TagInv'
  <2>1. Undisturbed' => Undisturbed /\ Peace'
    BY <1>4, <1>6, <1>7, PeaceAfter
  <2>2. Undisturbed' => \A o \in Requests : o # r /\ op \in Tagging => req[o].op \notin Tagging
    BY <1>3, <2>1 DEF Peace
  <2> QED
    BY <1>3, <2>1, <2>2 DEF TagInv, Tagging, Removing
<1>10. HookInv'
  BY <1>1, <1>2, <1>4, HooksAside, Begun DEF HookInv, Making, Removing, Asked
<1> QED
  BY <1>6, <1>7, <1>8, <1>9, <1>10 DEF HookInv

LEMMA MintKeeps ==
  ASSUME TypeOK, RegistryInv, NEW r \in Requests,
         NEW t \in Tokens,
         NEW scope \in Scope,
         asked[t] = Nothing,
         asked' = [asked EXCEPT ![t] = scope],
         Begin(r, "mint", "token", t, None),
         UNCHANGED <<table, hooks, labels, token, issued, revoked, boot, removed, faults>>
  PROVE  RegistryInv'
<1> USE DEF RegistryInv
<1>1. /\ DOMAIN req = Requests /\ Formed(req[r]) /\ served \in Nat
      /\ req[r].no \in Nat /\ req[r].no <= served
  BY RegistryAssumption, FormedNumbers DEF TypeOK, FormInv
<1>2. Moved(r, Asked("mint", "token", served + 1, t, None))
  BY <1>1, Begun
<1>3. /\ req[r].op = "idle" /\ req'[r].op = "mint" /\ req'[r].at = "token"
      /\ req'[r].no = served + 1 /\ req'[r].on = t /\ req'[r].what = None
      /\ req'[r].late = FALSE /\ served < MaxRequests /\ served' = served + 1
      /\ gone' = gone \ {t}
      /\ \A o \in Requests : o # r => req'[o] = req[o]
  BY <1>1, <1>2, Begun DEF Moved, Asked
<1>4. Undisturbed' => Undisturbed /\ Peace
  <2>1. clash => clash'
    BY <1>1, Begun
  <2>2. NoFault
    BY DEF NoFault
  <2> QED
    BY <2>1, <2>2, CalmBefore, PeaceHolds
<1>5. Formed(Asked("mint", "token", served + 1, t, None))
  <2>1. served + 1 \in 1..MaxRequests
    <3>1. served < MaxRequests
      BY <1>3, Zenon
    <3> QED
      BY <1>1, <3>1, RegistryAssumption
  <2> QED
    BY <2>1 DEF Asked, Formed, Places, None, AllOps, Removing
<1>6. FormInv' /\ ApartInv'
  BY <1>1, <1>5, ShapeBegun
<1>7. BootInv'
  BY DEF BootInv
<1>8. TokenInv' /\ UseInv'
  BY <1>3 DEF TypeOK, TokenInv, UseInv, Within, Nothing, Covers
<1>9. TagInv'
  BY <1>2, <1>3, <1>4, TagsAside DEF Tagging, Asked
<1>10. HookInv'
  BY <1>1, <1>2, <1>4, HooksAside, Begun DEF HookInv, Making, Removing, Asked
<1> QED
  BY <1>6, <1>7, <1>8, <1>9, <1>10 DEF HookInv

LEMMA AccessKeeps ==
  ASSUME TypeOK, RegistryInv, NEW r \in Requests,
         NEW t \in Tokens,
         NEW what,
         t \in issued,
         NEW op \in {"use", "revoke"},
         NEW at \in {"status", "row"},
         at = "status" <=> op = "use",
         Begin(r, op, at, t, what),
         UNCHANGED <<table, hooks, labels, access, boot, removed, faults>>
  PROVE  RegistryInv'
<1> USE DEF RegistryInv
<1>1. /\ DOMAIN req = Requests /\ Formed(req[r]) /\ served \in Nat
      /\ req[r].no \in Nat /\ req[r].no <= served
  BY RegistryAssumption, FormedNumbers DEF TypeOK, FormInv
<1>2. Moved(r, Asked(op, at, served + 1, t, what))
  BY <1>1, Begun
<1>3. /\ req[r].op = "idle" /\ req'[r].op = op /\ req'[r].at = at
      /\ req'[r].no = served + 1 /\ req'[r].on = t /\ req'[r].what = what
      /\ req'[r].late = FALSE /\ served < MaxRequests /\ served' = served + 1
      /\ gone' = gone \ {t}
      /\ \A o \in Requests : o # r => req'[o] = req[o]
  BY <1>1, <1>2, Begun DEF Moved, Asked
<1>4. Undisturbed' => Undisturbed /\ Peace
  <2>1. clash => clash'
    BY <1>1, Begun
  <2>2. NoFault
    BY DEF NoFault
  <2> QED
    BY <2>1, <2>2, CalmBefore, PeaceHolds
<1>5. Formed(Asked(op, at, served + 1, t, what))
  <2>1. served + 1 \in 1..MaxRequests
    <3>1. served < MaxRequests
      BY <1>3, Zenon
    <3> QED
      BY <1>1, <3>1, RegistryAssumption
  <2> QED
    BY <2>1 DEF Asked, Formed, Places, None, AllOps, Removing
<1>6. FormInv' /\ ApartInv'
  BY <1>1, <1>5, ShapeBegun
<1>7. BootInv'
  BY DEF BootInv
<1>8. TokenInv' /\ UseInv'
  BY <1>3 DEF TokenInv, UseInv, Within, Covers
<1>9. TagInv'
  BY <1>2, <1>3, <1>4, TagsAside DEF Tagging, Asked
<1>10. HookInv'
  BY <1>1, <1>2, <1>4, HooksAside, Begun DEF HookInv, Making, Removing, Asked
<1> QED
  BY <1>6, <1>7, <1>8, <1>9, <1>10 DEF HookInv

LEMMA LookUpKeeps ==
  ASSUME TypeOK, RegistryInv, NEW r \in Requests,
         At(r, {"register"}, "lookup"),
         NoFault,
         Goto(r, "memory"),
         UNCHANGED <<table, hooks, labels, access, boot, seen, served>>
  PROVE  RegistryInv'
<1> USE DEF RegistryInv
<1>1. /\ DOMAIN req = Requests /\ Formed(req[r]) /\ served \in Nat
      /\ req[r].no \in Nat /\ req[r].no <= served
  BY RegistryAssumption, FormedNumbers DEF TypeOK, FormInv
<1>2. Moved(r, Placed(req[r], "memory"))
  BY <1>1, Gone
<1>3. /\ req'[r].op = req[r].op /\ req'[r].at = "memory" /\ req'[r].no = req[r].no
      /\ req'[r].on = req[r].on /\ req'[r].what = req[r].what /\ req'[r].view = req[r].view
      /\ req'[r].late = req[r].late
      /\ \A o \in Requests : o # r => req'[o] = req[o]
  BY <1>2 DEF Moved, Placed
<1>4. Undisturbed' => Undisturbed /\ Peace
  BY CalmBefore, PeaceHolds
<1>5. /\ Formed(Placed(req[r], "memory"))
      /\ Placed(req[r], "memory").op = "idle" \/ SameAs(Placed(req[r], "memory"), req[r])
  BY <1>1 DEF Formed, Placed, Places, SameAs, At, Removing, Tagging
<1>6. FormInv' /\ ApartInv'
  BY <1>1, <1>2, <1>5, ShapeKept
<1>7. BootInv'
  BY DEF BootInv
<1>8. TokenInv' /\ UseInv'
  BY <1>2, <1>3, TokensAside DEF Placed, At, Removing, Tagging
<1>9. TagInv'
  BY <1>2, <1>3, <1>4, TagsAside DEF Tagging, Placed, At, Removing
<1>10. HookInv'
  <2>1. NumberInv'
    BY <1>1, <1>3, <1>4, NumberTypes DEF NumberInv
  <2>2. SessionInv'
    BY <1>3, <1>4 DEF SessionInv, HookOf, Making, Removing, Peace, At
  <2>3. MakingInv'
    BY <1>3, <1>4 DEF MakingInv, HookOf, Making, Removing, Peace, At
  <2>4. RemovedInv'
    BY <1>3, <1>4 DEF RemovedInv
  <2>5. ErasingInv'
    BY <1>3, <1>4 DEF ErasingInv, Removing, HookOf, Making, Peace, At
  <2>6. GoneInv'
    BY <1>3, <1>4 DEF GoneInv
  <2>7. ServedInv'
    BY <1>3, <1>4 DEF ServedInv, HookOf, MayLoad, Removing, Peace, At
  <2>8. StoredInv'
    BY <1>3, <1>4 DEF StoredInv, HookOf, Making, Removing, MayLoad, Peace, At
  <2> QED
    BY <2>1, <2>2, <2>3, <2>4, <2>5, <2>6, <2>7, <2>8 DEF HookInv
<1> QED
  BY <1>6, <1>7, <1>8, <1>9, <1>10 DEF HookInv

LEMMA RegisterInMemoryKeeps ==
  ASSUME TypeOK, RegistryInv, NEW r \in Requests,
         At(r, {"register"}, "memory"),
         mem' = mem \cup {HookOf(req[r])},
         NoFault,
         Goto(r, "row"),
         UNCHANGED <<table, disk, labels, access, boot, seen, served>>
  PROVE  RegistryInv'
<1> USE DEF RegistryInv
<1>1. /\ DOMAIN req = Requests /\ Formed(req[r]) /\ served \in Nat
      /\ req[r].no \in Nat /\ req[r].no <= served
  BY RegistryAssumption, FormedNumbers DEF TypeOK, FormInv
<1>2. Moved(r, Placed(req[r], "row"))
  BY <1>1, Gone
<1>3. /\ req'[r].op = req[r].op /\ req'[r].at = "row" /\ req'[r].no = req[r].no
      /\ req'[r].on = req[r].on /\ req'[r].what = req[r].what /\ req'[r].view = req[r].view
      /\ req'[r].late = req[r].late
      /\ \A o \in Requests : o # r => req'[o] = req[o]
  BY <1>2 DEF Moved, Placed
<1>4. Undisturbed' => Undisturbed /\ Peace
  BY CalmBefore, PeaceHolds
<1>5. /\ Formed(Placed(req[r], "row"))
      /\ Placed(req[r], "row").op = "idle" \/ SameAs(Placed(req[r], "row"), req[r])
  BY <1>1 DEF Formed, Placed, Places, SameAs, At, Removing, Tagging
<1>6. FormInv' /\ ApartInv'
  BY <1>1, <1>2, <1>5, ShapeKept
<1>7. BootInv'
  BY DEF BootInv
<1>8. TokenInv' /\ UseInv'
  BY <1>2, <1>3, TokensAside DEF Placed, At, Removing, Tagging
<1>9. TagInv'
  BY <1>2, <1>3, <1>4, TagsAside DEF Tagging, Placed, At, Removing
<1>10. HookInv'
  <2>1. NumberInv'
    BY <1>1, <1>3, <1>4, NumberTypes DEF NumberInv, HookOf, Making, Removing, Peace, At
  <2>2. SessionInv'
    BY <1>3, <1>4 DEF SessionInv, HookOf, Making, Removing, Peace, At
  <2>3. MakingInv'
    BY <1>3, <1>4 DEF MakingInv, HookOf, Making, Removing, Peace, At
  <2>4. RemovedInv'
    BY <1>1, <1>3, <1>4
       DEF RemovedInv, NumberInv, MakingInv, HookOf, Making, MayLoad, Peace, At, NoFault
  <2>5. ErasingInv'
    BY <1>3, <1>4 DEF ErasingInv, Removing, HookOf, Making, Peace, At
  <2>6. GoneInv'
    BY <1>3, <1>4 DEF GoneInv, Making, HookOf, Removing, Peace, At
  <2>7. ServedInv'
    BY <1>3, <1>4 DEF ServedInv, HookOf, MayLoad, Removing, Peace, At
  <2>8. StoredInv'
    BY <1>3, <1>4 DEF StoredInv, HookOf, Making, Removing, MayLoad, Peace, At
  <2> QED
    BY <2>1, <2>2, <2>3, <2>4, <2>5, <2>6, <2>7, <2>8 DEF HookInv
<1> QED
  BY <1>6, <1>7, <1>8, <1>9, <1>10 DEF HookInv

LEMMA RegisterRowKeeps ==
  ASSUME TypeOK, RegistryInv, NEW r \in Requests,
         At(r, {"register"}, "row"),
         disk' \in {disk, disk \cup {HookOf(req[r])}},
         Undisturbed' => disk' = disk \cup {HookOf(req[r])},
         NoFault \/ Fault,
         Finish(r),
         UNCHANGED <<table, mem, labels, access, boot, seen, served>>
  PROVE  RegistryInv'
<1> USE DEF RegistryInv
<1>1. /\ DOMAIN req = Requests /\ Formed(req[r]) /\ served \in Nat
      /\ req[r].no \in Nat /\ req[r].no <= served
  BY RegistryAssumption, FormedNumbers DEF TypeOK, FormInv
<1>2. Moved(r, Idle)
  BY <1>1, Finished
<1>3. req'[r].op = "idle" /\ \A o \in Requests : o # r => req'[o] = req[o]
  BY <1>2 DEF Moved, Idle
<1>4. Undisturbed' => Undisturbed /\ Peace
  BY CalmBefore, PeaceHolds
<1>5. /\ Formed(Idle)
      /\ Idle.op = "idle" \/ SameAs(Idle, req[r])
  BY Finished, <1>1
<1>6. FormInv' /\ ApartInv'
  BY <1>1, <1>2, <1>5, ShapeKept
<1>7. BootInv'
  BY DEF BootInv
<1>8. TokenInv' /\ UseInv'
  BY <1>2, <1>3, TokensAside DEF Idle
<1>9. TagInv'
  BY <1>2, <1>3, <1>4, TagsAside DEF Tagging, Idle, At
<1>10. HookInv'
  <2>1. NumberInv'
    BY <1>1, <1>3, <1>4, NumberTypes DEF NumberInv, HookOf, Making, Removing, Peace, At
  <2>2. SessionInv'
    BY <1>3, <1>4 DEF SessionInv, HookOf, Making, Removing, Peace, At
  <2>3. MakingInv'
    BY <1>3, <1>4 DEF MakingInv
  <2>4. RemovedInv'
    BY <1>1, <1>3, <1>4
       DEF RemovedInv, NumberInv, MakingInv, HookOf, Making, MayLoad, Peace, At, NoFault
  <2>5. ErasingInv'
    BY <1>3, <1>4 DEF ErasingInv, Removing, HookOf, Making, Peace, At
  <2>6. GoneInv'
    BY <1>3, <1>4 DEF GoneInv, Making, HookOf, Removing, Peace, At
  <2>7. ServedInv'
    BY <1>3, <1>4 DEF ServedInv
  <2>8. StoredInv'
    BY <1>1, <1>3, <1>4
       DEF StoredInv, HookOf, MakingInv, ErasingInv, Making, Removing, MayLoad, Peace, At,
           NoFault
  <2> QED
    BY <2>1, <2>2, <2>3, <2>4, <2>5, <2>6, <2>7, <2>8 DEF HookInv
<1> QED
  BY <1>6, <1>7, <1>8, <1>9, <1>10 DEF HookInv

LEMMA UnregisterRowKeeps ==
  ASSUME TypeOK, RegistryInv, NEW r \in Requests,
         At(r, {"unregister"}, "row"),
         disk' \in {disk, disk \ {req[r].what}},
         Undisturbed' => disk' = disk \ {req[r].what},
         NoFault \/ Fault,
         removed' = removed \cup {req[r].what},
         Finish(r),
         UNCHANGED <<table, mem, labels, access, boot, gone, clash, served>>
  PROVE  RegistryInv'
<1> USE DEF RegistryInv
<1>1. /\ DOMAIN req = Requests /\ Formed(req[r]) /\ served \in Nat
      /\ req[r].no \in Nat /\ req[r].no <= served
  BY RegistryAssumption, FormedNumbers DEF TypeOK, FormInv
<1>2. Moved(r, Idle)
  BY <1>1, Finished
<1>3. req'[r].op = "idle" /\ \A o \in Requests : o # r => req'[o] = req[o]
  BY <1>2 DEF Moved, Idle
<1>4. Undisturbed' => Undisturbed /\ Peace
  BY CalmBefore, PeaceHolds
<1>5. /\ Formed(Idle)
      /\ Idle.op = "idle" \/ SameAs(Idle, req[r])
  BY Finished, <1>1
<1>6. FormInv' /\ ApartInv'
  BY <1>1, <1>2, <1>5, ShapeKept
<1>7. BootInv'
  BY DEF BootInv
<1>8. TokenInv' /\ UseInv'
  BY <1>2, <1>3, TokensAside DEF Idle
<1>9. TagInv'
  BY <1>2, <1>3, <1>4, TagsAside DEF Tagging, Idle, At
<1>10. HookInv'
  <2>1. NumberInv'
    BY <1>1, <1>3, <1>4, NumberTypes DEF NumberInv, HookOf, Making, Removing, Peace, At
  <2>2. SessionInv'
    BY <1>3, <1>4 DEF SessionInv
  <2>3. MakingInv'
    BY <1>3, <1>4 DEF MakingInv, HookOf, Making, Removing, Peace, At
  <2>4. RemovedInv'
    BY <1>1, <1>3, <1>4
       DEF RemovedInv, NumberInv, MakingInv, HookOf, Making, MayLoad, Peace, At, NoFault
  <2>5. ErasingInv'
    BY <1>3, <1>4 DEF ErasingInv, Removing, HookOf, Making, Peace, At
  <2>6. GoneInv'
    BY <1>3, <1>4 DEF GoneInv
  <2>7. ServedInv'
    <3>1. Undisturbed' => /\ req[r].what \notin mem /\ req[r].what \notin boot.view
                           /\ disk' = disk \ {req[r].what}
      BY <1>4 DEF MakingInv, Peace, MayLoad, At
    <3> QED
      BY <1>3, <1>4, <3>1 DEF ServedInv, HookOf, At
  <2>8. StoredInv'
    BY <1>3, <1>4 DEF StoredInv, HookOf, Making, Removing, MayLoad, Peace, At
  <2> QED
    BY <2>1, <2>2, <2>3, <2>4, <2>5, <2>6, <2>7, <2>8 DEF HookInv
<1> QED
  BY <1>6, <1>7, <1>8, <1>9, <1>10 DEF HookInv

LEMMA CreatedKeeps ==
  ASSUME TypeOK, RegistryInv, NEW r \in Requests,
         At(r, {"create"}, "insert"),
         rows' = rows \cup {req[r].on},
         NoFault,
         Finish(r),
         UNCHANGED <<given, hooks, labels, access, boot, seen, served>>
  PROVE  RegistryInv'
<1> USE DEF RegistryInv
<1>1. /\ DOMAIN req = Requests /\ Formed(req[r]) /\ served \in Nat
      /\ req[r].no \in Nat /\ req[r].no <= served
  BY RegistryAssumption, FormedNumbers DEF TypeOK, FormInv
<1>2. Moved(r, Idle)
  BY <1>1, Finished
<1>3. req'[r].op = "idle" /\ \A o \in Requests : o # r => req'[o] = req[o]
  BY <1>2 DEF Moved, Idle
<1>4. Undisturbed' => Undisturbed /\ Peace
  BY CalmBefore, PeaceHolds
<1>5. /\ Formed(Idle)
      /\ Idle.op = "idle" \/ SameAs(Idle, req[r])
  BY Finished, <1>1
<1>6. FormInv' /\ ApartInv'
  BY <1>1, <1>2, <1>5, ShapeKept
<1>7. BootInv'
  BY DEF BootInv
<1>8. TokenInv' /\ UseInv'
  BY <1>2, <1>3, TokensAside DEF Idle
<1>9. TagInv'
  BY <1>2, <1>3, <1>4, TagsAside DEF Tagging, Idle, At
<1>10. HookInv'
  <2>1. NumberInv'
    BY <1>1, <1>3, <1>4, NumberTypes DEF NumberInv
  <2>2. SessionInv'
    BY <1>3, <1>4 DEF SessionInv
  <2>3. MakingInv'
    BY <1>3, <1>4 DEF MakingInv
  <2>4. RemovedInv'
    BY <1>3, <1>4 DEF RemovedInv
  <2>5. ErasingInv'
    BY <1>3, <1>4 DEF ErasingInv, Removing, HookOf, Making, Peace, At
  <2>6. GoneInv'
    BY <1>3, <1>4 DEF GoneInv
  <2>7. ServedInv'
    BY <1>3, <1>4 DEF ServedInv, HookOf, MayLoad, Removing, Peace, At
  <2>8. StoredInv'
    BY <1>3, <1>4 DEF StoredInv, HookOf, Making, Removing, MayLoad, Peace, At
  <2> QED
    BY <2>1, <2>2, <2>3, <2>4, <2>5, <2>6, <2>7, <2>8 DEF HookInv
<1> QED
  BY <1>6, <1>7, <1>8, <1>9, <1>10 DEF HookInv

LEMMA CreateRowKeeps ==
  ASSUME TypeOK, RegistryInv, NEW r \in Requests,
         At(r, {"create"}, "insert"),
         req[r].what # None,
         rows' = rows \cup {req[r].on},
         NoFault,
         Goto(r, "row"),
         UNCHANGED <<given, hooks, labels, access, boot, seen, served>>
  PROVE  RegistryInv'
<1> USE DEF RegistryInv
<1>1. /\ DOMAIN req = Requests /\ Formed(req[r]) /\ served \in Nat
      /\ req[r].no \in Nat /\ req[r].no <= served
  BY RegistryAssumption, FormedNumbers DEF TypeOK, FormInv
<1>2. Moved(r, Placed(req[r], "row"))
  BY <1>1, Gone
<1>3. /\ req'[r].op = req[r].op /\ req'[r].at = "row" /\ req'[r].no = req[r].no
      /\ req'[r].on = req[r].on /\ req'[r].what = req[r].what /\ req'[r].view = req[r].view
      /\ req'[r].late = req[r].late
      /\ \A o \in Requests : o # r => req'[o] = req[o]
  BY <1>2 DEF Moved, Placed
<1>4. Undisturbed' => Undisturbed /\ Peace
  BY CalmBefore, PeaceHolds
<1>5. /\ Formed(Placed(req[r], "row"))
      /\ Placed(req[r], "row").op = "idle" \/ SameAs(Placed(req[r], "row"), req[r])
  BY <1>1 DEF Formed, Placed, Places, SameAs, At, Removing, Tagging
<1>6. FormInv' /\ ApartInv'
  BY <1>1, <1>2, <1>5, ShapeKept
<1>7. BootInv'
  BY DEF BootInv
<1>8. TokenInv' /\ UseInv'
  BY <1>2, <1>3, TokensAside DEF Placed, At, Removing, Tagging
<1>9. TagInv'
  BY <1>2, <1>3, <1>4, TagsAside DEF Tagging, Placed, At, Removing
<1>10. HookInv'
  <2>1. NumberInv'
    BY <1>1, <1>3, <1>4, NumberTypes DEF NumberInv
  <2>2. SessionInv'
    BY <1>3, <1>4 DEF SessionInv
  <2>3. MakingInv'
    BY <1>3, <1>4 DEF MakingInv, HookOf, Making, Removing, Peace, At
  <2>4. RemovedInv'
    BY <1>3, <1>4 DEF RemovedInv
  <2>5. ErasingInv'
    BY <1>3, <1>4 DEF ErasingInv, Removing, HookOf, Making, Peace, At
  <2>6. GoneInv'
    BY <1>3, <1>4 DEF GoneInv
  <2>7. ServedInv'
    BY <1>3, <1>4 DEF ServedInv, HookOf, MayLoad, Removing, Peace, At
  <2>8. StoredInv'
    BY <1>3, <1>4 DEF StoredInv, HookOf, Making, Removing, MayLoad, Peace, At
  <2> QED
    BY <2>1, <2>2, <2>3, <2>4, <2>5, <2>6, <2>7, <2>8 DEF HookInv
<1> QED
  BY <1>6, <1>7, <1>8, <1>9, <1>10 DEF HookInv

LEMMA CreateHookKeeps ==
  ASSUME TypeOK, RegistryInv, NEW r \in Requests,
         At(r, {"create"}, "row"),
         disk' = disk \cup {HookOf(req[r])},
         NoFault \/ Fault,
         Goto(r, "memory"),
         UNCHANGED <<table, mem, labels, access, boot, seen, served>>
  PROVE  RegistryInv'
<1> USE DEF RegistryInv
<1>1. /\ DOMAIN req = Requests /\ Formed(req[r]) /\ served \in Nat
      /\ req[r].no \in Nat /\ req[r].no <= served
  BY RegistryAssumption, FormedNumbers DEF TypeOK, FormInv
<1>2. Moved(r, Placed(req[r], "memory"))
  BY <1>1, Gone
<1>3. /\ req'[r].op = req[r].op /\ req'[r].at = "memory" /\ req'[r].no = req[r].no
      /\ req'[r].on = req[r].on /\ req'[r].what = req[r].what /\ req'[r].view = req[r].view
      /\ req'[r].late = req[r].late
      /\ \A o \in Requests : o # r => req'[o] = req[o]
  BY <1>2 DEF Moved, Placed
<1>4. Undisturbed' => Undisturbed /\ Peace
  BY CalmBefore, PeaceHolds
<1>5. /\ Formed(Placed(req[r], "memory"))
      /\ Placed(req[r], "memory").op = "idle" \/ SameAs(Placed(req[r], "memory"), req[r])
  BY <1>1 DEF Formed, Placed, Places, SameAs, At, Removing, Tagging
<1>6. FormInv' /\ ApartInv'
  BY <1>1, <1>2, <1>5, ShapeKept
<1>7. BootInv'
  BY DEF BootInv
<1>8. TokenInv' /\ UseInv'
  BY <1>2, <1>3, TokensAside DEF Placed, At, Removing, Tagging
<1>9. TagInv'
  BY <1>2, <1>3, <1>4, TagsAside DEF Tagging, Placed, At, Removing
<1>10. HookInv'
  <2>1. NumberInv'
    BY <1>1, <1>3, <1>4, NumberTypes DEF NumberInv, HookOf, Making, Removing, Peace, At
  <2>2. SessionInv'
    BY <1>3, <1>4 DEF SessionInv, HookOf, Making, Removing, Peace, At
  <2>3. MakingInv'
    BY <1>3, <1>4 DEF MakingInv, HookOf, Making, Removing, Peace, At
  <2>4. RemovedInv'
    BY <1>1, <1>3, <1>4
       DEF RemovedInv, NumberInv, MakingInv, HookOf, Making, MayLoad, Peace, At, NoFault
  <2>5. ErasingInv'
    BY <1>3, <1>4 DEF ErasingInv, Removing, HookOf, Making, Peace, At
  <2>6. GoneInv'
    BY <1>3, <1>4 DEF GoneInv, Making, HookOf, Removing, Peace, At
  <2>7. ServedInv'
    BY <1>3, <1>4 DEF ServedInv
  <2>8. StoredInv'
    BY <1>3, <1>4 DEF StoredInv, HookOf, Making, Removing, MayLoad, Peace, At
  <2> QED
    BY <2>1, <2>2, <2>3, <2>4, <2>5, <2>6, <2>7, <2>8 DEF HookInv
<1> QED
  BY <1>6, <1>7, <1>8, <1>9, <1>10 DEF HookInv

LEMMA CreateInMemoryKeeps ==
  ASSUME TypeOK, RegistryInv, NEW r \in Requests,
         At(r, {"create"}, "memory"),
         mem' = mem \cup {HookOf(req[r])},
         NoFault,
         Finish(r),
         UNCHANGED <<table, disk, labels, access, boot, seen, served>>
  PROVE  RegistryInv'
<1> USE DEF RegistryInv
<1>1. /\ DOMAIN req = Requests /\ Formed(req[r]) /\ served \in Nat
      /\ req[r].no \in Nat /\ req[r].no <= served
  BY RegistryAssumption, FormedNumbers DEF TypeOK, FormInv
<1>2. Moved(r, Idle)
  BY <1>1, Finished
<1>3. req'[r].op = "idle" /\ \A o \in Requests : o # r => req'[o] = req[o]
  BY <1>2 DEF Moved, Idle
<1>4. Undisturbed' => Undisturbed /\ Peace
  BY CalmBefore, PeaceHolds
<1>5. /\ Formed(Idle)
      /\ Idle.op = "idle" \/ SameAs(Idle, req[r])
  BY Finished, <1>1
<1>6. FormInv' /\ ApartInv'
  BY <1>1, <1>2, <1>5, ShapeKept
<1>7. BootInv'
  BY DEF BootInv
<1>8. TokenInv' /\ UseInv'
  BY <1>2, <1>3, TokensAside DEF Idle
<1>9. TagInv'
  BY <1>2, <1>3, <1>4, TagsAside DEF Tagging, Idle, At
<1>10. HookInv'
  <2>1. NumberInv'
    BY <1>1, <1>3, <1>4, NumberTypes DEF NumberInv, HookOf, Making, Removing, Peace, At
  <2>2. SessionInv'
    BY <1>3, <1>4 DEF SessionInv
  <2>3. MakingInv'
    BY <1>3, <1>4 DEF MakingInv, HookOf, Making, Removing, Peace, At
  <2>4. RemovedInv'
    BY <1>1, <1>3, <1>4
       DEF RemovedInv, NumberInv, MakingInv, HookOf, Making, MayLoad, Peace, At, NoFault
  <2>5. ErasingInv'
    BY <1>3, <1>4 DEF ErasingInv, Removing, HookOf, Making, Peace, At
  <2>6. GoneInv'
    BY <1>3, <1>4 DEF GoneInv, Making, HookOf, Removing, Peace, At
  <2>7. ServedInv'
    BY <1>1, <1>3, <1>4
       DEF ServedInv, HookOf, ErasingInv, MakingInv, MayLoad, Removing, Peace, At, NoFault
  <2>8. StoredInv'
    BY <1>3, <1>4 DEF StoredInv, HookOf, Making, Removing, MayLoad, Peace, At
  <2> QED
    BY <2>1, <2>2, <2>3, <2>4, <2>5, <2>6, <2>7, <2>8 DEF HookInv
<1> QED
  BY <1>6, <1>7, <1>8, <1>9, <1>10 DEF HookInv

LEMMA ForgetKeeps ==
  ASSUME TypeOK, RegistryInv, NEW r \in Requests,
         At(r, Removing, "forget"),
         NEW p \in {"snapshot", "purge"},
         mem' = {h \in mem : h.session # req[r].on},
         IF req[r].op = "delete"
         THEN /\ tags' = [tags EXCEPT ![req[r].on] = {}]
              /\ p = IF tags[req[r].on] = {} THEN "purge" ELSE "snapshot"
         ELSE p = "purge" /\ UNCHANGED tags,
         NoFault,
         Goto(r, p),
         UNCHANGED <<table, disk, file, access, boot, seen, served>>
  PROVE  RegistryInv'
<1> USE DEF RegistryInv
<1>1. /\ DOMAIN req = Requests /\ Formed(req[r]) /\ served \in Nat
      /\ req[r].no \in Nat /\ req[r].no <= served
  BY RegistryAssumption, FormedNumbers DEF TypeOK, FormInv
<1>2. Moved(r, Placed(req[r], p))
  BY <1>1, Gone
<1>3. /\ req'[r].op = req[r].op /\ req'[r].at = p /\ req'[r].no = req[r].no
      /\ req'[r].on = req[r].on /\ req'[r].what = req[r].what /\ req'[r].view = req[r].view
      /\ req'[r].late = req[r].late
      /\ \A o \in Requests : o # r => req'[o] = req[o]
  BY <1>2 DEF Moved, Placed
<1>4. Undisturbed' => Undisturbed /\ Peace
  BY CalmBefore, PeaceHolds
<1>5. /\ Formed(Placed(req[r], p))
      /\ Placed(req[r], p).op = "idle" \/ SameAs(Placed(req[r], p), req[r])
  BY <1>1 DEF Formed, Placed, Places, SameAs, At, Removing, Tagging
<1>6. FormInv' /\ ApartInv'
  BY <1>1, <1>2, <1>5, ShapeKept
<1>7. BootInv'
  BY DEF BootInv
<1>8. TokenInv' /\ UseInv'
  BY <1>2, <1>3, TokensAside DEF Placed, At, Removing, Tagging
<1>9. TagInv'
  <2>1. CASE req[r].op = "purge"
    BY <1>3, <1>4, <2>1 DEF TagInv, Tagging
  <2>2. CASE req[r].op = "delete" /\ p = "snapshot"
    BY <1>3, <1>4, <2>2 DEF TagInv, Tagging, Peace
  <2>3. CASE req[r].op = "delete" /\ p = "purge"
    <3>1. tags' = tags
      <4>1. tags = [s \in Sessions |-> tags[s]] /\ req[r].on \in Sessions
        BY <1>1, <2>3 DEF TypeOK, Label, Formed
      <4>2. tags' = [tags EXCEPT ![req[r].on] = {}] /\ tags[req[r].on] = {}
        BY <2>3
      <4> QED
        BY <4>1, <4>2
    <3> QED
      BY <1>3, <1>4, <2>3, <3>1 DEF TagInv, Tagging, Peace, At
  <2> QED
    BY <2>1, <2>2, <2>3 DEF At, Removing
<1>10. HookInv'
  <2>1. NumberInv'
    BY <1>1, <1>3, <1>4, NumberTypes DEF NumberInv
  <2>2. SessionInv'
    BY <1>3, <1>4 DEF SessionInv, HookOf, Making, Removing, Peace, At
  <2>3. MakingInv'
    BY <1>3, <1>4 DEF MakingInv, HookOf, Making, Removing, Peace, At
  <2>4. RemovedInv'
    BY <1>3, <1>4 DEF RemovedInv
  <2>5. ErasingInv'
    BY <1>3, <1>4 DEF ErasingInv
  <2>6. GoneInv'
    BY <1>3, <1>4 DEF GoneInv
  <2>7. ServedInv'
    BY <1>3, <1>4 DEF ServedInv, HookOf, MayLoad, Removing, Peace, At
  <2>8. StoredInv'
    BY <1>3, <1>4 DEF StoredInv, HookOf, Making, Removing, MayLoad, Peace, At
  <2> QED
    BY <2>1, <2>2, <2>3, <2>4, <2>5, <2>6, <2>7, <2>8 DEF HookInv
<1> QED
  BY <1>6, <1>7, <1>8, <1>9, <1>10 DEF HookInv

LEMMA PurgeRowsKeeps ==
  ASSUME TypeOK, RegistryInv, NEW r \in Requests,
         At(r, Removing, "purge"),
         disk' = {h \in disk : h.session # req[r].on},
         NoFault,
         Goto(r, "erase"),
         UNCHANGED <<table, mem, labels, access, boot, seen, served>>
  PROVE  RegistryInv'
<1> USE DEF RegistryInv
<1>1. /\ DOMAIN req = Requests /\ Formed(req[r]) /\ served \in Nat
      /\ req[r].no \in Nat /\ req[r].no <= served
  BY RegistryAssumption, FormedNumbers DEF TypeOK, FormInv
<1>2. Moved(r, Placed(req[r], "erase"))
  BY <1>1, Gone
<1>3. /\ req'[r].op = req[r].op /\ req'[r].at = "erase" /\ req'[r].no = req[r].no
      /\ req'[r].on = req[r].on /\ req'[r].what = req[r].what /\ req'[r].view = req[r].view
      /\ req'[r].late = req[r].late
      /\ \A o \in Requests : o # r => req'[o] = req[o]
  BY <1>2 DEF Moved, Placed
<1>4. Undisturbed' => Undisturbed /\ Peace
  BY CalmBefore, PeaceHolds
<1>5. /\ Formed(Placed(req[r], "erase"))
      /\ Placed(req[r], "erase").op = "idle" \/ SameAs(Placed(req[r], "erase"), req[r])
  BY <1>1 DEF Formed, Placed, Places, SameAs, At, Removing, Tagging
<1>6. FormInv' /\ ApartInv'
  BY <1>1, <1>2, <1>5, ShapeKept
<1>7. BootInv'
  BY DEF BootInv
<1>8. TokenInv' /\ UseInv'
  BY <1>2, <1>3, TokensAside DEF Placed, At, Removing, Tagging
<1>9. TagInv'
  BY <1>3, <1>4 DEF TagInv, Tagging, Removing, At
<1>10. HookInv'
  <2>1. NumberInv'
    BY <1>1, <1>3, <1>4, NumberTypes DEF NumberInv
  <2>2. SessionInv'
    BY <1>3, <1>4 DEF SessionInv, HookOf, Making, Removing, Peace, At
  <2>3. MakingInv'
    BY <1>3, <1>4 DEF MakingInv, HookOf, Making, Removing, Peace, At
  <2>4. RemovedInv'
    BY <1>3, <1>4 DEF RemovedInv
  <2>5. ErasingInv'
    BY <1>3, <1>4 DEF ErasingInv, Removing, HookOf, Making, Peace, At
  <2>6. GoneInv'
    BY <1>3, <1>4 DEF GoneInv
  <2>7. ServedInv'
    BY <1>1, <1>3, <1>4
       DEF ServedInv, HookOf, ErasingInv, MakingInv, MayLoad, Removing, Peace, At, NoFault
  <2>8. StoredInv'
    BY <1>3, <1>4 DEF StoredInv, HookOf, Making, Removing, MayLoad, Peace, At
  <2> QED
    BY <2>1, <2>2, <2>3, <2>4, <2>5, <2>6, <2>7, <2>8 DEF HookInv
<1> QED
  BY <1>6, <1>7, <1>8, <1>9, <1>10 DEF HookInv

LEMMA EraseRowKeeps ==
  ASSUME TypeOK, RegistryInv, NEW r \in Requests,
         At(r, Removing, "erase"),
         rows' = rows \ {req[r].on},
         disk' = IF linked THEN {h \in disk : h.session # req[r].on} ELSE disk,
         token' = [t \in Tokens |-> [token[t] EXCEPT !.scope.ids = @ \ {req[r].on}]],
         gone' = gone \cup {req[r].on},
         NoFault,
         Finish(r),
         UNCHANGED <<given, mem, labels, asked, issued, revoked, boot, removed, clash, served>>
  PROVE  RegistryInv'
<1> USE DEF RegistryInv
<1>1. /\ DOMAIN req = Requests /\ Formed(req[r]) /\ served \in Nat
      /\ req[r].no \in Nat /\ req[r].no <= served
  BY RegistryAssumption, FormedNumbers DEF TypeOK, FormInv
<1>2. Moved(r, Idle)
  BY <1>1, Finished
<1>3. req'[r].op = "idle" /\ \A o \in Requests : o # r => req'[o] = req[o]
  BY <1>2 DEF Moved, Idle
<1>4. Undisturbed' => Undisturbed /\ Peace
  BY CalmBefore, PeaceHolds
<1>5. /\ Formed(Idle)
      /\ Idle.op = "idle" \/ SameAs(Idle, req[r])
  BY Finished, <1>1
<1>6. FormInv' /\ ApartInv'
  BY <1>1, <1>2, <1>5, ShapeKept
<1>7. BootInv'
  BY DEF BootInv
<1>8. TokenInv' /\ UseInv'
  <2>1. ASSUME NEW t \in Tokens
        PROVE  token'[t].revoked = token[t].revoked /\ Within(token'[t].scope, token[t].scope)
    <3>1. token[t] \in [row : BOOLEAN, revoked : BOOLEAN, scope : Scope]
      BY DEF TypeOK
    <3> QED
      BY <3>1 DEF Scope, Within
  <2>2. TokenInv'
    BY <2>1 DEF TokenInv, Within
  <2>3. UseInv'
    BY <1>3 DEF UseInv, Within, Covers
  <2> QED
    BY <2>2, <2>3
<1>9. TagInv'
  BY <1>3, <1>4 DEF TagInv, Tagging, Removing, At, Peace
<1>10. HookInv'
  <2>1. NumberInv'
    BY <1>1, <1>3, <1>4, NumberTypes DEF NumberInv
  <2>2. SessionInv'
    <3>1. Undisturbed => \A h \in disk : h.session # req[r].on
      BY DEF ErasingInv, At
    <3> QED
      BY <1>3, <1>4, <3>1 DEF SessionInv, Peace, Making, At
  <2>3. MakingInv'
    BY <1>3, <1>4 DEF MakingInv, HookOf, Making, Removing, Peace, At
  <2>4. RemovedInv'
    BY <1>3, <1>4 DEF RemovedInv
  <2>5. ErasingInv'
    BY <1>3, <1>4 DEF ErasingInv, Removing, HookOf, Making, Peace, At
  <2>6. GoneInv'
    <3>1. Undisturbed' =>
            /\ \A h \in mem \cup disk : h.session # req[r].on
            /\ boot.view = {} /\ disk' \subseteq disk
      BY <1>4 DEF ErasingInv, Peace, At, Removing
    <3>2. ASSUME Undisturbed', NEW o \in Requests, req[o].op \in Making
          PROVE  req[o].on # req[r].on
      <4>1. Peace /\ req[r].op \in Removing
        BY <1>4, <3>2 DEF At
      <4> QED
        BY <3>2, <4>1 DEF Peace
    <3> QED
      BY <1>3, <1>4, <3>1, <3>2 DEF GoneInv, Making
  <2>7. ServedInv'
    BY <1>1, <1>3, <1>4
       DEF ServedInv, HookOf, ErasingInv, MakingInv, MayLoad, Removing, Peace, At, NoFault
  <2>8. StoredInv'
    BY <1>1, <1>3, <1>4
       DEF StoredInv, HookOf, MakingInv, ErasingInv, Making, Removing, MayLoad, Peace, At,
           NoFault
  <2> QED
    BY <2>1, <2>2, <2>3, <2>4, <2>5, <2>6, <2>7, <2>8 DEF HookInv
<1> QED
  BY <1>6, <1>7, <1>8, <1>9, <1>10 DEF HookInv

LEMMA DropKeyKeeps ==
  ASSUME TypeOK, RegistryInv, NEW r \in Requests,
         At(r, {"remove"}, "key"),
         NoFault,
         Goto(r, "snapshot"),
         UNCHANGED <<table, hooks, file, access, boot, seen, served>>
  PROVE  RegistryInv'
<1> USE DEF RegistryInv
<1>1. /\ DOMAIN req = Requests /\ Formed(req[r]) /\ served \in Nat
      /\ req[r].no \in Nat /\ req[r].no <= served
  BY RegistryAssumption, FormedNumbers DEF TypeOK, FormInv
<1>2. Moved(r, Placed(req[r], "snapshot"))
  BY <1>1, Gone
<1>3. /\ req'[r].op = req[r].op /\ req'[r].at = "snapshot" /\ req'[r].no = req[r].no
      /\ req'[r].on = req[r].on /\ req'[r].what = req[r].what /\ req'[r].view = req[r].view
      /\ req'[r].late = req[r].late
      /\ \A o \in Requests : o # r => req'[o] = req[o]
  BY <1>2 DEF Moved, Placed
<1>4. Undisturbed' => Undisturbed /\ Peace
  BY CalmBefore, PeaceHolds
<1>5. /\ Formed(Placed(req[r], "snapshot"))
      /\ Placed(req[r], "snapshot").op = "idle" \/ SameAs(Placed(req[r], "snapshot"), req[r])
  BY <1>1 DEF Formed, Placed, Places, SameAs, At, Removing, Tagging
<1>6. FormInv' /\ ApartInv'
  BY <1>1, <1>2, <1>5, ShapeKept
<1>7. BootInv'
  BY DEF BootInv
<1>8. TokenInv' /\ UseInv'
  BY <1>2, <1>3, TokensAside DEF Placed, At, Removing, Tagging
<1>9. TagInv'
  BY <1>3, <1>4 DEF TagInv, Tagging, Peace, At
<1>10. HookInv'
  BY <1>1, <1>2, <1>4, HooksAside DEF HookInv, Making, Removing, Placed, At, Tagging
<1> QED
  BY <1>6, <1>7, <1>8, <1>9, <1>10 DEF HookInv

LEMMA TruncateKeeps ==
  ASSUME TypeOK, RegistryInv, NEW r \in Requests,
         At(r, Tagging, "truncate"),
         file' = Torn,
         NoFault,
         Goto(r, "write"),
         UNCHANGED <<table, hooks, tags, access, boot, seen, served>>
  PROVE  RegistryInv'
<1> USE DEF RegistryInv
<1>1. /\ DOMAIN req = Requests /\ Formed(req[r]) /\ served \in Nat
      /\ req[r].no \in Nat /\ req[r].no <= served
  BY RegistryAssumption, FormedNumbers DEF TypeOK, FormInv
<1>2. Moved(r, Placed(req[r], "write"))
  BY <1>1, Gone
<1>3. /\ req'[r].op = req[r].op /\ req'[r].at = "write" /\ req'[r].no = req[r].no
      /\ req'[r].on = req[r].on /\ req'[r].what = req[r].what /\ req'[r].view = req[r].view
      /\ req'[r].late = req[r].late
      /\ \A o \in Requests : o # r => req'[o] = req[o]
  BY <1>2 DEF Moved, Placed
<1>4. Undisturbed' => Undisturbed /\ Peace
  BY CalmBefore, PeaceHolds
<1>5. /\ Formed(Placed(req[r], "write"))
      /\ Placed(req[r], "write").op = "idle" \/ SameAs(Placed(req[r], "write"), req[r])
  BY <1>1, <1>1 DEF Formed, Placed, Places, SameAs, At, Removing, Tagging
<1>6. FormInv' /\ ApartInv'
  BY <1>1, <1>2, <1>5, ShapeKept
<1>7. BootInv'
  BY DEF BootInv
<1>8. TokenInv' /\ UseInv'
  BY <1>2, <1>3, TokensAside DEF Placed, At, Removing, Tagging
<1>9. TagInv'
  BY <1>3, <1>4 DEF TagInv, Tagging, Peace, At
<1>10. HookInv'
  <2>1. NumberInv'
    BY <1>1, <1>3, <1>4, NumberTypes DEF NumberInv
  <2>2. SessionInv'
    BY <1>3, <1>4 DEF SessionInv, HookOf, Making, Removing, Peace, At
  <2>3. MakingInv'
    BY <1>3, <1>4 DEF MakingInv
  <2>4. RemovedInv'
    BY <1>3, <1>4 DEF RemovedInv
  <2>5. ErasingInv'
    BY <1>3, <1>4 DEF ErasingInv, Removing, HookOf, Making, Peace, At
  <2>6. GoneInv'
    BY <1>3, <1>4 DEF GoneInv
  <2>7. ServedInv'
    BY <1>3, <1>4 DEF ServedInv, HookOf, MayLoad, Removing, Peace, At
  <2>8. StoredInv'
    BY <1>3, <1>4 DEF StoredInv, HookOf, Making, Removing, MayLoad, Peace, At
  <2> QED
    BY <2>1, <2>2, <2>3, <2>4, <2>5, <2>6, <2>7, <2>8 DEF HookInv
<1> QED
  BY <1>6, <1>7, <1>8, <1>9, <1>10 DEF HookInv

LEMMA DeleteWriteKeeps ==
  ASSUME TypeOK, RegistryInv, NEW r \in Requests,
         req[r].op = "delete",
         At(r, Tagging, "write"),
         \/ file' = req[r].view
         \/ \E o \in Requests \ {r} : At(o, Tagging, "write") /\ file' = Torn,
         NoFault,
         Goto(r, "purge"),
         UNCHANGED <<table, hooks, tags, access, boot, seen, served>>
  PROVE  RegistryInv'
<1> USE DEF RegistryInv
<1>1. /\ DOMAIN req = Requests /\ Formed(req[r]) /\ served \in Nat
      /\ req[r].no \in Nat /\ req[r].no <= served
  BY RegistryAssumption, FormedNumbers DEF TypeOK, FormInv
<1>2. Moved(r, Placed(req[r], "purge"))
  BY <1>1, Gone
<1>3. /\ req'[r].op = req[r].op /\ req'[r].at = "purge" /\ req'[r].no = req[r].no
      /\ req'[r].on = req[r].on /\ req'[r].what = req[r].what /\ req'[r].view = req[r].view
      /\ req'[r].late = req[r].late
      /\ \A o \in Requests : o # r => req'[o] = req[o]
  BY <1>2 DEF Moved, Placed
<1>4. Undisturbed' => Undisturbed /\ Peace
  BY CalmBefore, PeaceHolds
<1>5. /\ Formed(Placed(req[r], "purge"))
      /\ Placed(req[r], "purge").op = "idle" \/ SameAs(Placed(req[r], "purge"), req[r])
  BY <1>1 DEF Formed, Placed, Places, SameAs, At, Removing, Tagging
<1>6. FormInv' /\ ApartInv'
  BY <1>1, <1>2, <1>5, ShapeKept
<1>7. BootInv'
  BY DEF BootInv
<1>8. TokenInv' /\ UseInv'
  BY <1>2, <1>3, TokensAside DEF Placed, At, Removing, Tagging
<1>9. TagInv'
  BY <1>3, <1>4 DEF TagInv, Tagging, Peace, At
<1>10. HookInv'
  <2>1. NumberInv'
    BY <1>1, <1>3, <1>4, NumberTypes DEF NumberInv
  <2>2. SessionInv'
    BY <1>3, <1>4 DEF SessionInv
  <2>3. MakingInv'
    BY <1>3, <1>4 DEF MakingInv
  <2>4. RemovedInv'
    BY <1>3, <1>4 DEF RemovedInv
  <2>5. ErasingInv'
    BY <1>3, <1>4 DEF ErasingInv, Removing, HookOf, Making, Peace, At
  <2>6. GoneInv'
    BY <1>3, <1>4 DEF GoneInv
  <2>7. ServedInv'
    BY <1>3, <1>4 DEF ServedInv
  <2>8. StoredInv'
    BY <1>3, <1>4 DEF StoredInv, HookOf, Making, Removing, MayLoad, Peace, At
  <2> QED
    BY <2>1, <2>2, <2>3, <2>4, <2>5, <2>6, <2>7, <2>8 DEF HookInv
<1> QED
  BY <1>6, <1>7, <1>8, <1>9, <1>10 DEF HookInv

LEMMA WriteKeeps ==
  ASSUME TypeOK, RegistryInv, NEW r \in Requests,
         req[r].op # "delete",
         At(r, Tagging, "write"),
         \/ file' = req[r].view
         \/ \E o \in Requests \ {r} : At(o, Tagging, "write") /\ file' = Torn,
         NoFault,
         Finish(r),
         UNCHANGED <<table, hooks, tags, access, boot, seen, served>>
  PROVE  RegistryInv'
<1> USE DEF RegistryInv
<1>1. /\ DOMAIN req = Requests /\ Formed(req[r]) /\ served \in Nat
      /\ req[r].no \in Nat /\ req[r].no <= served
  BY RegistryAssumption, FormedNumbers DEF TypeOK, FormInv
<1>2. Moved(r, Idle)
  BY <1>1, Finished
<1>3. req'[r].op = "idle" /\ \A o \in Requests : o # r => req'[o] = req[o]
  BY <1>2 DEF Moved, Idle
<1>4. Undisturbed' => Undisturbed /\ Peace
  BY CalmBefore, PeaceHolds
<1>5. /\ Formed(Idle)
      /\ Idle.op = "idle" \/ SameAs(Idle, req[r])
  BY Finished, <1>1
<1>6. FormInv' /\ ApartInv'
  BY <1>1, <1>2, <1>5, ShapeKept
<1>7. BootInv'
  BY DEF BootInv
<1>8. TokenInv' /\ UseInv'
  BY <1>2, <1>3, TokensAside DEF Idle
<1>9. TagInv'
  BY <1>3, <1>4 DEF TagInv, Tagging, Peace, At
<1>10. HookInv'
  BY <1>1, <1>2, <1>4, HooksAside DEF HookInv, Making, Removing, Idle, At
<1> QED
  BY <1>6, <1>7, <1>8, <1>9, <1>10 DEF HookInv

LEMMA MintRowKeeps ==
  ASSUME TypeOK, RegistryInv, NEW r \in Requests,
         At(r, {"mint"}, "token"),
         token' = [token EXCEPT ![req[r].on].row = TRUE],
         NoFault,
         Goto(r, "ids"),
         UNCHANGED <<table, hooks, labels, asked, issued, revoked, boot, seen, served>>
  PROVE  RegistryInv'
<1> USE DEF RegistryInv
<1>1. /\ DOMAIN req = Requests /\ Formed(req[r]) /\ served \in Nat
      /\ req[r].no \in Nat /\ req[r].no <= served
  BY RegistryAssumption, FormedNumbers DEF TypeOK, FormInv
<1>2. Moved(r, Placed(req[r], "ids"))
  BY <1>1, Gone
<1>3. /\ req'[r].op = req[r].op /\ req'[r].at = "ids" /\ req'[r].no = req[r].no
      /\ req'[r].on = req[r].on /\ req'[r].what = req[r].what /\ req'[r].view = req[r].view
      /\ req'[r].late = req[r].late
      /\ \A o \in Requests : o # r => req'[o] = req[o]
  BY <1>2 DEF Moved, Placed
<1>4. Undisturbed' => Undisturbed /\ Peace
  BY CalmBefore, PeaceHolds
<1>5. /\ Formed(Placed(req[r], "ids"))
      /\ Placed(req[r], "ids").op = "idle" \/ SameAs(Placed(req[r], "ids"), req[r])
  BY <1>1 DEF Formed, Placed, Places, SameAs, At, Removing, Tagging
<1>6. FormInv' /\ ApartInv'
  BY <1>1, <1>2, <1>5, ShapeKept
<1>7. BootInv'
  BY DEF BootInv
<1>8. TokenInv' /\ UseInv'
  BY <1>1, <1>3 DEF TypeOK, Formed, At, Scope, TokenInv, UseInv, Within, Covers
<1>9. TagInv'
  BY <1>2, <1>3, <1>4, TagsAside DEF Tagging, Placed, At, Removing
<1>10. HookInv'
  BY <1>1, <1>2, <1>4, HooksAside DEF HookInv, Making, Removing, Placed, At, Tagging
<1> QED
  BY <1>6, <1>7, <1>8, <1>9, <1>10 DEF HookInv

LEMMA MintIdsKeeps ==
  ASSUME TypeOK, RegistryInv, NEW r \in Requests,
         At(r, {"mint"}, "ids"),
         token' = [token EXCEPT ![req[r].on].scope.ids = asked[req[r].on].ids],
         NoFault,
         Goto(r, "prefixes"),
         UNCHANGED <<table, hooks, labels, asked, issued, revoked, boot, seen, served>>
  PROVE  RegistryInv'
<1> USE DEF RegistryInv
<1>1. /\ DOMAIN req = Requests /\ Formed(req[r]) /\ served \in Nat
      /\ req[r].no \in Nat /\ req[r].no <= served
  BY RegistryAssumption, FormedNumbers DEF TypeOK, FormInv
<1>2. Moved(r, Placed(req[r], "prefixes"))
  BY <1>1, Gone
<1>3. /\ req'[r].op = req[r].op /\ req'[r].at = "prefixes" /\ req'[r].no = req[r].no
      /\ req'[r].on = req[r].on /\ req'[r].what = req[r].what /\ req'[r].view = req[r].view
      /\ req'[r].late = req[r].late
      /\ \A o \in Requests : o # r => req'[o] = req[o]
  BY <1>2 DEF Moved, Placed
<1>4. Undisturbed' => Undisturbed /\ Peace
  BY CalmBefore, PeaceHolds
<1>5. /\ Formed(Placed(req[r], "prefixes"))
      /\ Placed(req[r], "prefixes").op = "idle" \/ SameAs(Placed(req[r], "prefixes"), req[r])
  BY <1>1 DEF Formed, Placed, Places, SameAs, At, Removing, Tagging
<1>6. FormInv' /\ ApartInv'
  BY <1>1, <1>2, <1>5, ShapeKept
<1>7. BootInv'
  BY DEF BootInv
<1>8. TokenInv' /\ UseInv'
  BY <1>1, <1>3 DEF TypeOK, Formed, At, Scope, TokenInv, UseInv, Within, Covers
<1>9. TagInv'
  BY <1>2, <1>3, <1>4, TagsAside DEF Tagging, Placed, At, Removing
<1>10. HookInv'
  BY <1>1, <1>2, <1>4, HooksAside DEF HookInv, Making, Removing, Placed, At, Tagging
<1> QED
  BY <1>6, <1>7, <1>8, <1>9, <1>10 DEF HookInv

LEMMA MintPrefixesKeeps ==
  ASSUME TypeOK, RegistryInv, NEW r \in Requests,
         At(r, {"mint"}, "prefixes"),
         token' = [token EXCEPT ![req[r].on].scope.prefixes = asked[req[r].on].prefixes],
         issued' = issued \cup {req[r].on},
         NoFault,
         Finish(r),
         UNCHANGED <<table, hooks, labels, asked, revoked, boot, seen, served>>
  PROVE  RegistryInv'
<1> USE DEF RegistryInv
<1>1. /\ DOMAIN req = Requests /\ Formed(req[r]) /\ served \in Nat
      /\ req[r].no \in Nat /\ req[r].no <= served
  BY RegistryAssumption, FormedNumbers DEF TypeOK, FormInv
<1>2. Moved(r, Idle)
  BY <1>1, Finished
<1>3. req'[r].op = "idle" /\ \A o \in Requests : o # r => req'[o] = req[o]
  BY <1>2 DEF Moved, Idle
<1>4. Undisturbed' => Undisturbed /\ Peace
  BY CalmBefore, PeaceHolds
<1>5. /\ Formed(Idle)
      /\ Idle.op = "idle" \/ SameAs(Idle, req[r])
  BY Finished, <1>1
<1>6. FormInv' /\ ApartInv'
  BY <1>1, <1>2, <1>5, ShapeKept
<1>7. BootInv'
  BY DEF BootInv
<1>8. TokenInv' /\ UseInv'
  <2>1. TokenInv'
    BY <1>1 DEF TypeOK, Formed, At, Scope, TokenInv, Within
  <2>2. UseInv'
    BY <1>3 DEF UseInv, Within, Covers
  <2> QED
    BY <2>1, <2>2
<1>9. TagInv'
  BY <1>2, <1>3, <1>4, TagsAside DEF Tagging, Idle, At
<1>10. HookInv'
  BY <1>1, <1>2, <1>4, HooksAside DEF HookInv, Making, Removing, Idle, At
<1> QED
  BY <1>6, <1>7, <1>8, <1>9, <1>10 DEF HookInv

LEMMA RevokeRowKeeps ==
  ASSUME TypeOK, RegistryInv, NEW r \in Requests,
         At(r, {"revoke"}, "row"),
         token' = [token EXCEPT ![req[r].on].revoked = TRUE],
         revoked' = revoked \cup {req[r].on},
         NoFault,
         Finish(r),
         UNCHANGED <<table, hooks, labels, asked, issued, boot, seen, served>>
  PROVE  RegistryInv'
<1> USE DEF RegistryInv
<1>1. /\ DOMAIN req = Requests /\ Formed(req[r]) /\ served \in Nat
      /\ req[r].no \in Nat /\ req[r].no <= served
  BY RegistryAssumption, FormedNumbers DEF TypeOK, FormInv
<1>2. Moved(r, Idle)
  BY <1>1, Finished
<1>3. req'[r].op = "idle" /\ \A o \in Requests : o # r => req'[o] = req[o]
  BY <1>2 DEF Moved, Idle
<1>4. Undisturbed' => Undisturbed /\ Peace
  BY CalmBefore, PeaceHolds
<1>5. /\ Formed(Idle)
      /\ Idle.op = "idle" \/ SameAs(Idle, req[r])
  BY Finished, <1>1
<1>6. FormInv' /\ ApartInv'
  BY <1>1, <1>2, <1>5, ShapeKept
<1>7. BootInv'
  BY DEF BootInv
<1>8. TokenInv' /\ UseInv'
  BY <1>1, <1>3 DEF TypeOK, Formed, At, Scope, TokenInv, UseInv, Within, Covers
<1>9. TagInv'
  BY <1>2, <1>3, <1>4, TagsAside DEF Tagging, Idle, At
<1>10. HookInv'
  BY <1>1, <1>2, <1>4, HooksAside DEF HookInv, Making, Removing, Idle, At
<1> QED
  BY <1>6, <1>7, <1>8, <1>9, <1>10 DEF HookInv

LEMMA EndKeeps ==
  ASSUME TypeOK, RegistryInv, NEW r \in Requests,
         NoFault \/ Fault,
         \/ ~Undisturbed' \/ req[r].op \in {"mint", "use"} \/ At(r, {"register"}, "lookup")
         \/ At(r, {"create"}, "insert") \/ At(r, {"create"}, "row"),
         Finish(r),
         UNCHANGED <<table, hooks, labels, access, boot, seen, served>>
  PROVE  RegistryInv'
<1> USE DEF RegistryInv
<1>1. /\ DOMAIN req = Requests /\ Formed(req[r]) /\ served \in Nat
      /\ req[r].no \in Nat /\ req[r].no <= served
  BY RegistryAssumption, FormedNumbers DEF TypeOK, FormInv
<1>2. Moved(r, Idle)
  BY <1>1, Finished
<1>3. req'[r].op = "idle" /\ \A o \in Requests : o # r => req'[o] = req[o]
  BY <1>2 DEF Moved, Idle
<1>4. Undisturbed' => Undisturbed /\ Peace
  BY CalmBefore, PeaceHolds
<1>5. /\ Formed(Idle)
      /\ Idle.op = "idle" \/ SameAs(Idle, req[r])
  BY Finished, <1>1
<1>6. FormInv' /\ ApartInv'
  BY <1>1, <1>2, <1>5, ShapeKept
<1>7. BootInv'
  BY DEF BootInv
<1>8. TokenInv' /\ UseInv'
  BY <1>2, <1>3, TokensAside DEF Idle
<1>9. TagInv'
  BY <1>3, <1>4 DEF TagInv, Tagging, At, NoFault
<1>10. HookInv'
  <2>1. NumberInv'
    BY <1>1, <1>3, <1>4, NumberTypes DEF NumberInv
  <2>2. SessionInv'
    BY <1>3, <1>4 DEF SessionInv
  <2>3. MakingInv'
    BY <1>3, <1>4 DEF MakingInv
  <2>4. RemovedInv'
    BY <1>3, <1>4 DEF RemovedInv
  <2>5. ErasingInv'
    BY <1>3, <1>4 DEF ErasingInv, Removing, HookOf, Making, Peace, At
  <2>6. GoneInv'
    BY <1>3, <1>4 DEF GoneInv
  <2>7. ServedInv'
    BY <1>3, <1>4 DEF ServedInv, HookOf, MayLoad, Removing, Peace, At
  <2>8. StoredInv'
    BY <1>3, <1>4 DEF StoredInv, HookOf, Making, Removing, MayLoad, Peace, At
  <2> QED
    BY <2>1, <2>2, <2>3, <2>4, <2>5, <2>6, <2>7, <2>8 DEF HookInv
<1> QED
  BY <1>6, <1>7, <1>8, <1>9, <1>10 DEF HookInv
LEMMA SnapshotKeeps ==
  ASSUME TypeOK, RegistryInv, NEW r \in Requests,
         At(r, Tagging, "snapshot"),
         req' = [req EXCEPT ![r].view = tags, ![r].at = "truncate"],
         NoFault,
         UNCHANGED <<table, hooks, labels, access, boot, seen, served>>
  PROVE  RegistryInv'
<1> USE DEF RegistryInv
<1>1. /\ DOMAIN req = Requests /\ Formed(req[r]) /\ served \in Nat
      /\ req[r].no \in Nat /\ req[r].no <= served
  BY RegistryAssumption, FormedNumbers DEF TypeOK, FormInv
<1>2. Moved(r, Seen(req[r], "truncate", tags, req[r].late))
  BY <1>1 DEF Formed, Moved, Seen
<1>3. /\ req'[r].op = req[r].op /\ req'[r].at = "truncate" /\ req'[r].no = req[r].no
      /\ req'[r].on = req[r].on /\ req'[r].what = req[r].what
      /\ req'[r].view = tags /\ req'[r].late = req[r].late
      /\ \A o \in Requests : o # r => req'[o] = req[o]
  BY <1>2, MovedAndSeen
<1>4. Undisturbed' => Undisturbed /\ Peace
  BY CalmBefore, PeaceHolds
<1>5. /\ Formed(Seen(req[r], "truncate", tags, req[r].late))
      /\ \/ Seen(req[r], "truncate", tags, req[r].late).op = "idle"
         \/ SameAs(Seen(req[r], "truncate", tags, req[r].late), req[r])
  <2>1. tags \in Label
    BY DEF TypeOK
  <2> QED
    BY <1>1, <2>1 DEF Formed, Seen, Places, SameAs, At, Removing, Tagging
<1>6. FormInv' /\ ApartInv'
  BY <1>1, <1>2, <1>5, ShapeKept
<1>7. BootInv'
  BY DEF BootInv
<1>8. TokenInv' /\ UseInv'
  BY <1>2, <1>3, TokensAside DEF Seen, At, Removing, Tagging
<1>9. TagInv'
  BY <1>3, <1>4 DEF TagInv, Tagging, At, Peace
<1>10. HookInv'
  <2>1. NumberInv'
    BY <1>1, <1>3, <1>4, NumberTypes DEF NumberInv
  <2>2. SessionInv'
    BY <1>1, <1>3, <1>4 DEF SessionInv, HookOf, Making, Removing, Peace, At, NoFault
  <2>3. MakingInv'
    <3>1. SUFFICES ASSUME Undisturbed', NEW o \in Requests
                   PROVE  (/\ req[o].op = "register" /\ req[o].at = "row" => HookOf(req[o]) \in mem
                           /\ req[o].op = "create" /\ req[o].at = "memory" => HookOf(req[o]) \in disk
                           /\ req[o].op = "unregister" => req[o].what \notin mem)'
      BY DEF MakingInv
    <3>2. CASE o = r
      BY <1>3, <3>2 DEF At, Tagging
    <3>3. CASE o # r
      <4>1. req'[o] = req[o] /\ UNCHANGED <<mem, disk>> /\ Undisturbed
        BY <1>3, <1>4, <3>1, <3>3
      <4> QED
        BY <4>1 DEF MakingInv, HookOf
    <3> QED
      BY <3>2, <3>3
  <2>4. RemovedInv'
    BY <1>3, <1>4 DEF RemovedInv
  <2>5. ErasingInv'
    BY <1>1, <1>3, <1>4 DEF ErasingInv, Removing, HookOf, Making, Peace, At, NoFault
  <2>6. GoneInv'
    BY <1>1, <1>3, <1>4 DEF GoneInv, Making, HookOf, Removing, Peace, At, NoFault
  <2>7. ServedInv'
    BY <1>1, <1>3, <1>4
       DEF ServedInv, HookOf, ErasingInv, MakingInv, MayLoad, Removing, Peace, At, NoFault
  <2>8. StoredInv'
    BY <1>1, <1>3, <1>4
       DEF StoredInv, SessionInv, HookOf, MakingInv, ErasingInv, Making, Removing,
           MayLoad, Peace, At, NoFault
  <2> QED
    BY <2>1, <2>2, <2>3, <2>4, <2>5, <2>6, <2>7, <2>8 DEF HookInv
<1> QED
  BY <1>6, <1>7, <1>8, <1>9, <1>10 DEF HookInv

LEMMA ReadStatusKeeps ==
  ASSUME TypeOK, RegistryInv, NEW r \in Requests,
         At(r, {"use"}, "status"),
         ~token[req[r].on].revoked,
         req' = [req EXCEPT ![r].at = "scope", ![r].late = req[r].on \in revoked],
         NoFault,
         UNCHANGED <<table, hooks, labels, access, boot, seen, served>>
  PROVE  RegistryInv'
<1> USE DEF RegistryInv
<1>1. /\ DOMAIN req = Requests /\ Formed(req[r]) /\ served \in Nat
      /\ req[r].no \in Nat /\ req[r].no <= served
  BY RegistryAssumption, FormedNumbers DEF TypeOK, FormInv
<1>2. Moved(r, Seen(req[r], "scope", req[r].view, (req[r].on \in revoked)))
  BY <1>1 DEF Formed, Moved, Seen
<1>3. /\ req'[r].op = req[r].op /\ req'[r].at = "scope" /\ req'[r].no = req[r].no
      /\ req'[r].on = req[r].on /\ req'[r].what = req[r].what
      /\ req'[r].view = req[r].view /\ req'[r].late = (req[r].on \in revoked)
      /\ \A o \in Requests : o # r => req'[o] = req[o]
  BY <1>2, MovedAndSeen
<1>4. Undisturbed' => Undisturbed /\ Peace
  BY CalmBefore, PeaceHolds
<1>5. /\ Formed(Seen(req[r], "scope", req[r].view, (req[r].on \in revoked)))
      /\ \/ Seen(req[r], "scope", req[r].view, (req[r].on \in revoked)).op = "idle"
         \/ SameAs(Seen(req[r], "scope", req[r].view, (req[r].on \in revoked)), req[r])
  BY <1>1 DEF Formed, Seen, Places, SameAs, At, Removing, Tagging
<1>6. FormInv' /\ ApartInv'
  BY <1>1, <1>2, <1>5, ShapeKept
<1>7. BootInv'
  BY DEF BootInv
<1>8. TokenInv' /\ UseInv'
  <2>1. req[r].on \in Tokens
    BY <1>1 DEF Formed, At
  <2>2. req[r].on \notin revoked
    BY <2>1 DEF TokenInv
  <2>3. ~req'[r].late /\ req'[r].at = "scope" /\ req'[r].on \in issued
    BY <1>3, <2>2 DEF UseInv, At
  <2>4. TokenInv'
    BY DEF TokenInv
  <2>5. UseInv'
    <3>1. \A o \in Requests : o # r => req'[o] = req[o]
      BY <1>3
    <3>2. UNCHANGED <<asked, issued>>
      OBVIOUS
    <3> QED
      BY <2>3, <3>1, <3>2 DEF UseInv
  <2> QED
    BY <2>4, <2>5
<1>9. TagInv'
  BY <1>2, <1>3, <1>4, TagsAside DEF Tagging, Seen, At, Removing
<1>10. HookInv'
  BY <1>1, <1>2, <1>4, HooksAside DEF HookInv, Making, Removing, Seen, At, Tagging
<1> QED
  BY <1>6, <1>7, <1>8, <1>9, <1>10 DEF HookInv

LEMMA ReadScopeKeeps ==
  ASSUME TypeOK, RegistryInv, NEW r \in Requests,
         At(r, {"use"}, "scope"),
         req[r].what.target \in Sessions => Covers(token[req[r].on].scope, req[r].what.target),
         req' = [req EXCEPT ![r].at = "inside", ![r].view = token[req[r].on].scope],
         NoFault,
         UNCHANGED <<table, hooks, labels, access, boot, seen, served>>
  PROVE  RegistryInv'
<1> USE DEF RegistryInv
<1>1. /\ DOMAIN req = Requests /\ Formed(req[r]) /\ served \in Nat
      /\ req[r].no \in Nat /\ req[r].no <= served
  BY RegistryAssumption, FormedNumbers DEF TypeOK, FormInv
<1>2. Moved(r, Seen(req[r], "inside", token[req[r].on].scope, req[r].late))
  BY <1>1 DEF Formed, Moved, Seen
<1>3. /\ req'[r].op = req[r].op /\ req'[r].at = "inside" /\ req'[r].no = req[r].no
      /\ req'[r].on = req[r].on /\ req'[r].what = req[r].what
      /\ req'[r].view = token[req[r].on].scope /\ req'[r].late = req[r].late
      /\ \A o \in Requests : o # r => req'[o] = req[o]
  BY <1>2, MovedAndSeen
<1>4. Undisturbed' => Undisturbed /\ Peace
  BY CalmBefore, PeaceHolds
<1>5. /\ Formed(Seen(req[r], "inside", token[req[r].on].scope, req[r].late))
      /\ \/ Seen(req[r], "inside", token[req[r].on].scope, req[r].late).op = "idle"
         \/ SameAs(Seen(req[r], "inside", token[req[r].on].scope, req[r].late), req[r])
  BY <1>1 DEF Formed, Seen, Places, SameAs, At, Removing, Tagging
<1>6. FormInv' /\ ApartInv'
  BY <1>1, <1>2, <1>5, ShapeKept
<1>7. BootInv'
  BY DEF BootInv
<1>8. TokenInv' /\ UseInv'
  <2>1. req[r].on \in Tokens
    BY <1>1 DEF Formed, At
  <2>2. token[req[r].on].scope \in Scope /\ Within(token[req[r].on].scope, asked[req[r].on])
    BY <2>1 DEF TypeOK, TokenInv
  <2>3. TokenInv'
    BY DEF TokenInv
  <2>4. UseInv'
    <3>1. \A o \in Requests : o # r => req'[o] = req[o]
      BY <1>3
    <3>2. UNCHANGED <<asked, issued>>
      OBVIOUS
    <3>3. /\ req'[r].on = req[r].on /\ req'[r].what = req[r].what
          /\ req'[r].late = req[r].late /\ req'[r].view = token[req[r].on].scope
      BY <1>3
    <3> QED
      BY <2>2, <3>1, <3>2, <3>3 DEF UseInv, At
  <2> QED
    BY <2>3, <2>4
<1>9. TagInv'
  BY <1>2, <1>3, <1>4, TagsAside DEF Tagging, Seen, At, Removing
<1>10. HookInv'
  BY <1>1, <1>2, <1>4, HooksAside DEF HookInv, Making, Removing, Seen, At, Tagging
<1> QED
  BY <1>6, <1>7, <1>8, <1>9, <1>10 DEF HookInv

LEMMA UnwrittenKeeps ==
  ASSUME TypeOK, RegistryInv, NEW r \in Requests,
         req[r].op = "delete",
         At(r, Tagging, "truncate"),
         Fault,
         Goto(r, "purge"),
         UNCHANGED <<table, hooks, labels, access, boot, seen, served>>
  PROVE  RegistryInv'
<1> USE DEF RegistryInv
<1>1. /\ DOMAIN req = Requests /\ Formed(req[r]) /\ served \in Nat
      /\ req[r].no \in Nat /\ req[r].no <= served
  BY RegistryAssumption, FormedNumbers DEF TypeOK, FormInv
<1>2. Moved(r, Placed(req[r], "purge"))
  BY <1>1, Gone
<1>3. /\ req'[r].op = req[r].op /\ req'[r].at = "purge" /\ req'[r].no = req[r].no
      /\ req'[r].on = req[r].on /\ req'[r].what = req[r].what /\ req'[r].view = req[r].view
      /\ req'[r].late = req[r].late
      /\ \A o \in Requests : o # r => req'[o] = req[o]
  BY <1>2 DEF Moved, Placed
<1>4. Undisturbed' => Undisturbed /\ Peace
  BY CalmBefore, PeaceHolds
<1>5. /\ Formed(Placed(req[r], "purge"))
      /\ Placed(req[r], "purge").op = "idle" \/ SameAs(Placed(req[r], "purge"), req[r])
  BY <1>1 DEF Formed, Placed, Places, SameAs, At, Removing, Tagging
<1>6. FormInv' /\ ApartInv'
  BY <1>1, <1>2, <1>5, ShapeKept
<1>7. BootInv'
  BY DEF BootInv
<1>8. TokenInv' /\ UseInv'
  BY <1>2, <1>3, TokensAside DEF Placed, At, Removing, Tagging
<1>9. TagInv'
  BY FaultDisturbs DEF TagInv
<1>10. HookInv'
  <2>1. NumberInv'
    BY <1>1, <1>3, FaultDisturbs, NumberTypes DEF NumberInv
  <2>2. SessionInv'
    BY FaultDisturbs DEF SessionInv
  <2>3. MakingInv'
    BY FaultDisturbs DEF MakingInv
  <2>4. RemovedInv'
    BY FaultDisturbs DEF RemovedInv
  <2>5. ErasingInv'
    BY FaultDisturbs DEF ErasingInv
  <2>6. GoneInv'
    BY FaultDisturbs DEF GoneInv
  <2>7. ServedInv'
    BY FaultDisturbs DEF ServedInv
  <2>8. StoredInv'
    BY FaultDisturbs DEF StoredInv
  <2> QED
    BY <2>1, <2>2, <2>3, <2>4, <2>5, <2>6, <2>7, <2>8 DEF HookInv
<1> QED
  BY <1>6, <1>7, <1>8, <1>9, <1>10 DEF HookInv

LEMMA BootListKeeps ==
  ASSUME TypeOK, RegistryInv,
         boot.at = "list",
         boot' = [boot EXCEPT !.at = "walk", !.todo = rows],
         NoFault,
         UNCHANGED <<table, hooks, labels, access, req, seen, served>>
  PROVE  RegistryInv'
<1> USE DEF RegistryInv
<1>1. served \in Nat
  BY RegistryAssumption DEF TypeOK
<1>2. Undisturbed' => Undisturbed /\ Peace
  BY CalmBefore, PeaceHolds
<1>3. FormInv'
  BY <1>1, FormedNumbers DEF FormInv
<1>4. BootInv'
  BY DEF BootInv, Unbooted, Booted
<1>5. ApartInv'
  BY DEF ApartInv, MayLoad, Busy, Unbooted, Booted, BootInv, Removing
<1>6. TokenInv' /\ UseInv'
  BY DEF TokenInv, UseInv, Within, Covers
<1>7. TagInv'
  BY <1>1, <1>2 DEF TagInv
<1>8. HookInv'
  <2>1. NumberInv'
    BY <1>1, <1>2, NumberTypes DEF NumberInv
  <2>2. SessionInv'
    BY <1>2 DEF SessionInv
  <2>3. MakingInv'
    BY <1>2 DEF MakingInv
  <2>4. RemovedInv'
    BY <1>2 DEF RemovedInv
  <2>5. ErasingInv'
    BY <1>2 DEF ErasingInv
  <2>6. GoneInv'
    BY <1>2 DEF GoneInv
  <2>7. ServedInv'
    BY <1>2 DEF ServedInv
  <2>8. StoredInv'
    BY <1>1, <1>2
       DEF StoredInv, SessionInv, HookOf, MakingInv, ErasingInv, Making, Removing,
           MayLoad, Peace, Unbooted, Booted, BootInv
  <2> QED
    BY <2>1, <2>2, <2>3, <2>4, <2>5, <2>6, <2>7, <2>8 DEF HookInv
<1> QED
  BY <1>3, <1>4, <1>5, <1>6, <1>7, <1>8 DEF HookInv

LEMMA BootReadKeeps ==
  ASSUME TypeOK, RegistryInv,
         boot.at = "walk",
         NEW s \in boot.todo,
         boot' = [at |-> "load", todo |-> boot.todo \ {s}, view |-> {h \in disk : h.session = s}],
         NoFault,
         UNCHANGED <<table, hooks, labels, access, req, seen, served>>
  PROVE  RegistryInv'
<1> USE DEF RegistryInv
<1>1. served \in Nat
  BY RegistryAssumption DEF TypeOK
<1>2. Undisturbed' => Undisturbed /\ Peace
  BY CalmBefore, PeaceHolds
<1>3. FormInv'
  BY <1>1, FormedNumbers DEF FormInv
<1>4. BootInv'
  BY DEF BootInv, Unbooted, Booted
<1>5. ApartInv'
  BY DEF ApartInv, MayLoad, Busy, Unbooted, Booted, BootInv, Removing
<1>6. TokenInv' /\ UseInv'
  BY DEF TokenInv, UseInv, Within, Covers
<1>7. TagInv'
  BY <1>1, <1>2 DEF TagInv
<1>8. HookInv'
  <2>1. NumberInv'
    BY <1>1, <1>2, NumberTypes DEF NumberInv
  <2>2. SessionInv'
    BY <1>2 DEF SessionInv
  <2>3. MakingInv'
    BY <1>2 DEF MakingInv
  <2>4. RemovedInv'
    BY <1>2 DEF RemovedInv
  <2>5. ErasingInv'
    BY <1>2 DEF ErasingInv
  <2>6. GoneInv'
    BY <1>2 DEF GoneInv
  <2>7. ServedInv'
    BY <1>2 DEF ServedInv
  <2>8. StoredInv'
    BY <1>1, <1>2
       DEF StoredInv, SessionInv, HookOf, MakingInv, ErasingInv, Making, Removing,
           MayLoad, Peace, Unbooted, Booted, BootInv
  <2> QED
    BY <2>1, <2>2, <2>3, <2>4, <2>5, <2>6, <2>7, <2>8 DEF HookInv
<1> QED
  BY <1>3, <1>4, <1>5, <1>6, <1>7, <1>8 DEF HookInv

LEMMA BootSkipKeeps ==
  ASSUME TypeOK, RegistryInv,
         boot.at = "walk",
         NEW s \in boot.todo,
         boot' = [boot EXCEPT !.todo = @ \ {s}],
         Fault,
         UNCHANGED <<table, hooks, labels, access, req, seen, served>>
  PROVE  RegistryInv'
<1> USE DEF RegistryInv
<1>1. served \in Nat
  BY RegistryAssumption DEF TypeOK
<1>2. Undisturbed' => Undisturbed /\ Peace
  BY CalmBefore DEF NoFault, Fault, Undisturbed, TypeOK
<1>3. FormInv'
  BY <1>1, FormedNumbers DEF FormInv
<1>4. BootInv'
  BY DEF BootInv, Unbooted, Booted
<1>5. ApartInv'
  BY DEF ApartInv, MayLoad, Busy, Unbooted, Booted, BootInv, Removing
<1>6. TokenInv' /\ UseInv'
  BY DEF TokenInv, UseInv, Within, Covers
<1>7. TagInv'
  BY <1>1, <1>2 DEF TagInv
<1>8. HookInv'
  <2>1. NumberInv'
    BY <1>1, <1>2, NumberTypes DEF NumberInv
  <2>2. SessionInv'
    BY <1>2 DEF SessionInv
  <2>3. MakingInv'
    BY <1>2 DEF MakingInv
  <2>4. RemovedInv'
    BY <1>2 DEF RemovedInv
  <2>5. ErasingInv'
    BY <1>2 DEF ErasingInv
  <2>6. GoneInv'
    BY <1>2 DEF GoneInv
  <2>7. ServedInv'
    BY <1>2 DEF ServedInv
  <2>8. StoredInv'
    BY DEF StoredInv, NoFault, Fault, Undisturbed, TypeOK
  <2> QED
    BY <2>1, <2>2, <2>3, <2>4, <2>5, <2>6, <2>7, <2>8 DEF HookInv
<1> QED
  BY <1>3, <1>4, <1>5, <1>6, <1>7, <1>8 DEF HookInv

LEMMA BootDoneKeeps ==
  ASSUME TypeOK, RegistryInv,
         boot.at = "walk",
         boot.todo = {},
         boot' = Booted,
         NoFault,
         UNCHANGED <<table, hooks, labels, access, req, seen, served>>
  PROVE  RegistryInv'
<1> USE DEF RegistryInv
<1>1. served \in Nat
  BY RegistryAssumption DEF TypeOK
<1>2. Undisturbed' => Undisturbed /\ Peace
  BY CalmBefore, PeaceHolds
<1>3. FormInv'
  BY <1>1, FormedNumbers DEF FormInv
<1>4. BootInv'
  BY DEF BootInv, Unbooted, Booted
<1>5. ApartInv'
  BY DEF ApartInv, MayLoad, Busy, Unbooted, Booted, BootInv, Removing
<1>6. TokenInv' /\ UseInv'
  BY DEF TokenInv, UseInv, Within, Covers
<1>7. TagInv'
  BY <1>1, <1>2 DEF TagInv
<1>8. HookInv'
  <2>1. NumberInv'
    BY <1>1, <1>2, NumberTypes
       DEF NumberInv, HookOf, Making, Removing, Peace, Unbooted, Booted
  <2>2. SessionInv'
    BY <1>2 DEF SessionInv
  <2>3. MakingInv'
    BY <1>2 DEF MakingInv
  <2>4. RemovedInv'
    BY <1>2 DEF RemovedInv, HookOf, Making, MayLoad, Peace, Unbooted, Booted
  <2>5. ErasingInv'
    BY <1>2 DEF ErasingInv
  <2>6. GoneInv'
    BY <1>2 DEF GoneInv, Making, HookOf, Removing, Peace, Unbooted, Booted
  <2>7. ServedInv'
    BY <1>2 DEF ServedInv, HookOf, MayLoad, Removing, Peace, Unbooted, Booted
  <2>8. StoredInv'
    BY <1>1, <1>2
       DEF StoredInv, SessionInv, HookOf, MakingInv, ErasingInv, Making, Removing,
           MayLoad, Peace, Unbooted, Booted, BootInv
  <2> QED
    BY <2>1, <2>2, <2>3, <2>4, <2>5, <2>6, <2>7, <2>8 DEF HookInv
<1> QED
  BY <1>3, <1>4, <1>5, <1>6, <1>7, <1>8 DEF HookInv

LEMMA BootLoadKeeps ==
  ASSUME TypeOK, RegistryInv,
         boot.at = "load",
         mem' = mem \cup boot.view,
         boot' = [boot EXCEPT !.at = "walk", !.view = {}],
         NoFault,
         UNCHANGED <<table, disk, labels, access, req, seen, served>>
  PROVE  RegistryInv'
<1> USE DEF RegistryInv
<1>1. served \in Nat
  BY RegistryAssumption DEF TypeOK
<1>2. Undisturbed' => Undisturbed /\ Peace
  BY CalmBefore, PeaceHolds
<1>3. FormInv'
  BY <1>1, FormedNumbers DEF FormInv
<1>4. BootInv'
  BY DEF BootInv, Unbooted, Booted
<1>5. ApartInv'
  BY DEF ApartInv, MayLoad, Busy, Unbooted, Booted, BootInv, Removing
<1>6. TokenInv' /\ UseInv'
  BY DEF TokenInv, UseInv, Within, Covers
<1>7. TagInv'
  BY <1>1, <1>2 DEF TagInv
<1>8. HookInv'
  <2>1. NumberInv'
    BY <1>1, <1>2, NumberTypes DEF NumberInv
  <2>2. SessionInv'
    BY <1>2 DEF SessionInv
  <2>3. MakingInv'
    BY <1>2 DEF MakingInv, HookOf, MayLoad, Making, Removing, Peace, Unbooted, Booted
  <2>4. RemovedInv'
    BY <1>2 DEF RemovedInv
  <2>5. ErasingInv'
    BY <1>2 DEF ErasingInv, Removing, HookOf, Making, Peace, Unbooted, Booted
  <2>6. GoneInv'
    BY <1>2 DEF GoneInv
  <2>7. ServedInv'
    BY <1>2 DEF ServedInv
  <2>8. StoredInv'
    BY <1>2 DEF StoredInv, HookOf, Making, Removing, MayLoad, Peace, Unbooted, Booted
  <2> QED
    BY <2>1, <2>2, <2>3, <2>4, <2>5, <2>6, <2>7, <2>8 DEF HookInv
<1> QED
  BY <1>3, <1>4, <1>5, <1>6, <1>7, <1>8 DEF HookInv

LEMMA RestartKeeps ==
  ASSUME TypeOK, RegistryInv,
         Restart
  PROVE  RegistryInv'
<1> USE DEF RegistryInv
<1>1. served \in Nat
  BY RegistryAssumption DEF Restart, TypeOK
<1>2. Undisturbed' => Undisturbed /\ Peace
  BY CalmBefore, PeaceHolds DEF Restart, NoFault
<1>3. FormInv'
  BY <1>1, FormedNumbers DEF Restart, FormInv
<1>4. BootInv'
  BY DEF Restart, BootInv, Unbooted, Booted
<1>5. ApartInv'
  BY DEF Restart, ApartInv, MayLoad, Busy, Unbooted, Booted, BootInv, Removing
<1>6. TokenInv' /\ UseInv'
  BY DEF Restart, TokenInv, UseInv, Within, Covers
<1>7. TagInv'
  <2>1. \A r \in Requests : req[r].op = "idle"
    BY DEF Restart, Busy
  <2>2. Undisturbed' => file = tags
    BY <1>2, <2>1 DEF Restart, TagInv, Tagging
  <2>3. file = tags => tags' = file
    <3>1. SUFFICES ASSUME file = tags, file = Torn
                   PROVE  NoTags = Torn
      BY DEF Restart
    <3>2. \A s \in Sessions : Torn[s] \subseteq Tags /\ Torn[s] = {None}
      BY <3>1 DEF Restart, TypeOK, Label, Torn
    <3>3. Sessions = {}
      BY <3>2, RegistryAssumption
    <3> QED
      BY <3>3 DEF Restart, NoTags, Torn
  <2> QED
    BY <2>1, <2>2, <2>3 DEF Restart, TagInv, Tagging
<1>8. HookInv'
  <2>1. NumberInv'
    BY <1>1, <1>2, NumberTypes
       DEF Restart, NumberInv, HookOf, Making, Removing, Peace, Unbooted, Booted
  <2>2. SessionInv'
    BY <1>2 DEF Restart, SessionInv
  <2>3. MakingInv'
    <3>1. \A r \in Requests : req'[r].op = "idle"
      BY DEF Restart, Busy
    <3> QED
      BY <3>1 DEF Restart, MakingInv
  <2>4. RemovedInv'
    BY <1>2 DEF Restart, RemovedInv, HookOf, Making, MayLoad, Peace, Unbooted, Booted
  <2>5. ErasingInv'
    BY <1>2 DEF Restart, ErasingInv
  <2>6. GoneInv'
    BY <1>2 DEF Restart, GoneInv, Making, HookOf, Removing, Peace, Unbooted, Booted
  <2>7. ServedInv'
    BY <1>2 DEF Restart, ServedInv, HookOf, MayLoad, Removing, Peace, Unbooted, Booted
  <2>8. StoredInv'
    BY <1>2
       DEF Restart, StoredInv, HookOf, Making, Removing, MayLoad, Peace, Unbooted, Booted
  <2> QED
    BY <2>1, <2>2, <2>3, <2>4, <2>5, <2>6, <2>7, <2>8 DEF Restart, HookInv
<1> QED
  BY <1>3, <1>4, <1>5, <1>6, <1>7, <1>8 DEF Restart, HookInv

LEMMA ReloadKeeps ==
  ASSUME TypeOK, RegistryInv,
         Reload
  PROVE  RegistryInv'
<1> USE DEF RegistryInv
<1>1. served \in Nat
  BY RegistryAssumption DEF Reload, TypeOK
<1>2. Undisturbed' => Undisturbed /\ Peace
  BY CalmBefore, PeaceHolds DEF Reload, NoFault
<1>3. FormInv'
  BY <1>1, FormedNumbers DEF Reload, FormInv
<1>4. BootInv'
  BY DEF Reload, BootInv, Unbooted, Booted
<1>5. ApartInv'
  BY DEF Reload, ApartInv, MayLoad, Busy, Unbooted, Booted, BootInv, Removing
<1>6. TokenInv' /\ UseInv'
  BY DEF Reload, TokenInv, UseInv, Within, Covers
<1>7. TagInv'
  BY <1>1, <1>2 DEF Reload, TagInv
<1>8. HookInv'
  <2>1. NumberInv'
    BY <1>1, <1>2, NumberTypes
       DEF Reload, NumberInv, HookOf, Making, Removing, Peace, Unbooted, Booted
  <2>2. SessionInv'
    BY <1>2 DEF Reload, SessionInv
  <2>3. MakingInv'
    BY <1>2 DEF Reload, MakingInv
  <2>4. RemovedInv'
    BY <1>2 DEF Reload, RemovedInv, HookOf, Making, MayLoad, Peace, Unbooted, Booted
  <2>5. ErasingInv'
    BY <1>2 DEF Reload, ErasingInv
  <2>6. GoneInv'
    BY <1>2 DEF Reload, GoneInv, Making, HookOf, Removing, Peace, Unbooted, Booted
  <2>7. ServedInv'
    BY <1>2 DEF Reload, ServedInv, HookOf, MayLoad, Removing, Peace, Unbooted, Booted
  <2>8. StoredInv'
    BY <1>2
       DEF Reload, StoredInv, HookOf, Making, Removing, MayLoad, Peace, Unbooted, Booted
  <2> QED
    BY <2>1, <2>2, <2>3, <2>4, <2>5, <2>6, <2>7, <2>8 DEF Reload, HookInv
<1> QED
  BY <1>3, <1>4, <1>5, <1>6, <1>7, <1>8 DEF Reload, HookInv

LEMMA CrashKeeps ==
  ASSUME TypeOK, RegistryInv, Crash
  PROVE  RegistryInv'
<1> USE DEF RegistryInv
<1>1. ~Undisturbed' /\ served \in Nat
  BY RegistryAssumption DEF Crash, Fault, Undisturbed, TypeOK
<1>2. /\ \A r \in Requests : req'[r] = Idle
      /\ mem' = {} /\ boot' = Unbooted /\ UNCHANGED <<disk, access, removed, served, clash>>
  BY DEF Crash
<1>3. Formed(Idle) /\ Idle.op = "idle" /\ Idle.no = 0
  BY IdleIsFormed
<1>4. FormInv'
  BY <1>1, <1>2, <1>3 DEF FormInv
<1>5. BootInv'
  BY <1>2 DEF BootInv, Unbooted
<1>6. ApartInv'
  BY <1>2, <1>3 DEF ApartInv, Busy, Removing
<1>7. TokenInv'
  BY <1>2 DEF TokenInv, Within
<1>8. UseInv'
  BY <1>2, <1>3 DEF UseInv
<1>9. TagInv'
  BY <1>1 DEF TagInv
<1>10. NumberInv'
  BY <1>1, <1>2, <1>3 DEF NumberInv, Unbooted
<1>11. /\ SessionInv' /\ MakingInv' /\ RemovedInv' /\ ErasingInv' /\ GoneInv'
       /\ ServedInv' /\ StoredInv'
  BY <1>1 DEF SessionInv, MakingInv, RemovedInv, ErasingInv, GoneInv, ServedInv, StoredInv
<1> QED
  BY <1>4, <1>5, <1>6, <1>7, <1>8, <1>9, <1>10, <1>11
-----------------------------------------------------------------------------
(* Every step keeps the invariant.                                         *)

LEMMA AskKeeps ==
  ASSUME TypeOK, RegistryInv, NEW r \in Requests, Ask(r)
  PROVE  RegistryInv'
<1>1. ASSUME NEW s \in Sessions, NEW u \in Urls, Register(r, s, u)
      PROVE  RegistryInv'
  BY <1>1, RegisterKeeps DEF Register
<1>2. ASSUME NEW s \in Sessions, NEW u \in Urls \cup {None}, Create(r, s, u)
      PROVE  RegistryInv'
  BY <1>2, CreateKeeps DEF Create
<1>3. ASSUME NEW s \in Sessions, NEW op \in Removing, Remove(r, op, s)
      PROVE  RegistryInv'
  BY <1>3, RemoveKeeps DEF Remove
<1>4. ASSUME NEW s \in Sessions, NEW ts \in SUBSET Tags, SetTags(r, s, ts)
      PROVE  RegistryInv'
  BY <1>4, TagKeeps DEF SetTags
<1>5. ASSUME NEW s \in Sessions, NEW t \in Tags, AddTag(r, s, t)
      PROVE  RegistryInv'
  BY <1>5, TagKeeps DEF AddTag
<1>6. ASSUME NEW s \in Sessions, NEW t \in Tags, RemoveTag(r, s, t)
      PROVE  RegistryInv'
  <2>1. CASE tags[s] = {t}
    BY <1>6, <2>1, TagKeeps DEF RemoveTag
  <2>2. CASE tags[s] # {t}
    BY <1>6, <2>2, TagKeeps DEF RemoveTag
  <2> QED
    BY <2>1, <2>2
<1>7. ASSUME NEW h \in mem, Unregister(r, h)
      PROVE  RegistryInv'
  BY <1>7, UnregisterKeeps DEF Unregister
<1>8. ASSUME NEW t \in Tokens, NEW scope \in Scope, Mint(r, t, scope)
      PROVE  RegistryInv'
  BY <1>8, MintKeeps DEF Mint
<1>9. ASSUME NEW t \in Tokens, Revoke(r, t)
      PROVE  RegistryInv'
  BY <1>9, AccessKeeps DEF Revoke
<1>10. ASSUME NEW t \in Tokens, NEW target \in Targets, Use(r, t, target)
       PROVE  RegistryInv'
  BY <1>10, AccessKeeps DEF Use
<1> QED
  BY <1>1, <1>2, <1>3, <1>4, <1>5, <1>6, <1>7, <1>8, <1>9, <1>10 DEF Ask

LEMMA HookStepsKeep ==
  ASSUME TypeOK, RegistryInv, NEW r \in Requests,
         \/ LookUp(r) \/ RegisterInMemory(r) \/ RegisterRow(r) \/ UnregisterRow(r)
         \/ CreateRow(r) \/ CreateHook(r) \/ CreateInMemory(r)
  PROVE  RegistryInv'
<1>0. /\ Fault => ~Undisturbed'
      /\ UNCHANGED clash /\ NoFault /\ Undisturbed' => Undisturbed
      /\ UNCHANGED faults => NoFault
  BY FaultDisturbs DEF NoFault, Undisturbed
<1>1. Undisturbed =>
        /\ req[r].op = "register" => req[r].on \in rows
        /\ req[r].op = "create" /\ req[r].at = "row" => req[r].on \in rows
  BY DEF RegistryInv, SessionInv
<1>2. CASE LookUp(r)
  <2>1. CASE Goto(r, "memory")
    BY <1>0, <1>2, <2>1, LookUpKeeps DEF LookUp
  <2>2. CASE Finish(r)
    BY <1>0, <1>2, <2>2, EndKeeps DEF LookUp
  <2> QED
    BY <1>2, <2>1, <2>2 DEF LookUp
<1>3. CASE RegisterInMemory(r)
  BY <1>0, <1>3, RegisterInMemoryKeeps DEF RegisterInMemory
<1>4. CASE RegisterRow(r)
  <2>1. /\ disk' \in {disk, disk \cup {HookOf(req[r])}} /\ (NoFault \/ Fault)
        /\ Undisturbed' => disk' = disk \cup {HookOf(req[r])}
    <3>1. HookOf(req[r]).session = req[r].on
      BY DEF HookOf
    <3>2. UNCHANGED clash /\ req[r].op = "register"
      BY <1>4 DEF RegisterRow, At
    <3>3. InsertHook(HookOf(req[r]))
      BY <1>4 DEF RegisterRow
    <3> QED
      BY <1>0, <1>1, <3>1, <3>2, <3>3 DEF InsertHook
  <2> QED
    BY <1>4, <2>1, RegisterRowKeeps DEF RegisterRow
<1>5. CASE UnregisterRow(r)
  <2>1. /\ disk' \in {disk, disk \ {req[r].what}} /\ (NoFault \/ Fault)
        /\ Undisturbed' => disk' = disk \ {req[r].what}
    BY <1>0, <1>5 DEF UnregisterRow
  <2> QED
    BY <1>5, <2>1, UnregisterRowKeeps DEF UnregisterRow
<1>6. CASE CreateRow(r)
  <2>1. CASE rows' = rows \cup {req[r].on} /\ NoFault /\ req[r].what = None /\ Finish(r)
    BY <1>6, <2>1, CreatedKeeps DEF CreateRow
  <2>2. CASE rows' = rows \cup {req[r].on} /\ NoFault /\ req[r].what # None /\ Goto(r, "row")
    BY <1>6, <2>2, CreateRowKeeps DEF CreateRow
  <2>3. CASE Finish(r) /\ UNCHANGED rows /\ (NoFault \/ Fault)
    BY <1>6, <2>3, EndKeeps DEF CreateRow
  <2> QED
    BY <1>6, <2>1, <2>2, <2>3 DEF CreateRow
<1>7. CASE CreateHook(r)
  <2>1. /\ At(r, {"create"}, "row") /\ InsertHook(HookOf(req[r])) /\ UNCHANGED clash
        /\ IF HookOf(req[r]) \in disk' THEN Goto(r, "memory") ELSE Finish(r)
    BY <1>7 DEF CreateHook
  <2>2. HookOf(req[r]).session = req[r].on
    BY DEF HookOf
  <2>3. CASE disk' = disk \cup {HookOf(req[r])} /\ NoFault
    <3>1. Goto(r, "memory")
      BY <2>1, <2>3
    <3> QED
      BY <1>7, <2>1, <2>3, <3>1, CreateHookKeeps DEF CreateHook
  <2>4. CASE UNCHANGED disk /\ HookOf(req[r]) \in disk /\ (NoFault \/ Fault)
    <3>1. Goto(r, "memory") /\ disk' = disk \cup {HookOf(req[r])}
      BY <2>1, <2>4
    <3> QED
      BY <1>7, <2>1, <2>4, <3>1, CreateHookKeeps DEF CreateHook
  <2>5. CASE UNCHANGED disk /\ HookOf(req[r]) \notin disk /\ (NoFault \/ Fault)
    <3>1. Finish(r)
      BY <2>1, <2>5
    <3> QED
      BY <1>7, <2>1, <2>5, <3>1, EndKeeps DEF CreateHook
  <2> QED
    BY <2>1, <2>3, <2>4, <2>5 DEF InsertHook
<1>8. CASE CreateInMemory(r)
  BY <1>0, <1>8, CreateInMemoryKeeps DEF CreateInMemory
<1> QED
  BY <1>2, <1>3, <1>4, <1>5, <1>6, <1>7, <1>8

LEMMA RemovalStepsKeep ==
  ASSUME TypeOK, RegistryInv, NEW r \in Requests,
         Forget(r) \/ PurgeRows(r) \/ EraseRow(r)
  PROVE  RegistryInv'
<1>0. UNCHANGED faults => NoFault
  BY DEF NoFault
<1>1. CASE Forget(r)
  <2>1. /\ At(r, Removing, "forget") /\ mem' = {h \in mem : h.session # req[r].on}
        /\ NoFault /\ UNCHANGED <<table, disk, file, access, boot, seen, served>>
    BY <1>0, <1>1 DEF Forget
  <2>2. CASE req[r].op = "delete"
    BY <1>1, <2>1, <2>2, ForgetKeeps DEF Forget
  <2>3. CASE req[r].op # "delete"
    BY <1>1, <2>1, <2>3, ForgetKeeps DEF Forget
  <2> QED
    BY <2>2, <2>3
<1>2. CASE PurgeRows(r)
  <2>1. CASE disk' = {h \in disk : h.session # req[r].on} /\ Goto(r, "erase") /\ NoFault
    BY <1>2, <2>1, PurgeRowsKeeps DEF PurgeRows
  <2>2. CASE UNCHANGED disk /\ Finish(r) /\ Fault
    BY <1>2, <2>2, FaultDisturbs, EndKeeps DEF PurgeRows
  <2> QED
    BY <1>2, <2>1, <2>2 DEF PurgeRows
<1>3. CASE EraseRow(r)
  <2>1. CASE UNCHANGED <<rows, disk, token, gone>> /\ Fault
    BY <1>3, <2>1, FaultDisturbs, EndKeeps DEF EraseRow
  <2>2. CASE ~(UNCHANGED <<rows, disk, token, gone>> /\ Fault)
    BY <1>3, <2>2, EraseRowKeeps DEF EraseRow
  <2> QED
    BY <2>1, <2>2
<1> QED
  BY <1>1, <1>2, <1>3

LEMMA TagStepsKeep ==
  ASSUME TypeOK, RegistryInv, NEW r \in Requests,
         DropKey(r) \/ Snapshot(r) \/ Truncate(r) \/ Write(r)
  PROVE  RegistryInv'
<1>0. UNCHANGED faults => NoFault
  BY DEF NoFault
<1>1. CASE DropKey(r)
  BY <1>0, <1>1, DropKeyKeeps DEF DropKey
<1>2. CASE Snapshot(r)
  BY <1>0, <1>2, SnapshotKeeps DEF Snapshot
<1>3. CASE Truncate(r)
  <2>1. CASE file' = Torn /\ Goto(r, "write") /\ NoFault
    BY <1>3, <2>1, TruncateKeeps DEF Truncate
  <2>2. CASE UNCHANGED file /\ AfterWrite(r) /\ Fault /\ req[r].op = "delete"
    BY <1>3, <2>2, FaultDisturbs, UnwrittenKeeps DEF Truncate, AfterWrite
  <2>3. CASE UNCHANGED file /\ AfterWrite(r) /\ Fault /\ req[r].op # "delete"
    BY <1>3, <2>3, FaultDisturbs, EndKeeps DEF Truncate, AfterWrite
  <2> QED
    BY <1>3, <2>1, <2>2, <2>3 DEF Truncate
<1>4. CASE Write(r)
  <2>1. CASE req[r].op = "delete"
    BY <1>0, <1>4, <2>1, DeleteWriteKeeps DEF Write, AfterWrite
  <2>2. CASE req[r].op # "delete"
    BY <1>0, <1>4, <2>2, WriteKeeps DEF Write, AfterWrite
  <2> QED
    BY <2>1, <2>2
<1> QED
  BY <1>1, <1>2, <1>3, <1>4

LEMMA TokenStepsKeep ==
  ASSUME TypeOK, RegistryInv, NEW r \in Requests,
         \/ MintRow(r) \/ MintIds(r) \/ MintPrefixes(r) \/ RevokeRow(r)
         \/ ReadStatus(r) \/ ReadScope(r) \/ Answer(r)
  PROVE  RegistryInv'
<1>0. UNCHANGED faults => NoFault
  BY DEF NoFault
<1>1. CASE MintRow(r)
  <2>1. CASE UNCHANGED token /\ Finish(r) /\ Fault
    BY <1>1, <2>1, FaultDisturbs, EndKeeps DEF MintRow
  <2>2. CASE ~(UNCHANGED token /\ Finish(r) /\ Fault)
    BY <1>1, <2>2, MintRowKeeps DEF MintRow
  <2> QED
    BY <2>1, <2>2
<1>2. CASE MintIds(r)
  <2>1. CASE UNCHANGED token /\ Finish(r) /\ (NoFault \/ Fault)
    BY <1>2, <2>1, EndKeeps DEF MintIds, At
  <2>2. CASE ~(UNCHANGED token /\ Finish(r) /\ (NoFault \/ Fault))
    BY <1>2, <2>2, MintIdsKeeps DEF MintIds
  <2> QED
    BY <2>1, <2>2
<1>3. CASE MintPrefixes(r)
  <2>1. CASE UNCHANGED <<token, issued>> /\ Fault
    BY <1>3, <2>1, FaultDisturbs, EndKeeps DEF MintPrefixes
  <2>2. CASE ~(UNCHANGED <<token, issued>> /\ Fault)
    BY <1>3, <2>2, MintPrefixesKeeps DEF MintPrefixes
  <2> QED
    BY <2>1, <2>2
<1>4. CASE RevokeRow(r)
  <2>1. CASE UNCHANGED <<token, revoked>> /\ Fault
    BY <1>4, <2>1, FaultDisturbs, EndKeeps DEF RevokeRow
  <2>2. CASE ~(UNCHANGED <<token, revoked>> /\ Fault)
    BY <1>4, <2>2, RevokeRowKeeps DEF RevokeRow
  <2> QED
    BY <2>1, <2>2
<1>5. CASE ReadStatus(r)
  <2>1. CASE Finish(r) /\ (NoFault \/ Fault)
    BY <1>5, <2>1, EndKeeps DEF ReadStatus, At
  <2>2. CASE ~(Finish(r) /\ (NoFault \/ Fault))
    BY <1>5, <2>2, ReadStatusKeeps DEF ReadStatus
  <2> QED
    BY <2>1, <2>2
<1>6. CASE ReadScope(r)
  <2>1. CASE Finish(r)
    BY <1>0, <1>6, <2>1, EndKeeps DEF ReadScope, At
  <2>2. CASE ~Finish(r)
    BY <1>0, <1>6, <2>2, ReadScopeKeeps DEF ReadScope
  <2> QED
    BY <2>1, <2>2
<1>7. CASE Answer(r)
  BY <1>0, <1>7, EndKeeps DEF Answer, At
<1> QED
  BY <1>1, <1>2, <1>3, <1>4, <1>5, <1>6, <1>7

LEMMA NextKeeps ==
  ASSUME TypeOK, RegistryInv, Next
  PROVE  RegistryInv'
<1>0. UNCHANGED faults => NoFault
  BY DEF NoFault
<1>1. ASSUME NEW r \in Requests, Ask(r) PROVE RegistryInv'
  BY <1>1, AskKeeps
<1>2. ASSUME NEW r \in Requests, Step(r) PROVE RegistryInv'
  BY <1>2, HookStepsKeep, RemovalStepsKeep, TagStepsKeep, TokenStepsKeep DEF Step
<1>3. CASE BootList
  BY <1>0, <1>3, BootListKeeps DEF BootList
<1>4. CASE BootRead
  <2>1. ASSUME NEW s \in boot.todo,
               boot' = [at |-> "load", todo |-> boot.todo \ {s},
                        view |-> {h \in disk : h.session = s}],
               NoFault
        PROVE  RegistryInv'
    BY <1>4, <2>1, BootReadKeeps DEF BootRead
  <2>2. ASSUME NEW s \in boot.todo, boot' = [boot EXCEPT !.todo = @ \ {s}], Fault
        PROVE  RegistryInv'
    BY <1>4, <2>2, BootSkipKeeps DEF BootRead
  <2>3. CASE boot.todo = {} /\ boot' = Booted /\ NoFault
    BY <1>4, <2>3, BootDoneKeeps DEF BootRead
  <2> QED
    BY <1>4, <2>1, <2>2, <2>3 DEF BootRead
<1>5. CASE BootLoad
  BY <1>0, <1>5, BootLoadKeeps DEF BootLoad
<1> QED
  BY <1>1, <1>2, <1>3, <1>4, <1>5, RestartKeeps, ReloadKeeps, CrashKeeps DEF Next

-----------------------------------------------------------------------------
(* The types.                                                              *)

\* The types of the state beside the requests.
StateOK ==
  /\ linked \in BOOLEAN /\ ops \in Mixes /\ rows \subseteq Sessions
  /\ disk \subseteq Hook /\ mem \subseteq Hook
  /\ tags \in Label /\ file \in Label \cup {Torn}
  /\ token \in [Tokens -> [row : BOOLEAN, revoked : BOOLEAN, scope : Scope]]
  /\ boot \in [at : {"list", "walk", "load", "done"}, todo : SUBSET Sessions, view : SUBSET Hook]
  /\ asked \in [Tokens -> Scope] /\ issued \subseteq Tokens /\ revoked \subseteq issued
  /\ removed \subseteq Hook /\ gone \subseteq Sessions
  /\ served \in 0..MaxRequests /\ faults \in 0..MaxFaults

LEMMA StateFault == faults \in 0..MaxFaults /\ (Fault \/ NoFault) => faults' \in 0..MaxFaults
BY RegistryAssumption DEF Fault, NoFault

LEMMA StateAsk ==
  ASSUME StateOK, NEW r \in Requests, Ask(r)
  PROVE  StateOK' /\ DOMAIN req' = DOMAIN req /\ (clash \in BOOLEAN => clash' \in BOOLEAN)
<1>1. ASSUME NEW op, NEW at, NEW on, NEW what, Begin(r, op, at, on, what)
      PROVE  /\ DOMAIN req' = DOMAIN req /\ (clash \in BOOLEAN => clash' \in BOOLEAN)
             /\ served' \in 0..MaxRequests /\ gone' \subseteq Sessions
  BY <1>1, RegistryAssumption DEF StateOK, Begin
<1>2. ASSUME NEW s \in Sessions, NEW u \in Urls, Register(r, s, u)
      PROVE  StateOK' /\ DOMAIN req' = DOMAIN req /\ (clash \in BOOLEAN => clash' \in BOOLEAN)
  BY <1>1, <1>2 DEF StateOK, Register
<1>3. ASSUME NEW s \in Sessions, NEW u \in Urls \cup {None}, Create(r, s, u)
      PROVE  StateOK' /\ DOMAIN req' = DOMAIN req /\ (clash \in BOOLEAN => clash' \in BOOLEAN)
  BY <1>1, <1>3 DEF StateOK, Create
<1>4. ASSUME NEW s \in Sessions, NEW op \in Removing, Remove(r, op, s)
      PROVE  StateOK' /\ DOMAIN req' = DOMAIN req /\ (clash \in BOOLEAN => clash' \in BOOLEAN)
  BY <1>1, <1>4 DEF StateOK, Remove
<1>5. ASSUME NEW s \in Sessions, NEW ts \in SUBSET Tags, SetTags(r, s, ts)
      PROVE  StateOK' /\ DOMAIN req' = DOMAIN req /\ (clash \in BOOLEAN => clash' \in BOOLEAN)
  BY <1>1, <1>5 DEF StateOK, SetTags, Label
<1>6. ASSUME NEW s \in Sessions, NEW t \in Tags, AddTag(r, s, t)
      PROVE  StateOK' /\ DOMAIN req' = DOMAIN req /\ (clash \in BOOLEAN => clash' \in BOOLEAN)
  BY <1>1, <1>6 DEF StateOK, AddTag, Label
<1>7. ASSUME NEW s \in Sessions, NEW t \in Tags, RemoveTag(r, s, t)
      PROVE  StateOK' /\ DOMAIN req' = DOMAIN req /\ (clash \in BOOLEAN => clash' \in BOOLEAN)
  BY <1>1, <1>7 DEF StateOK, RemoveTag, Label
<1>8. ASSUME NEW h \in mem, Unregister(r, h)
      PROVE  StateOK' /\ DOMAIN req' = DOMAIN req /\ (clash \in BOOLEAN => clash' \in BOOLEAN)
  BY <1>1, <1>8 DEF StateOK, Unregister
<1>9. ASSUME NEW t \in Tokens, NEW scope \in Scope, Mint(r, t, scope)
      PROVE  StateOK' /\ DOMAIN req' = DOMAIN req /\ (clash \in BOOLEAN => clash' \in BOOLEAN)
  BY <1>1, <1>9 DEF StateOK, Mint
<1>10. ASSUME NEW t \in Tokens, Revoke(r, t)
      PROVE  StateOK' /\ DOMAIN req' = DOMAIN req /\ (clash \in BOOLEAN => clash' \in BOOLEAN)
  BY <1>1, <1>10 DEF StateOK, Revoke
<1>11. ASSUME NEW t \in Tokens, NEW target \in Targets, Use(r, t, target)
      PROVE  StateOK' /\ DOMAIN req' = DOMAIN req /\ (clash \in BOOLEAN => clash' \in BOOLEAN)
  BY <1>1, <1>11 DEF StateOK, Use
<1> QED
  BY <1>2, <1>3, <1>4, <1>5, <1>6, <1>7, <1>8, <1>9, <1>10, <1>11 DEF Ask

LEMMA StateStep ==
  ASSUME StateOK, FormInv, UseInv, NEW r \in Requests, Step(r)
  PROVE  StateOK' /\ DOMAIN req' = DOMAIN req /\ UNCHANGED clash
<1> USE DEF At
<1>1. Formed(req[r])
  BY DEF FormInv
<1>2. /\ req[r].op \in {"register", "create", "set", "add", "remove", "delete", "purge"} =>
           req[r].on \in Sessions
      /\ req[r].op \in {"mint", "revoke", "use"} => req[r].on \in Tokens
      /\ req[r].op = "unregister" => req[r].what \in Hook
      /\ req[r].at \in {"truncate", "write"} => req[r].view \in Label
      /\ req[r].op = "revoke" => req[r].on \in issued
  BY <1>1 DEF Formed, UseInv
<1>3. req[r].op = "register" \/ (req[r].op = "create" /\ req[r].at # "insert") =>
        HookOf(req[r]) \in Hook
  <2>1. req[r].no \in 1..MaxRequests
          \/ req[r].op = "idle"
    BY <1>1 DEF Formed
  <2>2. req[r].op = "register" \/ (req[r].op = "create" /\ req[r].at # "insert") =>
          req[r].what \in Urls
    BY <1>1 DEF Formed
  <2> QED
    BY <1>2, <2>1, <2>2 DEF HookOf, Hook
<1>4. CASE LookUp(r)
  BY <1>2, <1>3, <1>4, StateFault DEF StateOK, LookUp, Goto, Finish, NoFault
<1>5. CASE RegisterInMemory(r)
  BY <1>2, <1>3, <1>5, StateFault DEF StateOK, RegisterInMemory, Goto, Finish, NoFault
<1>6. CASE RegisterRow(r)
  BY <1>2, <1>3, <1>6, StateFault
     DEF StateOK, RegisterRow, InsertHook, Goto, Finish, NoFault
<1>7. CASE UnregisterRow(r)
  BY <1>2, <1>3, <1>7, StateFault DEF StateOK, UnregisterRow, Goto, Finish, NoFault
<1>8. CASE CreateRow(r)
  BY <1>2, <1>3, <1>8, StateFault DEF StateOK, CreateRow, Goto, Finish, NoFault
<1>9. CASE CreateHook(r)
  BY <1>2, <1>3, <1>9, StateFault DEF StateOK, CreateHook, InsertHook, Goto, Finish, NoFault
<1>10. CASE CreateInMemory(r)
  BY <1>2, <1>3, <1>10, StateFault DEF StateOK, CreateInMemory, Goto, Finish, NoFault
<1>11. CASE Forget(r)
  BY <1>2, <1>3, <1>11, StateFault
     DEF StateOK, Forget, Label, Removing, Goto, Finish, NoFault
<1>12. CASE PurgeRows(r)
  BY <1>2, <1>3, <1>12, StateFault DEF StateOK, PurgeRows, Removing, Goto, Finish, NoFault
<1>13. CASE EraseRow(r)
  <2> DEFINE Left(t) == [token[t] EXCEPT !.scope.ids = @ \ {req[r].on}]
  <2>1. ASSUME NEW t \in Tokens
        PROVE  Left(t) \in [row : BOOLEAN, revoked : BOOLEAN, scope : Scope]
    <3>1. token[t] \in [row : BOOLEAN, revoked : BOOLEAN, scope : Scope]
      BY DEF StateOK
    <3> QED
      BY <3>1 DEF Scope
  <2>2. token' \in [Tokens -> [row : BOOLEAN, revoked : BOOLEAN, scope : Scope]]
    <3>1. token' = [t \in Tokens |-> Left(t)] \/ token' = token
      BY <1>13 DEF EraseRow
    <3> HIDE DEF Left
    <3> QED
      BY <2>1, <3>1 DEF StateOK
  <2> QED
    BY <1>2, <1>13, <2>2, StateFault DEF StateOK, EraseRow, Removing, Finish
<1>14. CASE DropKey(r)
  BY <1>2, <1>3, <1>14, StateFault DEF StateOK, DropKey, Label, Goto, Finish, NoFault
<1>15. CASE Snapshot(r)
  BY <1>2, <1>3, <1>15, StateFault DEF StateOK, Snapshot, Goto, Finish, NoFault
<1>16. CASE Truncate(r)
  BY <1>2, <1>3, <1>16, StateFault DEF StateOK, Truncate, AfterWrite, Goto, Finish, NoFault
<1>17. CASE Write(r)
  BY <1>2, <1>3, <1>17, StateFault DEF StateOK, Write, AfterWrite, Goto, Finish, NoFault
<1>18. CASE MintRow(r)
  BY <1>2, <1>3, <1>18, StateFault DEF StateOK, MintRow, Goto, Finish, NoFault
<1>19. CASE MintIds(r)
  <2>1. ASSUME NEW t \in Tokens
        PROVE  [token EXCEPT ![t].scope.ids = asked[t].ids] \in
                 [Tokens -> [row : BOOLEAN, revoked : BOOLEAN, scope : Scope]]
    <3>1. token[t].scope \in Scope /\ asked[t] \in Scope
      BY DEF StateOK
    <3>2. [token[t].scope EXCEPT !.ids = asked[t].ids] \in Scope
      BY <3>1 DEF Scope
    <3> QED
      BY <3>2 DEF StateOK
  <2>2. req[r].on \in Tokens
    BY <1>2, <1>19 DEF MintIds
  <2>3. token' \in [Tokens -> [row : BOOLEAN, revoked : BOOLEAN, scope : Scope]]
    BY <1>19, <2>1, <2>2 DEF StateOK, MintIds
  <2> QED
    BY <1>19, <2>3, StateFault DEF StateOK, MintIds, Goto, Finish, NoFault
<1>20. CASE MintPrefixes(r)
  BY <1>2, <1>3, <1>20, StateFault DEF StateOK, MintPrefixes, Scope, Goto, Finish, NoFault
<1>21. CASE RevokeRow(r)
  BY <1>2, <1>3, <1>21, StateFault DEF StateOK, RevokeRow, Goto, Finish, NoFault
<1>22. CASE ReadStatus(r)
  BY <1>2, <1>3, <1>22, StateFault DEF StateOK, ReadStatus, Goto, Finish, NoFault
<1>23. CASE ReadScope(r)
  BY <1>2, <1>3, <1>23, StateFault DEF StateOK, ReadScope, Goto, Finish, NoFault
<1>24. CASE Answer(r)
  BY <1>2, <1>3, <1>24, StateFault DEF StateOK, Answer, Goto, Finish, NoFault
<1> QED
  BY <1>4, <1>5, <1>6, <1>7, <1>8, <1>9, <1>10, <1>11, <1>12, <1>13, <1>14, <1>15, <1>16,
     <1>17, <1>18, <1>19, <1>20, <1>21, <1>22, <1>23, <1>24
     DEF Step

LEMMA StateBoot ==
  ASSUME StateOK, DOMAIN req = Requests,
         BootList \/ BootRead \/ BootLoad \/ Restart \/ Reload \/ Crash
  PROVE  StateOK' /\ DOMAIN req' = Requests /\ (clash \in BOOLEAN => clash' \in BOOLEAN)
<1>1. CASE BootList
  BY <1>1 DEF StateOK, BootList
<1>2. CASE BootRead
  BY <1>2, StateFault DEF StateOK, BootRead, Booted, Unbooted, NoFault
<1>3. CASE BootLoad
  BY <1>3 DEF StateOK, BootLoad
<1>4. CASE Restart
  BY <1>4 DEF StateOK, Restart, Unbooted, NoTags, Label
<1>5. CASE Reload
  BY <1>5, RegistryAssumption DEF StateOK, Reload, Unbooted
<1>6. CASE Crash
  BY <1>6, StateFault DEF StateOK, Crash, Unbooted, NoTags, Label
<1> QED
  BY <1>1, <1>2, <1>3, <1>4, <1>5, <1>6

LEMMA TypeHolds ==
  StateOK /\ FormInv /\ DOMAIN req = Requests /\ clash \in BOOLEAN => TypeOK
<1> SUFFICES ASSUME StateOK, FormInv, DOMAIN req = Requests, clash \in BOOLEAN
             PROVE  TypeOK
  OBVIOUS
<1>1. ASSUME NEW r \in Requests
      PROVE  req[r].op \in AllOps \cup {"idle"} /\ req[r].no \in 0..MaxRequests
  <2>1. Formed(req[r])
    BY DEF FormInv
  <2>2. req[r].op \in AllOps \cup {"idle"}
    BY <2>1 DEF Formed
  <2>3. req[r].no = 0 \/ req[r].no \in 1..MaxRequests
    BY <2>1 DEF Formed
  <2> QED
    BY <2>2, <2>3, RegistryAssumption
<1> QED
  BY <1>1 DEF TypeOK, StateOK

LEMMA TypeKept ==
  ASSUME TypeOK, RegistryInv, Next
  PROVE  TypeOK'
<1>1. StateOK /\ FormInv /\ UseInv /\ DOMAIN req = Requests /\ clash \in BOOLEAN
  BY DEF TypeOK, StateOK, RegistryInv
<1>2. FormInv'
  BY NextKeeps DEF RegistryInv
<1>3. ASSUME NEW r \in Requests, Ask(r) \/ Step(r)
      PROVE  StateOK' /\ DOMAIN req' = Requests /\ clash' \in BOOLEAN
  BY <1>1, <1>3, StateAsk, StateStep
<1>4. StateOK' /\ DOMAIN req' = Requests /\ clash' \in BOOLEAN
  BY <1>1, <1>3, StateBoot DEF Next
<1>5. (StateOK /\ FormInv /\ DOMAIN req = Requests /\ clash \in BOOLEAN)' => TypeOK'
  BY TypeHolds, PTL
<1> QED
  BY <1>2, <1>4, <1>5

LEMMA InitHolds == Init => TypeOK /\ RegistryInv
<1> SUFFICES ASSUME Init PROVE TypeOK /\ RegistryInv
  OBVIOUS
<1>1. \A r \in Requests : req[r] = Idle /\ Formed(req[r]) /\ req[r].op = "idle" /\ req[r].no = 0
  BY IdleIsFormed DEF Init
<1>2. FormInv
  BY <1>1 DEF FormInv, Init
<1>3. StateOK /\ DOMAIN req = Requests /\ clash \in BOOLEAN
  <2>1. NoTags \in Label /\ Nothing \in Scope
    BY DEF NoTags, Label, Nothing, Scope
  <2>2. boot \in [at : {"list", "walk", "load", "done"}, todo : SUBSET Sessions,
                  view : SUBSET Hook]
    BY DEF Init, Booted, Unbooted
  <2>3. /\ token \in [Tokens -> [row : BOOLEAN, revoked : BOOLEAN, scope : Scope]]
        /\ asked \in [Tokens -> Scope]
    BY <2>1 DEF Init
  <2>4. served \in 0..MaxRequests /\ faults \in 0..MaxFaults
    BY RegistryAssumption DEF Init
  <2>5. /\ linked \in BOOLEAN /\ ops \in Mixes /\ rows \subseteq Sessions
        /\ disk \subseteq Hook /\ mem \subseteq Hook
        /\ issued \subseteq Tokens /\ revoked \subseteq issued
        /\ removed \subseteq Hook /\ gone \subseteq Sessions
    BY RegistryAssumption DEF Init
  <2>6. tags \in Label /\ file \in Label \cup {Torn}
    BY <2>1 DEF Init
  <2>7. DOMAIN req = Requests /\ clash \in BOOLEAN
    BY DEF Init
  <2> QED
    BY <2>2, <2>3, <2>4, <2>5, <2>6, <2>7 DEF StateOK
<1>4. BootInv
  BY DEF Init, BootInv, Booted, Unbooted
<1>5. ApartInv
  BY <1>1 DEF ApartInv, Busy, Removing
<1>6. TokenInv /\ UseInv /\ TagInv
  BY <1>1 DEF Init, TokenInv, UseInv, TagInv, Within, Nothing, Tagging
<1>7. HookInv
  BY <1>1
     DEF Init, HookInv, NumberInv, SessionInv, MakingInv, RemovedInv, ErasingInv, GoneInv,
         
              ServedInv, StoredInv, Booted, Unbooted, Removing
<1> QED
  BY <1>2, <1>3, <1>4, <1>5, <1>6, <1>7, TypeHolds DEF RegistryInv, HookInv

LEMMA Stutter == TypeOK /\ RegistryInv /\ UNCHANGED vars => TypeOK' /\ RegistryInv'
<1> SUFFICES ASSUME TypeOK, RegistryInv, UNCHANGED vars PROVE TypeOK' /\ RegistryInv'
  OBVIOUS
<1> USE DEF RegistryInv, vars
<1>1. TypeOK'
  BY DEF TypeOK
<1>2. FormInv' /\ BootInv' /\ TokenInv' /\ UseInv'
  BY DEF FormInv, BootInv, TokenInv, UseInv
<1>3. ApartInv'
  BY DEF ApartInv, Busy, MayLoad
<1>4. TagInv' /\ NumberInv' /\ SessionInv' /\ MakingInv' /\ RemovedInv'
  BY DEF TagInv, NumberInv, SessionInv, MakingInv, RemovedInv, HookOf, Undisturbed
<1>5. ErasingInv' /\ GoneInv'
  BY DEF ErasingInv, GoneInv, Undisturbed
<1>6. ServedInv' /\ StoredInv'
  BY DEF ServedInv, StoredInv, HookOf, Undisturbed, MayLoad
<1> QED
  BY <1>1, <1>2, <1>3, <1>4, <1>5, <1>6

-----------------------------------------------------------------------------
(* The theorems.                                                           *)

\* Every variable has its type, and the inductive invariant holds: which request or load
\* closes each gap between what is served and what is stored.
THEOREM RegistryInvariant == Spec => [](TypeOK /\ RegistryInv)
<1>1. TypeOK /\ RegistryInv /\ [Next]_vars => TypeOK' /\ RegistryInv'
  BY NextKeeps, TypeKept, Stutter
<1> QED
  BY InitHolds, <1>1, PTL DEF Spec

\* A request let in after its token was answered revoked, or beyond the scope the token was
\* asked for, reaches no handler (jwt_auth_middleware, TokenStatus::covers).
THEOREM TokensAreHeld == Spec => []TokensKeepTheirScope
<1>1. TypeOK /\ RegistryInv => TokensKeepTheirScope
  <2> SUFFICES ASSUME UseInv, NEW r \in Requests, At(r, {"use"}, "inside")
               PROVE  /\ ~req[r].late /\ req[r].on \in issued
                      /\ \A s \in Touches(req[r]) : Covers(asked[req[r].on], s)
    BY DEF RegistryInv, TokensKeepTheirScope
  <2>1. /\ ~req[r].late /\ req[r].on \in issued
        /\ Within(req[r].view, asked[req[r].on])
        /\ req[r].what.target \in Sessions => Covers(req[r].view, req[r].what.target)
    BY DEF UseInv, At
  <2>2. \A s \in Touches(req[r]) : Covers(req[r].view, s)
    BY <2>1 DEF Touches
  <2> QED
    BY <2>1, <2>2 DEF Covers, Within
<1> QED
  BY <1>1, RegistryInvariant, PTL

\* Requests, loads and restarts leave the same webhooks in the registry and in its table, and
\* none that was removed is served (register_webhook, unregister_webhook, load_session_webhooks).
THEOREM ServedIsStored == Spec => []RegistryIsStored
<1>1. TypeOK /\ RegistryInv => RegistryIsStored
  <2> SUFFICES ASSUME BootInv, RemovedInv, ServedInv, StoredInv, Undisturbed
               PROVE  (Quiet => mem = disk) /\ removed \cap mem = {}
    BY DEF RegistryInv, RegistryIsStored, Undisturbed
  <2>1. removed \cap mem = {}
    BY DEF RemovedInv
  <2>2. ASSUME Quiet PROVE mem = disk
    <3>1. \A r \in Requests : req[r].op = "idle"
      BY <2>2 DEF Quiet, Busy
    <3>2. \A h \in disk : ~MayLoad(h)
      BY <2>2 DEF Quiet, MayLoad, BootInv
    <3> QED
      BY <3>1, <3>2 DEF ServedInv, StoredInv, Removing
  <2> QED
    BY <2>1, <2>2
<1> QED
  BY <1>1, RegistryInvariant, PTL

\* A session that was deleted leaves no webhook to another of its id (delete_session,
\* purge_sessions, purge_dependents).
THEOREM NothingIsLeft == Spec => []DeletedLeavesNothing
<1>1. TypeOK /\ RegistryInv => DeletedLeavesNothing
  BY DEF RegistryInv, DeletedLeavesNothing, GoneInv, Undisturbed
<1> QED
  BY <1>1, RegistryInvariant, PTL

\* Between requests the file has the tags that are served (persist_tags).
THEOREM TagsAreStored == Spec => []TagsAreKept
<1>1. TypeOK /\ RegistryInv => TagsAreKept
  BY DEF RegistryInv, TagsAreKept, TagInv, Undisturbed, Quiet, Busy, Tagging
<1> QED
  BY <1>1, RegistryInvariant, PTL
====
