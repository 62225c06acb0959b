------------------------------ MODULE Sessions ------------------------------
(***************************************************************************)
(* The lifecycle of one whatsapp_web session: its row in the database, its *)
(* store on disk, its runtime in the map of AppState, and the tasks that   *)
(* work on the three at once - the requests of operators, the connect      *)
(* tasks and the clients they run, the handler of each client's events,    *)
(* the reconnect watchdog and the walk over the sessions at startup.       *)
(*                                                                         *)
(* An action is what a task does from one await to the next.  The client   *)
(* library is external: its client reports to one handler at a time, in    *)
(* order, and what it has not reported yet is the difference between its   *)
(* socket (sock) and its last report (told).  A request that is refused    *)
(* before it changes anything is no step.                                  *)
(*                                                                         *)
(* Left out: QR and pair codes as data, event payloads, the reconnect      *)
(* timer and the silence of a socket (the watchdog may find either at any  *)
(* time), paused clients, device properties, the SSE stream of /wait.      *)
(***************************************************************************)
EXTENDS Naturals, FiniteSets

CONSTANTS
  Clients,     \* the connect tasks there may be at a time, each with the client it builds
  Runtimes,    \* SessionStates the map can hold, one after the other
  Requests,    \* requests of operators, each made once
  Ops,         \* the requests operators make
  Watchdog, Boot,
  NoClient, NoRuntime,
  PurgeAfter,  \* logouts in the window that unlink the session
  MaxFaults,   \* bound: lost statements, failed builds, abandoned requests, restarts
  MaxDrops     \* bound: sockets that drop

AllOps == {"connect", "wait", "pair", "create", "disconnect", "disconnectAll", "logout",
           "delete", "export", "import", "cloud", "sweep"}
Workers == {Watchdog, Boot}
Agents == Requests \cup Clients \cup Workers

ASSUME SessionsAssumption ==
  /\ Ops \subseteq AllOps
  /\ Watchdog # Boot
  /\ Requests \cap (Clients \cup Workers) = {}
  /\ Clients \cap Workers = {}
  /\ NoClient \notin Clients
  /\ NoRuntime \notin Runtimes
  /\ PurgeAfter \in Nat \ {0}
  /\ {MaxFaults, MaxDrops} \subseteq Nat

Statuses == {"Disconnected", "Connecting", "WaitingForQr", "WaitingForPairCode", "LoggedIn"}

\* What update_session_status writes.  The walk at startup, the one reader that acts on the status
\* of a row, tells only these apart.
RowStatuses == {"Disconnected", "Connecting", "LoggedIn"}
Claims == [status : RowStatuses, loggedIn : BOOLEAN]
Claim(st) ==
  [status |-> IF st \in {"Connecting", "LoggedIn"} THEN st ELSE "Disconnected",
   loggedIn |-> st = "LoggedIn"]

VARIABLES
  row,        \* the row of table sessions: there, status, loggedIn, cloud
  store,      \* the store on disk holds a WhatsApp login
  current,    \* AppState.sessions
  status, slot, cooling, logouts,  \* SessionState: status, client, lock_cooldown_until, logout_history
  born,       \* the runtimes used so far
  task,       \* connect tasks: pc, pair or QR, who spawned it, the runtime it found
  net,        \* clients: socket, last report, login loaded, shutdown asked
  agent,      \* requests, handlers, watchdog and walk: op, pc, runtime, client, row to write
  disturbed,  \* observation: control operations have overlapped, a reconnect-all met an
              \* installed client or a cooldown, or a logout was abandoned with its client
              \* taken out
  turned,     \* observation: a connect ended because its session had turned cloud
  faults, drops

runtimeVars == <<current, status, slot, cooling, logouts, born>>
seenVars == <<disturbed, turned>>
boundVars == <<faults, drops>>
vars == <<row, store, runtimeVars, task, net, agent, seenVars, boundVars>>

TaskPC == {"unused", "path", "open", "cloud", "install", "note", "run", "mark"}
AgentPC == {"idle", "stopped", "path", "insert", "leave", "upath", "reset", "write", "snapshot",
            "rmdir", "erase", "zip", "unzip", "provider", "remove", "respawn", "list",
            "done"}
AgentOps == AllOps \cup {"none", "say", "loggedOut", "locked", "rebuild", "boot"}
Origins == {"connect", "wait", "pair", "create", "rebuild", "boot"}

Idle == [op |-> "none", pc |-> "idle", rt |-> NoRuntime, old |-> NoClient,
         say |-> Claim("Disconnected")]
Unused == [pc |-> "unused", pair |-> FALSE, origin |-> "connect", rt |-> NoRuntime]
Unbuilt == [sock |-> "off", told |-> "none", linked |-> FALSE, stopped |-> FALSE]

TypeOK ==
  /\ row \in [there : BOOLEAN, status : RowStatuses, loggedIn : BOOLEAN, cloud : BOOLEAN]
  /\ store \in BOOLEAN
  /\ current \in Runtimes \cup {NoRuntime}
  /\ status \in [Runtimes -> Statuses]
  /\ slot \in [Runtimes -> Clients \cup {NoClient}]
  /\ cooling \in [Runtimes -> BOOLEAN]
  /\ logouts \in [Runtimes -> 0..(PurgeAfter - 1)]
  /\ born \in SUBSET Runtimes
  /\ task \in [Clients -> [pc : TaskPC, pair : BOOLEAN, origin : Origins,
                           rt : Runtimes \cup {NoRuntime}]]
  /\ net \in [Clients -> [sock : {"off", "open", "in"}, told : {"none", "qr", "in", "off", "out"},
                          linked : BOOLEAN, stopped : BOOLEAN]]
  /\ agent \in [Agents -> [op : AgentOps, pc : AgentPC, rt : Runtimes \cup {NoRuntime},
                           old : Clients \cup {NoClient}, say : Claims]]
  /\ {disturbed, turned} \subseteq BOOLEAN
  /\ faults \in 0..MaxFaults /\ drops \in 0..MaxDrops

\* A process starts: the row and the store are what earlier ones left.
Init ==
  /\ row \in {r \in [there : BOOLEAN, status : {"Disconnected", "LoggedIn"}, loggedIn : BOOLEAN,
                     cloud : {FALSE}] :
                /\ r.loggedIn <=> r.status = "LoggedIn"
                /\ r.loggedIn => r.there}
  /\ store \in BOOLEAN
  /\ row.loggedIn => store
  /\ store => row.there
  /\ current = NoRuntime
  /\ status = [r \in Runtimes |-> "Disconnected"]
  /\ slot = [r \in Runtimes |-> NoClient]
  /\ cooling = [r \in Runtimes |-> FALSE]
  /\ logouts = [r \in Runtimes |-> 0]
  /\ born = {}
  /\ task = [c \in Clients |-> Unused]
  /\ net = [c \in Clients |-> Unbuilt]
  /\ agent = [a \in Agents |-> IF a = Boot THEN [Idle EXCEPT !.op = "boot", !.pc = "list"]
                                           ELSE Idle]
  /\ disturbed = FALSE /\ turned = FALSE
  /\ faults = 0 /\ drops = 0

Fault == faults < MaxFaults /\ faults' = faults + 1

-----------------------------------------------------------------------------
(* What the tasks share.                                                   *)

Steps(a, p) == agent' = [agent EXCEPT ![a].pc = p]
Finish(a) == agent' = [agent EXCEPT ![a] = IF a \in Requests THEN [Idle EXCEPT !.pc = "done"]
                                                             ELSE Idle]
At(a, o, p) == agent[a].op = o /\ agent[a].pc = p

\* A request, the watchdog, the walk or a LoggedOut handler is under way, or a client is being
\* built: the session is not at rest.
Controlled ==
  \/ \E a \in Requests \cup Workers : agent[a].pc \notin {"idle", "done"}
  \/ \E c \in Clients : agent[c].op \in {"loggedOut", "locked", "logout"}
  \/ \E c \in Clients : task[c].pc \in {"path", "open", "cloud", "install"}
Enters == disturbed' = (disturbed \/ Controlled)

\* A request enters at pc p with runtime r; its first statement is part of the step.
Enter(q, o, p, r, c, say) ==
  /\ q \in Requests /\ o \in Ops /\ agent[q] = Idle
  /\ agent' = [agent EXCEPT ![q] = [op |-> o, pc |-> p, rt |-> r, old |-> c, say |-> say]]
  /\ Enters

Down == Claim("Disconnected")

\* update_session_status, whose result every caller drops: a missing row is no error.
WriteRow(say) ==
  \/ /\ row' = IF row.there THEN [row EXCEPT !.status = say.status, !.loggedIn = say.loggedIn]
                            ELSE row
     /\ UNCHANGED faults
  \/ Fault /\ UNCHANGED row

\* client.shutdown(): the client is told before the caller waits for it.
Stop(c) == net' = [net EXCEPT ![c].stopped = @ \/ task[c] # Unused]

\* is_alive
Alive(r) == slot[r] # NoClient /\ net[slot[r]].sock = "in"

\* set_status and set_client(None) on a runtime the caller holds
Lower(r) ==
  /\ status' = [status EXCEPT ![r] = "Disconnected"]
  /\ slot' = [slot EXCEPT ![r] = NoClient]

\* get_or_create_session
GetOrCreate(r) == IF current # NoRuntime THEN r = current ELSE r \in Runtimes \ born

Mapped(r) == GetOrCreate(r) /\ current' = r /\ born' = born \cup {r}

\* Nobody holds a handle of the client.
Dropped(c) ==
  /\ task[c] = Unused /\ agent[c] = Idle
  /\ \A r \in Runtimes : slot[r] # c
  /\ \A a \in Agents : agent[a].old # c

\* Mutant: connecting by hand forgets the cooldown.
Lift_Not(r) == UNCHANGED cooling

\* clear_lock_cooldown
Lift(r) == cooling' = [cooling EXCEPT ![r] = FALSE]

\* The status is set and a connect task spawned.
Spawn(r, st, o) ==
  /\ status' = [status EXCEPT ![r] = st]
  /\ \E c \in Clients :
       /\ Dropped(c)
       /\ task' = [task EXCEPT ![c] = [pc |-> "path", pair |-> o = "pair", origin |-> o,
                                       rt |-> NoRuntime]]

-----------------------------------------------------------------------------
(* connect_client and connect_client_with_pair_code.                       *)

TaskSteps(c, p) == task' = [task EXCEPT ![c].pc = p]
Ends(c) == task' = [task EXCEPT ![c] = Unused]

\* The client is built: from here on it matters only whether a pairing built it.
Built(t, p) == [t EXCEPT !.pc = p, !.rt = NoRuntime,
                         !.origin = IF @ = "pair" THEN "pair" ELSE "connect"]

\* Whose spawner empties the slot when the connect returns an error.
Empties == {"connect", "wait", "rebuild"}

\* Mutant: the spawner only logs the error.
Failed_Logged(c) == Ends(c) /\ UNCHANGED runtimeVars

\* The spawner's answer to an error: the session in the map is not connecting any more.
Failed(c) ==
  /\ Ends(c)
  /\ IF current = NoRuntime
     THEN UNCHANGED <<status, slot>>
     ELSE /\ status' = [status EXCEPT ![current] = "Disconnected"]
          /\ slot' = [slot EXCEPT ![current] =
                        IF task[c].origin \in Empties THEN NoClient ELSE @]
  /\ UNCHANGED <<current, cooling, logouts, born>>

\* get_storage_path
FindPath(c) ==
  /\ task[c].pc = "path"
  /\ \/ row.there /\ TaskSteps(c, "open") /\ UNCHANGED <<runtimeVars, faults>>
     \/ ~row.there /\ Failed(c) /\ UNCHANGED faults
     \/ Fault /\ Failed(c)
  /\ UNCHANGED <<row, store, net, agent, seenVars, drops>>

\* The store is opened and the bot built: the client knows the login the store holds now.  The
\* directory of a deleted session does not open.
OpenStore(c) ==
  /\ task[c].pc = "open"
  /\ \/ /\ net' = [net EXCEPT ![c] = [Unbuilt EXCEPT !.linked = store]]
        /\ TaskSteps(c, "cloud")
        /\ UNCHANGED <<runtimeVars, faults>>
     \/ ~row.there /\ Failed(c) /\ UNCHANGED <<net, faults>>
     \/ Fault /\ Failed(c) /\ UNCHANGED net
  /\ UNCHANGED <<row, store, agent, seenVars, drops>>

\* session_is_cloud, a failed read counting as no; then the runtime is looked up.  A pair-code
\* connect of a linked store starts over as a plain one.
CheckCloud(c) ==
  LET t == task[c] IN
  /\ t.pc = "cloud"
  /\ \/ row.there /\ row.cloud /\ Ends(c) /\ turned' = TRUE /\ UNCHANGED faults
     \/ /\ \/ ~(row.there /\ row.cloud) /\ UNCHANGED faults
           \/ row.cloud /\ Fault
        /\ UNCHANGED turned
        /\ task' = [task EXCEPT ![c] =
             IF t.pair /\ net[c].linked
             THEN [t EXCEPT !.pc = "path", !.pair = FALSE]
             ELSE IF current # NoRuntime
             THEN [t EXCEPT !.pc = "install", !.rt = current]
             ELSE Built(t, IF t.pair THEN "run" ELSE "note")]
  /\ UNCHANGED <<row, store, runtimeVars, net, agent, disturbed, drops>>

\* The chat store is open: the client goes into the slot of the runtime found before.
Install(c) ==
  LET t == task[c] IN
  /\ t.pc = "install"
  /\ slot' = [slot EXCEPT ![t.rt] = c]
  /\ status' = [status EXCEPT ![t.rt] = IF t.pair THEN @ ELSE "WaitingForQr"]
  /\ task' = [task EXCEPT ![c] = Built(t, IF t.pair THEN "run" ELSE "note")]
  /\ UNCHANGED <<row, store, current, cooling, logouts, born, net, agent, seenVars, boundVars>>

\* update_session_status(WaitingForQr), then bot.run() starts
NoteWaiting(c) ==
  /\ task[c].pc = "note"
  /\ WriteRow(Claim("WaitingForQr"))
  /\ TaskSteps(c, "run")
  /\ UNCHANGED <<store, runtimeVars, net, agent, seenVars, drops>>

\* Mutant: whoever returns clears the slot.
StillCurrent_Any(c) == TRUE

\* mark_disconnected_if_still_current: an empty slot counts as one's own.
StillCurrent(c) == slot[current] \in {c, NoClient}

\* bot.run() returns: shut down, or its socket is down and it does not reconnect.
Return(c) ==
  /\ task[c].pc = "run"
  /\ net[c].stopped \/ net[c].sock = "off"
  /\ net' = [net EXCEPT ![c] = Unbuilt]
  /\ IF current = NoRuntime
     THEN TaskSteps(c, "mark") /\ UNCHANGED <<status, slot>>
     ELSE IF StillCurrent(c)
          THEN TaskSteps(c, "mark") /\ Lower(current)
          ELSE Ends(c) /\ UNCHANGED <<status, slot>>
  /\ UNCHANGED <<row, store, current, cooling, logouts, born, agent, seenVars, boundVars>>

MarkRow(c) ==
  /\ task[c].pc = "mark"
  /\ WriteRow(Down)
  /\ Ends(c)
  /\ UNCHANGED <<store, runtimeVars, net, agent, seenVars, drops>>

-----------------------------------------------------------------------------
(* The client: the library's socket, and WhatsApp behind it (external).    *)

Running(c) == task[c].pc = "run"
netOnly == <<row, runtimeVars, task, agent, seenVars, faults>>

Dial(c) ==
  /\ Running(c) /\ ~net[c].stopped /\ net[c].sock = "off" /\ net[c].told # "out"
  /\ net' = [net EXCEPT ![c].sock = "open"]
  /\ UNCHANGED <<netOnly, store, drops>>

\* The user scans the code, or enters it.
Link(c) ==
  /\ Running(c) /\ ~net[c].stopped /\ net[c].sock = "open" /\ ~net[c].linked
  /\ net' = [net EXCEPT ![c].linked = TRUE]
  /\ store' = TRUE
  /\ UNCHANGED <<netOnly, drops>>

LogIn(c) ==
  /\ Running(c) /\ net[c].sock = "open" /\ net[c].linked
  /\ net' = [net EXCEPT ![c].sock = "in"]
  /\ UNCHANGED <<netOnly, store, drops>>

DropSocket(c) ==
  /\ Running(c) /\ net[c].sock # "off" /\ drops < MaxDrops
  /\ net' = [net EXCEPT ![c].sock = "off"]
  /\ drops' = drops + 1
  /\ UNCHANGED <<netOnly, store>>

Live(c) == task[c].pc \in {"note", "run"} /\ ~net[c].stopped /\ net[c].told # "out"

\* A live client saves its keys and app state: the login it knows is in the store again.
Save(c) ==
  /\ Running(c) /\ Live(c) /\ net[c].linked /\ ~store
  /\ store' = TRUE
  /\ UNCHANGED <<netOnly, net, drops>>

-----------------------------------------------------------------------------
(* handle_event.                                                           *)

\* is_current_client: the event of a replaced client is dropped.
Heard(c) == current # NoRuntime /\ slot[current] = c

Tell(c, what) == net' = [net EXCEPT ![c].told = what]

\* The client reports; if heard, the status is set and the row is to be written.
Report(c, what, st) ==
  /\ Running(c) /\ agent[c] = Idle
  /\ Tell(c, what)
  /\ IF Heard(c)
     THEN /\ status' = [status EXCEPT ![current] = st]
          /\ agent' = [agent EXCEPT ![c] = [Idle EXCEPT !.op = "say", !.pc = "write",
                                                        !.rt = current, !.say = Claim(st)]]
     ELSE UNCHANGED <<status, agent>>
  /\ UNCHANGED <<row, store, current, slot, cooling, logouts, born, task, seenVars, boundVars>>

PairingQrCode(c) ==
  /\ net[c].sock = "open" /\ ~net[c].linked /\ ~task[c].pair /\ net[c].told # "qr"
  /\ Report(c, "qr", "WaitingForQr")
Connected(c) == net[c].sock = "in" /\ net[c].told # "in" /\ Report(c, "in", "LoggedIn")
Disconnected(c) == net[c].sock = "off" /\ net[c].told = "in" /\ Report(c, "off", "Connecting")

\* The socket was refused: WhatsApp ended the login, or locked the account.
LoggedOut(c, op) ==
  /\ Running(c) /\ agent[c] = Idle
  /\ net[c].sock = "open" /\ net[c].linked
  /\ net' = [net EXCEPT ![c].sock = "off", ![c].told = "out"]
  /\ IF Heard(c)
     THEN /\ agent' = [agent EXCEPT ![c] = [Idle EXCEPT !.op = op, !.pc = "snapshot",
                                                        !.rt = current]]
          /\ Enters
     ELSE UNCHANGED <<agent, disturbed>>
  /\ UNCHANGED <<row, store, runtimeVars, task, turned, boundVars>>

\* The new-chat figures are stored; the client in the slot now, if any, is shut down.
Snapshot(c) ==
  LET r == agent[c].rt IN
  /\ agent[c].pc = "snapshot"
  /\ IF slot[r] = NoClient
     THEN Lower(r) /\ Steps(c, "write") /\ UNCHANGED net
     ELSE Stop(slot[r]) /\ Steps(c, "stopped") /\ UNCHANGED <<status, slot>>
  /\ UNCHANGED <<row, store, current, cooling, logouts, born, task, seenVars, boundVars>>

LogoutStopped(c) ==
  /\ c \in Clients /\ agent[c].pc = "stopped"
  /\ Lower(agent[c].rt)
  /\ Steps(c, "write")
  /\ UNCHANGED <<row, store, current, cooling, logouts, born, task, net, seenVars, boundVars>>

Say(c) ==
  /\ At(c, "say", "write")
  /\ WriteRow(agent[c].say)
  /\ Finish(c)
  /\ UNCHANGED <<store, runtimeVars, task, net, seenVars, drops>>

\* unlink_session begins: the runtime in the map now, if any, is emptied.
Unlink(a) ==
  /\ agent' = [agent EXCEPT ![a].op = "logout", ![a].pc = "upath"]
  /\ IF current = NoRuntime
     THEN UNCHANGED <<status, slot, logouts>>
     ELSE Lower(current) /\ logouts' = [logouts EXCEPT ![current] = 0]

\* record_lock_cooldown
Cooled(r) == cooling' = [cooling EXCEPT ![r] = TRUE]

Locked(c) ==
  /\ At(c, "locked", "write")
  /\ WriteRow(Down)
  /\ Cooled(agent[c].rt)
  /\ Finish(c)
  /\ UNCHANGED <<store, current, status, slot, logouts, born, task, net, seenVars, drops>>

Purges(n) == n >= PurgeAfter

\* record_logout_and_should_purge: earlier logouts may have left the window.
Counted(c) ==
  LET r == agent[c].rt IN
  /\ At(c, "loggedOut", "write")
  /\ WriteRow(Down)
  /\ \E n \in 1..(logouts[r] + 1) :
       IF Purges(n)
       THEN Unlink(c)
       ELSE /\ logouts' = [logouts EXCEPT ![r] = n]
            /\ Finish(c)
            /\ UNCHANGED <<status, slot>>
  /\ UNCHANGED <<store, current, cooling, born, task, net, seenVars, drops>>

\* The rest of unlink_session, for a LoggedOut handler or a logout request.
UnlinkPath(a) ==
  /\ agent[a].pc = "upath"
  /\ \/ row.there /\ Steps(a, "reset") /\ UNCHANGED faults
     \/ ~row.there /\ Steps(a, "write") /\ UNCHANGED faults
     \/ Fault /\ Steps(a, "write")
  /\ UNCHANGED <<row, store, runtimeVars, task, net, seenVars, drops>>

\* reset_device: a failure is logged.
ResetDevice(a) ==
  /\ agent[a].pc = "reset"
  /\ \/ store' = FALSE /\ UNCHANGED faults
     \/ Fault /\ UNCHANGED store
  /\ Steps(a, "write")
  /\ UNCHANGED <<row, runtimeVars, task, net, seenVars, drops>>

\* The last write of disconnect, disconnect-all and logout.
WriteDown(a) ==
  /\ agent[a].pc = "write" /\ agent[a].op \in {"disconnect", "disconnectAll", "logout"}
  /\ WriteRow(agent[a].say)
  /\ Finish(a)
  /\ UNCHANGED <<store, runtimeVars, task, net, seenVars, drops>>

-----------------------------------------------------------------------------
(* connect, connect/wait, pair and create.                                 *)

Plain == row.there /\ ~row.cloud   \* reject_cloud_session

\* Mutant: the installed client is dropped without being stopped.
Halt_Drop(q, o, r, p) ==
  Enter(q, o, p, r, slot[r], Down) /\ Lower(r) /\ UNCHANGED net

\* A client in the slot is shut down, and the request waits for it; p is where it goes on.
Halt(q, o, r, p) ==
  IF slot[r] = NoClient
  THEN Enter(q, o, p, r, NoClient, Down) /\ Lower(r) /\ UNCHANGED net
  ELSE Enter(q, o, "stopped", r, slot[r], Down) /\ Stop(slot[r]) /\ UNCHANGED <<status, slot>>

\* connect_session: refused while alive or waiting for a scan, never while Connecting.
Connect(q) ==
  /\ Plain
  /\ IF current = NoRuntime
     THEN Enter(q, "connect", "path", NoRuntime, NoClient, Down) /\ UNCHANGED <<status, slot, cooling, net>>
     ELSE /\ ~Alive(current) /\ status[current] \notin {"WaitingForQr", "WaitingForPairCode"}
          /\ Halt(q, "connect", current, "path")
          /\ IF slot[current] = NoClient THEN Lift(current) ELSE UNCHANGED cooling
  /\ UNCHANGED <<row, store, current, logouts, born, task, turned, boundVars>>

ConnectStopped(q) ==
  /\ At(q, "connect", "stopped")
  /\ Lower(agent[q].rt)
  /\ Lift(agent[q].rt)
  /\ Steps(q, "path")
  /\ UNCHANGED <<row, store, current, logouts, born, task, net, seenVars, boundVars>>

ConnectSpawn(q) ==
  /\ At(q, "connect", "path")
  /\ \E r \in Runtimes : Mapped(r) /\ Spawn(r, "Connecting", "connect")
  /\ Finish(q)
  /\ UNCHANGED <<row, store, slot, cooling, logouts, net, seenVars, boundVars>>

\* ensure_connecting_for_wait and create_session: the row is created when it is not there.
Register(q, o) ==
  /\ ~row.there
  /\ Enter(q, o, "insert", NoRuntime, NoClient, Down)
  /\ UNCHANGED <<row, store, runtimeVars, task, net, turned, boundVars>>

InsertRow ==
  /\ ~row.there
  /\ row' = [there |-> TRUE, status |-> "Disconnected", loggedIn |-> FALSE, cloud |-> FALSE]

Wait(q) ==
  /\ Plain
  /\ Enter(q, "wait", "path", NoRuntime, NoClient, Down)
  /\ UNCHANGED <<row, store, runtimeVars, task, net, turned, boundVars>>

Underway(st) == st \in {"Connecting", "WaitingForQr", "WaitingForPairCode"}

\* From the runtime on: nothing to do if the session is logged in or an attempt is under way; else
\* a client in the slot is shut down first.
WaitCheck(q) ==
  /\ agent[q].op = "wait" /\ agent[q].pc \in {"path", "insert"}
  /\ IF agent[q].pc = "insert" THEN InsertRow ELSE UNCHANGED row
  /\ \E r \in Runtimes :
       /\ Mapped(r)
       /\ IF (Alive(r) /\ status[r] = "LoggedIn") \/ Underway(status[r])
          THEN Finish(q) /\ UNCHANGED <<status, cooling, task, net>>
          ELSE IF slot[r] # NoClient
          THEN /\ Stop(slot[r])
               /\ agent' = [agent EXCEPT ![q].pc = "stopped", ![q].rt = r]
               /\ UNCHANGED <<status, cooling, task>>
          ELSE /\ Spawn(r, "Connecting", "wait")
               /\ Lift(r)
               /\ Finish(q)
               /\ UNCHANGED net
  /\ UNCHANGED <<store, slot, logouts, seenVars, boundVars>>

\* The runtime is the one found before the wait, in the map or not.
WaitStopped(q) ==
  LET r == agent[q].rt IN
  /\ At(q, "wait", "stopped")
  /\ slot' = [slot EXCEPT ![r] = NoClient]
  /\ Lift(r)
  /\ Spawn(r, "Connecting", "wait")
  /\ Finish(q)
  /\ UNCHANGED <<row, store, current, logouts, born, net, seenVars, boundVars>>

\* pair_session: refused when the client is logged in, or installed and linked; an installed client
\* that is not linked is asked for the code and nothing is spawned.
Pair(q) ==
  /\ Plain
  /\ current # NoRuntime => status[current] # "LoggedIn"
  /\ Enter(q, "pair", "path", NoRuntime, NoClient, Down)
  /\ UNCHANGED <<row, store, runtimeVars, task, net, turned, boundVars>>

PairSpawn(q) ==
  /\ At(q, "pair", "path")
  /\ \E r \in Runtimes :
       /\ Mapped(r)
       /\ IF slot[r] # NoClient \/ status[r] \in {"WaitingForPairCode", "Connecting"}
          THEN UNCHANGED <<status, task>>
          ELSE Spawn(r, "WaitingForPairCode", "pair")
  /\ Finish(q)
  /\ UNCHANGED <<row, store, slot, cooling, logouts, net, seenVars, boundVars>>

\* create_session; with reuse, an existing session takes Connect instead.
CreateSpawn(q) ==
  /\ At(q, "create", "insert")
  /\ InsertRow
  /\ \E r \in Runtimes : Mapped(r) /\ Spawn(r, "Connecting", "create")
  /\ Finish(q)
  /\ UNCHANGED <<store, slot, cooling, logouts, net, seenVars, boundVars>>

-----------------------------------------------------------------------------
(* disconnect, disconnect-all and logout.                                  *)

Disconnect(q) ==
  /\ row.there /\ current # NoRuntime /\ slot[current] # NoClient
  /\ Halt(q, "disconnect", current, "write")
  /\ UNCHANGED <<row, store, current, cooling, logouts, born, task, turned, boundVars>>

DisconnectStopped(q) ==
  /\ At(q, "disconnect", "stopped")
  /\ Lower(agent[q].rt)
  /\ Steps(q, "write")
  /\ UNCHANGED <<row, store, current, cooling, logouts, born, task, net, seenVars, boundVars>>

\* disconnect_all writes the row back with the is_logged_in it listed.
DisconnectAll(q) ==
  /\ row.there /\ current # NoRuntime /\ slot[current] # NoClient
  /\ Enter(q, "disconnectAll", "stopped", NoRuntime, NoClient,
           [status |-> "Disconnected", loggedIn |-> row.loggedIn])
  /\ Stop(slot[current])
  /\ UNCHANGED <<row, store, runtimeVars, task, turned, boundVars>>

\* ... and lowers the runtime that is in the map after the wait.
DisconnectAllStopped(q) ==
  /\ At(q, "disconnectAll", "stopped")
  /\ IF current = NoRuntime THEN UNCHANGED <<status, slot>> ELSE Lower(current)
  /\ Steps(q, "write")
  /\ UNCHANGED <<row, store, current, cooling, logouts, born, task, net, seenVars, boundVars>>

\* logout_session: the client is taken out of the slot and told to leave the account.
Logout(q) ==
  /\ Plain
  /\ IF current # NoRuntime /\ slot[current] # NoClient
     THEN /\ Enter(q, "logout", "leave", NoRuntime, slot[current], Down)
          /\ slot' = [slot EXCEPT ![current] = NoClient]
          /\ UNCHANGED <<status, logouts>>
     ELSE \* without a client the unlink begins at once
          /\ q \in Requests /\ "logout" \in Ops /\ agent[q] = Idle
          /\ Enters
          /\ agent' = [agent EXCEPT ![q] = [Idle EXCEPT !.op = "logout", !.pc = "upath"]]
          /\ IF current = NoRuntime
             THEN UNCHANGED <<status, slot, logouts>>
             ELSE Lower(current) /\ logouts' = [logouts EXCEPT ![current] = 0]
  /\ UNCHANGED <<row, store, current, cooling, born, task, net, turned, boundVars>>

\* Mutant: a client that did not answer in time is left running.
Leave_Timeout(q) == UNCHANGED net

\* stop_client, after logout() answered or ran into its timeout
Leave(q) == Stop(agent[q].old)

LogoutLeave(q) ==
  /\ At(q, "logout", "leave")
  /\ Leave(q)
  /\ Steps(q, "stopped")
  /\ UNCHANGED <<row, store, runtimeVars, task, seenVars, boundVars>>

LogoutUnlink(q) ==
  /\ At(q, "logout", "stopped")
  /\ Unlink(q)
  /\ UNCHANGED <<row, store, current, cooling, born, task, net, seenVars, boundVars>>

-----------------------------------------------------------------------------
(* delete, purge, export, import, cloud/connect and reconnect-all.         *)

\* delete_session and, for a session in its filter, purge_sessions: the client is shut down, the
\* runtime leaves the map, the directory goes and then the row.
Delete(q) ==
  /\ IF current # NoRuntime /\ slot[current] # NoClient
     THEN Enter(q, "delete", "stopped", NoRuntime, slot[current], Down) /\ Stop(slot[current])
          /\ UNCHANGED current
     ELSE Enter(q, "delete", "rmdir", NoRuntime, NoClient, Down) /\ current' = NoRuntime
          /\ UNCHANGED net
  /\ UNCHANGED <<row, store, status, slot, cooling, logouts, born, task, turned, boundVars>>

DeleteStopped(q) ==
  /\ At(q, "delete", "stopped")
  /\ current' = NoRuntime
  /\ Steps(q, "rmdir")
  /\ UNCHANGED <<row, store, status, slot, cooling, logouts, born, task, net, seenVars, boundVars>>

RemoveDir(q) ==
  /\ agent[q].pc = "rmdir"
  /\ store' = IF row.there THEN FALSE ELSE store
  /\ Steps(q, "erase")
  /\ UNCHANGED <<row, runtimeVars, task, net, seenVars, boundVars>>

EraseRow(q) ==
  /\ agent[q].pc = "erase"
  /\ row' = [row EXCEPT !.there = FALSE, !.status = "Disconnected", !.loggedIn = FALSE,
                        !.cloud = FALSE]
  /\ Finish(q)
  /\ UNCHANGED <<store, runtimeVars, task, net, seenVars, boundVars>>


\* export_session: the client is shut down, the runtime and the row are lowered, then the
\* directory is zipped.
Export(q) ==
  /\ row.there
  /\ IF current = NoRuntime
     THEN Enter(q, "export", "write", NoRuntime, NoClient, Down) /\ UNCHANGED <<status, slot, net>>
     ELSE Halt(q, "export", current, "write")
  /\ UNCHANGED <<row, store, current, cooling, logouts, born, task, turned, boundVars>>

ExportStopped(q) ==
  /\ At(q, "export", "stopped")
  /\ Lower(agent[q].rt)
  /\ Steps(q, "write")
  /\ UNCHANGED <<row, store, current, cooling, logouts, born, task, net, seenVars, boundVars>>

ExportWrite(q) ==
  /\ At(q, "export", "write")
  /\ WriteRow(Down)
  /\ Steps(q, "zip")
  /\ UNCHANGED <<store, runtimeVars, task, net, seenVars, drops>>

Zip(q) ==
  /\ At(q, "export", "zip")
  /\ Finish(q)
  /\ UNCHANGED <<row, store, runtimeVars, task, net, seenVars, boundVars>>

\* import_session: refused while a client is alive, checked before the upload is read.
Import(q) ==
  /\ row.there
  /\ current # NoRuntime => ~Alive(current)
  /\ Enter(q, "import", "unzip", NoRuntime, NoClient, Down)
  /\ UNCHANGED <<row, store, runtimeVars, task, net, turned, boundVars>>

\* The archive holds a login; the directory of a deleted session is made anew.
Unzip(q) ==
  /\ At(q, "import", "unzip")
  /\ store' = (row.there \/ store)
  /\ Finish(q)
  /\ UNCHANGED <<row, runtimeVars, task, net, seenVars, boundVars>>

\* connect_cloud: the provider of the row changes, the runtime leaves the map, and its client is
\* shut down.
ConnectCloud(q) ==
  /\ row.there
  /\ Enter(q, "cloud", "provider", NoRuntime, NoClient, Down)
  /\ UNCHANGED <<row, store, runtimeVars, task, net, turned, boundVars>>

SetProvider(q) ==
  /\ At(q, "cloud", "provider")
  /\ \/ /\ row' = IF row.there THEN [row EXCEPT !.cloud = TRUE] ELSE row
        /\ Steps(q, "remove")
        /\ UNCHANGED faults
     \/ Fault /\ Finish(q) /\ UNCHANGED row
  /\ UNCHANGED <<store, runtimeVars, task, net, seenVars, drops>>

Remove(q) ==
  /\ At(q, "cloud", "remove")
  /\ current' = NoRuntime
  /\ IF current # NoRuntime /\ slot[current] # NoClient
     THEN /\ Stop(slot[current])
          /\ agent' = [agent EXCEPT ![q].pc = "stopped", ![q].rt = current]
     ELSE Finish(q) /\ UNCHANGED net
  /\ UNCHANGED <<row, store, status, slot, cooling, logouts, born, task, seenVars, boundVars>>

CloudStopped(q) ==
  /\ At(q, "cloud", "stopped")
  /\ slot' = [slot EXCEPT ![agent[q].rt] = NoClient]
  /\ Finish(q)
  /\ UNCHANGED <<row, store, current, status, cooling, logouts, born, task, net, seenVars, boundVars>>

\* reconnect_all: the walk of the startup, again.
Sweep(q) ==
  /\ Enter(q, "sweep", "list", NoRuntime, NoClient, Down)
  /\ UNCHANGED <<row, store, runtimeVars, task, net, turned, boundVars>>

-----------------------------------------------------------------------------
(* reconnect_all_on_startup and run_reconnect_watchdog.                    *)

Wanted == row.there /\ ~row.cloud /\ (row.status \in {"LoggedIn", "Connecting"} \/ row.loggedIn)

\* The table is listed; the listing may fail.
List(a) ==
  /\ agent[a].op \in {"boot", "sweep"} /\ agent[a].pc = "list"
  /\ \/ /\ IF Wanted THEN Steps(a, "path") ELSE Finish(a)
        /\ UNCHANGED faults
     \/ Fault /\ Finish(a)
  /\ UNCHANGED <<row, store, runtimeVars, task, net, seenVars, drops>>

\* The path is read, and a connect is spawned on the session's runtime whatever it is doing.
Walk(a) ==
  /\ agent[a].op \in {"boot", "sweep"} /\ agent[a].pc = "path"
  /\ \/ /\ row.there
        /\ \E r \in Runtimes :
             /\ Mapped(r) /\ Spawn(r, "Connecting", "boot")
             /\ disturbed' = (disturbed \/ (agent[a].op = "sweep" /\ (slot[r] # NoClient \/ cooling[r])))
        /\ UNCHANGED faults
     \/ ~row.there /\ UNCHANGED <<current, status, born, task, disturbed, faults>>
     \/ Fault /\ UNCHANGED <<current, status, born, task, disturbed>>
  /\ Finish(a)
  /\ UNCHANGED <<row, store, slot, cooling, logouts, net, turned, drops>>

\* A tick finds the session connecting for too long, or logged in on a silent socket.
Patrol ==
  /\ agent[Watchdog] = Idle
  /\ current # NoRuntime /\ ~cooling[current] /\ slot[current] # NoClient
  /\ status[current] \in {"Connecting", "LoggedIn"}
  /\ Stop(slot[current])
  /\ agent' = [agent EXCEPT ![Watchdog] =
                 [Idle EXCEPT !.op = "rebuild", !.pc = "stopped", !.rt = current]]
  /\ Enters
  /\ UNCHANGED <<row, store, runtimeVars, task, turned, boundVars>>

\* force_rebuild, after the wait: on the runtime of the tick
RebuildStopped ==
  /\ At(Watchdog, "rebuild", "stopped")
  /\ Lower(agent[Watchdog].rt)
  /\ Steps(Watchdog, "write")
  /\ UNCHANGED <<row, store, current, cooling, logouts, born, task, net, seenVars, boundVars>>

RebuildWrite ==
  /\ At(Watchdog, "rebuild", "write")
  /\ WriteRow(Down)
  /\ Steps(Watchdog, "respawn")
  /\ UNCHANGED <<store, runtimeVars, task, net, seenVars, drops>>

\* ... and after the event is published.
Respawn ==
  /\ At(Watchdog, "rebuild", "respawn")
  /\ Spawn(agent[Watchdog].rt, "Connecting", "rebuild")
  /\ Finish(Watchdog)
  /\ UNCHANGED <<row, store, current, slot, cooling, logouts, born, net, seenVars, boundVars>>

\* lock_cooldown_remaining runs out.
CoolDown ==
  /\ current # NoRuntime /\ cooling[current]
  /\ cooling' = [cooling EXCEPT ![current] = FALSE]
  /\ UNCHANGED <<row, store, current, status, slot, logouts, born, task, net, agent, seenVars,
                 boundVars>>

\* A request fails at an await, or its caller hangs up and the handler is dropped.
Abandon(q) ==
  /\ agent[q].pc \notin {"idle", "done"} /\ agent[q].op # "sweep"
  /\ Fault
  /\ Finish(q)
  /\ disturbed' = (disturbed \/ At(q, "logout", "leave"))
  /\ UNCHANGED <<row, store, runtimeVars, task, net, turned, drops>>

\* The process dies and starts again: the row and the store are what is left.
Crash ==
  /\ Fault
  /\ current' = NoRuntime
  /\ status' = [r \in Runtimes |-> "Disconnected"]
  /\ slot' = [r \in Runtimes |-> NoClient]
  /\ cooling' = [r \in Runtimes |-> FALSE]
  /\ logouts' = [r \in Runtimes |-> 0]
  /\ born' = {}
  /\ task' = [c \in Clients |-> Unused]
  /\ net' = [c \in Clients |-> Unbuilt]
  /\ agent' = [a \in Agents |->
                 IF a = Boot THEN [Idle EXCEPT !.op = "boot", !.pc = "list"]
                 ELSE IF a \in Requests /\ agent[a] # Idle THEN [Idle EXCEPT !.pc = "done"]
                 ELSE Idle]
  /\ disturbed' = FALSE /\ turned' = FALSE
  /\ UNCHANGED <<row, store, drops>>

-----------------------------------------------------------------------------
ConnectTask(c) ==
  FindPath(c) \/ OpenStore(c) \/ CheckCloud(c) \/ Install(c) \/ NoteWaiting(c) \/ Return(c)
  \/ MarkRow(c)

Network(c) == Dial(c) \/ Link(c) \/ LogIn(c) \/ DropSocket(c) \/ Save(c)

Events(c) ==
  \/ PairingQrCode(c) \/ Connected(c) \/ Disconnected(c)
  \/ LoggedOut(c, "loggedOut") \/ LoggedOut(c, "locked")
  \/ Snapshot(c) \/ LogoutStopped(c) \/ Say(c) \/ Locked(c) \/ Counted(c)

Unlinking(a) == UnlinkPath(a) \/ ResetDevice(a) \/ WriteDown(a)

Connecting(q) ==
  \/ Connect(q) \/ ConnectStopped(q) \/ ConnectSpawn(q)
  \/ (\E o \in {"wait", "create"} : Register(q, o)) \/ CreateSpawn(q)
  \/ Wait(q) \/ WaitCheck(q) \/ WaitStopped(q)
  \/ Pair(q) \/ PairSpawn(q)

Disconnecting(q) ==
  \/ Disconnect(q) \/ DisconnectStopped(q) \/ DisconnectAll(q) \/ DisconnectAllStopped(q)
  \/ Logout(q) \/ LogoutLeave(q) \/ LogoutUnlink(q)
  \/ Delete(q) \/ DeleteStopped(q) \/ RemoveDir(q) \/ EraseRow(q)

Moving(q) ==
  \/ Export(q) \/ ExportStopped(q) \/ ExportWrite(q) \/ Zip(q)
  \/ Import(q) \/ Unzip(q)
  \/ ConnectCloud(q) \/ SetProvider(q) \/ Remove(q) \/ CloudStopped(q)
  \/ Sweep(q)

Rebuilding == Patrol \/ RebuildStopped \/ RebuildWrite \/ Respawn

Next ==
  \/ \E c \in Clients : ConnectTask(c) \/ Network(c) \/ Events(c)
  \/ \E a \in Clients \cup Requests : Unlinking(a)
  \/ \E q \in Requests : Connecting(q) \/ Disconnecting(q) \/ Moving(q) \/ Abandon(q)
  \/ \E a \in Requests \cup {Boot} : List(a) \/ Walk(a)
  \/ Rebuilding \/ CoolDown \/ Crash

Spec == Init /\ [][Next]_vars

-----------------------------------------------------------------------------
(* Properties.                                                             *)

\* A session that is connecting, waiting for a scan or logged in has a connect task that will end and
\* lower it: no failure, timeout, abandoned request or race leaves it in a live status that nothing
\* ends, which later connects, /wait and the watchdog go by.
LiveStatusIsServed ==
  current # NoRuntime /\ status[current] # "Disconnected" =>
    turned \/ \E c \in Clients : task[c].pc \notin {"unused", "mark"}

\* As long as control operations do not overlap, a client that may talk to WhatsApp is the one the
\* session will stop: it is installed, or a logout has it in hand.
LiveIsInstalled ==
  \A c \in Clients : Live(c) =>
    \/ disturbed
    \/ current # NoRuntime /\ slot[current] = c
    \/ \E q \in Requests : agent[q].old = c /\ At(q, "logout", "leave")

\* Nobody removes, resets or packs the store while a client is on it, as long as control operations
\* do not overlap: the operation has stopped the client before it reaches the files.
StoreAtRest ==
  ~disturbed /\ (\E a \in Agents : agent[a].pc \in {"reset", "rmdir", "zip"}) =>
    \A c \in Clients : ~Live(c)

\* A login that was wiped does not come back: a client that still knows a login the store has lost is
\* never live, so it cannot save it.
LoginIsKept ==
  \A c \in Clients : ~disturbed /\ Live(c) /\ net[c].linked => store

\* An account lock silences the session: until the cooldown ends or an operator connects it, no client
\* is live but one that a pairing built.
CoolingIsQuiet ==
  ~disturbed /\ current # NoRuntime /\ cooling[current] =>
    \A c \in Clients : Live(c) => task[c].origin = "pair"

=============================================================================
