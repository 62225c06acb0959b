----------------------------- MODULE SessionsProofs -----------------------------
(***************************************************************************)
(* The safety properties of Sessions for every number of tasks, requests   *)
(* and runtimes, whatever overlaps, fails, is abandoned or restarts.       *)
(*                                                                         *)
(* LiveStatusIsServed by itself is not inductive.  When bot.run() returns  *)
(* and finds another client installed, it leaves the status alone, which   *)
(* is right because that client's own task is still there (SlotIsRun).     *)
(* And a runtime that has just been created is not live (Known), whoever   *)
(* still holds the runtimes before it.  IInv joins the three.              *)
(*                                                                         *)
(* The other four speak of a session whose control operations have not     *)
(* overlapped.  CInv says what makes them hold: one task at a time is in   *)
(* charge, or one connect task builds a client (Alone); what that task     *)
(* read when it entered still holds when it acts (Held, Building); and a   *)
(* live client is installed, or a logout has it in hand (Owned), and only  *)
(* a task that leaves it alone may meet it (Loud).                         *)
(***************************************************************************)
EXTENDS Sessions, TLAPS

TaskRec == [pc : TaskPC, pair : BOOLEAN, origin : Origins, rt : Runtimes \cup {NoRuntime}]
AgentRec == [op : AgentOps, pc : AgentPC, rt : Runtimes \cup {NoRuntime},
             old : Clients \cup {NoClient}, say : Claims]

RowType == row \in [there : BOOLEAN, status : RowStatuses, loggedIn : BOOLEAN, cloud : BOOLEAN]
TaskType == task \in [Clients -> TaskRec]
AgentType == agent \in [Agents -> AgentRec]
RuntimeType ==
  /\ current \in Runtimes \cup {NoRuntime}
  /\ born \in SUBSET Runtimes
  /\ status \in [Runtimes -> Statuses]
  /\ slot \in [Runtimes -> Clients \cup {NoClient}]

\* Only runtimes that were created are held, and the others are as SessionState::new makes them.
Known ==
  /\ current \in born \cup {NoRuntime}
  /\ \A a \in Agents : agent[a].rt \in born \cup {NoRuntime}
  /\ \A c \in Clients : task[c].rt \in born \cup {NoRuntime}
  /\ \A r \in Runtimes \ born : status[r] = "Disconnected" /\ slot[r] = NoClient

\* The installed client is one whose task has not returned.
SlotIsRun ==
  \A c \in Clients : current # NoRuntime /\ slot[current] = c => task[c].pc \in {"note", "run"}

IInv == RowType /\ TaskType /\ AgentType /\ RuntimeType /\ Known /\ SlotIsRun
        /\ LiveStatusIsServed

-----------------------------------------------------------------------------
(* What the shared statements do to the types.                             *)

\* Nobody comes to hold a runtime but by finding it in the map.
Holds == \A b \in Agents : agent'[b].rt \in {agent[b].rt, NoRuntime, current}

LEMMA StepsLemma ==
  ASSUME AgentType, NEW a \in Agents, NEW p \in AgentPC, Steps(a, p)
  PROVE  AgentType' /\ Holds
BY DEF AgentType, AgentRec, Steps, Holds

LEMMA FinishLemma ==
  ASSUME AgentType, NEW a \in Agents, Finish(a)
  PROVE  AgentType' /\ Holds
BY DEF AgentType, AgentRec, Finish, Idle, Claim, Claims, RowStatuses, AgentPC, AgentOps, Holds

LEMMA EnterLemma ==
  ASSUME AgentType, NEW q \in Requests, NEW o, NEW p \in AgentPC,
         NEW r \in {current, NoRuntime}, r \in Runtimes \cup {NoRuntime},
         NEW c \in Clients \cup {NoClient}, NEW say \in Claims,
         Enter(q, o, p, r, c, say)
  PROVE  AgentType' /\ Holds
BY SessionsAssumption DEF AgentType, AgentRec, Enter, AgentOps, Agents, Holds

LEMMA DownIsClaim == Down \in Claims
BY DEF Down, Claim, Claims, RowStatuses

LEMMA SayIsClaim ==
  ASSUME AgentType, NEW a \in Agents
  PROVE  agent[a].say \in Claims
BY DEF AgentType, AgentRec

LEMMA SameAgents ==
  ASSUME AgentType, agent' = agent
  PROVE  AgentType' /\ Holds
BY DEF AgentType, AgentRec, Holds

LEMMA WriteRowLemma ==
  ASSUME RowType, NEW say \in Claims, WriteRow(say)
  PROVE  RowType'
BY DEF RowType, WriteRow, Claims

\* Some runtimes are lowered, and none is raised.
Sinks ==
  \A s \in Runtimes : /\ status'[s] \in {status[s], "Disconnected"}
                      /\ slot'[s] \in {slot[s], NoClient}

LEMMA LowerLemma ==
  ASSUME RuntimeType, NEW r, Lower(r), born' = born, current' \in {current, NoRuntime}
  PROVE  RuntimeType' /\ Sinks
BY DEF RuntimeType, Lower, Statuses, Sinks

LEMMA SameRuntimes ==
  ASSUME RuntimeType, born' = born, status' = status, slot' = slot,
         current' \in {current, NoRuntime}
  PROVE  RuntimeType' /\ Sinks
BY DEF RuntimeType, Sinks

LEMMA TaskStepsLemma ==
  ASSUME TaskType, NEW c \in Clients, NEW p \in TaskPC, TaskSteps(c, p)
  PROVE  /\ TaskType' /\ task'[c].pc = p /\ task'[c].rt = task[c].rt
         /\ \A d \in Clients \ {c} : task'[d] = task[d]
BY DEF TaskType, TaskRec, TaskSteps

LEMMA EndsLemma ==
  ASSUME TaskType, NEW c \in Clients, Ends(c)
  PROVE  TaskType' /\ \A d \in Clients : task'[d] = IF d = c THEN Unused ELSE task[d]
BY DEF TaskType, TaskRec, Ends, Unused, TaskPC, Origins

LEMMA HaltLemma ==
  ASSUME AgentType, RuntimeType, NEW q \in Requests, NEW o, NEW p \in AgentPC, current \in Runtimes,
         Halt(q, o, current, p), UNCHANGED <<current, born>>
  PROVE  AgentType' /\ Holds /\ RuntimeType' /\ Sinks
<1>1. slot[current] \in Clients \cup {NoClient} /\ "stopped" \in AgentPC
  BY DEF RuntimeType, AgentPC
<1>2. CASE slot[current] = NoClient
  BY <1>1, <1>2, EnterLemma, LowerLemma, DownIsClaim DEF Halt
<1>3. CASE slot[current] # NoClient
  BY <1>1, <1>3, EnterLemma, SameRuntimes, DownIsClaim DEF Halt
<1>4. QED
  BY <1>2, <1>3

LEMMA UnlinkLemma ==
  ASSUME AgentType, RuntimeType, NEW a \in Agents, Unlink(a), UNCHANGED <<current, born>>
  PROVE  AgentType' /\ Holds /\ RuntimeType' /\ Sinks
<1>1. AgentType' /\ Holds
  <2>1. agent' = [agent EXCEPT ![a] = [agent[a] EXCEPT !.op = "logout", !.pc = "upath"]]
    BY DEF AgentType, Unlink
  <2>2. "logout" \in AgentOps /\ "upath" \in AgentPC
    BY DEF AgentOps, AllOps, AgentPC
  <2>3. QED
    BY <2>1, <2>2 DEF AgentType, AgentRec, Holds
<1>2. CASE current = NoRuntime
  BY <1>1, <1>2, SameRuntimes DEF Unlink
<1>3. CASE current # NoRuntime
  BY <1>1, <1>3, LowerLemma DEF Unlink
<1>4. QED
  BY <1>2, <1>3

-----------------------------------------------------------------------------
(* A step that starts no task and raises no status.                        *)

LEMMA Sinking ==
  ASSUME IInv, RowType', AgentType', RuntimeType', Holds, Sinks,
         born' = born, current' \in {current, NoRuntime},
         UNCHANGED <<task, turned>>
  PROVE  IInv'
<1>1. TaskType'
  BY DEF IInv, TaskType, TaskRec
<1>2. Known'
  BY DEF IInv, Known, Holds, Sinks, RuntimeType
<1>3. SlotIsRun'
  BY SessionsAssumption DEF IInv, SlotIsRun, Sinks, RuntimeType
<1>4. LiveStatusIsServed'
  BY SessionsAssumption DEF IInv, LiveStatusIsServed, Sinks, RuntimeType
<1>5. QED
  BY <1>1, <1>2, <1>3, <1>4 DEF IInv

LEMMA DialStep ==
  ASSUME IInv, NEW c \in Clients, Dial(c)
  PROVE  IInv'
BY SameAgents, SameRuntimes, Sinking
   DEF IInv, Dial, runtimeVars, seenVars, boundVars, netOnly, RowType

LEMMA LinkStep ==
  ASSUME IInv, NEW c \in Clients, Link(c)
  PROVE  IInv'
BY SameAgents, SameRuntimes, Sinking
   DEF IInv, Link, runtimeVars, seenVars, boundVars, netOnly, RowType

LEMMA LogInStep ==
  ASSUME IInv, NEW c \in Clients, LogIn(c)
  PROVE  IInv'
BY SameAgents, SameRuntimes, Sinking
   DEF IInv, LogIn, runtimeVars, seenVars, boundVars, netOnly, RowType

LEMMA DropSocketStep ==
  ASSUME IInv, NEW c \in Clients, DropSocket(c)
  PROVE  IInv'
BY SameAgents, SameRuntimes, Sinking
   DEF IInv, DropSocket, runtimeVars, seenVars, boundVars, netOnly, RowType

LEMMA SaveStep ==
  ASSUME IInv, NEW c \in Clients, Save(c)
  PROVE  IInv'
BY SameAgents, SameRuntimes, Sinking
   DEF IInv, Save, runtimeVars, seenVars, boundVars, netOnly, RowType

LEMMA SayStep ==
  ASSUME IInv, NEW c \in Clients, Say(c)
  PROVE  IInv'
BY WriteRowLemma, DownIsClaim, SayIsClaim, FinishLemma, SameRuntimes, Sinking
   DEF IInv, Say, runtimeVars, seenVars, boundVars, Agents, RowType

LEMMA LockedStep ==
  ASSUME IInv, NEW c \in Clients, Locked(c)
  PROVE  IInv'
BY WriteRowLemma, DownIsClaim, SayIsClaim, FinishLemma, SameRuntimes, Sinking
   DEF IInv, Locked, runtimeVars, seenVars, boundVars, Agents, RowType

LEMMA UnlinkPathStep ==
  ASSUME IInv, NEW a \in Clients \cup Requests, UnlinkPath(a)
  PROVE  IInv'
BY WriteRowLemma, SayIsClaim, StepsLemma, FinishLemma, SameRuntimes, Sinking
   DEF IInv, UnlinkPath, runtimeVars, seenVars, boundVars, Agents, AgentPC, RowType

LEMMA ResetDeviceStep ==
  ASSUME IInv, NEW a \in Clients \cup Requests, ResetDevice(a)
  PROVE  IInv'
BY WriteRowLemma, SayIsClaim, StepsLemma, FinishLemma, SameRuntimes, Sinking
   DEF IInv, ResetDevice, runtimeVars, seenVars, boundVars, Agents, AgentPC, RowType

LEMMA WriteDownStep ==
  ASSUME IInv, NEW a \in Clients \cup Requests, WriteDown(a)
  PROVE  IInv'
BY WriteRowLemma, SayIsClaim, StepsLemma, FinishLemma, SameRuntimes, Sinking
   DEF IInv, WriteDown, runtimeVars, seenVars, boundVars, Agents, AgentPC, RowType

LEMMA WaitStep ==
  ASSUME IInv, NEW q \in Requests, Wait(q)
  PROVE  IInv'
BY EnterLemma, SameRuntimes, Sinking, DownIsClaim
   DEF IInv, Wait, runtimeVars, seenVars, boundVars, Agents, AgentPC, RuntimeType, RowType

LEMMA PairStep ==
  ASSUME IInv, NEW q \in Requests, Pair(q)
  PROVE  IInv'
BY EnterLemma, SameRuntimes, Sinking, DownIsClaim
   DEF IInv, Pair, runtimeVars, seenVars, boundVars, Agents, AgentPC, RuntimeType, RowType

LEMMA ImportStep ==
  ASSUME IInv, NEW q \in Requests, Import(q)
  PROVE  IInv'
BY EnterLemma, SameRuntimes, Sinking, DownIsClaim
   DEF IInv, Import, runtimeVars, seenVars, boundVars, Agents, AgentPC, RuntimeType, RowType

LEMMA ConnectCloudStep ==
  ASSUME IInv, NEW q \in Requests, ConnectCloud(q)
  PROVE  IInv'
BY EnterLemma, SameRuntimes, Sinking, DownIsClaim
   DEF IInv, ConnectCloud, runtimeVars, seenVars, boundVars, Agents, AgentPC, RuntimeType, RowType

LEMMA SweepStep ==
  ASSUME IInv, NEW q \in Requests, Sweep(q)
  PROVE  IInv'
BY EnterLemma, SameRuntimes, Sinking, DownIsClaim
   DEF IInv, Sweep, runtimeVars, seenVars, boundVars, Agents, AgentPC, RuntimeType, RowType

LEMMA RegisterStep ==
  ASSUME IInv, NEW q \in Requests, NEW o, Register(q, o)
  PROVE  IInv'
BY EnterLemma, SameRuntimes, Sinking, DownIsClaim
   DEF IInv, Register, runtimeVars, seenVars, boundVars, Agents, AgentPC, RuntimeType, RowType

LEMMA LogoutLeaveStep ==
  ASSUME IInv, NEW q \in Requests, LogoutLeave(q)
  PROVE  IInv'
BY WriteRowLemma, DownIsClaim, StepsLemma, FinishLemma, SameRuntimes, Sinking
   DEF IInv, LogoutLeave, runtimeVars, seenVars, boundVars, Agents, AgentPC, RowStatuses, RowType

LEMMA RemoveDirStep ==
  ASSUME IInv, NEW q \in Requests, RemoveDir(q)
  PROVE  IInv'
BY WriteRowLemma, DownIsClaim, StepsLemma, FinishLemma, SameRuntimes, Sinking
   DEF IInv, RemoveDir, runtimeVars, seenVars, boundVars, Agents, AgentPC, RowStatuses, RowType

LEMMA EraseRowStep ==
  ASSUME IInv, NEW q \in Requests, EraseRow(q)
  PROVE  IInv'
BY WriteRowLemma, DownIsClaim, StepsLemma, FinishLemma, SameRuntimes, Sinking
   DEF IInv, EraseRow, runtimeVars, seenVars, boundVars, Agents, AgentPC, RowStatuses, RowType

LEMMA ZipStep ==
  ASSUME IInv, NEW q \in Requests, Zip(q)
  PROVE  IInv'
BY WriteRowLemma, DownIsClaim, StepsLemma, FinishLemma, SameRuntimes, Sinking
   DEF IInv, Zip, runtimeVars, seenVars, boundVars, Agents, AgentPC, RowStatuses, RowType

LEMMA UnzipStep ==
  ASSUME IInv, NEW q \in Requests, Unzip(q)
  PROVE  IInv'
BY WriteRowLemma, DownIsClaim, StepsLemma, FinishLemma, SameRuntimes, Sinking
   DEF IInv, Unzip, runtimeVars, seenVars, boundVars, Agents, AgentPC, RowStatuses, RowType

LEMMA ExportWriteStep ==
  ASSUME IInv, NEW q \in Requests, ExportWrite(q)
  PROVE  IInv'
BY WriteRowLemma, DownIsClaim, StepsLemma, FinishLemma, SameRuntimes, Sinking
   DEF IInv, ExportWrite, runtimeVars, seenVars, boundVars, Agents, AgentPC, RowStatuses, RowType

LEMMA SetProviderStep ==
  ASSUME IInv, NEW q \in Requests, SetProvider(q)
  PROVE  IInv'
BY WriteRowLemma, DownIsClaim, StepsLemma, FinishLemma, SameRuntimes, Sinking
   DEF IInv, SetProvider, runtimeVars, seenVars, boundVars, Agents, AgentPC, RowStatuses, RowType

LEMMA AbandonStep ==
  ASSUME IInv, NEW q \in Requests, Abandon(q)
  PROVE  IInv'
BY WriteRowLemma, DownIsClaim, StepsLemma, FinishLemma, SameRuntimes, Sinking
   DEF IInv, Abandon, runtimeVars, seenVars, boundVars, Agents, AgentPC, RowStatuses, RowType

LEMMA ListStep ==
  ASSUME IInv, NEW a \in Requests \cup {Boot}, List(a)
  PROVE  IInv'
BY StepsLemma, FinishLemma, SameRuntimes, Sinking
   DEF IInv, List, runtimeVars, seenVars, boundVars, Agents, Workers, AgentPC, RowType

LEMMA ConnectStoppedStep ==
  ASSUME IInv, NEW q \in Requests, ConnectStopped(q)
  PROVE  IInv'
BY StepsLemma, LowerLemma, Sinking
   DEF IInv, ConnectStopped, runtimeVars, seenVars, boundVars, Agents, AgentPC, RowType

LEMMA DisconnectStoppedStep ==
  ASSUME IInv, NEW q \in Requests, DisconnectStopped(q)
  PROVE  IInv'
BY StepsLemma, LowerLemma, Sinking
   DEF IInv, DisconnectStopped, runtimeVars, seenVars, boundVars, Agents, AgentPC, RowType

LEMMA ExportStoppedStep ==
  ASSUME IInv, NEW q \in Requests, ExportStopped(q)
  PROVE  IInv'
BY StepsLemma, LowerLemma, Sinking
   DEF IInv, ExportStopped, runtimeVars, seenVars, boundVars, Agents, AgentPC, RowType

LEMMA LogoutStoppedStep ==
  ASSUME IInv, NEW c \in Clients, LogoutStopped(c)
  PROVE  IInv'
BY StepsLemma, LowerLemma, Sinking
   DEF IInv, LogoutStopped, runtimeVars, seenVars, boundVars, Agents, AgentPC, RowType

LEMMA SnapshotStep ==
  ASSUME IInv, NEW c \in Clients, Snapshot(c)
  PROVE  IInv'
BY StepsLemma, LowerLemma, SameRuntimes, Sinking
   DEF IInv, Snapshot, runtimeVars, seenVars, boundVars, Agents, AgentPC, RowType

LEMMA DisconnectAllStoppedStep ==
  ASSUME IInv, NEW q \in Requests, DisconnectAllStopped(q)
  PROVE  IInv'
BY StepsLemma, LowerLemma, SameRuntimes, Sinking
   DEF IInv, DisconnectAllStopped, runtimeVars, seenVars, boundVars, Agents, AgentPC, RowType

LEMMA DisconnectStep ==
  ASSUME IInv, NEW q \in Requests, Disconnect(q)
  PROVE  IInv'
BY HaltLemma, Sinking
   DEF IInv, Disconnect, runtimeVars, seenVars, boundVars, AgentPC, RuntimeType, RowType

LEMMA ConnectStep ==
  ASSUME IInv, NEW q \in Requests, Connect(q)
  PROVE  IInv'
BY HaltLemma, EnterLemma, SameRuntimes, Sinking, DownIsClaim
   DEF IInv, Connect, runtimeVars, seenVars, boundVars, AgentPC, RuntimeType, RowType

LEMMA ExportStep ==
  ASSUME IInv, NEW q \in Requests, Export(q)
  PROVE  IInv'
BY HaltLemma, EnterLemma, SameRuntimes, Sinking, DownIsClaim
   DEF IInv, Export, runtimeVars, seenVars, boundVars, AgentPC, RuntimeType, RowType

LEMMA DisconnectAllStep ==
  ASSUME IInv, NEW q \in Requests, DisconnectAll(q)
  PROVE  IInv'
BY EnterLemma, SameRuntimes, Sinking
   DEF IInv, DisconnectAll, runtimeVars, seenVars, boundVars, AgentPC, RuntimeType, Claims,
       RowStatuses, RowType

LEMMA DeleteStep ==
  ASSUME IInv, NEW q \in Requests, Delete(q)
  PROVE  IInv'
BY EnterLemma, SameRuntimes, Sinking, DownIsClaim
   DEF IInv, Delete, runtimeVars, seenVars, boundVars, AgentPC, RuntimeType, RowType

LEMMA DeleteStoppedStep ==
  ASSUME IInv, NEW q \in Requests, DeleteStopped(q)
  PROVE  IInv'
BY StepsLemma, SameRuntimes, Sinking
   DEF IInv, DeleteStopped, runtimeVars, seenVars, boundVars, Agents, AgentPC, RowType

LEMMA LogoutUnlinkStep ==
  ASSUME IInv, NEW q \in Requests, LogoutUnlink(q)
  PROVE  IInv'
BY UnlinkLemma, Sinking DEF IInv, LogoutUnlink, runtimeVars, seenVars, boundVars, Agents, RowType

LEMMA CountedStep ==
  ASSUME IInv, NEW c \in Clients, Counted(c)
  PROVE  IInv'
BY WriteRowLemma, DownIsClaim, FinishLemma, UnlinkLemma, SameRuntimes, Sinking
   DEF IInv, Counted, runtimeVars, seenVars, boundVars, Agents, RowType

LEMMA LogoutStep ==
  ASSUME IInv, NEW q \in Requests, Logout(q)
  PROVE  IInv'
<1>1. RowType' /\ born' = born /\ current' = current /\ UNCHANGED <<task, turned>>
  BY DEF IInv, Logout, RowType
<1>2. CASE current # NoRuntime /\ slot[current] # NoClient
  <2>1. AgentType' /\ Holds
    BY <1>2, EnterLemma, DownIsClaim DEF IInv, Logout, AgentPC, RuntimeType
  <2>2. RuntimeType' /\ Sinks
    BY <1>1, <1>2 DEF IInv, Logout, RuntimeType, Sinks
  <2>3. QED
    BY <1>1, <2>1, <2>2, Sinking
<1>3. CASE ~(current # NoRuntime /\ slot[current] # NoClient)
  <2>1. AgentType' /\ Holds
    <3>1. agent' = [agent EXCEPT ![q] = [Idle EXCEPT !.op = "logout", !.pc = "upath"]]
      BY <1>3 DEF Logout
    <3>2. QED
      BY <3>1 DEF IInv, AgentType, AgentRec, AgentPC, AgentOps, AllOps, Idle, Claim, Claims,
                  RowStatuses, Agents, Holds
  <2>2. CASE current = NoRuntime
    BY <1>1, <1>3, <2>1, <2>2, SameRuntimes, Sinking DEF IInv, Logout
  <2>3. CASE current # NoRuntime
    <3>1. Lower(current)
      BY <1>3, <2>3 DEF Logout
    <3>2. RuntimeType' /\ Sinks
      BY <1>1, <3>1, LowerLemma DEF IInv
    <3>3. QED
      BY <1>1, <2>1, <3>2, Sinking
  <2>4. QED
    BY <2>2, <2>3
<1>4. QED
  BY <1>2, <1>3

LEMMA RemoveStep ==
  ASSUME IInv, NEW q \in Requests, Remove(q)
  PROVE  IInv'
BY FinishLemma, SameRuntimes, Sinking
   DEF IInv, Remove, runtimeVars, seenVars, boundVars, AgentType, AgentRec, AgentPC, Holds,
       Agents, RowType

LEMMA CloudStoppedStep ==
  ASSUME IInv, NEW q \in Requests, CloudStopped(q)
  PROVE  IInv'
BY FinishLemma, Sinking
   DEF IInv, CloudStopped, runtimeVars, seenVars, boundVars, Agents, RuntimeType, Sinks, RowType

LEMMA LoggedOutStep ==
  ASSUME IInv, NEW c \in Clients, NEW op \in {"loggedOut", "locked"}, LoggedOut(c, op)
  PROVE  IInv'
<1>1. CASE Heard(c)
  <2>1. agent' = [agent EXCEPT ![c] = [Idle EXCEPT !.op = op, !.pc = "snapshot", !.rt = current]]
    BY <1>1 DEF LoggedOut
  <2>2. AgentType' /\ Holds
    BY <2>1 DEF IInv, AgentType, AgentRec, AgentPC, AgentOps, Idle, Claim, Claims, RowStatuses, Agents,
                Holds, RuntimeType
  <2>3. QED
    BY <2>2, SameRuntimes, Sinking DEF IInv, LoggedOut, runtimeVars, RowType
<1>2. CASE ~Heard(c)
  BY <1>2, SameAgents, SameRuntimes, Sinking DEF IInv, LoggedOut, runtimeVars, RowType
<1>3. QED
  BY <1>1, <1>2

LEMMA PatrolStep ==
  ASSUME IInv, Patrol
  PROVE  IInv'
BY SameRuntimes, Sinking
   DEF IInv, Patrol, runtimeVars, seenVars, boundVars, AgentType, AgentRec, AgentPC, AgentOps,
       Idle, Holds, Agents, Workers, RuntimeType, Claim, Claims, RowStatuses, RowType

LEMMA RebuildStoppedStep ==
  ASSUME IInv, RebuildStopped
  PROVE  IInv'
BY StepsLemma, LowerLemma, Sinking
   DEF IInv, RebuildStopped, runtimeVars, seenVars, boundVars, Agents, Workers, AgentPC, RowType

LEMMA RebuildWriteStep ==
  ASSUME IInv, RebuildWrite
  PROVE  IInv'
BY WriteRowLemma, DownIsClaim, StepsLemma, SameRuntimes, Sinking
   DEF IInv, RebuildWrite, runtimeVars, seenVars, boundVars, Agents, Workers, AgentPC, RowType

LEMMA CoolDownStep ==
  ASSUME IInv, CoolDown
  PROVE  IInv'
BY SameAgents, SameRuntimes, Sinking DEF IInv, CoolDown, runtimeVars, seenVars, boundVars, RowType

-----------------------------------------------------------------------------
(* A step of one connect task.                                             *)

Trying(t) == t.pc \notin {"unused", "mark"}

LEMMA TaskMoves ==
  ASSUME IInv, RowType', AgentType', RuntimeType', TaskType', Holds, Sinks,
         UNCHANGED <<current, born>>, turned => turned',
         NEW c \in Clients,
         \A d \in Clients \ {c} : task'[d] = task[d],
         task'[c].rt \in {task[c].rt, NoRuntime, current},
         task[c].pc \in {"note", "run"} =>
           \/ task'[c].pc \in {"note", "run"}
           \/ current = NoRuntime
           \/ slot'[current] # c,
         Trying(task[c]) =>
           \/ Trying(task'[c])
           \/ turned'
           \/ current = NoRuntime
           \/ status'[current] = "Disconnected"
           \/ slot'[current] \in Clients
  PROVE  IInv'
<1>1. Known'
  BY DEF IInv, Known, Holds, Sinks, RuntimeType
<1>2. SlotIsRun'
  BY SessionsAssumption DEF IInv, SlotIsRun, Sinks, RuntimeType
<1>3. LiveStatusIsServed'
  BY <1>2, SessionsAssumption DEF IInv, LiveStatusIsServed, SlotIsRun, Sinks, RuntimeType, Trying
<1>4. QED
  BY <1>1, <1>2, <1>3 DEF IInv

LEMMA FailedLemma ==
  ASSUME TaskType, RuntimeType, NEW c \in Clients, Failed(c)
  PROVE  /\ TaskType' /\ RuntimeType' /\ Sinks /\ UNCHANGED <<current, born>>
         /\ \A d \in Clients : task'[d] = IF d = c THEN Unused ELSE task[d]
         /\ current # NoRuntime => status'[current] = "Disconnected"
BY EndsLemma, SessionsAssumption DEF RuntimeType, Failed, Statuses, Sinks

LEMMA FindPathStep ==
  ASSUME IInv, NEW c \in Clients, FindPath(c)
  PROVE  IInv'
<1>1. RowType' /\ AgentType' /\ Holds /\ turned' = turned
  BY SameAgents DEF IInv, FindPath, RowType, seenVars
<1>2. CASE TaskSteps(c, "open") /\ UNCHANGED runtimeVars
  BY <1>1, <1>2, TaskStepsLemma, SameRuntimes, TaskMoves
     DEF IInv, FindPath, TaskPC, Trying, runtimeVars
<1>3. CASE Failed(c)
  BY <1>1, <1>3, FailedLemma, TaskMoves DEF IInv, FindPath, Unused, Trying
<1>4. QED
  BY <1>2, <1>3 DEF FindPath

LEMMA OpenStoreStep ==
  ASSUME IInv, NEW c \in Clients, OpenStore(c)
  PROVE  IInv'
<1>1. RowType' /\ AgentType' /\ Holds /\ turned' = turned
  BY SameAgents DEF IInv, OpenStore, RowType, seenVars
<1>2. CASE TaskSteps(c, "cloud") /\ UNCHANGED runtimeVars
  BY <1>1, <1>2, TaskStepsLemma, SameRuntimes, TaskMoves
     DEF IInv, OpenStore, TaskPC, Trying, runtimeVars
<1>3. CASE Failed(c)
  BY <1>1, <1>3, FailedLemma, TaskMoves DEF IInv, OpenStore, Unused, Trying
<1>4. QED
  BY <1>2, <1>3 DEF OpenStore

LEMMA BuiltLemma ==
  ASSUME NEW t \in TaskRec, NEW p \in TaskPC
  PROVE  Built(t, p) \in TaskRec /\ Built(t, p).pc = p /\ Built(t, p).rt = NoRuntime
BY DEF Built, TaskRec, Origins

LEMMA CheckCloudStep ==
  ASSUME IInv, NEW c \in Clients, CheckCloud(c)
  PROVE  IInv'
<1>1. RowType' /\ AgentType' /\ Holds /\ RuntimeType' /\ Sinks /\ UNCHANGED <<current, born>>
  BY SameAgents, SameRuntimes DEF IInv, CheckCloud, RowType, runtimeVars
<1>2. CASE Ends(c) /\ turned' = TRUE
  BY <1>1, <1>2, EndsLemma, TaskMoves DEF IInv, CheckCloud, Unused
<1>3. ASSUME NEW t \in TaskRec, task' = [task EXCEPT ![c] = t], turned' = turned,
             t.pc \notin {"unused", "mark"}, t.rt \in {task[c].rt, NoRuntime, current}
      PROVE  IInv'
  <2>1. TaskType' /\ \A d \in Clients : task'[d] = IF d = c THEN t ELSE task[d]
    BY <1>3 DEF IInv, TaskType
  <2>2. task[c].pc = "cloud"
    BY DEF CheckCloud
  <2>3. QED
    BY <1>1, <1>3, <2>1, <2>2, TaskMoves DEF IInv, Trying
<1>4. CASE ~(Ends(c) /\ turned' = TRUE)
  <2> DEFINE t == task[c]
  <2>1. t \in TaskRec
    BY DEF IInv, TaskType
  <2>2. CASE t.pair /\ net[c].linked
    <3>1. task' = [task EXCEPT ![c] = [t EXCEPT !.pc = "path", !.pair = FALSE]] /\ turned' = turned
      BY <1>4, <2>2 DEF CheckCloud
    <3>2. QED
      BY <1>3, <2>1, <3>1 DEF TaskRec, TaskPC
  <2>3. CASE ~(t.pair /\ net[c].linked) /\ current # NoRuntime
    <3>1. task' = [task EXCEPT ![c] = [t EXCEPT !.pc = "install",
       !.rt = current]] /\ turned' = turned
      BY <1>4, <2>3 DEF CheckCloud
    <3>2. QED
      BY <1>3, <2>1, <3>1 DEF TaskRec, TaskPC, IInv, RuntimeType
  <2>4. CASE ~(t.pair /\ net[c].linked) /\ current = NoRuntime
    <3>1. PICK p \in {"run", "note"} : task' = [task EXCEPT ![c] = Built(t, p)]
      BY <1>4, <2>4 DEF CheckCloud
    <3>2. turned' = turned /\ p \in TaskPC
      BY <1>4 DEF CheckCloud, TaskPC
    <3>3. QED
      BY <1>3, <2>1, <3>1, <3>2, BuiltLemma
  <2>5. QED
    BY <2>2, <2>3, <2>4
<1>5. QED
  BY <1>2, <1>4

LEMMA NoteWaitingStep ==
  ASSUME IInv, NEW c \in Clients, NoteWaiting(c)
  PROVE  IInv'
<1>1. Claim("WaitingForQr") \in Claims
  BY DEF Claim, Claims, RowStatuses
<1>2. QED
  BY <1>1, WriteRowLemma, SameAgents, SameRuntimes, TaskStepsLemma, TaskMoves
     DEF IInv, NoteWaiting, runtimeVars, seenVars, TaskPC, Trying

LEMMA MarkRowStep ==
  ASSUME IInv, NEW c \in Clients, MarkRow(c)
  PROVE  IInv'
BY DownIsClaim, WriteRowLemma, SameAgents, SameRuntimes, EndsLemma, TaskMoves
   DEF IInv, MarkRow, runtimeVars, seenVars, Unused, Trying

LEMMA ReturnStep ==
  ASSUME IInv, NEW c \in Clients, Return(c)
  PROVE  IInv'
<1>1. /\ RowType' /\ AgentType' /\ Holds /\ turned' = turned /\ UNCHANGED <<current, born>>
      /\ task[c].pc = "run"
  BY SameAgents DEF IInv, Return, RowType, seenVars
<1>2. CASE current = NoRuntime
  BY <1>1, <1>2, TaskStepsLemma, SameRuntimes, TaskMoves
     DEF IInv, Return, TaskPC
<1>3. CASE current # NoRuntime /\ StillCurrent(c)
  <2>1. RuntimeType' /\ Sinks /\ status'[current] = "Disconnected" /\ slot'[current] # c
    BY <1>1, <1>3, LowerLemma, SessionsAssumption DEF IInv, Return, Lower, RuntimeType
  <2>2. TaskSteps(c, "mark")
    BY <1>3 DEF Return
  <2>3. QED
    BY <1>1, <2>1, <2>2, TaskStepsLemma, TaskMoves DEF IInv, TaskPC
<1>4. CASE current # NoRuntime /\ ~StillCurrent(c)
  <2>1. Ends(c) /\ UNCHANGED <<status, slot>> /\ slot[current] \in Clients \ {c}
    BY <1>4 DEF IInv, Return, StillCurrent, RuntimeType
  <2>2. QED
    BY <1>1, <2>1, EndsLemma, SameRuntimes, TaskMoves DEF IInv, Unused
<1>5. QED
  BY <1>2, <1>3, <1>4

LEMMA InstallStep ==
  ASSUME IInv, NEW c \in Clients, Install(c)
  PROVE  IInv'
<1> DEFINE t == task[c]
<1>1. RowType' /\ AgentType' /\ Holds
  BY SameAgents DEF IInv, Install, RowType
<1>2. t \in TaskRec
  BY DEF IInv, TaskType
<1>3. PICK p \in {"run", "note"} : task' = [task EXCEPT ![c] = Built(t, p)]
  BY DEF Install
<1>4. TaskType' /\ \A d \in Clients : task'[d] = IF d = c THEN Built(t, p) ELSE task[d]
  BY <1>2, <1>3, BuiltLemma DEF IInv, TaskType, TaskPC
<1>5. task'[c].pc \in {"run", "note"} /\ task'[c].rt = NoRuntime /\ t.pc = "install"
  BY <1>2, <1>3, <1>4, BuiltLemma DEF TaskPC, Install
<1>6. /\ RuntimeType' /\ UNCHANGED <<current, born, turned>>
      /\ \A r \in Runtimes \ {t.rt} : status'[r] = status[r] /\ slot'[r] = slot[r]
      /\ t.rt \in Runtimes => slot'[t.rt] = c
  BY DEF IInv, Install, RuntimeType, Statuses, seenVars
<1>7. Known'
  <2>1. t.rt \in born \cup {NoRuntime}
    BY DEF IInv, Known
  <2>2. \A s \in Runtimes \ born' : status'[s] = "Disconnected" /\ slot'[s] = NoClient
    BY <1>6, <2>1, SessionsAssumption DEF IInv, Known
  <2>3. \A d \in Clients : task'[d].rt \in born' \cup {NoRuntime}
    BY <1>4, <1>5, <1>6 DEF IInv, Known
  <2>4. \A b \in Agents : agent'[b].rt \in born' \cup {NoRuntime}
    BY <1>1, <1>6 DEF IInv, Known, Holds
  <2>5. QED
    BY <1>6, <2>2, <2>3, <2>4 DEF IInv, Known
<1>8. SlotIsRun'
  BY <1>4, <1>5, <1>6 DEF IInv, SlotIsRun, RuntimeType
<1>9. LiveStatusIsServed'
  BY <1>5 DEF LiveStatusIsServed
<1>10. QED
  BY <1>1, <1>4, <1>6, <1>7, <1>8, <1>9 DEF IInv

-----------------------------------------------------------------------------
(* A client's report.                                                      *)

LEMMA ReportStep ==
  ASSUME IInv, NEW c \in Clients, NEW what, NEW st \in Statuses, Report(c, what, st)
  PROVE  IInv'
<1>1. /\ RowType' /\ TaskType' /\ UNCHANGED <<current, slot, born, task, turned>>
      /\ task[c].pc = "run"
  BY DEF IInv, Report, RowType, TaskType, Running, seenVars
<1>2. CASE Heard(c)
  <2>1. /\ agent' = [agent EXCEPT ![c] = [Idle EXCEPT !.op = "say", !.pc = "write",
                                                      !.rt = current, !.say = Claim(st)]]
        /\ status' = [status EXCEPT ![current] = st]
    BY <1>2 DEF Report
  <2>2. AgentType' /\ Holds
    BY <2>1 DEF IInv, AgentType, AgentRec, AgentPC, AgentOps, Idle, Claim, Claims, RowStatuses, Agents,
                Holds, RuntimeType
  <2>3. RuntimeType' /\ \A r \in Runtimes \ {current} : status'[r] = status[r]
    BY <1>1, <2>1 DEF IInv, RuntimeType
  <2>4. Known'
    <3>1. \A r \in Runtimes \ born' : status'[r] = "Disconnected" /\ slot'[r] = NoClient
      BY <1>1, <2>3, SessionsAssumption DEF IInv, Known
    <3>2. \A b \in Agents : agent'[b].rt \in born' \cup {NoRuntime}
      BY <1>1, <2>2 DEF IInv, Known, Holds
    <3>3. QED
      BY <1>1, <3>1, <3>2 DEF IInv, Known
  <2>5. SlotIsRun' /\ LiveStatusIsServed'
    BY <1>1 DEF IInv, SlotIsRun, LiveStatusIsServed
  <2>6. QED
    BY <1>1, <2>2, <2>3, <2>4, <2>5 DEF IInv
<1>3. CASE ~Heard(c)
  BY <1>1, <1>3, SameAgents, SameRuntimes, Sinking DEF IInv, Report
<1>4. QED
  BY <1>2, <1>3

-----------------------------------------------------------------------------
(* A step that starts a connect task.                                      *)

LEMMA SpawnLemma ==
  ASSUME IInv, NEW r \in born \cup {NoRuntime} \cup Runtimes, NEW st \in Statuses,
     NEW o \in Origins,
         Spawn(r, st, o), RowType', AgentType',
         \A b \in Agents : agent'[b].rt \in {agent[b].rt, NoRuntime, r},
         \/ Mapped(r)
         \/ UNCHANGED <<current, born>> /\ r \in born \cup {NoRuntime},
         \/ slot' = slot
         \/ slot' = [slot EXCEPT ![r] = NoClient]
  PROVE  IInv'
<1>1. PICK c \in Clients :
        /\ task[c] = Unused
        /\ task' = [task EXCEPT ![c] = [pc |-> "path", pair |-> o = "pair", origin |-> o,
                                        rt |-> NoRuntime]]
  BY DEF Spawn, Dropped
<1>2. TaskType' /\ \A d \in Clients \ {c} : task'[d] = task[d]
  BY <1>1 DEF IInv, TaskType, TaskRec, TaskPC
<1>3. task'[c].pc = "path" /\ task'[c].rt = NoRuntime
  BY <1>1 DEF IInv, TaskType
<1>4. /\ current' \in {current, r} /\ born' \in {born, born \cup {r}}
      /\ current' \in born' \cup {NoRuntime} /\ r \in born' \cup {NoRuntime}
      /\ current' # current => r \in Runtimes \ born
      /\ born' \in SUBSET Runtimes
  BY DEF Mapped, GetOrCreate, IInv, Known, RuntimeType
<1>5. /\ RuntimeType'
      /\ \A s \in Runtimes : /\ s # r => status'[s] = status[s]
                             /\ slot'[s] \in {slot[s], NoClient}
  BY <1>4 DEF IInv, RuntimeType, Spawn
<1>6. Known'
  <2>1. \A s \in Runtimes \ born' : status'[s] = "Disconnected" /\ slot'[s] = NoClient
    BY <1>4, <1>5, SessionsAssumption DEF IInv, Known
  <2>2. \A d \in Clients : task'[d].rt \in born' \cup {NoRuntime}
    BY <1>2, <1>3, <1>4 DEF IInv, Known
  <2>3. \A b \in Agents : agent'[b].rt \in born' \cup {NoRuntime}
    BY <1>4 DEF IInv, Known
  <2>4. QED
    BY <1>4, <2>1, <2>2, <2>3 DEF Known
<1>7. SlotIsRun'
  <2> SUFFICES ASSUME NEW d \in Clients, current' # NoRuntime, slot'[current'] = d
               PROVE  task'[d].pc \in {"note", "run"}
    BY DEF SlotIsRun
  <2>1. current' \in Runtimes /\ slot[current'] = d
    BY <1>5, SessionsAssumption DEF RuntimeType
  <2>2. current' = current
    BY <1>4, <2>1, SessionsAssumption DEF IInv, Known
  <2>3. task[d].pc \in {"note", "run"}
    BY <2>1, <2>2 DEF IInv, SlotIsRun
  <2>4. QED
    BY <1>1, <1>2, <2>3 DEF Unused
<1>8. LiveStatusIsServed'
  BY <1>3 DEF LiveStatusIsServed
<1>9. QED
  BY <1>2, <1>5, <1>6, <1>7, <1>8 DEF IInv

LEMMA PairingQrCodeStep ==
  ASSUME IInv, NEW c \in Clients, PairingQrCode(c)
  PROVE  IInv'
BY ReportStep DEF PairingQrCode, Statuses

LEMMA ConnectedStep ==
  ASSUME IInv, NEW c \in Clients, Connected(c)
  PROVE  IInv'
BY ReportStep DEF Connected, Statuses

LEMMA DisconnectedStep ==
  ASSUME IInv, NEW c \in Clients, Disconnected(c)
  PROVE  IInv'
BY ReportStep DEF Disconnected, Statuses

\* A runtime is put into the map, and no task is started on it.
LEMMA MappedLemma ==
  ASSUME IInv, NEW r \in Runtimes, Mapped(r), RowType', AgentType',
         \A b \in Agents : agent'[b].rt \in {agent[b].rt, NoRuntime, r},
         UNCHANGED <<status, slot, task, turned>>
  PROVE  IInv'
<1>1. /\ current' = r /\ born' = born \cup {r}
      /\ current' # current => r \in Runtimes \ born
  BY DEF Mapped, GetOrCreate
<1>2. TaskType' /\ RuntimeType'
  BY <1>1 DEF IInv, TaskType, TaskRec, RuntimeType
<1>3. Known'
  BY <1>1 DEF IInv, Known
<1>4. SlotIsRun'
  BY <1>1, SessionsAssumption DEF IInv, SlotIsRun, Known
<1>5. LiveStatusIsServed'
  BY <1>1, SessionsAssumption DEF IInv, LiveStatusIsServed, Known
<1>6. QED
  BY <1>2, <1>3, <1>4, <1>5 DEF IInv

LEMMA FinishesLemma ==
  ASSUME AgentType, NEW a \in Agents, Finish(a), NEW r
  PROVE  AgentType' /\ \A b \in Agents : agent'[b].rt \in {agent[b].rt, NoRuntime, r}
BY DEF AgentType, AgentRec, Finish, Idle, Claim, Claims, RowStatuses, AgentPC, AgentOps

LEMMA ConnectSpawnStep ==
  ASSUME IInv, NEW q \in Requests, ConnectSpawn(q)
  PROVE  IInv'
<1>1. PICK r \in Runtimes : Mapped(r) /\ Spawn(r, "Connecting", "connect")
  BY DEF ConnectSpawn
<1>2. QED
  BY <1>1, FinishesLemma, SpawnLemma DEF IInv, ConnectSpawn, RowType, Agents, RowStatuses, Statuses, Origins

LEMMA CreateSpawnStep ==
  ASSUME IInv, NEW q \in Requests, CreateSpawn(q)
  PROVE  IInv'
<1>1. PICK r \in Runtimes : Mapped(r) /\ Spawn(r, "Connecting", "create")
  BY DEF CreateSpawn
<1>2. RowType'
  BY DEF CreateSpawn, InsertRow, RowType, RowStatuses
<1>3. QED
  BY <1>1, <1>2, FinishesLemma, SpawnLemma DEF IInv, CreateSpawn, Agents, Statuses, Origins

LEMMA WaitCheckStep ==
  ASSUME IInv, NEW q \in Requests, WaitCheck(q)
  PROVE  IInv'
<1>1. RowType' /\ slot' = slot /\ turned' = turned
  <2>1. row' = row \/ InsertRow
    BY DEF WaitCheck
  <2>2. RowType'
    <3>1. CASE row' = row
      BY <3>1 DEF IInv, RowType
    <3>2. CASE InsertRow
      BY <3>2 DEF InsertRow, RowType, RowStatuses
    <3>3. QED
      BY <2>1, <3>1, <3>2
  <2>3. QED
    BY <2>2 DEF WaitCheck, seenVars
<1>2. PICK r \in Runtimes :
        /\ Mapped(r)
        /\ \/ Finish(q) /\ UNCHANGED <<status, task>>
           \/ agent' = [agent EXCEPT ![q].pc = "stopped", ![q].rt = r] /\ UNCHANGED <<status, task>>
           \/ Spawn(r, "Connecting", "wait") /\ Finish(q)
  BY DEF WaitCheck
<1>3. CASE Finish(q) /\ UNCHANGED <<status, task>>
  BY <1>1, <1>2, <1>3, FinishesLemma, MappedLemma DEF IInv, Agents
<1>4. CASE agent' = [agent EXCEPT ![q].pc = "stopped", ![q].rt = r] /\ UNCHANGED <<status, task>>
  <2>1. AgentType' /\ \A b \in Agents : agent'[b].rt \in {agent[b].rt, NoRuntime, r}
    BY <1>4 DEF IInv, AgentType, AgentRec, AgentPC, Agents
  <2>2. QED
    BY <1>1, <1>2, <1>4, <2>1, MappedLemma
<1>5. CASE Spawn(r, "Connecting", "wait") /\ Finish(q)
  BY <1>1, <1>2, <1>5, FinishesLemma, SpawnLemma DEF IInv, Agents, Statuses, Origins
<1>6. QED
  BY <1>2, <1>3, <1>4, <1>5

LEMMA WaitStoppedStep ==
  ASSUME IInv, NEW q \in Requests, WaitStopped(q)
  PROVE  IInv'
<1>1. agent[q].rt \in born \cup {NoRuntime}
  BY DEF IInv, Known, Agents
<1>2. QED
  BY <1>1, FinishesLemma, SpawnLemma DEF IInv, WaitStopped, RowType, Agents, RowStatuses, Statuses, Origins

LEMMA PairSpawnStep ==
  ASSUME IInv, NEW q \in Requests, PairSpawn(q)
  PROVE  IInv'
<1>1. PICK r \in Runtimes :
        /\ Mapped(r)
        /\ \/ UNCHANGED <<status, task>>
           \/ Spawn(r, "WaitingForPairCode", "pair")
  BY DEF PairSpawn
<1>2. /\ AgentType' /\ \A b \in Agents : agent'[b].rt \in {agent[b].rt, NoRuntime, r}
      /\ RowType' /\ slot' = slot /\ turned' = turned
  BY FinishesLemma DEF IInv, PairSpawn, RowType, Agents, seenVars
<1>3. QED
  BY <1>1, <1>2, MappedLemma, SpawnLemma DEF Statuses, Origins

LEMMA WalkStep ==
  ASSUME IInv, NEW a \in Requests \cup {Boot}, Walk(a)
  PROVE  IInv'
<1>1. RowType' /\ slot' = slot /\ turned' = turned /\ Finish(a) /\ a \in Agents
  BY DEF IInv, Walk, RowType, Agents, Workers
<1>2. CASE UNCHANGED <<current, status, born, task>>
  BY <1>1, <1>2, FinishLemma, SameRuntimes, Sinking DEF IInv
<1>3. CASE \E r \in Runtimes : Mapped(r) /\ Spawn(r, "Connecting", "boot")
  BY <1>1, <1>3, FinishesLemma, SpawnLemma DEF IInv, Statuses, Origins
<1>4. QED
  BY <1>2, <1>3 DEF Walk

LEMMA RespawnStep ==
  ASSUME IInv, Respawn
  PROVE  IInv'
<1>1. Watchdog \in Agents
  BY DEF Agents, Workers
<1>2. agent[Watchdog].rt \in born \cup {NoRuntime}
  BY <1>1 DEF IInv, Known
<1>3. QED
  BY <1>1, <1>2, FinishesLemma, SpawnLemma DEF IInv, Respawn, RowType, Statuses, Origins

-----------------------------------------------------------------------------
(* The start of a process, and the theorem.                                *)

LEMMA Started ==
  ASSUME RowType, current = NoRuntime, status = [r \in Runtimes |-> "Disconnected"],
         slot = [r \in Runtimes |-> NoClient], born = {}, task = [c \in Clients |-> Unused],
         AgentType, \A a \in Agents : agent[a].rt = NoRuntime
  PROVE  IInv
<1>1. TaskType
  BY DEF TaskType, TaskRec, Unused, TaskPC, Origins
<1>2. RuntimeType
  BY DEF RuntimeType, Statuses
<1>3. Known
  BY DEF Known, Unused
<1>4. SlotIsRun /\ LiveStatusIsServed
  BY DEF SlotIsRun, LiveStatusIsServed
<1>5. QED
  BY <1>1, <1>2, <1>3, <1>4 DEF IInv

\* An agent that does nothing, one that is done, and the walk at startup.
Done == [Idle EXCEPT !.pc = "done"]
Listing == [Idle EXCEPT !.op = "boot", !.pc = "list"]

LEMMA IdleLemma == \A i \in {Idle, Done, Listing} : i \in AgentRec /\ i.rt = NoRuntime
<1>1. Idle \in AgentRec /\ Idle.rt = NoRuntime
  BY DEF Idle, AgentRec, AgentOps, AgentPC, Claim, Claims, RowStatuses
<1>2. Done \in AgentRec /\ Done.rt = NoRuntime
  BY <1>1 DEF Done, AgentRec, AgentPC
<1>3. Listing \in AgentRec /\ Listing.rt = NoRuntime
  BY <1>1 DEF Listing, AgentRec, AgentOps, AgentPC
<1>4. QED
  BY <1>1, <1>2, <1>3

LEMMA InitIInv == Init => IInv
<1> SUFFICES ASSUME Init PROVE IInv
  OBVIOUS
<1>1. RowType
  BY DEF Init, RowType, RowStatuses
<1>2. AgentType /\ \A a \in Agents : agent[a].rt = NoRuntime
  <2>1. agent \in [Agents -> {Idle, Listing}]
    BY DEF Init, Listing
  <2>2. QED
    BY <2>1, IdleLemma DEF AgentType
<1>3. QED
  BY <1>1, <1>2, Started DEF Init

LEMMA CrashStep ==
  ASSUME IInv, Crash
  PROVE  IInv'
<1>1. RowType'
  BY DEF IInv, Crash, RowType
<1>2. AgentType' /\ \A a \in Agents : agent'[a].rt = NoRuntime
  <2>1. agent' \in [Agents -> {Idle, Done, Listing}]
    BY DEF Crash, Done, Listing
  <2>2. QED
    BY <2>1, IdleLemma DEF AgentType
<1>3. TaskType'
  BY DEF Crash, TaskType, TaskRec, Unused, TaskPC, Origins
<1>4. RuntimeType'
  BY DEF Crash, RuntimeType, Statuses
<1>5. Known'
  BY <1>2 DEF Crash, Known, Unused
<1>6. SlotIsRun' /\ LiveStatusIsServed'
  BY DEF Crash, SlotIsRun, LiveStatusIsServed
<1>7. QED
  BY <1>1, <1>2, <1>3, <1>4, <1>5, <1>6 DEF IInv

LEMMA StutterStep ==
  ASSUME IInv, UNCHANGED vars
  PROVE  IInv'
BY SameAgents, SameRuntimes, Sinking DEF IInv, vars, runtimeVars, seenVars, RowType

LEMMA NextIInv == IInv /\ [Next]_vars => IInv'
<1> SUFFICES ASSUME IInv, [Next]_vars PROVE IInv'
  OBVIOUS
<1>1. ASSUME NEW c \in Clients, ConnectTask(c) PROVE IInv'
  BY <1>1, FindPathStep, OpenStoreStep, CheckCloudStep, InstallStep, NoteWaitingStep, ReturnStep,
     MarkRowStep DEF ConnectTask
<1>2. ASSUME NEW c \in Clients, Network(c) PROVE IInv'
  BY <1>2, DialStep, LinkStep, LogInStep, DropSocketStep, SaveStep DEF Network
<1>3. ASSUME NEW c \in Clients, Events(c) PROVE IInv'
  BY <1>3, PairingQrCodeStep, ConnectedStep, DisconnectedStep, LoggedOutStep, SnapshotStep,
     LogoutStoppedStep, SayStep, LockedStep, CountedStep DEF Events
<1>4. ASSUME NEW a \in Clients \cup Requests, Unlinking(a) PROVE IInv'
  BY <1>4, UnlinkPathStep, ResetDeviceStep, WriteDownStep DEF Unlinking
<1>5. ASSUME NEW q \in Requests, Connecting(q) PROVE IInv'
  BY <1>5, ConnectStep, ConnectStoppedStep, ConnectSpawnStep, RegisterStep, CreateSpawnStep,
     WaitStep, WaitCheckStep, WaitStoppedStep, PairStep, PairSpawnStep DEF Connecting
<1>6. ASSUME NEW q \in Requests, Disconnecting(q) PROVE IInv'
  BY <1>6, DisconnectStep, DisconnectStoppedStep, DisconnectAllStep, DisconnectAllStoppedStep,
     LogoutStep, LogoutLeaveStep, LogoutUnlinkStep, DeleteStep, DeleteStoppedStep, RemoveDirStep,
     EraseRowStep DEF Disconnecting
<1>7. ASSUME NEW q \in Requests, Moving(q) PROVE IInv'
  BY <1>7, ExportStep, ExportStoppedStep, ExportWriteStep, ZipStep, ImportStep, UnzipStep,
     ConnectCloudStep, SetProviderStep, RemoveStep, CloudStoppedStep, SweepStep DEF Moving
<1>8. ASSUME NEW q \in Requests, Abandon(q) PROVE IInv'
  BY <1>8, AbandonStep
<1>9. ASSUME NEW a \in Requests \cup {Boot}, List(a) \/ Walk(a) PROVE IInv'
  BY <1>9, ListStep, WalkStep
<1>10. CASE Rebuilding \/ CoolDown \/ Crash
  BY <1>10, PatrolStep, RebuildStoppedStep, RebuildWriteStep, RespawnStep, CoolDownStep, CrashStep
     DEF Rebuilding
<1>11. CASE UNCHANGED vars
  BY <1>11, StutterStep
<1>12. QED
  BY <1>1, <1>2, <1>3, <1>4, <1>5, <1>6, <1>7, <1>8, <1>9, <1>10, <1>11 DEF Next

\* A session in a live status has a connect task that will lower it, in every reachable state, for
\* every number of requests, clients and runtimes, whatever overlaps, fails, drops or restarts:
\* connection.rs never leaves a status that nothing ends, except in a session turned cloud.
THEOREM ServedTheorem == Spec => []LiveStatusIsServed
<1>1. IInv => LiveStatusIsServed
  BY DEF IInv
<1>2. QED
  BY InitIInv, NextIInv, <1>1, PTL DEF Spec

-----------------------------------------------------------------------------
(* Who is in charge.  Unless control operations have overlapped, at most   *)
(* one request, worker or handler works on the session, or one connect     *)
(* task builds a client; what it found out when it entered stays true      *)
(* until it acts on it, since nobody else changes the map, the slot or the *)
(* store meanwhile.                                                        *)

\* Where a task with each kind of work can be.
Places(op) ==
  CASE op = "none" -> {"idle", "done"}
    [] op = "say" -> {"write"}
    [] op \in {"loggedOut", "locked"} -> {"snapshot", "stopped", "write"}
    [] op = "rebuild" -> {"stopped", "write", "respawn"}
    [] op \in {"boot", "sweep"} -> {"list", "path"}
    [] op = "connect" -> {"stopped", "path"}
    [] op = "wait" -> {"path", "insert", "stopped"}
    [] op = "pair" -> {"path"}
    [] op = "create" -> {"insert"}
    [] op \in {"disconnect", "disconnectAll"} -> {"stopped", "write"}
    [] op = "logout" -> {"leave", "stopped", "upath", "reset", "write"}
    [] op = "delete" -> {"stopped", "rmdir", "erase"}
    [] op = "export" -> {"stopped", "write", "zip"}
    [] op = "import" -> {"unzip"}
    [] op = "cloud" -> {"provider", "remove", "stopped"}
    [] OTHER -> {}

\* Which kinds of work each task does.
Jobs(a) ==
  IF a \in Clients THEN {"none", "say", "loggedOut", "locked", "logout"}
  ELSE IF a = Watchdog THEN {"none", "rebuild"}
  ELSE IF a = Boot THEN {"none", "boot"}
  ELSE AllOps \cup {"none"}

Formed(a) ==
  /\ agent[a].op \in Jobs(a) /\ agent[a].pc \in Places(agent[a].op)
  /\ a \in Clients /\ agent[a].op = "logout" => agent[a].pc \in {"upath", "reset", "write"}
  /\ a \notin Requests => agent[a].pc # "done"

FormInv == \A a \in Agents : Formed(a)

NetRec == [sock : {"off", "open", "in"}, told : {"none", "qr", "in", "off", "out"},
           linked : BOOLEAN, stopped : BOOLEAN]

\* A client that WhatsApp has logged out does not dial again.
NetInv ==
  /\ net \in [Clients -> NetRec]
  /\ \A c \in Clients : net[c].told = "out" => net[c].sock = "off"

\* A runtime that has not been created does not cool down.
CoolInv ==
  /\ cooling \in [Runtimes -> BOOLEAN]
  /\ \A r \in Runtimes \ born : ~cooling[r]

InCharge(a) == agent[a].op \notin {"none", "say"}
Builds(c) == task[c].pc \in {"path", "open", "cloud", "install"}

Quiet == \A c \in Clients : ~Live(c)

\* A client may be live beside these.
Loud(a) ==
  \/ agent[a].op \in {"pair", "import", "sweep"}
  \/ At(a, "wait", "path")
  \/ At(a, "cloud", "provider") \/ At(a, "cloud", "remove")
  \/ At(a, "logout", "leave")

\* What is known to the task in charge.
Held(a) ==
  /\ \/ agent[a].op \in {"connect", "pair"}
     \/ agent[a].op = "wait" /\ agent[a].pc # "insert"
     => row.there
  /\ At(a, "connect", "stopped") \/ At(a, "wait", "stopped") \/ agent[a].op = "rebuild" =>
       current # NoRuntime /\ agent[a].rt = current
  /\ At(a, "connect", "path") \/ agent[a].op = "rebuild" =>
       current = NoRuntime \/ ~cooling[current]
  /\ At(a, "logout", "leave") => current # NoRuntime /\ slot[current] = NoClient
  /\ agent[a].op = "delete" /\ agent[a].pc # "stopped" => current = NoRuntime
  /\ agent[a].op = "boot" => current = NoRuntime

\* What is known to a connect task that builds its client.
Building(c) ==
  /\ current # NoRuntime
  /\ task[c].pc = "install" => task[c].rt = current
  /\ cooling[current] => task[c].origin = "pair"
  /\ task[c].pc \in {"cloud", "install"} /\ net[c].linked => store

\* What holds of a live client.
Owned(c) ==
  /\ \/ current # NoRuntime /\ slot[current] = c
     \/ \E q \in Requests : agent[q].old = c /\ At(q, "logout", "leave")
  /\ current # NoRuntime /\ cooling[current] => task[c].origin = "pair"
  /\ net[c].linked => store

Alone ==
  /\ \A a, b \in Agents : InCharge(a) /\ InCharge(b) => a = b
  /\ \A c, d \in Clients : Builds(c) /\ Builds(d) => c = d
  /\ \A a \in Agents, c \in Clients : ~(InCharge(a) /\ Builds(c))

Calm ==
  /\ Alone
  /\ \A a \in Agents : InCharge(a) => Held(a) /\ (Loud(a) \/ Quiet)
  /\ \A c \in Clients : Builds(c) => Building(c) /\ Quiet
  /\ \A c \in Clients : Live(c) => Owned(c)
  /\ row.there \/ current = NoRuntime

ChargeInv == disturbed \in BOOLEAN /\ (~disturbed => Calm)

CInv == FormInv /\ NetInv /\ CoolInv /\ ChargeInv
-----------------------------------------------------------------------------
(* Steps of one task, and what they leave to the others.                   *)

\* Only a moves.
Only(a) == \A b \in Agents : b # a => agent'[b] = agent[b]

LEMMA Members ==
  /\ \A q \in Requests : q \in Agents /\ q \notin Clients /\ q # Watchdog /\ q # Boot
  /\ \A c \in Clients : c \in Agents /\ c \notin Requests /\ c # Watchdog /\ c # Boot
  /\ Watchdog \in Agents /\ Watchdog \notin Requests /\ Watchdog \notin Clients
  /\ Boot \in Agents /\ Boot \notin Requests /\ Boot \notin Clients /\ Boot # Watchdog
BY SessionsAssumption DEF Agents, Workers

LEMMA Stepped ==
  ASSUME AgentType, NEW a \in Agents, NEW p, Steps(a, p)
  PROVE  /\ Only(a)
         /\ agent'[a].op = agent[a].op /\ agent'[a].pc = p
         /\ agent'[a].rt = agent[a].rt /\ agent'[a].old = agent[a].old
BY DEF AgentType, AgentRec, Steps, Only

LEMMA Ended ==
  ASSUME AgentType, NEW a \in Agents, Finish(a)
  PROVE  /\ Only(a)
         /\ agent'[a].op = "none" /\ agent'[a].pc \in {"idle", "done"}
         /\ a \notin Requests => agent'[a].pc = "idle"
<1>1. agent'[a] = IF a \in Requests THEN [Idle EXCEPT !.pc = "done"] ELSE Idle
  BY DEF AgentType, Finish
<1>2. agent'[a].op = "none" /\ agent'[a].pc \in {"idle", "done"}
      /\ (a \notin Requests => agent'[a].pc = "idle")
  BY <1>1 DEF Idle
<1> QED
  BY <1>2 DEF AgentType, Finish, Only

LEMMA Rested ==
  ASSUME FormInv, ~Controlled
  PROVE  /\ \A a \in Agents : ~InCharge(a)
         /\ \A c \in Clients : ~Builds(c)
<1>1. \A c \in Clients : ~Builds(c)
  BY DEF Controlled, Builds
<1>2. ASSUME NEW a \in Agents
      PROVE  ~InCharge(a)
  <2>1. Formed(a)
    BY DEF FormInv
  <2>2. CASE a \in Clients
    BY <2>1, <2>2, Members DEF Formed, Jobs, InCharge, Controlled
  <2>3. CASE a \in Requests \cup Workers
    <3>1. agent[a].pc \in {"idle", "done"}
      BY <2>3 DEF Controlled
    <3> QED
      BY <2>1, <3>1 DEF Formed, Places, InCharge
  <2> QED
    BY <2>2, <2>3 DEF Agents
<1> QED
  BY <1>1, <1>2

LEMMA EnteredQuietly ==
  ASSUME ChargeInv, FormInv, Enters
  PROVE  /\ disturbed' \in BOOLEAN
         /\ ~disturbed' => /\ ~disturbed /\ Calm
                           /\ \A a \in Agents : ~InCharge(a)
                           /\ \A c \in Clients : ~Builds(c)
<1>1. disturbed' \in BOOLEAN /\ (~disturbed' => ~disturbed /\ ~Controlled)
  BY DEF Enters, ChargeInv
<1> QED
  BY <1>1, Rested DEF ChargeInv

LEMMA Entered ==
  ASSUME AgentType, ChargeInv, FormInv, NEW q, NEW o, NEW p, NEW r, NEW c, NEW say,
         Enter(q, o, p, r, c, say)
  PROVE  /\ q \in Requests /\ o \in Ops /\ Only(q) /\ Enters
         /\ agent'[q].op = o /\ agent'[q].pc = p /\ agent'[q].rt = r /\ agent'[q].old = c
BY Members DEF AgentType, Enter, Only

-----------------------------------------------------------------------------
(* The forms.                                                              *)

LEMMA FormMoves ==
  ASSUME FormInv, NEW a \in Agents, Only(a), Formed(a)'
  PROVE  FormInv'
<1> SUFFICES ASSUME NEW b \in Agents
             PROVE  Formed(b)'
  BY DEF FormInv
<1>1. CASE b = a
  BY <1>1
<1>2. CASE b # a
  <2>1. agent'[b] = agent[b] /\ Formed(b)
    BY <1>2 DEF Only, FormInv
  <2> QED
    BY <2>1 DEF Formed, Jobs
<1> QED
  BY <1>1, <1>2

LEMMA FormStays ==
  ASSUME FormInv, agent' = agent
  PROVE  FormInv'
BY DEF FormInv, Formed, Jobs

LEMMA FormStepped ==
  ASSUME AgentType, FormInv, NEW a \in Agents, NEW p, Steps(a, p),
         p \in Places(agent[a].op), p # "done",
         a \in Clients /\ agent[a].op = "logout" => p \in {"upath", "reset", "write"}
  PROVE  FormInv'
<1>1. Only(a) /\ agent'[a].op = agent[a].op /\ agent'[a].pc = p
  BY Stepped
<1>2. Formed(a)'
  BY <1>1 DEF FormInv, Formed, Jobs
<1> QED
  BY <1>1, <1>2, FormMoves

LEMMA FormEnded ==
  ASSUME AgentType, FormInv, NEW a \in Agents, Finish(a)
  PROVE  FormInv'
<1>1. /\ Only(a) /\ agent'[a].op = "none" /\ agent'[a].pc \in {"idle", "done"}
      /\ a \notin Requests => agent'[a].pc = "idle"
  BY Ended
<1>2. Formed(a)'
  BY <1>1 DEF Formed, Jobs, Places
<1> QED
  BY <1>1, <1>2, FormMoves

-----------------------------------------------------------------------------
(* The client.                                                             *)

Quieter == \A c \in Clients : Live(c)' => Live(c)

LEMMA SameNet ==
  ASSUME NetInv, UNCHANGED <<net, task>>
  PROVE  NetInv' /\ Quieter
BY DEF NetInv, Quieter, Live

LEMMA Stopped ==
  ASSUME NetInv, NEW c, Stop(c), UNCHANGED task
  PROVE  /\ NetInv' /\ Quieter /\ (c \in Clients => ~Live(c)')
         /\ \A d \in Clients : net'[d].linked = net[d].linked
<1>1. \A d \in Clients : /\ net'[d] \in NetRec
                         /\ net'[d].sock = net[d].sock /\ net'[d].told = net[d].told
                         /\ net'[d].linked = net[d].linked
                         /\ net[d].stopped => net'[d].stopped
  BY DEF NetInv, NetRec, Stop
<1>2. NetInv'
  BY <1>1 DEF NetInv, Stop
<1>3. Quieter
  BY <1>1 DEF Quieter, Live
<1>4. c \in Clients => ~Live(c)'
  <2>1. c \in Clients => net'[c].stopped = (net[c].stopped \/ task[c] # Unused)
    BY DEF NetInv, NetRec, Stop
  <2> QED
    <3> SUFFICES ASSUME c \in Clients, task'[c].pc \in {"note", "run"}
                 PROVE  net'[c].stopped
      BY DEF Live
    <3>1. task[c] # Unused
      BY DEF Unused
    <3> QED
      BY <2>1, <3>1
<1> QED
  BY <1>1, <1>2, <1>3, <1>4

LEMMA Aimed ==
  ASSUME RuntimeType, NEW r \in Runtimes, slot[r] # NoClient
  PROVE  slot[r] \in Clients
BY DEF RuntimeType

\* With nothing in the slot, nobody is live unless a logout has a client in hand.
LEMMA EmptySlot ==
  ASSUME Calm, current = NoRuntime \/ slot[current] = NoClient,
         \A q \in Requests : ~At(q, "logout", "leave")
  PROVE  Quiet
BY SessionsAssumption DEF Calm, Quiet, Owned
-----------------------------------------------------------------------------
(* Calm is kept, by kind of step.                                          *)

\* The row stays, or the session has left the map.
RowStays == row'.there \/ current' = NoRuntime

\* The task in charge goes on, or ends; it starts no connect and no client comes to life.
LEMMA GoesOn ==
  ASSUME FormInv, Calm, NEW a \in Agents, InCharge(a), Only(a), task' = task, Quieter,
         InCharge(a)' => Held(a)' /\ (Loud(a)' \/ Quiet'),
         Quiet' \/ \A c \in Clients : Live(c)' => Owned(c)',
         RowStays
  PROVE  Calm'
<1>1. \A b \in Agents : b # a => ~InCharge(b)'
  BY DEF Calm, Alone, Only, InCharge
<1>2. \A c \in Clients : ~Builds(c)'
  BY DEF Calm, Alone, Builds
<1>3. Alone'
  BY <1>1, <1>2 DEF Alone
<1>4. \A b \in Agents : InCharge(b)' => Held(b)' /\ (Loud(b)' \/ Quiet')
  BY <1>1
<1>5. \A c \in Clients : Live(c)' => Owned(c)'
  BY DEF Quiet
<1> QED
  BY <1>2, <1>3, <1>4, <1>5 DEF Calm, RowStays

\* The same when nobody is live beside it.
LEMMA GoesOnAlone ==
  ASSUME FormInv, Calm, NEW a \in Agents, InCharge(a), ~Loud(a), Only(a), task' = task, Quieter,
         InCharge(a)' => Held(a)', RowStays
  PROVE  Calm'
<1>1. Quiet'
  BY DEF Calm, Quiet, Quieter
<1> QED
  BY <1>1, GoesOn

\* A task takes charge.
LEMMA TakesCharge ==
  ASSUME \A b \in Agents : ~InCharge(b), \A c \in Clients : ~Builds(c),
         NEW a \in Agents, Only(a), task' = task,
         Held(a)', Loud(a)' \/ Quiet',
         Quiet' \/ \A c \in Clients : Live(c)' => Owned(c)',
         RowStays
  PROVE  Calm'
<1>1. \A b \in Agents : b # a => ~InCharge(b)'
  BY DEF Only, InCharge
<1>2. \A c \in Clients : ~Builds(c)'
  BY DEF Builds
<1>3. Alone'
  BY <1>1, <1>2 DEF Alone
<1>4. \A b \in Agents : InCharge(b)' => Held(b)' /\ (Loud(b)' \/ Quiet')
  BY <1>1
<1>5. \A c \in Clients : Live(c)' => Owned(c)'
  BY DEF Quiet
<1> QED
  BY <1>2, <1>3, <1>4, <1>5 DEF Calm, RowStays

\* The task in charge hands over to a connect task.
LEMMA HandsOver ==
  ASSUME TaskType, Calm, NEW a \in Agents, InCharge(a), Only(a), ~InCharge(a)', Quiet, net' = net,
         NEW r, NEW st, NEW o, Spawn(r, st, o),
         current' # NoRuntime, cooling'[current'] => o = "pair", row'.there
  PROVE  Calm'
<1>1. PICK c \in Clients :
        task' = [task EXCEPT ![c] = [pc |-> "path", pair |-> o = "pair", origin |-> o,
                                     rt |-> NoRuntime]]
  BY DEF Spawn
<1>2. /\ task'[c].pc = "path" /\ task'[c].origin = o
      /\ \A d \in Clients : d # c => task'[d] = task[d]
  BY <1>1 DEF TaskType
<1>3. \A b \in Agents : ~InCharge(b)'
  <2>1. \A b \in Agents : b # a => ~InCharge(b)
    BY DEF Calm, Alone
  <2> QED
    BY <2>1 DEF Only, InCharge
<1>4. \A d \in Clients : d # c => ~Builds(d)'
  BY <1>2 DEF Calm, Alone, Builds
<1>5. Alone'
  BY <1>3, <1>4 DEF Alone
<1>6. Quiet'
  BY <1>2 DEF Quiet, Live
<1>7. Building(c)'
  BY <1>2 DEF Building
<1>8. \A d \in Clients : Builds(d)' => Building(d)' /\ Quiet'
  BY <1>4, <1>6, <1>7
<1>9. \A d \in Clients : Live(d)' => Owned(d)'
  BY <1>6 DEF Quiet
<1> QED
  BY <1>3, <1>5, <1>8, <1>9 DEF Calm

\* A connect task goes on: it builds, has built its client, or ends.
LEMMA BuildsOn ==
  ASSUME Calm, NEW c \in Clients, Builds(c), agent' = agent,
         \A d \in Clients : d # c => task'[d] = task[d] /\ net'[d] = net[d],
         Builds(c)' => Building(c)',
         Live(c)' => Owned(c)',
         RowStays
  PROVE  Calm'
<1>1. \A a \in Agents : ~InCharge(a)'
  BY DEF Calm, Alone, InCharge
<1>2. \A d \in Clients : d # c => ~Builds(d)'
  BY DEF Calm, Alone, Builds
<1>3. Alone'
  BY <1>1, <1>2 DEF Alone
<1>4. \A d \in Clients : d # c => ~Live(d)'
  BY DEF Calm, Quiet, Live
<1>5. Builds(c)' => Quiet'
  <2>1. Builds(c)' => ~Live(c)'
    BY DEF Builds, Live
  <2> QED
    BY <1>4, <2>1 DEF Quiet
<1>6. \A d \in Clients : Builds(d)' => Building(d)' /\ Quiet'
  BY <1>2, <1>5
<1>7. \A d \in Clients : Live(d)' => Owned(d)'
  BY <1>4
<1> QED
  BY <1>1, <1>3, <1>6, <1>7 DEF Calm, RowStays

\* A step beside the task in charge: a client's own, a report, the cooldown that ends.
LEMMA Beside ==
  ASSUME Calm, current' = current, row'.there = row.there,
         \A a \in Agents : agent'[a] = agent[a] \/ (~InCharge(a) /\ ~InCharge(a)'),
         \A c \in Clients : Builds(c)' => /\ Builds(c) /\ task'[c] = task[c]
                                          /\ net'[c] = net[c],
         \A c \in Clients : Live(c)' => /\ Live(c) /\ task'[c].origin = task[c].origin
                                        /\ net'[c].linked => net[c].linked \/ store',
         store => store',
         current # NoRuntime => /\ cooling'[current] => cooling[current]
                                /\ slot[current] = NoClient => slot'[current] = NoClient
                                /\ \A c \in Clients : Live(c)' /\ slot[current] = c =>
                                                      slot'[current] = c
  PROVE  Calm'
<1>1. \A a \in Agents : InCharge(a)' => InCharge(a) /\ agent'[a] = agent[a]
  BY DEF InCharge
<1>2. Alone'
  BY <1>1 DEF Calm, Alone
<1>3. Quiet => Quiet'
  BY DEF Quiet
<1>4. \A a \in Agents : InCharge(a)' => Held(a)' /\ (Loud(a)' \/ Quiet')
  <2> SUFFICES ASSUME NEW a \in Agents, InCharge(a)'
               PROVE  Held(a)' /\ (Loud(a)' \/ Quiet')
    OBVIOUS
  <2>1. agent'[a] = agent[a] /\ Held(a) /\ (Loud(a) \/ Quiet)
    BY <1>1 DEF Calm
  <2>2. Held(a)'
    BY <2>1 DEF Held, At
  <2>3. Loud(a) => Loud(a)'
    BY <2>1 DEF Loud, At
  <2> QED
    BY <1>3, <2>1, <2>2, <2>3
<1>5. \A c \in Clients : Builds(c)' => Building(c)' /\ Quiet'
  BY <1>3 DEF Calm, Building
<1>6. \A c \in Clients : Live(c)' => Owned(c)'
  <2> SUFFICES ASSUME NEW c \in Clients, Live(c)'
               PROVE  Owned(c)'
    OBVIOUS
  <2>1. Owned(c)
    BY DEF Calm
  <2>2. ASSUME NEW q \in Requests, agent[q].old = c, At(q, "logout", "leave")
        PROVE  agent'[q].old = c /\ At(q, "logout", "leave")'
    <3>1. q \in Agents /\ InCharge(q)
      BY <2>2, Members DEF At, InCharge
    <3> QED
      BY <2>2, <3>1 DEF At
  <2> QED
    BY <2>1, <2>2 DEF Owned
<1> QED
  BY <1>2, <1>4, <1>5, <1>6 DEF Calm
-----------------------------------------------------------------------------
(* The task in charge takes its next step.                                 *)

LEMMA CoolStays ==
  ASSUME CoolInv, born \subseteq born', UNCHANGED cooling
  PROVE  CoolInv'
BY DEF CoolInv

LEMMA Lifted ==
  ASSUME CoolInv, born \subseteq born', NEW r, Lift(r)
  PROVE  /\ CoolInv' /\ \A s \in Runtimes : cooling'[s] => cooling[s]
         /\ r \in Runtimes => ~cooling'[r]
BY DEF CoolInv, Lift

LEMMA RowWritten ==
  ASSUME RowType, NEW say, WriteRow(say)
  PROVE  row'.there = row.there
BY DEF RowType, WriteRow

LEMMA RowKept ==
  ASSUME Calm, row'.there = row.there, current' \in {current, NoRuntime}
  PROVE  RowStays
BY DEF Calm, RowStays

LEMMA NoDuty ==
  ASSUME NEW a,
         agent'[a].op \notin {"connect", "pair", "wait", "rebuild", "delete", "boot"},
         ~(agent'[a].op = "logout" /\ agent'[a].pc = "leave")
  PROVE  Held(a)'
BY DEF Held, At

LEMMA NobodyLeaves ==
  ASSUME Calm, NEW a \in Agents, InCharge(a), ~At(a, "logout", "leave")
  PROVE  \A q \in Requests : ~At(q, "logout", "leave")
BY Members DEF Calm, Alone, InCharge, At

LEMMA StillOwned ==
  ASSUME Calm, \A q \in Requests : ~At(q, "logout", "leave"),
         UNCHANGED <<current, slot, cooling>>, store => store',
         \A c \in Clients : Live(c)' => /\ Live(c) /\ task'[c].origin = task[c].origin
                                        /\ net'[c].linked => net[c].linked
  PROVE  \A c \in Clients : Live(c)' => Owned(c)'
BY DEF Calm, Owned

LEMMA Proceeds ==
  ASSUME AgentType, FormInv, ChargeInv, NEW a \in Agents, NEW p, Steps(a, p),
         p \in Places(agent[a].op), p # "done",
         a \in Clients /\ agent[a].op = "logout" => p \in {"upath", "reset", "write"},
         InCharge(a), ~Loud(a), task' = task, Quieter, disturbed' = disturbed,
         Calm => Held(a)' /\ RowStays
  PROVE  FormInv' /\ ChargeInv'
<1>1. FormInv'
  BY FormStepped
<1>2. Only(a)
  BY Stepped
<1>3. Calm => Calm'
  BY <1>2, GoesOnAlone
<1> QED
  BY <1>1, <1>3 DEF ChargeInv

LEMMA Concludes ==
  ASSUME AgentType, FormInv, ChargeInv, NEW a \in Agents, Finish(a),
         InCharge(a), task' = task, Quieter, disturbed' = disturbed,
         Calm => RowStays /\ (~Loud(a) \/ \A c \in Clients : Live(c)' => Owned(c)')
  PROVE  FormInv' /\ ChargeInv'
<1>1. FormInv'
  BY FormEnded
<1>2. Only(a) /\ agent'[a].op = "none"
  BY Ended
<1>3. ~InCharge(a)'
  BY <1>2 DEF InCharge
<1>4. Calm => Calm'
  <2>1. CASE ~Loud(a)
    BY <1>2, <1>3, <2>1, GoesOnAlone
  <2>2. CASE \A c \in Clients : Live(c)' => Owned(c)'
    BY <1>2, <1>3, <2>2, GoesOn
  <2> QED
    BY <2>1, <2>2
<1> QED
  BY <1>1, <1>4 DEF ChargeInv

LEMMA ConnectStoppedCalm ==
  ASSUME IInv, CInv, NEW q \in Requests, ConnectStopped(q)
  PROVE  CInv'
<1>1. /\ q \in Agents /\ q \notin Clients /\ agent[q].op = "connect" /\ agent[q].pc = "stopped"
      /\ agent'[q].op = "connect" /\ agent'[q].pc = "path"
  BY Members, Stepped DEF IInv, ConnectStopped, At
<1>2. NetInv' /\ Quieter
  BY SameNet DEF CInv, ConnectStopped
<1>3. CoolInv' /\ (agent[q].rt \in Runtimes => ~cooling'[agent[q].rt])
  BY Lifted DEF CInv, ConnectStopped
<1>4. InCharge(q) /\ ~Loud(q)
  BY <1>1 DEF InCharge, Loud, At
<1>5. Calm => Held(q)' /\ RowStays
  <2> SUFFICES ASSUME Calm
               PROVE  Held(q)' /\ RowStays
    OBVIOUS
  <2>1. row.there /\ current # NoRuntime /\ agent[q].rt = current
    BY <1>1, <1>4 DEF Calm, Held, At
  <2>2. UNCHANGED <<row, current>>
    BY DEF ConnectStopped
  <2> QED
    BY <1>1, <1>3, <2>1, <2>2 DEF Held, At, RowStays, IInv, RuntimeType
<1>6. FormInv' /\ ChargeInv'
  BY <1>1, <1>2, <1>4, <1>5, Proceeds
     DEF IInv, CInv, ConnectStopped, Places, seenVars
<1> QED
  BY <1>2, <1>3, <1>6 DEF CInv

LEMMA DisconnectStoppedCalm ==
  ASSUME IInv, CInv, NEW q \in Requests, DisconnectStopped(q)
  PROVE  CInv'
<1>1. /\ q \in Agents /\ q \notin Clients /\ agent[q].op = "disconnect" /\ agent[q].pc = "stopped"
      /\ agent'[q].op = "disconnect" /\ agent'[q].pc = "write"
  BY Members, Stepped DEF IInv, DisconnectStopped, At
<1>2. NetInv' /\ Quieter /\ CoolInv'
  BY SameNet, CoolStays DEF CInv, DisconnectStopped, runtimeVars
<1>3. InCharge(q) /\ ~Loud(q)
  BY <1>1 DEF InCharge, Loud, At
<1>4. Calm => Held(q)' /\ RowStays
  BY <1>1, NoDuty, RowKept DEF DisconnectStopped, IInv, runtimeVars
<1>5. FormInv' /\ ChargeInv'
  BY <1>1, <1>2, <1>3, <1>4, Proceeds
     DEF IInv, CInv, DisconnectStopped, Places, seenVars
<1> QED
  BY <1>2, <1>5 DEF CInv

LEMMA DisconnectAllStoppedCalm ==
  ASSUME IInv, CInv, NEW q \in Requests, DisconnectAllStopped(q)
  PROVE  CInv'
<1>1. /\ q \in Agents /\ q \notin Clients /\ agent[q].op = "disconnectAll" /\ agent[q].pc = "stopped"
      /\ agent'[q].op = "disconnectAll" /\ agent'[q].pc = "write"
  BY Members, Stepped DEF IInv, DisconnectAllStopped, At
<1>2. NetInv' /\ Quieter /\ CoolInv'
  BY SameNet, CoolStays DEF CInv, DisconnectAllStopped, runtimeVars
<1>3. InCharge(q) /\ ~Loud(q)
  BY <1>1 DEF InCharge, Loud, At
<1>4. Calm => Held(q)' /\ RowStays
  BY <1>1, NoDuty, RowKept DEF DisconnectAllStopped, IInv, runtimeVars
<1>5. FormInv' /\ ChargeInv'
  BY <1>1, <1>2, <1>3, <1>4, Proceeds
     DEF IInv, CInv, DisconnectAllStopped, Places, seenVars
<1> QED
  BY <1>2, <1>5 DEF CInv

LEMMA ExportStoppedCalm ==
  ASSUME IInv, CInv, NEW q \in Requests, ExportStopped(q)
  PROVE  CInv'
<1>1. /\ q \in Agents /\ q \notin Clients /\ agent[q].op = "export" /\ agent[q].pc = "stopped"
      /\ agent'[q].op = "export" /\ agent'[q].pc = "write"
  BY Members, Stepped DEF IInv, ExportStopped, At
<1>2. NetInv' /\ Quieter /\ CoolInv'
  BY SameNet, CoolStays DEF CInv, ExportStopped, runtimeVars
<1>3. InCharge(q) /\ ~Loud(q)
  BY <1>1 DEF InCharge, Loud, At
<1>4. Calm => Held(q)' /\ RowStays
  BY <1>1, NoDuty, RowKept DEF ExportStopped, IInv, runtimeVars
<1>5. FormInv' /\ ChargeInv'
  BY <1>1, <1>2, <1>3, <1>4, Proceeds
     DEF IInv, CInv, ExportStopped, Places, seenVars
<1> QED
  BY <1>2, <1>5 DEF CInv

LEMMA ExportWriteCalm ==
  ASSUME IInv, CInv, NEW q \in Requests, ExportWrite(q)
  PROVE  CInv'
<1>1. /\ q \in Agents /\ q \notin Clients /\ agent[q].op = "export" /\ agent[q].pc = "write"
      /\ agent'[q].op = "export" /\ agent'[q].pc = "zip"
  BY Members, Stepped DEF IInv, ExportWrite, At
<1>2. NetInv' /\ Quieter /\ CoolInv'
  BY SameNet, CoolStays DEF CInv, ExportWrite, runtimeVars
<1>3. InCharge(q) /\ ~Loud(q)
  BY <1>1 DEF InCharge, Loud, At
<1>4. Calm => Held(q)' /\ RowStays
  BY <1>1, NoDuty, RowKept, RowWritten DEF ExportWrite, IInv, runtimeVars
<1>5. FormInv' /\ ChargeInv'
  BY <1>1, <1>2, <1>3, <1>4, Proceeds
     DEF IInv, CInv, ExportWrite, Places, seenVars
<1> QED
  BY <1>2, <1>5 DEF CInv

LEMMA ZipCalm ==
  ASSUME IInv, CInv, NEW q \in Requests, Zip(q)
  PROVE  CInv'
<1>1. q \in Agents /\ agent[q].op = "export" /\ agent[q].pc = "zip"
  BY Members DEF Zip, At
<1>2. NetInv' /\ Quieter /\ CoolInv'
  BY SameNet, CoolStays DEF CInv, Zip, runtimeVars
<1>3. InCharge(q) /\ ~Loud(q)
  BY <1>1 DEF InCharge, Loud, At
<1>4. Calm => RowStays
  BY RowKept DEF Zip, IInv, runtimeVars
<1>5. FormInv' /\ ChargeInv'
  BY <1>1, <1>2, <1>3, <1>4, Concludes DEF IInv, CInv, Zip, seenVars
<1> QED
  BY <1>2, <1>5 DEF CInv

LEMMA CloudStoppedCalm ==
  ASSUME IInv, CInv, NEW q \in Requests, CloudStopped(q)
  PROVE  CInv'
<1>1. q \in Agents /\ agent[q].op = "cloud" /\ agent[q].pc = "stopped"
  BY Members DEF CloudStopped, At
<1>2. NetInv' /\ Quieter /\ CoolInv'
  BY SameNet, CoolStays DEF CInv, CloudStopped, runtimeVars
<1>3. InCharge(q) /\ ~Loud(q)
  BY <1>1 DEF InCharge, Loud, At
<1>4. Calm => RowStays
  BY RowKept DEF CloudStopped, IInv, runtimeVars
<1>5. FormInv' /\ ChargeInv'
  BY <1>1, <1>2, <1>3, <1>4, Concludes DEF IInv, CInv, CloudStopped, seenVars
<1> QED
  BY <1>2, <1>5 DEF CInv
\* The work of a task is known from where it is.
LEMMA WorkOf ==
  ASSUME FormInv, NEW a \in Agents
  PROVE  /\ agent[a].pc \in {"upath", "reset"} => agent[a].op = "logout"
         /\ agent[a].pc \in {"rmdir", "erase"} => agent[a].op = "delete"
         /\ agent[a].pc = "zip" => agent[a].op = "export"
         /\ agent[a].pc = "snapshot" => agent[a].op \in {"loggedOut", "locked"}
         /\ a \in Clients /\ agent[a].pc = "stopped" => agent[a].op \in {"loggedOut", "locked"}
<1>1. Formed(a)
  BY DEF FormInv
<1>2. a \in Clients => agent[a].op \in {"none", "say", "loggedOut", "locked", "logout"}
  BY <1>1 DEF Formed, Jobs
<1> QED
  BY <1>1, <1>2 DEF Formed, Places

LEMMA DeleteStoppedCalm ==
  ASSUME IInv, CInv, NEW q \in Requests, DeleteStopped(q)
  PROVE  CInv'
<1>1. /\ q \in Agents /\ q \notin Clients /\ agent[q].op = "delete" /\ agent[q].pc = "stopped"
      /\ agent'[q].op = "delete" /\ agent'[q].pc = "rmdir"
  BY Members, Stepped DEF IInv, DeleteStopped, At
<1>2. NetInv' /\ Quieter /\ CoolInv'
  BY SameNet, CoolStays DEF CInv, DeleteStopped
<1>3. InCharge(q) /\ ~Loud(q)
  BY <1>1 DEF InCharge, Loud, At
<1>4. Calm => Held(q)' /\ RowStays
  BY <1>1 DEF DeleteStopped, Held, At, RowStays
<1>5. FormInv' /\ ChargeInv'
  BY <1>1, <1>2, <1>3, <1>4, Proceeds DEF IInv, CInv, DeleteStopped, Places, seenVars
<1> QED
  BY <1>2, <1>5 DEF CInv

LEMMA RemoveDirCalm ==
  ASSUME IInv, CInv, NEW q \in Requests, RemoveDir(q)
  PROVE  CInv'
<1>1. q \in Agents /\ q \notin Clients /\ agent[q].pc = "rmdir" /\ agent[q].op = "delete"
  BY Members, WorkOf DEF CInv, RemoveDir
<1>2. agent'[q].op = "delete" /\ agent'[q].pc = "erase"
  BY <1>1, Stepped DEF IInv, RemoveDir
<1>3. NetInv' /\ Quieter /\ CoolInv'
  BY SameNet, CoolStays DEF CInv, RemoveDir, runtimeVars
<1>4. InCharge(q) /\ ~Loud(q)
  BY <1>1 DEF InCharge, Loud, At
<1>5. Calm => current = NoRuntime
  BY <1>1, <1>4 DEF Calm, Held
<1>6. Calm => Held(q)' /\ RowStays
  BY <1>2, <1>5 DEF RemoveDir, Held, At, RowStays, runtimeVars
<1>7. FormInv' /\ ChargeInv'
  BY <1>1, <1>3, <1>4, <1>6, Proceeds DEF IInv, CInv, RemoveDir, Places, seenVars
<1> QED
  BY <1>3, <1>7 DEF CInv

LEMMA EraseRowCalm ==
  ASSUME IInv, CInv, NEW q \in Requests, EraseRow(q)
  PROVE  CInv'
<1>1. q \in Agents /\ agent[q].pc = "erase" /\ agent[q].op = "delete"
  BY Members, WorkOf DEF CInv, EraseRow
<1>2. NetInv' /\ Quieter /\ CoolInv'
  BY SameNet, CoolStays DEF CInv, EraseRow, runtimeVars
<1>3. InCharge(q) /\ ~Loud(q)
  BY <1>1 DEF InCharge, Loud, At
<1>4. Calm => current = NoRuntime
  BY <1>1, <1>3 DEF Calm, Held
<1>5. Calm => RowStays
  BY <1>4 DEF EraseRow, RowStays, runtimeVars
<1>6. FormInv' /\ ChargeInv'
  BY <1>1, <1>2, <1>3, <1>5, Concludes DEF IInv, CInv, EraseRow, seenVars
<1> QED
  BY <1>2, <1>6 DEF CInv

LEMMA RebuildStoppedCalm ==
  ASSUME IInv, CInv, RebuildStopped
  PROVE  CInv'
<1> DEFINE w == Watchdog
<1>1. /\ w \in Agents /\ w \notin Clients /\ agent[w].op = "rebuild" /\ agent[w].pc = "stopped"
      /\ agent'[w].op = "rebuild" /\ agent'[w].pc = "write" /\ agent'[w].rt = agent[w].rt
  BY Members, Stepped DEF IInv, RebuildStopped, At
<1>2. NetInv' /\ Quieter /\ CoolInv'
  BY SameNet, CoolStays DEF CInv, RebuildStopped
<1>3. InCharge(w) /\ ~Loud(w)
  BY <1>1 DEF InCharge, Loud, At
<1>4. Calm => Held(w)
  BY <1>1, <1>3 DEF Calm
<1>5. Calm => Held(w)' /\ RowStays
  BY <1>1, <1>4, RowKept DEF RebuildStopped, Held, At
<1>6. FormInv' /\ ChargeInv'
  BY <1>1, <1>2, <1>3, <1>5, Proceeds DEF IInv, CInv, RebuildStopped, Places, seenVars
<1> QED
  BY <1>2, <1>6 DEF CInv

LEMMA RebuildWriteCalm ==
  ASSUME IInv, CInv, RebuildWrite
  PROVE  CInv'
<1> DEFINE w == Watchdog
<1>1. /\ w \in Agents /\ w \notin Clients /\ agent[w].op = "rebuild" /\ agent[w].pc = "write"
      /\ agent'[w].op = "rebuild" /\ agent'[w].pc = "respawn" /\ agent'[w].rt = agent[w].rt
  BY Members, Stepped DEF IInv, RebuildWrite, At
<1>2. NetInv' /\ Quieter /\ CoolInv'
  BY SameNet, CoolStays DEF CInv, RebuildWrite, runtimeVars
<1>3. InCharge(w) /\ ~Loud(w)
  BY <1>1 DEF InCharge, Loud, At
<1>4. Calm => Held(w)
  BY <1>1, <1>3 DEF Calm
<1>5. row'.there = row.there /\ UNCHANGED <<current, cooling>>
  BY RowWritten DEF IInv, RebuildWrite, runtimeVars
<1>6. Calm => Held(w)' /\ RowStays
  BY <1>1, <1>4, <1>5, RowKept DEF Held, At
<1>7. FormInv' /\ ChargeInv'
  BY <1>1, <1>2, <1>3, <1>6, Proceeds DEF IInv, CInv, RebuildWrite, Places, seenVars
<1> QED
  BY <1>2, <1>7 DEF CInv

LEMMA UnlinkPathCalm ==
  ASSUME IInv, CInv, NEW a \in Clients \cup Requests, UnlinkPath(a)
  PROVE  CInv'
<1>1. a \in Agents /\ agent[a].pc = "upath" /\ agent[a].op = "logout"
  BY Members, WorkOf DEF CInv, UnlinkPath
<1>2. PICK p \in {"reset", "write"} : Steps(a, p)
  BY DEF UnlinkPath
<1>3. agent'[a].op = "logout" /\ agent'[a].pc = p
  BY <1>1, <1>2, Stepped DEF IInv
<1>4. NetInv' /\ Quieter /\ CoolInv'
  BY SameNet, CoolStays DEF CInv, UnlinkPath, runtimeVars
<1>5. InCharge(a) /\ ~Loud(a)
  BY <1>1 DEF InCharge, Loud, At
<1>6. Calm => Held(a)' /\ RowStays
  BY <1>3, NoDuty, RowKept DEF UnlinkPath, runtimeVars
<1>7. FormInv' /\ ChargeInv'
  BY <1>1, <1>2, <1>4, <1>5, <1>6, Proceeds DEF IInv, CInv, UnlinkPath, Places, seenVars
<1> QED
  BY <1>4, <1>7 DEF CInv

LEMMA ResetDeviceCalm ==
  ASSUME IInv, CInv, NEW a \in Clients \cup Requests, ResetDevice(a)
  PROVE  CInv'
<1>1. a \in Agents /\ agent[a].pc = "reset" /\ agent[a].op = "logout"
  BY Members, WorkOf DEF CInv, ResetDevice
<1>2. agent'[a].op = "logout" /\ agent'[a].pc = "write"
  BY <1>1, Stepped DEF IInv, ResetDevice
<1>3. NetInv' /\ Quieter /\ CoolInv'
  BY SameNet, CoolStays DEF CInv, ResetDevice, runtimeVars
<1>4. InCharge(a) /\ ~Loud(a)
  BY <1>1 DEF InCharge, Loud, At
<1>5. Calm => Held(a)' /\ RowStays
  BY <1>2, NoDuty, RowKept DEF ResetDevice, runtimeVars
<1>6. FormInv' /\ ChargeInv'
  BY <1>1, <1>3, <1>4, <1>5, Proceeds DEF IInv, CInv, ResetDevice, Places, seenVars
<1> QED
  BY <1>3, <1>6 DEF CInv

LEMMA WriteDownCalm ==
  ASSUME IInv, CInv, NEW a \in Clients \cup Requests, WriteDown(a)
  PROVE  CInv'
<1>1. a \in Agents /\ agent[a].pc = "write"
      /\ agent[a].op \in {"disconnect", "disconnectAll", "logout"}
  BY Members DEF WriteDown
<1>2. NetInv' /\ Quieter /\ CoolInv'
  BY SameNet, CoolStays DEF CInv, WriteDown, runtimeVars
<1>3. InCharge(a) /\ ~Loud(a)
  BY <1>1 DEF InCharge, Loud, At
<1>4. Calm => RowStays
  BY RowKept, RowWritten DEF WriteDown, IInv, runtimeVars
<1>5. FormInv' /\ ChargeInv'
  BY <1>1, <1>2, <1>3, <1>4, Concludes DEF IInv, CInv, WriteDown, seenVars
<1> QED
  BY <1>2, <1>5 DEF CInv

LEMMA LogoutStoppedCalm ==
  ASSUME IInv, CInv, NEW c \in Clients, LogoutStopped(c)
  PROVE  CInv'
<1>1. c \in Agents /\ agent[c].pc = "stopped" /\ agent[c].op \in {"loggedOut", "locked"}
  BY Members, WorkOf DEF CInv, LogoutStopped
<1>2. agent'[c].op = agent[c].op /\ agent'[c].pc = "write"
  BY <1>1, Stepped DEF IInv, LogoutStopped
<1>3. NetInv' /\ Quieter /\ CoolInv'
  BY SameNet, CoolStays DEF CInv, LogoutStopped
<1>4. InCharge(c) /\ ~Loud(c)
  BY <1>1 DEF InCharge, Loud, At
<1>5. Calm => Held(c)' /\ RowStays
  BY <1>1, <1>2, NoDuty, RowKept DEF LogoutStopped
<1>6. FormInv' /\ ChargeInv'
  BY <1>1, <1>3, <1>4, <1>5, Proceeds DEF IInv, CInv, LogoutStopped, Places, seenVars
<1> QED
  BY <1>3, <1>6 DEF CInv

LEMMA SnapshotCalm ==
  ASSUME IInv, CInv, NEW c \in Clients, Snapshot(c)
  PROVE  CInv'
<1>1. c \in Agents /\ agent[c].pc = "snapshot" /\ agent[c].op \in {"loggedOut", "locked"}
  BY Members, WorkOf DEF CInv, Snapshot
<1>2. PICK p \in {"stopped", "write"} : Steps(c, p)
  BY DEF Snapshot
<1>3. agent'[c].op = agent[c].op /\ agent'[c].pc = p
  BY <1>1, <1>2, Stepped DEF IInv
<1>4. NetInv' /\ Quieter
  <2>1. net' = net \/ Stop(slot[agent[c].rt])
    BY DEF Snapshot
  <2>2. task' = task
    BY DEF Snapshot
  <2> QED
    BY <2>1, <2>2, SameNet, Stopped DEF CInv
<1>5. CoolInv'
  BY CoolStays DEF CInv, Snapshot
<1>6. InCharge(c) /\ ~Loud(c)
  BY <1>1 DEF InCharge, Loud, At
<1>7. Calm => Held(c)' /\ RowStays
  BY <1>1, <1>3, NoDuty, RowKept DEF Snapshot
<1>8. FormInv' /\ ChargeInv'
  BY <1>1, <1>2, <1>4, <1>6, <1>7, Proceeds DEF IInv, CInv, Snapshot, Places, seenVars
<1> QED
  BY <1>4, <1>5, <1>8 DEF CInv
LEMMA LockedCalm ==
  ASSUME IInv, CInv, NEW c \in Clients, Locked(c)
  PROVE  CInv'
<1>1. c \in Agents /\ agent[c].op = "locked" /\ agent[c].pc = "write"
  BY Members DEF Locked, At
<1>2. NetInv' /\ Quieter
  BY SameNet DEF CInv, Locked
<1>3. CoolInv'
  <2>1. agent[c].rt \in born \cup {NoRuntime}
    BY <1>1 DEF IInv, Known
  <2>2. born' = born /\ cooling' = [cooling EXCEPT ![agent[c].rt] = TRUE]
    BY DEF Locked, Cooled
  <2> QED
    BY <2>1, <2>2, SessionsAssumption DEF CInv, CoolInv
<1>4. InCharge(c) /\ ~Loud(c)
  BY <1>1 DEF InCharge, Loud, At
<1>5. Calm => RowStays
  BY RowKept, RowWritten DEF Locked, IInv
<1>6. FormInv' /\ ChargeInv'
  BY <1>1, <1>2, <1>4, <1>5, Concludes DEF IInv, CInv, Locked, seenVars
<1> QED
  BY <1>2, <1>3, <1>6 DEF CInv

LEMMA UnlinkBegins ==
  ASSUME AgentType, FormInv, ChargeInv, NEW a \in Clients \cup Requests, Unlink(a),
         InCharge(a), ~Loud(a), task' = task, Quieter, disturbed' = disturbed,
         Calm => RowStays
  PROVE  FormInv' /\ ChargeInv'
<1>1. /\ a \in Agents /\ Only(a)
      /\ agent'[a].op = "logout" /\ agent'[a].pc = "upath"
  BY Members DEF AgentType, AgentRec, Unlink, Only
<1>2. a \in Clients \/ a \in Requests
  OBVIOUS
<1>3. Formed(a)'
  BY <1>1, <1>2, Members DEF Formed, Jobs, Places, AllOps
<1>4. FormInv'
  BY <1>1, <1>3, FormMoves
<1>5. Calm => Calm'
  BY <1>1, NoDuty, GoesOnAlone
<1> QED
  BY <1>4, <1>5 DEF ChargeInv

LEMMA CountedCalm ==
  ASSUME IInv, CInv, NEW c \in Clients, Counted(c)
  PROVE  CInv'
<1>1. c \in Agents /\ agent[c].op = "loggedOut" /\ agent[c].pc = "write"
  BY Members DEF Counted, At
<1>2. NetInv' /\ Quieter /\ CoolInv'
  BY SameNet, CoolStays DEF CInv, Counted
<1>3. InCharge(c) /\ ~Loud(c)
  BY <1>1 DEF InCharge, Loud, At
<1>4. Calm => RowStays
  BY RowKept, RowWritten DEF Counted, IInv
<1>5. task' = task /\ disturbed' = disturbed
  BY DEF Counted, seenVars
<1>6. Unlink(c) \/ Finish(c)
  BY DEF Counted
<1>7. FormInv' /\ ChargeInv'
  BY <1>1, <1>2, <1>3, <1>4, <1>5, <1>6, Concludes, UnlinkBegins DEF IInv, CInv
<1> QED
  BY <1>2, <1>7 DEF CInv

LEMMA LogoutUnlinkCalm ==
  ASSUME IInv, CInv, NEW q \in Requests, LogoutUnlink(q)
  PROVE  CInv'
<1>1. q \in Agents /\ agent[q].op = "logout" /\ agent[q].pc = "stopped"
  BY Members DEF LogoutUnlink, At
<1>2. NetInv' /\ Quieter /\ CoolInv'
  BY SameNet, CoolStays DEF CInv, LogoutUnlink
<1>3. InCharge(q) /\ ~Loud(q)
  BY <1>1 DEF InCharge, Loud, At
<1>4. Calm => RowStays
  BY RowKept DEF LogoutUnlink
<1>5. FormInv' /\ ChargeInv'
  BY <1>2, <1>3, <1>4, UnlinkBegins DEF IInv, CInv, LogoutUnlink, seenVars
<1> QED
  BY <1>2, <1>5 DEF CInv

-----------------------------------------------------------------------------
(* Requests in charge that let a client live.                              *)

LEMMA LogoutLeaveCalm ==
  ASSUME IInv, CInv, NEW q \in Requests, LogoutLeave(q)
  PROVE  CInv'
<1> PICK d : d = agent[q].old
  OBVIOUS
<1>1. /\ q \in Agents /\ q \notin Clients /\ agent[q].op = "logout" /\ agent[q].pc = "leave"
      /\ Only(q) /\ agent'[q].op = "logout" /\ agent'[q].pc = "stopped"
  BY Members, Stepped DEF IInv, LogoutLeave, At
<1>2. task' = task /\ UNCHANGED <<row, current, disturbed>>
  BY DEF LogoutLeave, runtimeVars, seenVars
<1>3. NetInv' /\ Quieter /\ (d \in Clients => ~Live(d)')
  BY <1>2, Stopped DEF CInv, LogoutLeave, Leave
<1>4. CoolInv'
  BY CoolStays DEF CInv, LogoutLeave, runtimeVars
<1>5. FormInv'
  BY <1>1, FormStepped DEF IInv, CInv, LogoutLeave, Places
<1>6. InCharge(q)
  BY <1>1 DEF InCharge
<1>7. Calm => Quiet'
  <2> SUFFICES ASSUME Calm, NEW c \in Clients, Live(c)'
               PROVE  FALSE
    BY DEF Quiet
  <2>1. slot[current] = NoClient /\ current # NoRuntime
    BY <1>1, <1>6 DEF Calm, Held, At
  <2>2. Owned(c)
    BY <1>3 DEF Calm, Quieter
  <2>3. PICK o \in Requests : agent[o].old = c /\ At(o, "logout", "leave")
    BY <2>1, <2>2, SessionsAssumption DEF Owned
  <2>4. o = q
    BY <1>1, <1>6, <2>3, Members DEF Calm, Alone, InCharge, At
  <2> QED
    BY <1>3, <2>3, <2>4
<1>8. Calm => Calm'
  <2> SUFFICES ASSUME Calm
               PROVE  Calm'
    OBVIOUS
  <2>1. Held(q)' /\ RowStays
    BY <1>1, <1>2, NoDuty, RowKept
  <2> QED
    BY <1>1, <1>2, <1>3, <1>6, <1>7, <2>1, GoesOn DEF CInv
<1> QED
  BY <1>2, <1>3, <1>4, <1>5, <1>8 DEF CInv, ChargeInv

LEMMA UnzipCalm ==
  ASSUME IInv, CInv, NEW q \in Requests, Unzip(q)
  PROVE  CInv'
<1>1. q \in Agents /\ agent[q].op = "import" /\ agent[q].pc = "unzip"
  BY Members DEF Unzip, At
<1>2. NetInv' /\ Quieter /\ CoolInv'
  BY SameNet, CoolStays DEF CInv, Unzip, runtimeVars
<1>3. InCharge(q)
  BY <1>1 DEF InCharge
<1>4. Calm => RowStays
  BY RowKept DEF Unzip, runtimeVars
<1>5. Calm => \A c \in Clients : Live(c)' => Owned(c)'
  BY <1>1, <1>2, <1>3, NobodyLeaves, StillOwned DEF Unzip, At, Quieter, runtimeVars
<1>6. FormInv' /\ ChargeInv'
  BY <1>1, <1>2, <1>3, <1>4, <1>5, Concludes DEF IInv, CInv, Unzip, seenVars
<1> QED
  BY <1>2, <1>6 DEF CInv

\* A loud step that stays loud.
LEMMA ProceedsLoudly ==
  ASSUME AgentType, FormInv, ChargeInv, NEW q \in Agents, NEW p, Steps(q, p),
         p \in Places(agent[q].op), p # "done", q \notin Clients,
         InCharge(q), task' = task, Quieter, disturbed' = disturbed,
         Loud(q)', Calm => Held(q)' /\ RowStays,
         Calm => \A c \in Clients : Live(c)' => Owned(c)'
  PROVE  FormInv' /\ ChargeInv'
<1>1. FormInv'
  BY FormStepped
<1>2. Only(q)
  BY Stepped
<1>3. Calm => Calm'
  BY <1>2, GoesOn
<1> QED
  BY <1>1, <1>3 DEF ChargeInv

LEMMA SetProviderCalm ==
  ASSUME IInv, CInv, NEW q \in Requests, SetProvider(q)
  PROVE  CInv'
<1>1. q \in Agents /\ q \notin Clients /\ agent[q].op = "cloud" /\ agent[q].pc = "provider"
  BY Members DEF SetProvider, At
<1>2. NetInv' /\ Quieter /\ CoolInv'
  BY SameNet, CoolStays DEF CInv, SetProvider, runtimeVars
<1>3. InCharge(q)
  BY <1>1 DEF InCharge
<1>4. row'.there = row.there /\ UNCHANGED <<current, slot, cooling, store, net, task, disturbed>>
  BY DEF SetProvider, IInv, RowType, runtimeVars, seenVars
<1>5. Calm => RowStays /\ \A c \in Clients : Live(c)' => Owned(c)'
  BY <1>1, <1>2, <1>3, <1>4, RowKept, NobodyLeaves, StillOwned DEF At, Quieter
<1>6. CASE Steps(q, "remove")
  <2>1. agent'[q].op = "cloud" /\ agent'[q].pc = "remove"
    BY <1>1, <1>6, Stepped DEF IInv
  <2>2. Loud(q)' /\ Held(q)'
    BY <2>1, NoDuty DEF Loud, At
  <2>3. FormInv' /\ ChargeInv'
    BY <1>1, <1>2, <1>3, <1>4, <1>5, <1>6, <2>2, ProceedsLoudly DEF IInv, CInv, Places
  <2> QED
    BY <1>2, <2>3 DEF CInv
<1>7. CASE Finish(q)
  BY <1>1, <1>2, <1>3, <1>4, <1>5, <1>7, Concludes DEF IInv, CInv
<1> QED
  BY <1>6, <1>7 DEF SetProvider

LEMMA ListCalm ==
  ASSUME IInv, CInv, NEW a \in Requests \cup {Boot}, List(a)
  PROVE  CInv'
<1>1. a \in Agents /\ a \notin Clients /\ agent[a].op \in {"boot", "sweep"} /\ agent[a].pc = "list"
  BY Members DEF List
<1>2. NetInv' /\ Quieter /\ CoolInv'
  BY SameNet, CoolStays DEF CInv, List, runtimeVars
<1>3. InCharge(a) /\ UNCHANGED <<row, current, slot, cooling, store, net, task, disturbed>>
  BY <1>1 DEF InCharge, List, runtimeVars, seenVars
<1>4. Calm => RowStays /\ \A c \in Clients : Live(c)' => Owned(c)'
  BY <1>1, <1>2, <1>3, RowKept, NobodyLeaves, StillOwned DEF At, Quieter
<1>5. CASE Steps(a, "path")
  <2>1. agent'[a].op = agent[a].op /\ agent'[a].pc = "path"
    BY <1>1, <1>5, Stepped DEF IInv
  <2>2. CASE agent[a].op = "sweep"
    <3>1. Loud(a)' /\ Held(a)'
      BY <2>1, <2>2, NoDuty DEF Loud
    <3>2. FormInv' /\ ChargeInv'
      BY <1>1, <1>2, <1>3, <1>4, <1>5, <2>2, <3>1, ProceedsLoudly DEF IInv, CInv, Places
    <3> QED
      BY <1>2, <3>2 DEF CInv
  <2>3. CASE agent[a].op = "boot"
    <3>1. ~Loud(a)
      BY <2>3 DEF Loud, At
    <3>2. Calm => current = NoRuntime
      BY <1>1, <1>3, <2>3 DEF Calm, Held
    <3>3. Calm => Held(a)'
      BY <1>3, <2>1, <2>3, <3>2 DEF Held, At
    <3>4. FormInv' /\ ChargeInv'
      BY <1>1, <1>2, <1>3, <1>4, <1>5, <2>3, <3>1, <3>3, Proceeds DEF IInv, CInv, Places
    <3> QED
      BY <1>2, <3>4 DEF CInv
  <2> QED
    BY <1>1, <2>2, <2>3
<1>6. CASE Finish(a)
  BY <1>1, <1>2, <1>3, <1>4, <1>6, Concludes DEF IInv, CInv
<1> QED
  BY <1>5, <1>6 DEF List

LEMMA RemoveCalm ==
  ASSUME IInv, CInv, NEW q \in Requests, Remove(q)
  PROVE  CInv'
<1>1. q \in Agents /\ q \notin Clients /\ agent[q].op = "cloud" /\ agent[q].pc = "remove"
  BY Members DEF Remove, At
<1>2. InCharge(q) /\ current' = NoRuntime /\ UNCHANGED <<task, disturbed, born, cooling>>
  BY <1>1 DEF InCharge, Remove, seenVars
<1>3. CoolInv' /\ RowStays
  BY <1>2, CoolStays DEF CInv, RowStays
<1>4. CASE current # NoRuntime /\ slot[current] # NoClient
  <2>1. PICK e \in Clients :
          /\ e = slot[current] /\ Stop(e)
          /\ agent' = [agent EXCEPT ![q].pc = "stopped", ![q].rt = current]
    BY <1>4, Aimed DEF Remove, IInv, RuntimeType
  <2>2. Only(q) /\ agent'[q].op = "cloud" /\ agent'[q].pc = "stopped"
    BY <1>1, <2>1 DEF IInv, AgentType, AgentRec, Only
  <2>3. NetInv' /\ Quieter /\ ~Live(e)'
    BY <1>2, <2>1, Stopped DEF CInv
  <2>4. Calm => Quiet'
    <3> SUFFICES ASSUME Calm, NEW c \in Clients, Live(c)'
                 PROVE  FALSE
      BY DEF Quiet
    <3>1. Owned(c) /\ \A o \in Requests : ~At(o, "logout", "leave")
      BY <1>1, <1>2, <2>3, NobodyLeaves DEF Calm, Quieter, At
    <3>2. e = c
      BY <2>1, <3>1 DEF Owned
    <3> QED
      BY <2>3, <3>2
  <2>5. Formed(q)'
    BY <1>1, <2>2, Members DEF Formed, Jobs, Places, AllOps
  <2>6. FormInv'
    BY <1>1, <2>2, <2>5, FormMoves DEF CInv
  <2>7. Calm => Calm'
    BY <1>1, <1>2, <1>3, <2>2, <2>3, <2>4, NoDuty, GoesOn DEF CInv
  <2> QED
    BY <1>2, <1>3, <2>3, <2>6, <2>7 DEF CInv, ChargeInv
<1>5. CASE ~(current # NoRuntime /\ slot[current] # NoClient)
  <2>1. Finish(q) /\ net' = net
    BY <1>5 DEF Remove
  <2>2. NetInv' /\ Quieter
    BY <1>2, <2>1, SameNet DEF CInv
  <2>3. Calm => \A c \in Clients : Live(c)' => Owned(c)'
    <3>1. Calm => Quiet
      BY <1>1, <1>2, <1>5, NobodyLeaves, EmptySlot DEF At
    <3> QED
      BY <2>2, <3>1 DEF Quiet, Quieter
  <2>4. FormInv' /\ ChargeInv'
    BY <1>1, <1>2, <1>3, <2>1, <2>2, <2>3, Concludes DEF IInv, CInv
  <2> QED
    BY <1>3, <2>2, <2>4 DEF CInv
<1> QED
  BY <1>4, <1>5

LEMMA AbandonCalm ==
  ASSUME IInv, CInv, NEW q \in Requests, Abandon(q)
  PROVE  CInv'
<1>1. q \in Agents /\ Formed(q)
  BY Members DEF CInv, FormInv
<1>2. InCharge(q)
  BY <1>1, Members DEF Abandon, Formed, Jobs, Places, InCharge, AllOps
<1>3. UNCHANGED <<row, store, current, slot, cooling, born, task, net>>
  BY DEF Abandon, runtimeVars
<1>4. NetInv' /\ Quieter /\ CoolInv'
  BY <1>3, SameNet, CoolStays DEF CInv
<1>5. FormInv'
  BY <1>1, FormEnded DEF Abandon, IInv, CInv
<1>6. /\ disturbed' \in BOOLEAN
      /\ ~disturbed' => ~disturbed /\ ~At(q, "logout", "leave")
  BY DEF Abandon, CInv, ChargeInv
<1>7. Only(q) /\ ~InCharge(q)'
  BY <1>1, Ended DEF Abandon, IInv, InCharge
<1>8. ASSUME Calm, ~At(q, "logout", "leave")
      PROVE  Calm'
  <2>1. RowStays /\ \A c \in Clients : Live(c)' => Owned(c)'
    BY <1>1, <1>2, <1>3, <1>4, <1>8, RowKept, NobodyLeaves, StillOwned DEF Quieter
  <2> QED
    BY <1>1, <1>2, <1>3, <1>4, <1>7, <1>8, <2>1, GoesOn DEF CInv
<1> QED
  BY <1>4, <1>5, <1>6, <1>8 DEF CInv, ChargeInv
-----------------------------------------------------------------------------
(* A task takes charge of the session.                                     *)

\* Nobody is in charge and nobody builds.
Resting ==
  /\ Calm
  /\ \A a \in Agents : ~InCharge(a)
  /\ \A c \in Clients : ~Builds(c)

LEMMA RestingSlot ==
  ASSUME Resting
  PROVE  /\ \A q \in Requests : ~At(q, "logout", "leave")
         /\ \A c \in Clients : Live(c) => current # NoRuntime /\ slot[current] = c
<1>1. \A q \in Requests : ~At(q, "logout", "leave")
  BY Members DEF Resting, InCharge, At
<1> QED
  BY <1>1 DEF Resting, Calm, Owned

LEMMA EmptyIsQuiet ==
  ASSUME Resting, current = NoRuntime \/ slot[current] = NoClient
  PROVE  Quiet
BY RestingSlot, EmptySlot DEF Resting

\* The installed client is shut down, and no other is live.
LEMMA StoppedIsQuiet ==
  ASSUME RuntimeType, NetInv, current \in Runtimes, slot[current] # NoClient,
         Stop(slot[current]), task' = task
  PROVE  NetInv' /\ Quieter /\ (Resting => Quiet')
<1> PICK e \in Clients : e = slot[current]
  BY Aimed
<1>1. NetInv' /\ Quieter /\ ~Live(e)'
  BY Stopped
<1>2. Resting => Quiet'
  BY <1>1, RestingSlot DEF Quiet, Quieter
<1> QED
  BY <1>1, <1>2

LEMMA Comes ==
  ASSUME FormInv, ChargeInv, NEW a \in Agents, Only(a), Enters, task' = task, Formed(a)',
         Resting => /\ Held(a)' /\ (Loud(a)' \/ Quiet') /\ RowStays
                    /\ Quiet' \/ \A c \in Clients : Live(c)' => Owned(c)'
  PROVE  FormInv' /\ ChargeInv'
<1>1. FormInv'
  BY FormMoves
<1>2. disturbed' \in BOOLEAN /\ (~disturbed' => Resting)
  BY EnteredQuietly DEF Resting
<1>3. Resting => Calm'
  BY TakesCharge DEF Resting
<1> QED
  BY <1>1, <1>2, <1>3 DEF ChargeInv

LEMMA Arrives ==
  ASSUME AgentType, FormInv, ChargeInv, NEW q, NEW o, NEW p, NEW r, NEW c, NEW say,
         Enter(q, o, p, r, c, say), p \in Places(o), task' = task,
         Resting => /\ Held(q)' /\ (Loud(q)' \/ Quiet') /\ RowStays
                    /\ Quiet' \/ \A d \in Clients : Live(d)' => Owned(d)'
  PROVE  FormInv' /\ ChargeInv'
<1>1. /\ q \in Requests /\ o \in AllOps /\ Only(q) /\ Enters
      /\ agent'[q].op = o /\ agent'[q].pc = p
  BY Entered, SessionsAssumption
<1>2. q \in Agents /\ Formed(q)'
  BY <1>1, Members DEF Formed, Jobs
<1> QED
  BY <1>1, <1>2, Comes

\* Nothing but the request changes, and clients may be live beside it.
LEMMA ArrivesBeside ==
  ASSUME AgentType, CInv, NEW q, NEW o, NEW p, NEW r, NEW c, NEW say,
         Enter(q, o, p, r, c, say), p \in Places(o),
         UNCHANGED <<row, store, runtimeVars, task, net>>,
         Loud(q)', Resting => Held(q)'
  PROVE  CInv'
<1>1. UNCHANGED <<row, store, current, slot, cooling, born, task, net>>
  BY DEF runtimeVars
<1>2. NetInv' /\ Quieter /\ CoolInv'
  BY <1>1, SameNet, CoolStays DEF CInv
<1>3. Resting => RowStays /\ \A d \in Clients : Live(d)' => Owned(d)'
  <2> SUFFICES ASSUME Resting
               PROVE  RowStays /\ \A d \in Clients : Live(d)' => Owned(d)'
    OBVIOUS
  <2>1. Calm
    BY DEF Resting
  <2> QED
    BY <1>1, <1>2, <2>1, RowKept, RestingSlot, StillOwned DEF Quieter
<1>4. FormInv' /\ ChargeInv'
  BY <1>1, <1>3, Arrives DEF CInv
<1> QED
  BY <1>2, <1>4 DEF CInv

LEMMA WaitCalm ==
  ASSUME IInv, CInv, NEW q \in Requests, Wait(q)
  PROVE  CInv'
<1>1. agent'[q].op = "wait" /\ agent'[q].pc = "path" /\ row.there /\ row' = row
  BY Entered DEF IInv, CInv, Wait, Plain
<1>2. Loud(q)' /\ Held(q)'
  BY <1>1 DEF Loud, Held, At
<1> QED
  BY <1>2, ArrivesBeside DEF IInv, Wait, Places

LEMMA PairCalm ==
  ASSUME IInv, CInv, NEW q \in Requests, Pair(q)
  PROVE  CInv'
<1>1. agent'[q].op = "pair" /\ agent'[q].pc = "path" /\ row.there /\ row' = row
  BY Entered DEF IInv, CInv, Pair, Plain
<1>2. Loud(q)' /\ Held(q)'
  BY <1>1 DEF Loud, Held, At
<1> QED
  BY <1>2, ArrivesBeside DEF IInv, Pair, Places

LEMMA ImportCalm ==
  ASSUME IInv, CInv, NEW q \in Requests, Import(q)
  PROVE  CInv'
<1>1. agent'[q].op = "import"
  BY Entered DEF IInv, CInv, Import
<1>2. Loud(q)' /\ Held(q)'
  BY <1>1, NoDuty DEF Loud
<1> QED
  BY <1>2, ArrivesBeside DEF IInv, Import, Places

LEMMA ConnectCloudCalm ==
  ASSUME IInv, CInv, NEW q \in Requests, ConnectCloud(q)
  PROVE  CInv'
<1>1. agent'[q].op = "cloud" /\ agent'[q].pc = "provider"
  BY Entered DEF IInv, CInv, ConnectCloud
<1>2. Loud(q)' /\ Held(q)'
  BY <1>1, NoDuty DEF Loud, At
<1> QED
  BY <1>2, ArrivesBeside DEF IInv, ConnectCloud, Places

LEMMA SweepCalm ==
  ASSUME IInv, CInv, NEW q \in Requests, Sweep(q)
  PROVE  CInv'
<1>1. agent'[q].op = "sweep"
  BY Entered DEF IInv, CInv, Sweep
<1>2. Loud(q)' /\ Held(q)'
  BY <1>1, NoDuty DEF Loud
<1> QED
  BY <1>2, ArrivesBeside DEF IInv, Sweep, Places

LEMMA RegisterCalm ==
  ASSUME IInv, CInv, NEW q \in Requests, NEW o \in {"wait", "create"}, Register(q, o)
  PROVE  CInv'
<1>1. agent'[q].op = o /\ agent'[q].pc = "insert"
  BY Entered DEF IInv, CInv, Register
<1>2. UNCHANGED <<row, current, cooling, born, task, net>> /\ ~row.there
  BY DEF Register, runtimeVars
<1>3. NetInv' /\ Quieter /\ CoolInv'
  BY <1>2, SameNet, CoolStays DEF CInv
<1>4. Held(q)'
  BY <1>1 DEF Held, At
<1>5. Resting => Quiet' /\ RowStays
  <2> SUFFICES ASSUME Resting
               PROVE  Quiet' /\ RowStays
    OBVIOUS
  <2>1. current = NoRuntime
    BY <1>2 DEF Resting, Calm
  <2> QED
    BY <1>2, <1>3, <2>1, EmptyIsQuiet DEF Quiet, Quieter, RowStays
<1>6. FormInv' /\ ChargeInv'
  BY <1>2, <1>4, <1>5, Arrives DEF IInv, CInv, Register, Places
<1> QED
  BY <1>3, <1>6 DEF CInv

LEMMA Halts ==
  ASSUME IInv, CInv, NEW q \in Requests, NEW o, NEW p, current \in Runtimes,
         Halt(q, o, current, p), p \in Places(o), "stopped" \in Places(o), task' = task,
         Only(q) /\ Enters /\ agent'[q].op = o /\ agent'[q].rt = current =>
           /\ slot[current] = NoClient /\ agent'[q].pc = p => (Resting => Held(q)')
           /\ agent'[q].pc = "stopped" => (Resting => Held(q)'),
         Calm => RowStays
  PROVE  FormInv' /\ NetInv' /\ ChargeInv'
<1>1. CASE slot[current] = NoClient
  <2>1. Enter(q, o, p, current, NoClient, Down) /\ net' = net
    BY <1>1 DEF Halt
  <2>2. NetInv' /\ Quieter
    BY <2>1, SameNet DEF CInv
  <2>3. Only(q) /\ Enters /\ agent'[q].op = o /\ agent'[q].rt = current /\ agent'[q].pc = p
    BY <2>1, Entered DEF IInv, CInv
  <2>4. Resting => Quiet'
    BY <1>1, <2>2, EmptyIsQuiet DEF Quiet, Quieter
  <2>5. FormInv' /\ ChargeInv'
    BY <1>1, <2>1, <2>3, <2>4, Arrives DEF IInv, CInv, Resting
  <2> QED
    BY <2>2, <2>5
<1>2. CASE slot[current] # NoClient
  <2>1. Enter(q, o, "stopped", current, slot[current], Down) /\ Stop(slot[current])
    BY <1>2 DEF Halt
  <2>2. NetInv' /\ (Resting => Quiet')
    BY <1>2, <2>1, StoppedIsQuiet DEF IInv, CInv
  <2>3. /\ Only(q) /\ Enters
        /\ agent'[q].op = o /\ agent'[q].rt = current /\ agent'[q].pc = "stopped"
    BY <2>1, Entered DEF IInv, CInv
  <2>4. FormInv' /\ ChargeInv'
    BY <2>1, <2>2, <2>3, Arrives DEF IInv, CInv, Resting
  <2> QED
    BY <2>2, <2>4
<1> QED
  BY <1>1, <1>2

LEMMA DisconnectCalm ==
  ASSUME IInv, CInv, NEW q \in Requests, Disconnect(q)
  PROVE  CInv'
<1>1. /\ current \in Runtimes /\ Halt(q, "disconnect", current, "write")
      /\ UNCHANGED <<row, current, cooling, born, task>>
  BY DEF Disconnect, IInv, RuntimeType
<1>2. agent'[q].op = "disconnect" => Held(q)'
  BY NoDuty
<1>3. FormInv' /\ NetInv' /\ ChargeInv'
  BY <1>1, <1>2, Halts, RowKept DEF Places
<1> QED
  BY <1>1, <1>3, CoolStays DEF CInv

LEMMA ExportCalm ==
  ASSUME IInv, CInv, NEW q \in Requests, Export(q)
  PROVE  CInv'
<1>1. UNCHANGED <<row, current, cooling, born, task>>
  BY DEF Export
<1>2. agent'[q].op = "export" => Held(q)'
  BY NoDuty
<1>3. CASE current = NoRuntime
  <2>1. Enter(q, "export", "write", NoRuntime, NoClient, Down) /\ net' = net
    BY <1>3 DEF Export
  <2>2. NetInv' /\ Quieter
    BY <1>1, <2>1, SameNet DEF CInv
  <2>3. Resting => Quiet' /\ RowStays
    BY <1>1, <1>3, <2>2, EmptyIsQuiet DEF Quiet, Quieter, RowStays
  <2>4. agent'[q].op = "export"
    BY <2>1, Entered DEF IInv, CInv
  <2>5. FormInv' /\ ChargeInv'
    BY <1>1, <1>2, <2>1, <2>3, <2>4, Arrives DEF IInv, CInv, Places
  <2> QED
    BY <1>1, <2>2, <2>5, CoolStays DEF CInv
<1>4. CASE current # NoRuntime
  <2>1. current \in Runtimes /\ Halt(q, "export", current, "write")
    BY <1>4 DEF Export, IInv, RuntimeType
  <2>2. FormInv' /\ NetInv' /\ ChargeInv'
    BY <1>1, <1>2, <2>1, Halts, RowKept DEF Places
  <2> QED
    BY <1>1, <2>2, CoolStays DEF CInv
<1> QED
  BY <1>3, <1>4

LEMMA ConnectCalm ==
  ASSUME IInv, CInv, NEW q \in Requests, Connect(q)
  PROVE  CInv'
<1>1. UNCHANGED <<row, current, born, task>> /\ row.there
  BY DEF Connect, Plain
<1>2. CASE current = NoRuntime
  <2>1. /\ Enter(q, "connect", "path", NoRuntime, NoClient, Down)
        /\ UNCHANGED <<cooling, net>>
    BY <1>2 DEF Connect
  <2>2. NetInv' /\ Quieter /\ CoolInv'
    BY <1>1, <2>1, SameNet, CoolStays DEF CInv
  <2>3. Resting => Quiet' /\ RowStays
    BY <1>1, <1>2, <2>2, EmptyIsQuiet DEF Quiet, Quieter, RowStays
  <2>4. agent'[q].op = "connect" /\ agent'[q].pc = "path"
    BY <2>1, Entered DEF IInv, CInv
  <2>5. Held(q)'
    BY <1>1, <1>2, <2>4 DEF Held, At
  <2>6. FormInv' /\ ChargeInv'
    BY <1>1, <2>1, <2>3, <2>5, Arrives DEF IInv, CInv, Places
  <2> QED
    BY <2>2, <2>6 DEF CInv
<1>3. CASE current # NoRuntime
  <2>1. /\ current \in Runtimes /\ Halt(q, "connect", current, "path")
        /\ IF slot[current] = NoClient THEN Lift(current) ELSE UNCHANGED cooling
    BY <1>3 DEF Connect, IInv, RuntimeType
  <2>2. CoolInv' /\ (slot[current] = NoClient => ~cooling'[current])
    BY <1>1, <2>1, Lifted, CoolStays DEF CInv
  <2>3. /\ agent'[q].op = "connect" /\ agent'[q].rt = current =>
             /\ slot[current] = NoClient /\ agent'[q].pc = "path" => Held(q)'
             /\ agent'[q].pc = "stopped" => Held(q)'
    BY <1>1, <1>3, <2>2 DEF Held, At
  <2>4. FormInv' /\ NetInv' /\ ChargeInv'
    BY <1>1, <2>1, <2>3, Halts, RowKept DEF Places
  <2> QED
    BY <2>2, <2>4 DEF CInv
<1> QED
  BY <1>2, <1>3

LEMMA DisconnectAllCalm ==
  ASSUME IInv, CInv, NEW q \in Requests, DisconnectAll(q)
  PROVE  CInv'
<1>1. /\ current \in Runtimes /\ slot[current] # NoClient /\ Stop(slot[current])
      /\ UNCHANGED <<row, current, cooling, born, task>>
  BY DEF DisconnectAll, IInv, RuntimeType, runtimeVars
<1>2. NetInv' /\ (Resting => Quiet') /\ CoolInv'
  BY <1>1, StoppedIsQuiet, CoolStays DEF IInv, CInv
<1>3. agent'[q].op = "disconnectAll"
  BY Entered DEF IInv, CInv, DisconnectAll
<1>4. Held(q)'
  BY <1>3, NoDuty
<1>5. Resting => RowStays
  BY <1>1, RowKept DEF Resting
<1>6. FormInv' /\ ChargeInv'
  BY <1>1, <1>2, <1>4, <1>5, Arrives DEF IInv, CInv, DisconnectAll, Places
<1> QED
  BY <1>2, <1>6 DEF CInv

LEMMA DeleteCalm ==
  ASSUME IInv, CInv, NEW q \in Requests, Delete(q)
  PROVE  CInv'
<1>1. UNCHANGED <<row, cooling, born, task>>
  BY DEF Delete
<1>2. CoolInv'
  BY <1>1, CoolStays DEF CInv
<1>3. CASE current # NoRuntime /\ slot[current] # NoClient
  <2>1. /\ Enter(q, "delete", "stopped", NoRuntime, slot[current], Down)
        /\ Stop(slot[current]) /\ current' = current /\ current \in Runtimes
    BY <1>3 DEF Delete, IInv, RuntimeType
  <2>2. NetInv' /\ (Resting => Quiet')
    BY <1>1, <1>3, <2>1, StoppedIsQuiet DEF IInv, CInv
  <2>3. agent'[q].op = "delete" /\ agent'[q].pc = "stopped"
    BY <2>1, Entered DEF IInv, CInv
  <2>4. Held(q)'
    BY <2>3 DEF Held, At
  <2>5. Resting => RowStays
    BY <1>1, <2>1, RowKept DEF Resting
  <2>6. FormInv' /\ ChargeInv'
    BY <1>1, <2>1, <2>2, <2>4, <2>5, Arrives DEF IInv, CInv, Places
  <2> QED
    BY <1>2, <2>2, <2>6 DEF CInv
<1>4. CASE ~(current # NoRuntime /\ slot[current] # NoClient)
  <2>1. /\ Enter(q, "delete", "rmdir", NoRuntime, NoClient, Down)
        /\ current' = NoRuntime /\ net' = net
    BY <1>4 DEF Delete
  <2>2. NetInv' /\ Quieter
    BY <1>1, <2>1, SameNet DEF CInv
  <2>3. Resting => Quiet'
    BY <1>4, <2>2, EmptyIsQuiet DEF Quiet, Quieter
  <2>4. agent'[q].op = "delete" /\ agent'[q].pc = "rmdir"
    BY <2>1, Entered DEF IInv, CInv
  <2>5. Held(q)' /\ RowStays
    BY <2>1, <2>4 DEF Held, At, RowStays
  <2>6. FormInv' /\ ChargeInv'
    BY <1>1, <2>1, <2>3, <2>5, Arrives DEF IInv, CInv, Places
  <2> QED
    BY <1>2, <2>2, <2>6 DEF CInv
<1> QED
  BY <1>3, <1>4

LEMMA LogoutCalm ==
  ASSUME IInv, CInv, NEW q \in Requests, Logout(q)
  PROVE  CInv'
<1>1. UNCHANGED <<row, store, current, cooling, born, task, net>>
  BY DEF Logout
<1>2. NetInv' /\ Quieter /\ CoolInv'
  BY <1>1, SameNet, CoolStays DEF CInv
<1>3. Resting => RowStays
  BY <1>1, RowKept DEF Resting
<1>4. CASE current # NoRuntime /\ slot[current] # NoClient
  <2>1. /\ Enter(q, "logout", "leave", NoRuntime, slot[current], Down)
        /\ slot' = [slot EXCEPT ![current] = NoClient]
    BY <1>4 DEF Logout
  <2>2. /\ agent'[q].op = "logout" /\ agent'[q].pc = "leave"
        /\ agent'[q].old = slot[current]
    BY <2>1, Entered DEF IInv, CInv
  <2>3. Held(q)' /\ Loud(q)'
    BY <1>1, <1>4, <2>1, <2>2 DEF Held, Loud, At, IInv, RuntimeType
  <2>4. Resting => \A c \in Clients : Live(c)' => Owned(c)'
    <3> SUFFICES ASSUME Resting, NEW c \in Clients, Live(c)'
                 PROVE  Owned(c)'
      OBVIOUS
    <3>1. Owned(c) /\ slot[current] = c
      BY <1>2, RestingSlot DEF Resting, Calm, Quieter
    <3>2. agent'[q].old = c /\ At(q, "logout", "leave")'
      BY <2>2, <3>1 DEF At
    <3> QED
      BY <1>1, <3>1, <3>2 DEF Owned
  <2>5. FormInv' /\ ChargeInv'
    BY <1>1, <1>3, <2>1, <2>3, <2>4, Arrives DEF IInv, CInv, Places
  <2> QED
    BY <1>2, <2>5 DEF CInv
<1>5. CASE ~(current # NoRuntime /\ slot[current] # NoClient)
  <2>1. Enters /\ agent' = [agent EXCEPT ![q] = [Idle EXCEPT !.op = "logout", !.pc = "upath"]]
    BY <1>5 DEF Logout
  <2>2. q \in Agents /\ Only(q) /\ agent'[q].op = "logout" /\ agent'[q].pc = "upath"
    BY <2>1, Members DEF IInv, AgentType, Only, Idle
  <2>3. Formed(q)' /\ Held(q)'
    BY <2>2, NoDuty, Members DEF Formed, Jobs, Places, AllOps
  <2>4. Resting => Quiet'
    BY <1>2, <1>5, EmptyIsQuiet DEF Quiet, Quieter
  <2>5. FormInv' /\ ChargeInv'
    BY <1>1, <1>3, <2>1, <2>2, <2>3, <2>4, Comes DEF CInv
  <2> QED
    BY <1>2, <2>5 DEF CInv
<1> QED
  BY <1>4, <1>5

LEMMA PatrolCalm ==
  ASSUME IInv, CInv, Patrol
  PROVE  CInv'
<1> DEFINE w == Watchdog
<1>1. /\ current \in Runtimes /\ slot[current] # NoClient /\ Stop(slot[current])
      /\ ~cooling[current] /\ current # NoRuntime /\ Enters
      /\ UNCHANGED <<row, current, cooling, born, task>>
  BY DEF Patrol, IInv, RuntimeType, runtimeVars
<1>2. NetInv' /\ (Resting => Quiet') /\ CoolInv'
  BY <1>1, StoppedIsQuiet, CoolStays DEF IInv, CInv
<1>3. /\ w \in Agents /\ Only(w) /\ agent'[w].op = "rebuild" /\ agent'[w].pc = "stopped"
      /\ agent'[w].rt = current
  BY Members DEF Patrol, IInv, AgentType, Only, Idle
<1>4. Formed(w)'
  BY <1>3, Members DEF Formed, Jobs, Places
<1>5. Held(w)'
  BY <1>1, <1>3 DEF Held, At
<1>6. Resting => RowStays
  BY <1>1, RowKept DEF Resting
<1>7. FormInv' /\ ChargeInv'
  BY <1>1, <1>2, <1>3, <1>4, <1>5, <1>6, Comes DEF CInv
<1> QED
  BY <1>2, <1>7 DEF CInv
-----------------------------------------------------------------------------
(* The client, its events and the cooldown.                                *)

\* Only the socket of c, and what it reports, changes.
Changes(c) ==
  /\ \A d \in Clients : d # c => net'[d] = net[d]
  /\ net' \in [Clients -> NetRec]
  /\ net'[c].told = "out" => net'[c].sock = "off"
  /\ Live(c)' => Live(c)

LEMMA Networks ==
  ASSUME CInv, NEW c \in Clients, Running(c),
         UNCHANGED <<row, current, slot, cooling, born, task, disturbed>>,
         FormInv', \A a \in Agents : agent'[a] = agent[a] \/ (~InCharge(a) /\ ~InCharge(a)'),
         Changes(c), net'[c].linked => net[c].linked \/ store', store => store'
  PROVE  CInv'
<1>1. NetInv'
  BY DEF CInv, NetInv, Changes
<1>2. CoolInv'
  BY CoolStays DEF CInv
<1>3. ~Builds(c)
  BY DEF Running, Builds
<1>4. \A d \in Clients : Builds(d)' => /\ Builds(d) /\ task'[d] = task[d]
                                       /\ net'[d] = net[d]
  BY <1>3 DEF Builds, Changes
<1>5. \A d \in Clients : Live(d)' => /\ Live(d) /\ task'[d].origin = task[d].origin
                                     /\ net'[d].linked => net[d].linked \/ store'
  <2> SUFFICES ASSUME NEW d \in Clients, Live(d)'
               PROVE  /\ Live(d) /\ task'[d].origin = task[d].origin
                      /\ net'[d].linked => net[d].linked \/ store'
    OBVIOUS
  <2>1. CASE d = c
    BY <2>1 DEF Changes
  <2>2. CASE d # c
    BY <2>2 DEF Changes, Live
  <2> QED
    BY <2>1, <2>2
<1>6. Calm => Calm'
  BY <1>4, <1>5, Beside
<1> QED
  BY <1>1, <1>2, <1>6 DEF CInv, ChargeInv

LEMMA NetworkCalm ==
  ASSUME IInv, CInv, NEW c \in Clients, Network(c)
  PROVE  CInv'
<1>1. /\ Running(c) /\ UNCHANGED <<row, current, slot, cooling, born, task, disturbed, agent>>
  BY DEF Network, Dial, Link, LogIn, DropSocket, Save, netOnly, runtimeVars, seenVars
<1>2. FormInv'
  BY <1>1, FormStays DEF CInv
<1>3. net[c] \in NetRec /\ net \in [Clients -> NetRec] /\ (net[c].told = "out" => net[c].sock = "off")
  BY DEF CInv, NetInv
<1>4. CASE Dial(c)
  <2>1. Changes(c) /\ net'[c].linked = net[c].linked /\ store' = store
    BY <1>1, <1>3, <1>4 DEF Dial, Changes, NetRec, Live
  <2> QED
    BY <1>1, <1>2, <2>1, Networks
<1>5. CASE Link(c)
  <2>1. Changes(c) /\ store'
    BY <1>1, <1>3, <1>5 DEF Link, Changes, NetRec, Live
  <2> QED
    BY <1>1, <1>2, <2>1, Networks
<1>6. CASE LogIn(c)
  <2>1. Changes(c) /\ net'[c].linked = net[c].linked /\ store' = store
    BY <1>1, <1>3, <1>6 DEF LogIn, Changes, NetRec, Live
  <2> QED
    BY <1>1, <1>2, <2>1, Networks
<1>7. CASE DropSocket(c)
  <2>1. Changes(c) /\ net'[c].linked = net[c].linked /\ store' = store
    BY <1>1, <1>3, <1>7 DEF DropSocket, Changes, NetRec, Live
  <2> QED
    BY <1>1, <1>2, <2>1, Networks
<1>8. CASE Save(c)
  <2>1. Changes(c) /\ store'
    BY <1>1, <1>3, <1>8 DEF Save, Changes, Live
  <2> QED
    BY <1>1, <1>2, <2>1, Networks
<1> QED
  BY <1>4, <1>5, <1>6, <1>7, <1>8 DEF Network

\* A report to the handler: it may have a row to write, which puts it in charge of nothing.
LEMMA Reports ==
  ASSUME IInv, CInv, NEW c \in Clients, NEW what \in {"qr", "in", "off"}, NEW st,
         Report(c, what, st), net[c].told # "out"
  PROVE  CInv'
<1>1. /\ c \in Agents /\ agent[c].op = "none" /\ agent \in [Agents -> AgentRec]
  BY Members DEF Report, Idle, IInv, AgentType
<1>2. agent' = agent \/ (Only(c) /\ agent'[c].op = "say" /\ agent'[c].pc = "write")
  <2>1. CASE Heard(c)
    <3>1. agent' = [agent EXCEPT ![c] = [Idle EXCEPT !.op = "say", !.pc = "write",
                                                     !.rt = current, !.say = Claim(st)]]
      BY <2>1 DEF Report
    <3>2. agent'[c] = [Idle EXCEPT !.op = "say", !.pc = "write",
                                   !.rt = current, !.say = Claim(st)]
      BY <1>1, <3>1
    <3>3. agent'[c].op = "say" /\ agent'[c].pc = "write"
      BY <3>2 DEF Idle
    <3> QED
      BY <1>1, <3>1, <3>3 DEF Only
  <2>2. CASE ~Heard(c)
    <3>1. agent' = agent
      BY <2>2 DEF Report
    <3> QED
      BY <3>1
  <2> QED
    BY <2>1, <2>2
<1>3. FormInv'
  <2>1. CASE agent' = agent
    BY <2>1, FormStays DEF CInv
  <2>2. CASE agent' # agent
    <3>1. Formed(c)'
      BY <1>2, <2>2 DEF Formed, Jobs, Places
    <3> QED
      BY <1>1, <1>2, <2>2, <3>1, FormMoves DEF CInv
  <2> QED
    BY <2>1, <2>2
<1>4. \A a \in Agents : agent'[a] = agent[a] \/ (~InCharge(a) /\ ~InCharge(a)')
  BY <1>1, <1>2 DEF Only, InCharge
<1>5. Changes(c) /\ net'[c].linked = net[c].linked
  BY DEF Report, Tell, Changes, CInv, NetInv, NetRec, Live
<1>6. Running(c) /\ UNCHANGED <<row, store, current, slot, cooling, born, task, disturbed>>
  BY DEF Report, seenVars
<1> QED
  BY <1>3, <1>4, <1>5, <1>6, Networks

LEMMA EventsCalm ==
  ASSUME IInv, CInv, NEW c \in Clients, PairingQrCode(c) \/ Connected(c) \/ Disconnected(c)
  PROVE  CInv'
<1>1. net[c].told = "out" => net[c].sock = "off"
  BY DEF CInv, NetInv
<1>2. /\ PairingQrCode(c) => Report(c, "qr", "WaitingForQr") /\ net[c].told # "out"
      /\ Connected(c) => Report(c, "in", "LoggedIn") /\ net[c].told # "out"
      /\ Disconnected(c) => Report(c, "off", "Connecting") /\ net[c].told # "out"
  BY <1>1 DEF PairingQrCode, Connected, Disconnected
<1> QED
  BY <1>2, Reports

LEMMA LoggedOutCalm ==
  ASSUME IInv, CInv, NEW c \in Clients, NEW op \in {"loggedOut", "locked"}, LoggedOut(c, op)
  PROVE  CInv'
<1>1. /\ Running(c) /\ UNCHANGED <<row, store, current, slot, cooling, born, task>>
      /\ net' = [net EXCEPT ![c].sock = "off", ![c].told = "out"]
  BY DEF LoggedOut, runtimeVars
<1>2. Changes(c) /\ net'[c].linked = net[c].linked /\ ~Live(c)'
  BY <1>1 DEF Changes, CInv, NetInv, NetRec, Live
<1>3. CASE ~Heard(c)
  <2>1. UNCHANGED <<agent, disturbed>>
    BY <1>3 DEF LoggedOut
  <2> QED
    BY <1>1, <1>2, <2>1, FormStays, Networks DEF CInv
<1>4. CASE Heard(c)
  <2>1. /\ c \in Agents /\ Only(c) /\ Enters
        /\ agent'[c].op = op /\ agent'[c].pc = "snapshot"
    <3>1. /\ Enters /\ c \in Agents /\ agent \in [Agents -> AgentRec]
          /\ agent' = [agent EXCEPT ![c] = [Idle EXCEPT !.op = op, !.pc = "snapshot",
                                                        !.rt = current]]
      BY <1>4, Members DEF LoggedOut, IInv, AgentType
    <3>2. agent'[c] = [Idle EXCEPT !.op = op, !.pc = "snapshot", !.rt = current]
      BY <3>1
    <3>3. agent'[c].op = op /\ agent'[c].pc = "snapshot"
      BY <3>2 DEF Idle
    <3> QED
      BY <3>1, <3>3 DEF Only
  <2>2. Formed(c)' /\ Held(c)'
    BY <2>1, NoDuty, Members DEF Formed, Jobs, Places
  <2>3. Resting => Quiet' /\ RowStays
    <3> SUFFICES ASSUME Resting
                 PROVE  Quiet' /\ RowStays
      OBVIOUS
    <3>1. ASSUME NEW d \in Clients, Live(d)'
          PROVE  FALSE
      <4>1. d # c
        BY <1>2, <3>1
      <4>2. Live(d)
        BY <1>1, <1>2, <3>1, <4>1 DEF Live, Changes
      <4> QED
        BY <1>4, <4>1, <4>2, RestingSlot DEF Heard
    <3> QED
      BY <1>1, <3>1, RowKept DEF Quiet, Resting
  <2>4. NetInv' /\ CoolInv'
    BY <1>1, <1>2, CoolStays DEF CInv, NetInv, Changes
  <2>5. FormInv' /\ ChargeInv'
    BY <1>1, <2>1, <2>2, <2>3, Comes DEF CInv
  <2> QED
    BY <2>4, <2>5 DEF CInv
<1> QED
  BY <1>3, <1>4

LEMMA SayCalm ==
  ASSUME IInv, CInv, NEW c \in Clients, Say(c)
  PROVE  CInv'
<1>1. c \in Agents /\ agent[c].op = "say" /\ Only(c) /\ agent'[c].op = "none"
  BY Members, Ended DEF Say, At, IInv
<1>2. UNCHANGED <<store, current, slot, cooling, born, task, net, disturbed>>
  BY DEF Say, runtimeVars, seenVars
<1>3. row'.there = row.there
  BY RowWritten DEF Say, IInv
<1>4. FormInv'
  BY <1>1, FormEnded DEF Say, IInv, CInv
<1>5. NetInv' /\ Quieter /\ CoolInv'
  BY <1>2, SameNet, CoolStays DEF CInv
<1>6. \A a \in Agents : agent'[a] = agent[a] \/ (~InCharge(a) /\ ~InCharge(a)')
  BY <1>1 DEF Only, InCharge
<1>7. Calm => Calm'
  BY <1>2, <1>3, <1>5, <1>6, Beside DEF Quieter, Builds
<1> QED
  BY <1>2, <1>4, <1>5, <1>7 DEF CInv, ChargeInv

LEMMA CoolDownCalm ==
  ASSUME IInv, CInv, CoolDown
  PROVE  CInv'
<1>1. UNCHANGED <<row, store, current, slot, born, task, net, agent, disturbed>>
  BY DEF CoolDown, seenVars
<1>2. FormInv' /\ NetInv' /\ Quieter
  BY <1>1, FormStays, SameNet DEF CInv
<1>3. CoolInv' /\ \A r \in Runtimes : cooling'[r] => cooling[r]
  BY <1>1 DEF CoolDown, CInv, CoolInv
<1>4. Calm => Calm'
  BY <1>1, <1>2, <1>3, Beside DEF Quieter, Builds, IInv, RuntimeType
<1> QED
  BY <1>1, <1>2, <1>3, <1>4 DEF CInv, ChargeInv
-----------------------------------------------------------------------------
(* A connect task builds its client.                                       *)

LEMMA BuildsQuietly ==
  ASSUME CInv, NEW c \in Clients, Builds(c), NetInv',
         UNCHANGED <<row, current, cooling, born, agent, disturbed>>,
         \A d \in Clients : d # c => task'[d] = task[d] /\ net'[d] = net[d],
         Calm => (Builds(c)' => Building(c)') /\ (Live(c)' => Owned(c)')
  PROVE  CInv'
<1>1. FormInv' /\ CoolInv'
  BY FormStays, CoolStays DEF CInv
<1>2. Calm => RowStays
  BY RowKept
<1>3. Calm => Calm'
  BY <1>2, BuildsOn
<1> QED
  BY <1>1, <1>3 DEF CInv, ChargeInv

LEMMA FailedCalm ==
  ASSUME IInv, CInv, NEW c \in Clients, Builds(c), Failed(c),
         UNCHANGED <<row, agent, net, disturbed>>
  PROVE  CInv'
<1>1. /\ \A d \in Clients : d # c => task'[d] = task[d]
      /\ task'[c].pc = "unused"
      /\ UNCHANGED <<current, cooling, born>>
  BY DEF IInv, TaskType, Failed, Ends, Unused
<1>2. ~Builds(c)' /\ ~Live(c)'
  BY <1>1 DEF Builds, Live
<1>3. NetInv'
  BY DEF CInv, NetInv
<1> QED
  BY <1>1, <1>2, <1>3, BuildsQuietly

LEMMA FindPathCalm ==
  ASSUME IInv, CInv, NEW c \in Clients, FindPath(c)
  PROVE  CInv'
<1>1. Builds(c) /\ UNCHANGED <<row, store, agent, net, disturbed>> /\ NetInv'
  BY DEF FindPath, Builds, seenVars, CInv, NetInv
<1>2. CASE Failed(c)
  BY <1>1, <1>2, FailedCalm
<1>3. CASE TaskSteps(c, "open") /\ UNCHANGED runtimeVars
  <2>1. /\ \A d \in Clients : d # c => task'[d] = task[d]
        /\ task'[c].pc = "open" /\ task'[c].origin = task[c].origin
        /\ UNCHANGED <<current, cooling, born>>
    BY <1>3 DEF IInv, TaskType, TaskRec, TaskSteps, runtimeVars
  <2>2. Calm => Building(c)'
    BY <1>1, <2>1 DEF Calm, Building
  <2>3. ~Live(c)'
    BY <2>1 DEF Live
  <2> QED
    BY <1>1, <2>1, <2>2, <2>3, BuildsQuietly
<1> QED
  BY <1>2, <1>3 DEF FindPath

LEMMA OpenStoreCalm ==
  ASSUME IInv, CInv, store \in BOOLEAN, NEW c \in Clients, OpenStore(c)
  PROVE  CInv'
<1>1. Builds(c) /\ UNCHANGED <<row, store, agent, disturbed>>
  BY DEF OpenStore, Builds, seenVars
<1>2. CASE Failed(c) /\ net' = net
  BY <1>1, <1>2, FailedCalm
<1>3. CASE /\ net' = [net EXCEPT ![c] = [Unbuilt EXCEPT !.linked = store]]
           /\ TaskSteps(c, "cloud") /\ UNCHANGED runtimeVars
  <2>1. /\ \A d \in Clients : d # c => task'[d] = task[d]
        /\ task'[c].pc = "cloud" /\ task'[c].origin = task[c].origin
        /\ UNCHANGED <<current, cooling, born>>
    BY <1>3 DEF IInv, TaskType, TaskRec, TaskSteps, runtimeVars
  <2>2. net'[c] = [Unbuilt EXCEPT !.linked = store] /\ \A d \in Clients : d # c => net'[d] = net[d]
    BY <1>3 DEF CInv, NetInv
  <2>3. net'[c].linked = store /\ net'[c].told = "none"
    BY <2>2 DEF Unbuilt
  <2>4. [Unbuilt EXCEPT !.linked = store] \in NetRec
    BY DEF Unbuilt, NetRec
  <2>5. NetInv'
    BY <1>3, <2>2, <2>3, <2>4 DEF CInv, NetInv
  <2>6. Calm => Building(c)'
    BY <1>1, <2>1, <2>3 DEF Calm, Building
  <2>7. ~Live(c)'
    BY <2>1 DEF Live
  <2> QED
    BY <1>1, <2>1, <2>2, <2>5, <2>6, <2>7, BuildsQuietly
<1> QED
  BY <1>2, <1>3 DEF OpenStore

LEMMA CheckCloudCalm ==
  ASSUME IInv, CInv, NEW c \in Clients, CheckCloud(c)
  PROVE  CInv'
<1> DEFINE t == task[c]
<1>1. /\ Builds(c) /\ t.pc = "cloud" /\ NetInv' /\ t \in TaskRec
      /\ UNCHANGED <<row, store, current, cooling, born, agent, net, disturbed>>
  BY DEF CheckCloud, Builds, CInv, NetInv, runtimeVars, IInv, TaskType
<1>2. \A d \in Clients : d # c => task'[d] = task[d]
  BY DEF CheckCloud, Ends, IInv, TaskType
<1>3. CASE Ends(c)
  <2>1. task'[c].pc = "unused"
    BY <1>3 DEF Ends, Unused, IInv, TaskType
  <2>2. ~Builds(c)' /\ ~Live(c)'
    BY <2>1 DEF Builds, Live
  <2> QED
    BY <1>1, <1>2, <2>2, BuildsQuietly
<1>4. CASE task' = [task EXCEPT ![c] = [t EXCEPT !.pc = "path", !.pair = FALSE]]
  <2>1. task'[c].pc = "path" /\ task'[c].origin = t.origin
    BY <1>1, <1>4 DEF IInv, TaskType, TaskRec
  <2>2. Calm => Building(c)'
    BY <1>1, <2>1 DEF Calm, Building
  <2>3. ~Live(c)'
    BY <2>1 DEF Live
  <2> QED
    BY <1>1, <1>2, <2>2, <2>3, BuildsQuietly
<1>5. CASE task' = [task EXCEPT ![c] = [t EXCEPT !.pc = "install", !.rt = current]]
  <2>1. task'[c].pc = "install" /\ task'[c].origin = t.origin /\ task'[c].rt = current
    BY <1>1, <1>5 DEF IInv, TaskType, TaskRec
  <2>2. Calm => Building(c)'
    BY <1>1, <2>1 DEF Calm, Building
  <2>3. ~Live(c)'
    BY <2>1 DEF Live
  <2> QED
    BY <1>1, <1>2, <2>2, <2>3, BuildsQuietly
<1>6. CASE current = NoRuntime
  BY <1>1, <1>2, <1>6, BuildsQuietly DEF Calm, Building
<1> QED
  BY <1>3, <1>4, <1>5, <1>6 DEF CheckCloud

LEMMA InstallCalm ==
  ASSUME IInv, CInv, NEW c \in Clients, Install(c)
  PROVE  CInv'
<1> DEFINE t == task[c]
<1>1. /\ Builds(c) /\ t.pc = "install" /\ NetInv' /\ t \in TaskRec
      /\ slot' = [slot EXCEPT ![t.rt] = c]
      /\ UNCHANGED <<row, store, current, cooling, born, agent, net, disturbed>>
  BY DEF Install, Builds, CInv, NetInv, seenVars, IInv, TaskType
<1>2. PICK p \in {"run", "note"} : task' = [task EXCEPT ![c] = Built(t, p)]
  BY DEF Install
<1>3. \A d \in Clients : d # c => task'[d] = task[d]
  BY <1>2 DEF IInv, TaskType
<1>4. task'[c].pc = p /\ (t.origin = "pair" => task'[c].origin = "pair")
  BY <1>1, <1>2 DEF IInv, TaskType, TaskRec, Built
<1>5. ~Builds(c)'
  BY <1>4 DEF Builds
<1>6. Calm => Owned(c)'
  <2> SUFFICES ASSUME Calm
               PROVE  Owned(c)'
    OBVIOUS
  <2>1. Building(c)
    BY <1>1 DEF Calm
  <2>2. current # NoRuntime /\ t.rt = current /\ current \in Runtimes
    BY <1>1, <2>1 DEF Building, IInv, RuntimeType
  <2>3. slot'[current] = c
    BY <1>1, <2>2 DEF IInv, RuntimeType
  <2> QED
    BY <1>1, <1>4, <2>1, <2>2, <2>3 DEF Building, Owned
<1> QED
  BY <1>1, <1>3, <1>5, <1>6, BuildsQuietly
-----------------------------------------------------------------------------
(* The store is a Boolean.                                                 *)

StoreType == store \in BOOLEAN

LEMMA NextStoreType == StoreType /\ [Next]_vars => StoreType'
<1> SUFFICES ASSUME StoreType, [Next]_vars
             PROVE  StoreType'
  OBVIOUS
<1>1. ASSUME NEW c \in Clients, ConnectTask(c) \/ Network(c)
      PROVE  StoreType'
  BY <1>1 DEF StoreType, ConnectTask, FindPath, OpenStore, CheckCloud, Install, NoteWaiting, Return,
              MarkRow, Network, Dial, Link, LogIn, DropSocket, Save
<1>2. ASSUME NEW c \in Clients, Events(c)
      PROVE  StoreType'
  BY <1>2 DEF StoreType, Events, PairingQrCode, Connected, Disconnected, Report, LoggedOut, Snapshot,
              LogoutStopped, Say, Locked, Counted
<1>3. ASSUME NEW a, Unlinking(a)
      PROVE  StoreType'
  BY <1>3 DEF StoreType, Unlinking, UnlinkPath, ResetDevice, WriteDown
<1>4. ASSUME NEW q \in Requests, Connecting(q)
      PROVE  StoreType'
  BY <1>4 DEF StoreType, Connecting, Connect, ConnectStopped, ConnectSpawn, Register, CreateSpawn,
              Wait, WaitCheck, WaitStopped, Pair, PairSpawn
<1>5. ASSUME NEW q \in Requests, Disconnecting(q)
      PROVE  StoreType'
  BY <1>5 DEF StoreType, Disconnecting, Disconnect, DisconnectStopped, DisconnectAll,
              DisconnectAllStopped, Logout, LogoutLeave, LogoutUnlink, Delete, DeleteStopped,
              RemoveDir, EraseRow
<1>6. ASSUME NEW q \in Requests, Moving(q) \/ Abandon(q)
      PROVE  StoreType'
  <2>1. store' = store \/ store' = (row.there \/ store)
    BY <1>6 DEF Moving, Export, ExportStopped, ExportWrite, Zip, Import, Unzip, ConnectCloud,
                SetProvider, Remove, CloudStopped, Sweep, Abandon
  <2> QED
    BY <2>1 DEF StoreType
<1>7. ASSUME NEW a, List(a) \/ Walk(a)
      PROVE  StoreType'
  BY <1>7 DEF StoreType, List, Walk
<1>8. ASSUME Rebuilding \/ CoolDown \/ Crash
      PROVE  StoreType'
  BY <1>8 DEF StoreType, Rebuilding, Patrol, RebuildStopped, RebuildWrite, Respawn, CoolDown, Crash
<1>9. ASSUME UNCHANGED vars
      PROVE  StoreType'
  BY <1>9 DEF StoreType, vars
<1> QED
  BY <1>1, <1>2, <1>3, <1>4, <1>5, <1>6, <1>7, <1>8, <1>9 DEF Next
-----------------------------------------------------------------------------
(* The task in charge puts a runtime into the map, or starts a connect.    *)

\* A runtime that is created is not cooling, and nothing is in its slot.
LEMMA MapsTo ==
  ASSUME IInv, CoolInv, NEW r \in Runtimes, Mapped(r)
  PROVE  /\ current' = r /\ current' # NoRuntime /\ born \subseteq born'
         /\ current # NoRuntime => r = current
         /\ current = NoRuntime => ~cooling[r] /\ slot[r] = NoClient
BY SessionsAssumption DEF Mapped, GetOrCreate, IInv, Known, CoolInv

LEMMA FreeIsQuiet ==
  ASSUME IInv, CInv, NEW a \in Agents, InCharge(a), ~At(a, "logout", "leave"),
         NEW r \in Runtimes, Mapped(r), slot[r] = NoClient, Calm
  PROVE  Quiet
<1>1. current = NoRuntime \/ slot[current] = NoClient
  BY MapsTo DEF CInv
<1> QED
  BY <1>1, NobodyLeaves, EmptySlot

LEMMA Spawns ==
  ASSUME IInv, CInv, NEW a \in Agents, Finish(a), InCharge(a), net' = net, CoolInv',
         NEW r, NEW st, NEW o, Spawn(r, st, o), disturbed' \in BOOLEAN,
         ~disturbed' => ~disturbed,
         ~disturbed' /\ Calm => /\ Quiet /\ current' # NoRuntime /\ row'.there
                                /\ cooling'[current'] => o = "pair"
  PROVE  CInv'
<1>1. FormInv' /\ Only(a) /\ ~InCharge(a)'
  BY FormEnded, Ended DEF IInv, CInv, InCharge
<1>2. NetInv'
  BY DEF CInv, NetInv
<1>3. ~disturbed' => Calm'
  BY <1>1, HandsOver DEF CInv, ChargeInv, IInv
<1> QED
  BY <1>1, <1>2, <1>3 DEF CInv, ChargeInv

LEMMA MapsAndEnds ==
  ASSUME IInv, CInv, NEW a \in Agents, Finish(a), InCharge(a), ~At(a, "logout", "leave"),
         NEW r \in Runtimes, Mapped(r),
         UNCHANGED <<store, slot, cooling, task, net, disturbed>>,
         Calm => row'.there
  PROVE  CInv'
<1>1. /\ current' = r /\ born \subseteq born'
      /\ current # NoRuntime => r = current
  BY MapsTo DEF CInv
<1>2. NetInv' /\ Quieter /\ CoolInv'
  BY <1>1, SameNet, CoolStays DEF CInv
<1>3. Calm => \A c \in Clients : Live(c)' => Owned(c)'
  <2>1. CASE current = NoRuntime
    <3>1. Calm => Quiet
      BY <2>1, NobodyLeaves, EmptySlot
    <3> QED
      BY <1>2, <3>1 DEF Quiet, Quieter
  <2>2. CASE current # NoRuntime
    BY <1>1, <1>2, <2>2, NobodyLeaves, StillOwned DEF Quieter
  <2> QED
    BY <2>1, <2>2
<1>4. Calm => RowStays
  BY DEF RowStays
<1>5. FormInv' /\ ChargeInv'
  BY <1>2, <1>3, <1>4, Concludes DEF IInv, CInv
<1> QED
  BY <1>2, <1>5 DEF CInv

LEMMA ConnectSpawnCalm ==
  ASSUME IInv, CInv, NEW q \in Requests, ConnectSpawn(q)
  PROVE  CInv'
<1>1. /\ q \in Agents /\ agent[q].op = "connect" /\ agent[q].pc = "path" /\ Finish(q)
      /\ UNCHANGED <<row, cooling, net, disturbed>>
  BY Members DEF ConnectSpawn, At, seenVars
<1>2. PICK r \in Runtimes : Mapped(r) /\ Spawn(r, "Connecting", "connect")
  BY DEF ConnectSpawn
<1>3. /\ current' = r /\ current' # NoRuntime /\ born \subseteq born'
      /\ current # NoRuntime => r = current
      /\ current = NoRuntime => ~cooling[r]
  BY <1>2, MapsTo DEF CInv
<1>4. InCharge(q) /\ ~Loud(q)
  BY <1>1 DEF InCharge, Loud, At
<1>5. Calm => Quiet /\ Held(q)
  BY <1>1, <1>4 DEF Calm
<1>6. Calm => Quiet /\ row'.there /\ ~cooling'[current']
  BY <1>1, <1>3, <1>5 DEF Held, At
<1>7. CoolInv' /\ disturbed' \in BOOLEAN
  BY <1>1, <1>3, CoolStays DEF CInv, ChargeInv
<1> QED
  BY <1>1, <1>2, <1>3, <1>4, <1>6, <1>7, Spawns

LEMMA CreateSpawnCalm ==
  ASSUME IInv, CInv, NEW q \in Requests, CreateSpawn(q)
  PROVE  CInv'
<1>1. /\ q \in Agents /\ agent[q].op = "create" /\ agent[q].pc = "insert" /\ Finish(q)
      /\ ~row.there /\ row'.there
      /\ UNCHANGED <<cooling, net, disturbed>>
  BY Members DEF CreateSpawn, InsertRow, At, seenVars
<1>2. PICK r \in Runtimes : Mapped(r) /\ Spawn(r, "Connecting", "create")
  BY DEF CreateSpawn
<1>3. /\ current' = r /\ current' # NoRuntime /\ born \subseteq born'
      /\ current = NoRuntime => ~cooling[r]
  BY <1>2, MapsTo DEF CInv
<1>4. InCharge(q) /\ ~Loud(q)
  BY <1>1 DEF InCharge, Loud, At
<1>5. Calm => Quiet /\ current = NoRuntime
  BY <1>1, <1>4 DEF Calm
<1>6. Calm => Quiet /\ ~cooling'[current']
  BY <1>1, <1>3, <1>5
<1>7. CoolInv' /\ disturbed' \in BOOLEAN
  BY <1>1, <1>3, CoolStays DEF CInv, ChargeInv
<1> QED
  BY <1>1, <1>2, <1>3, <1>4, <1>6, <1>7, Spawns

LEMMA WaitStoppedCalm ==
  ASSUME IInv, CInv, NEW q \in Requests, WaitStopped(q)
  PROVE  CInv'
<1> PICK r : r = agent[q].rt
  OBVIOUS
<1>1. /\ q \in Agents /\ agent[q].op = "wait" /\ agent[q].pc = "stopped" /\ Finish(q)
      /\ Lift(r) /\ Spawn(r, "Connecting", "wait")
      /\ UNCHANGED <<row, current, born, net, disturbed>>
  BY Members DEF WaitStopped, At, seenVars
<1>2. CoolInv' /\ (r \in Runtimes => ~cooling'[r]) /\ disturbed' \in BOOLEAN
  BY <1>1, Lifted DEF CInv, ChargeInv
<1>3. InCharge(q) /\ ~Loud(q)
  BY <1>1 DEF InCharge, Loud, At
<1>4. Calm => Quiet /\ Held(q)
  BY <1>1, <1>3 DEF Calm
<1>5. Calm => Quiet /\ row'.there /\ current' # NoRuntime /\ ~cooling'[current']
  BY <1>1, <1>2, <1>4 DEF Held, At, IInv, RuntimeType
<1> QED
  BY <1>1, <1>2, <1>3, <1>5, Spawns

LEMMA RespawnCalm ==
  ASSUME IInv, CInv, Respawn
  PROVE  CInv'
<1> DEFINE w == Watchdog
<1>1. /\ w \in Agents /\ agent[w].op = "rebuild" /\ Finish(w)
      /\ Spawn(agent[w].rt, "Connecting", "rebuild")
      /\ UNCHANGED <<row, current, cooling, born, net, disturbed>>
  BY Members DEF Respawn, At, seenVars
<1>2. CoolInv' /\ disturbed' \in BOOLEAN
  BY <1>1, CoolStays DEF CInv, ChargeInv
<1>3. InCharge(w) /\ ~Loud(w)
  BY <1>1 DEF InCharge, Loud, At
<1>4. Calm => Quiet /\ Held(w) /\ (row.there \/ current = NoRuntime)
  BY <1>1, <1>3 DEF Calm
<1>5. Calm => Quiet /\ row'.there /\ current' # NoRuntime /\ ~cooling'[current']
  BY <1>1, <1>4 DEF Held
<1> QED
  BY <1>1, <1>2, <1>3, <1>5, Spawns

LEMMA PairSpawnCalm ==
  ASSUME IInv, CInv, NEW q \in Requests, PairSpawn(q)
  PROVE  CInv'
<1>1. /\ q \in Agents /\ agent[q].op = "pair" /\ agent[q].pc = "path" /\ Finish(q)
      /\ UNCHANGED <<row, store, slot, cooling, net, disturbed>>
  BY Members DEF PairSpawn, At, seenVars
<1>2. PICK r \in Runtimes :
        /\ Mapped(r)
        /\ \/ task' = task
           \/ slot[r] = NoClient /\ Spawn(r, "WaitingForPairCode", "pair")
  BY DEF PairSpawn
<1>3. current' # NoRuntime /\ born \subseteq born'
  BY <1>2, MapsTo DEF CInv
<1>4. InCharge(q) /\ ~At(q, "logout", "leave")
  BY <1>1 DEF InCharge, At
<1>5. Calm => row'.there
  BY <1>1, <1>4 DEF Calm, Held
<1>6. CoolInv' /\ disturbed' \in BOOLEAN
  BY <1>1, <1>3, CoolStays DEF CInv, ChargeInv
<1>7. CASE task' = task
  BY <1>1, <1>2, <1>4, <1>5, <1>7, MapsAndEnds
<1>8. CASE slot[r] = NoClient /\ Spawn(r, "WaitingForPairCode", "pair")
  <2>1. Calm => Quiet
    BY <1>1, <1>2, <1>4, <1>8, FreeIsQuiet
  <2> QED
    BY <1>1, <1>3, <1>4, <1>5, <1>6, <1>8, <2>1, Spawns
<1> QED
  BY <1>2, <1>7, <1>8

LEMMA WaitCheckCalm ==
  ASSUME IInv, CInv, NEW q \in Requests, WaitCheck(q)
  PROVE  CInv'
<1>1. /\ q \in Agents /\ agent[q].op = "wait" /\ agent[q].pc \in {"path", "insert"}
      /\ UNCHANGED <<store, slot, disturbed>>
  BY Members DEF WaitCheck, seenVars
<1>2. PICK r \in Runtimes :
        /\ Mapped(r)
        /\ \/ Finish(q) /\ UNCHANGED <<cooling, task, net>>
           \/ /\ slot[r] # NoClient /\ Stop(slot[r]) /\ UNCHANGED <<cooling, task>>
              /\ agent' = [agent EXCEPT ![q].pc = "stopped", ![q].rt = r]
           \/ /\ slot[r] = NoClient /\ Spawn(r, "Connecting", "wait") /\ Lift(r) /\ Finish(q)
              /\ net' = net
  BY DEF WaitCheck
<1>3. /\ current' = r /\ current' # NoRuntime /\ born \subseteq born'
      /\ current # NoRuntime => r = current
      /\ current = NoRuntime => slot[r] = NoClient
  BY <1>2, MapsTo DEF CInv
<1>4. InCharge(q) /\ ~At(q, "logout", "leave")
  BY <1>1 DEF InCharge, At
<1>5. Calm => row'.there
  BY <1>1, <1>4 DEF Calm, Held, WaitCheck, InsertRow
<1>6. CASE Finish(q) /\ UNCHANGED <<cooling, task, net>>
  BY <1>1, <1>2, <1>4, <1>5, <1>6, MapsAndEnds
<1>7. CASE /\ slot[r] # NoClient /\ Stop(slot[r]) /\ UNCHANGED <<cooling, task>>
           /\ agent' = [agent EXCEPT ![q].pc = "stopped", ![q].rt = r]
  <2>1. PICK e \in Clients : e = slot[r] /\ Stop(e)
    BY <1>7, Aimed DEF IInv
  <2>2. /\ Only(q) /\ agent'[q].op = "wait" /\ agent'[q].pc = "stopped" /\ agent'[q].rt = r
    BY <1>1, <1>7 DEF IInv, AgentType, AgentRec, Only
  <2>3. NetInv' /\ Quieter /\ ~Live(e)'
    BY <1>7, <2>1, Stopped DEF CInv
  <2>4. r = current
    BY <1>3, <1>7
  <2>5. Calm => Quiet'
    <3> SUFFICES ASSUME Calm, NEW c \in Clients, Live(c)'
                 PROVE  FALSE
      BY DEF Quiet
    <3>1. Owned(c) /\ \A o \in Requests : ~At(o, "logout", "leave")
      BY <1>1, <1>4, <2>3, NobodyLeaves DEF Calm, Quieter
    <3>2. e = c
      BY <2>1, <2>4, <3>1 DEF Owned
    <3> QED
      BY <2>3, <3>2
  <2>6. Formed(q)'
    BY <1>1, <2>2, Members DEF Formed, Jobs, Places, AllOps
  <2>7. FormInv' /\ CoolInv'
    BY <1>1, <1>3, <1>7, <2>2, <2>6, FormMoves, CoolStays DEF CInv
  <2>8. Calm => Held(q)' /\ RowStays
    BY <1>3, <1>5, <2>2 DEF Held, At, RowStays
  <2>9. Calm => Calm'
    BY <1>1, <1>4, <1>7, <2>2, <2>3, <2>5, <2>8, GoesOn DEF CInv
  <2> QED
    BY <1>1, <2>3, <2>7, <2>9 DEF CInv, ChargeInv
<1>8. CASE /\ slot[r] = NoClient /\ Spawn(r, "Connecting", "wait") /\ Lift(r) /\ Finish(q)
           /\ net' = net
  <2>1. Calm => Quiet
    BY <1>1, <1>2, <1>4, <1>8, FreeIsQuiet
  <2>2. CoolInv' /\ ~cooling'[r] /\ disturbed' \in BOOLEAN
    BY <1>1, <1>3, <1>8, Lifted DEF CInv, ChargeInv
  <2> QED
    BY <1>1, <1>3, <1>4, <1>5, <1>8, <2>1, <2>2, Spawns
<1> QED
  BY <1>2, <1>6, <1>7, <1>8

LEMMA WalkCalm ==
  ASSUME IInv, CInv, NEW a \in Requests \cup {Boot}, Walk(a)
  PROVE  CInv'
<1>1. /\ a \in Agents /\ agent[a].op \in {"boot", "sweep"} /\ agent[a].pc = "path" /\ Finish(a)
      /\ UNCHANGED <<row, store, slot, cooling, net>>
  BY Members DEF Walk
<1>2. InCharge(a) /\ ~At(a, "logout", "leave")
  BY <1>1 DEF InCharge, At
<1>3. CASE UNCHANGED <<current, status, born, task, disturbed>>
  <2>1. NetInv' /\ Quieter /\ CoolInv'
    BY <1>1, <1>3, SameNet, CoolStays DEF CInv
  <2>2. Calm => RowStays /\ \A c \in Clients : Live(c)' => Owned(c)'
    BY <1>1, <1>2, <1>3, <2>1, RowKept, NobodyLeaves, StillOwned DEF Quieter
  <2>3. FormInv' /\ ChargeInv'
    BY <1>1, <1>2, <1>3, <2>1, <2>2, Concludes DEF IInv, CInv
  <2> QED
    BY <2>1, <2>3 DEF CInv
<1>4. ASSUME NEW r \in Runtimes, Mapped(r), Spawn(r, "Connecting", "boot"), row.there,
             disturbed' = (disturbed
                           \/ (agent[a].op = "sweep" /\ (slot[r] # NoClient \/ cooling[r])))
      PROVE  CInv'
  <2>1. /\ current' = r /\ current' # NoRuntime /\ born \subseteq born'
        /\ current = NoRuntime => ~cooling[r] /\ slot[r] = NoClient
    BY <1>4, MapsTo DEF CInv
  <2>2. CoolInv'
    BY <1>1, <2>1, CoolStays DEF CInv
  <2>3. /\ disturbed' \in BOOLEAN
        /\ ~disturbed' => ~disturbed /\ (agent[a].op = "sweep" => slot[r] = NoClient /\ ~cooling[r])
    BY <1>4 DEF CInv, ChargeInv, CoolInv
  <2>4. Calm /\ agent[a].op = "boot" => current = NoRuntime
    BY <1>1, <1>2 DEF Calm, Held
  <2>5. ~disturbed' /\ Calm => slot[r] = NoClient /\ ~cooling[r]
    BY <1>1, <2>1, <2>3, <2>4
  <2>6. ~disturbed' /\ Calm => Quiet
    BY <1>1, <1>2, <1>4, <2>5, FreeIsQuiet
  <2> QED
    BY <1>1, <1>2, <1>4, <2>1, <2>2, <2>3, <2>5, <2>6, Spawns
<1> QED
  BY <1>3, <1>4 DEF Walk
-----------------------------------------------------------------------------
(* A connect task after its client is built.                               *)

LEMMA RunsOn ==
  ASSUME IInv, CInv, NEW c \in Clients, task[c].pc \in {"note", "run", "mark"},
         UNCHANGED <<store, current, cooling, born, agent, disturbed>>, row'.there = row.there,
         \A d \in Clients : d # c => task'[d] = task[d] /\ net'[d] = net[d],
         NetInv', ~Builds(c)',
         Live(c)' => /\ Live(c) /\ task'[c].origin = task[c].origin /\ slot' = slot
                     /\ net'[c].linked = net[c].linked,
         current # NoRuntime => slot'[current] = slot[current]
                                \/ (slot[current] \in {c, NoClient} /\ slot'[current] = NoClient)
  PROVE  CInv'
<1>1. FormInv' /\ CoolInv'
  BY FormStays, CoolStays DEF CInv
<1>2. \A d \in Clients : Builds(d)' => /\ Builds(d) /\ task'[d] = task[d] /\ net'[d] = net[d]
  BY DEF Builds
<1>3. \A d \in Clients : Live(d)' => /\ Live(d) /\ task'[d].origin = task[d].origin
                                     /\ net'[d].linked = net[d].linked
  BY DEF Live
<1>4. ASSUME current # NoRuntime
      PROVE  /\ slot[current] = NoClient => slot'[current] = NoClient
             /\ \A d \in Clients : Live(d)' /\ slot[current] = d => slot'[current] = d
  <2>1. CASE slot'[current] = slot[current]
    BY <2>1
  <2>2. CASE slot[current] \in {c, NoClient} /\ slot'[current] = NoClient
    <3>1. Live(c)' => slot'[current] = slot[current]
      OBVIOUS
    <3> QED
      BY <2>2, <3>1, SessionsAssumption
  <2> QED
    BY <1>4, <2>1, <2>2
<1>5. Calm => Calm'
  BY <1>2, <1>3, <1>4, Beside
<1> QED
  BY <1>1, <1>5 DEF CInv, ChargeInv

LEMMA NoteWaitingCalm ==
  ASSUME IInv, CInv, NEW c \in Clients, NoteWaiting(c)
  PROVE  CInv'
<1>1. /\ task[c].pc = "note" /\ TaskSteps(c, "run")
      /\ UNCHANGED <<store, current, slot, cooling, born, net, agent, disturbed>>
  BY DEF NoteWaiting, runtimeVars, seenVars
<1>2. /\ \A d \in Clients : d # c => task'[d] = task[d]
      /\ task'[c].pc = "run" /\ task'[c].origin = task[c].origin
  BY <1>1 DEF IInv, TaskType, TaskRec, TaskSteps
<1>3. row'.there = row.there /\ NetInv'
  BY <1>1, RowWritten DEF NoteWaiting, IInv, CInv, NetInv
<1>4. ~Builds(c)' /\ (Live(c)' => Live(c))
  BY <1>1, <1>2 DEF Builds, Live
<1> QED
  BY <1>1, <1>2, <1>3, <1>4, RunsOn

LEMMA MarkRowCalm ==
  ASSUME IInv, CInv, NEW c \in Clients, MarkRow(c)
  PROVE  CInv'
<1>1. /\ task[c].pc = "mark" /\ Ends(c)
      /\ UNCHANGED <<store, current, slot, cooling, born, net, agent, disturbed>>
  BY DEF MarkRow, runtimeVars, seenVars
<1>2. (\A d \in Clients : d # c => task'[d] = task[d]) /\ task'[c].pc = "unused"
  BY <1>1 DEF IInv, TaskType, Ends, Unused
<1>3. row'.there = row.there /\ NetInv'
  BY <1>1, RowWritten DEF MarkRow, IInv, CInv, NetInv
<1>4. ~Builds(c)' /\ ~Live(c)'
  BY <1>2 DEF Builds, Live
<1> QED
  BY <1>1, <1>2, <1>3, <1>4, RunsOn

LEMMA ReturnCalm ==
  ASSUME IInv, CInv, NEW c \in Clients, Return(c)
  PROVE  CInv'
<1>1. /\ task[c].pc = "run" /\ net' = [net EXCEPT ![c] = Unbuilt]
      /\ UNCHANGED <<row, store, current, cooling, born, agent, disturbed>>
  BY DEF Return, seenVars
<1>2. (\A d \in Clients : d # c => task'[d] = task[d]) /\ task'[c].pc \in {"mark", "unused"}
  <2>1. TaskSteps(c, "mark") \/ Ends(c)
    BY DEF Return
  <2> QED
    BY <2>1 DEF IInv, TaskType, TaskRec, TaskSteps, Ends, Unused
<1>3. (\A d \in Clients : d # c => net'[d] = net[d]) /\ NetInv'
  BY <1>1 DEF CInv, NetInv, NetRec, Unbuilt
<1>4. ~Builds(c)' /\ ~Live(c)'
  BY <1>2 DEF Builds, Live
<1>5. current # NoRuntime => slot'[current] = slot[current]
                             \/ (slot[current] \in {c, NoClient} /\ slot'[current] = NoClient)
  BY DEF Return, StillCurrent, Lower, IInv, RuntimeType
<1> QED
  BY <1>1, <1>2, <1>3, <1>4, <1>5, RunsOn

-----------------------------------------------------------------------------
(* The start of a process, and the theorems.                               *)

LEMMA IdleForms ==
  /\ Idle.op = "none" /\ Idle.pc = "idle"
  /\ Done.op = "none" /\ Done.pc = "done"
  /\ Listing.op = "boot" /\ Listing.pc = "list"
<1>1. Idle.op = "none" /\ Idle.pc = "idle"
  BY DEF Idle
<1>2. Done.op = "none" /\ Done.pc = "done"
  BY DEF Idle, Done
<1>3. Listing.op = "boot" /\ Listing.pc = "list"
  BY DEF Idle, Listing
<1> QED
  BY <1>1, <1>2, <1>3

\* The walk at startup is alone with the row and the store.
Fresh ==
  /\ current = NoRuntime /\ cooling = [r \in Runtimes |-> FALSE]
  /\ task = [c \in Clients |-> Unused] /\ net = [c \in Clients |-> Unbuilt]
  /\ \A a \in Agents : /\ a = Boot => agent[a] = Listing
                       /\ a # Boot => agent[a] = Idle \/ (a \in Requests /\ agent[a] = Done)
  /\ disturbed = FALSE

LEMMA FreshCInv == Fresh => CInv
<1> SUFFICES ASSUME Fresh
             PROVE  CInv
  OBVIOUS
<1>1. \A a \in Agents :
        /\ a = Boot => agent[a].op = "boot" /\ agent[a].pc = "list"
        /\ a # Boot => agent[a].op = "none"
                       /\ (agent[a].pc = "idle" \/ (a \in Requests /\ agent[a].pc = "done"))
  BY IdleForms DEF Fresh
<1>2. FormInv
  <2> SUFFICES ASSUME NEW a \in Agents
               PROVE  Formed(a)
    BY DEF FormInv
  <2>1. CASE a = Boot
    BY <1>1, <2>1, Members DEF Formed, Jobs, Places
  <2>2. CASE a # Boot
    BY <1>1, <2>2, Members DEF Formed, Jobs, Places
  <2> QED
    BY <2>1, <2>2
<1>3. NetInv /\ CoolInv
  BY DEF Fresh, NetInv, NetRec, CoolInv, Unbuilt
<1>4. \A c \in Clients : ~Live(c) /\ ~Builds(c)
  BY DEF Fresh, Unused, Live, Builds
<1>5. \A a \in Agents : InCharge(a) => a = Boot
  BY <1>1 DEF InCharge
<1>6. Held(Boot)
  BY <1>1, Members DEF Held, At, Fresh
<1>7. Calm
  BY <1>4, <1>5, <1>6 DEF Calm, Alone, Quiet, Fresh
<1> QED
  BY <1>2, <1>3, <1>7 DEF CInv, ChargeInv, Fresh

LEMMA InitCInv == Init => CInv /\ StoreType
<1> SUFFICES ASSUME Init
             PROVE  CInv /\ StoreType
  OBVIOUS
<1>1. Fresh
  BY DEF Init, Fresh, Listing
<1> QED
  BY <1>1, FreshCInv DEF Init, StoreType

LEMMA FreshlyStarted == Fresh' => CInv'
BY FreshCInv, PTL

LEMMA CrashCalm ==
  ASSUME Crash
  PROVE  CInv'
<1>1. Fresh'
  BY DEF Crash, Fresh, Listing, Done
<1> QED
  BY <1>1, FreshlyStarted
LEMMA StutterCalm ==
  ASSUME CInv, UNCHANGED vars
  PROVE  CInv'
<1>1. UNCHANGED <<row, store, current, slot, cooling, born, task, net, agent, disturbed>>
  BY DEF vars, runtimeVars, seenVars
<1>2. FormInv' /\ NetInv' /\ Quieter /\ CoolInv'
  BY <1>1, FormStays, SameNet, CoolStays DEF CInv
<1>3. Calm => Calm'
  BY <1>1, <1>2, Beside DEF Quieter, Builds
<1> QED
  BY <1>1, <1>2, <1>3 DEF CInv, ChargeInv

LEMMA NextCInv == IInv /\ CInv /\ StoreType /\ [Next]_vars => CInv'
<1> SUFFICES ASSUME IInv, CInv, StoreType, [Next]_vars PROVE CInv'
  OBVIOUS
<1>1. ASSUME NEW c \in Clients, ConnectTask(c) PROVE CInv'
  BY <1>1, FindPathCalm, OpenStoreCalm, CheckCloudCalm, InstallCalm, NoteWaitingCalm, ReturnCalm,
     MarkRowCalm DEF ConnectTask, StoreType
<1>2. ASSUME NEW c \in Clients, Network(c) PROVE CInv'
  BY <1>2, NetworkCalm
<1>3. ASSUME NEW c \in Clients, Events(c) PROVE CInv'
  BY <1>3, EventsCalm, LoggedOutCalm, SnapshotCalm, LogoutStoppedCalm, SayCalm, LockedCalm,
     CountedCalm DEF Events
<1>4. ASSUME NEW a \in Clients \cup Requests, Unlinking(a) PROVE CInv'
  BY <1>4, UnlinkPathCalm, ResetDeviceCalm, WriteDownCalm DEF Unlinking
<1>5. ASSUME NEW q \in Requests, Connecting(q) PROVE CInv'
  BY <1>5, ConnectCalm, ConnectStoppedCalm, ConnectSpawnCalm, RegisterCalm, CreateSpawnCalm,
     WaitCalm, WaitCheckCalm, WaitStoppedCalm, PairCalm, PairSpawnCalm DEF Connecting
<1>6. ASSUME NEW q \in Requests, Disconnecting(q) PROVE CInv'
  BY <1>6, DisconnectCalm, DisconnectStoppedCalm, DisconnectAllCalm, DisconnectAllStoppedCalm,
     LogoutCalm, LogoutLeaveCalm, LogoutUnlinkCalm, DeleteCalm, DeleteStoppedCalm, RemoveDirCalm,
     EraseRowCalm DEF Disconnecting
<1>7. ASSUME NEW q \in Requests, Moving(q) PROVE CInv'
  BY <1>7, ExportCalm, ExportStoppedCalm, ExportWriteCalm, ZipCalm, ImportCalm, UnzipCalm,
     ConnectCloudCalm, SetProviderCalm, RemoveCalm, CloudStoppedCalm, SweepCalm DEF Moving
<1>8. ASSUME NEW q \in Requests, Abandon(q) PROVE CInv'
  BY <1>8, AbandonCalm
<1>9. ASSUME NEW a \in Requests \cup {Boot}, List(a) \/ Walk(a) PROVE CInv'
  BY <1>9, ListCalm, WalkCalm
<1>10. CASE Rebuilding \/ CoolDown \/ Crash
  BY <1>10, PatrolCalm, RebuildStoppedCalm, RebuildWriteCalm, RespawnCalm, CoolDownCalm, CrashCalm
     DEF Rebuilding
<1>11. CASE UNCHANGED vars
  BY <1>11, StutterCalm
<1>12. QED
  BY <1>1, <1>2, <1>3, <1>4, <1>5, <1>6, <1>7, <1>8, <1>9, <1>10, <1>11 DEF Next

\* Unless control operations have overlapped, at most one task works on the session or builds a
\* client for it, what that task found out is still so when it acts on it, and every live client is
\* the one that Disconnect, Delete, Export and the others will find and stop.
THEOREM ChargeTheorem == Spec => [](IInv /\ CInv)
<1> DEFINE Inv == IInv /\ CInv /\ StoreType
<1>1. Init => Inv
  BY InitIInv, InitCInv
<1>2. Inv /\ [Next]_vars => Inv'
  BY NextIInv, NextCInv, NextStoreType
<1>3. Inv => IInv /\ CInv
  OBVIOUS
<1> HIDE DEF Inv
<1> QED
  BY <1>1, <1>2, <1>3, PTL DEF Spec

\* A client that may talk to WhatsApp is installed in the runtime of the map, or a logout has it in
\* hand: connection.rs and lifecycle.rs leave no client that nothing will stop, unless control
\* operations overlap or a logout is abandoned.
THEOREM LiveIsInstalledTheorem == Spec => []LiveIsInstalled
<1>1. CInv => LiveIsInstalled
  BY DEF CInv, ChargeInv, Calm, Owned, LiveIsInstalled
<1> QED
  BY <1>1, ChargeTheorem, PTL

\* Whoever resets, removes or zips the store has stopped the client first, and no other has come
\* meanwhile: no client is live while delete_session, unlink_session or export_session is at the
\* files.
THEOREM StoreAtRestTheorem == Spec => []StoreAtRest
<1>1. ASSUME CInv, ~disturbed, NEW a \in Agents, agent[a].pc \in {"reset", "rmdir", "zip"}
      PROVE  \A c \in Clients : ~Live(c)
  <2>1. /\ agent[a].op \in {"logout", "delete", "export"}
        /\ agent[a].pc # "leave"
    BY <1>1, WorkOf DEF CInv
  <2>2. InCharge(a) /\ ~Loud(a)
    BY <2>1 DEF InCharge, Loud, At
  <2> QED
    BY <1>1, <2>2 DEF CInv, ChargeInv, Calm, Quiet
<1>2. CInv => StoreAtRest
  BY <1>1 DEF StoreAtRest
<1> QED
  BY <1>2, ChargeTheorem, PTL

\* A live client that knows a login finds it in the store: nobody wipes the store under a client, and
\* a client built before the wipe is not let live after it, so save() cannot bring a login back.
THEOREM LoginIsKeptTheorem == Spec => []LoginIsKept
<1>1. CInv => LoginIsKept
  BY DEF CInv, ChargeInv, Calm, Owned, LoginIsKept
<1> QED
  BY <1>1, ChargeTheorem, PTL

\* While the cooldown of an account lock runs, no client is live but one a pairing built: the
\* watchdog, the walks and a connect task already under way do not wake the session.
THEOREM CoolingIsQuietTheorem == Spec => []CoolingIsQuiet
<1>1. CInv => CoolingIsQuiet
  BY DEF CInv, ChargeInv, Calm, Owned, CoolingIsQuiet
<1> QED
  BY <1>1, ChargeTheorem, PTL

=============================================================================
