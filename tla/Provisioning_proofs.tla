-------------------------- MODULE Provisioning_proofs --------------------------
(***************************************************************************)
(* Theorems about provisioning under the lock, for any conductors, nodes   *)
(* and tasks, any pool, requests and faults.  The locks behave as in       *)
(* TaskManager, whose invariant is used as it is.  TaskInv says what a     *)
(* task's job, copy and arguments have to do with each other, whatever     *)
(* else happens to the node.  FreshInv adds that the copy of a task that   *)
(* has not lost its lock is the row.  DiskInv says where a cleaning that   *)
(* counts may be, WorkInv who is about to end what has been begun.         *)
(***************************************************************************)
EXTENDS Provisioning, TaskManager_proofs, ProvisionStates_proofs, FiniteSetTheorems

\* Jobs of a task with a shared lock, and of one that has just loaded the row.
SharedJob == {"heartbeat", "check_result"}
Loading == Handler \cup InspectorJob \cup {"heartbeat", "heartbeat_locked"}

\* The place of a task and its job.
Placed(t) ==
    /\ task[t].pc = "idle" <=> job[t] = "none"
    /\ task[t].pc = "reserving" => job[t] \in Handler \cup {"introspect"}
    /\ task[t].pc = "body" => job[t] # "finished"
    /\ task[t].pc = "worker" => job[t] \in WorkerJob \cup {"finished"}
    /\ task[t].pc = "upgrading" => job[t] \in {Verdict.done, Verdict.fail}
    /\ task[t].pc = "worker_upgrading" => job[t] = "heartbeat"
    /\ task[t].pc \in {"body", "worker"} /\ job[t] \notin {"leave", "finished"} =>
          (task[t].shared <=> job[t] \in SharedJob)
    /\ task[t].pc # "idle" /\ job[t] # "finished" => task[t].node \in Node

\* The states in which the machine of a task may be when it does job j.
StateOfJob(j, s) ==
    /\ j \in {"deploying", "agent_deploy"} => s = "deploying"
    /\ j = "tearing_down" => s = "deleting"
    /\ j = "verifying" => s = "verifying"
    /\ j = "adopting" => s = "adopting"
    /\ j = "inspecting" => s = "inspecting"
    /\ j \in {"clean_auto", "clean_manual", "next_step", "step_auto",
              "step_manual"} => s = "cleaning"
    /\ j = "agent_clean" => s = "cleanwait"
    /\ j = "clean_failing" => s \in {"cleaning", "cleanwait"}
    /\ j \in {"fail_auto", "fail_manual"} => s \in Cleanings
    /\ j \in {"clean_abort", "clean_cleanup"} => s = "cleanfail"
    /\ j = "deploy_cleanup" => s = "deployfail"

\* A copy: its target fits its state; what a handler reads in the row and what
\* it asks the machine is the same.
CopyOfJob(j, copy) ==
    /\ Fits(copy.node.prov, copy.node.target)
    /\ StateOfJob(j, copy.fsm.state)
    /\ j \in Loading => copy.fsm.state = copy.node.prov

\* provisioning_error_handler is there for a spawn that may still fail.
UndoFits(t) ==
    /\ undo[t] # NoUndo =>
          /\ Fits(undo[t].prov, undo[t].target)
          /\ task[t].pc = "body" /\ job[t] \in (WorkerJob \ SharedJob) \cup {"leave"}
    /\ task[t].pc = "body" /\ job[t] \in WorkerJob /\ undo[t] = NoUndo =>
          job[t] \in {"heartbeat", "next_step", "clean_cleanup"}

TaskInv ==
    /\ ProvTypeOK
    /\ \A t \in Task : Placed(t) /\ CopyOfJob(job[t], snap[t]) /\ UndoFits(t)
    /\ \A n \in Node : Fits(db[n].prov, db[n].target)

-----------------------------------------------------------------------------
\* Whoever has lost a lock has been seen to.
LostAreRobbed == \A t \in lost, n \in Node : Holds(t, n) => n \in robbed

\* Task t works on node n, and nobody has taken its lock.
Works(t, n) ==
    n \notin robbed /\ Holds(t, n) /\ job[t] \notin {"leave", "finished"}

Fresh(t, n) ==
    /\ snap[t].fsm.state = db[n].prov
    /\ snap[t].node.prov = db[n].prov
    /\ snap[t].node.target = db[n].target

FreshInv ==
    /\ LockInv /\ TaskInv /\ LostAreRobbed
    /\ \A t \in Task, n \in Node : Works(t, n) => Fresh(t, n)

-----------------------------------------------------------------------------
\* What a row may say of the disks of its node.
CleanEnough(s, g, d) ==
    /\ s = "available" => d = "clean"
    /\ s = "cleanwait" /\ g = "available" => d # "dirty"

DiskOfJob(t, n) ==
    /\ undo[t] # NoUndo => CleanEnough(undo[t].prov, undo[t].target, disk[n])
    /\ job[t] = "clean_auto" /\ task[t].pc = "worker" => disk[n] # "dirty"
    /\ job[t] = "clean_manual" => snap[t].node.target = "manageable"
    /\ job[t] = "next_step" /\ snap[t].node.target = "available" =>
          disk[n] # "dirty"
    /\ job[t] = "step_auto" => disk[n] # "dirty"

DiskInv ==
    /\ \A n \in Node \ robbed : CleanEnough(db[n].prov, db[n].target, disk[n])
    /\ \A t \in Task, n \in Node : Works(t, n) => DiskOfJob(t, n)

-----------------------------------------------------------------------------
WorkInv ==
    /\ \A n \in Node : db[n].prov \in Working =>
          MayAbandon(db[n].prov) \/ \E t \in Task : Holds(t, n) /\ job[t] \in Ending
    /\ \A t \in Task : undo[t].prov \in Working => MayAbandon(undo[t].prov)

-----------------------------------------------------------------------------
(* The locks.                                                              *)

\* A step of provisioning is a step of TaskManager, or none.
LEMMA TaskLocks ==
    ASSUME NEW t \in Task, TaskCalls(t) \/ TaskProceeds(t)
    PROVE  /\ TaskStep(t) \/ UNCHANGED lockVars
           /\ Watch \/ UNCHANGED locks
<1> USE DEF TaskStep
<1>1. ASSUME NEW h \in Host, NEW n \in Node, NEW j, Call(t, h, n, j)
      PROVE  TaskStep(t) /\ Watch
  <2>1. FALSE \in BOOLEAN
    OBVIOUS
  <2> QED
    BY <1>1, <2>1 DEF Call
<1>2. ASSUME NEW h \in Host, NEW n \in Node, Acquire(t, h, n, TRUE)
      PROVE  TaskStep(t)
  <2>1. TRUE \in BOOLEAN
    OBVIOUS
  <2> QED
    BY <1>2, <2>1
<1>3. CASE TaskCalls(t)
  <2>1. ASSUME NEW h \in Host, NEW n \in Node, NEW k, SweepNext(t, h, n, k)
        PROVE  TaskStep(t) /\ Watch
    BY <1>1, <2>1 DEF SweepNext
  <2>2. ASSUME NEW h \in Host, NEW n \in Node,
               \/ \E j \in RequestKind : Request(t, h, n, j)
               \/ Heartbeat(t, h, n) \/ Continue(t, h, n) \/ CheckResult(t, h, n)
        PROVE  TaskStep(t) /\ Watch
    BY <1>1, <1>2, <2>2 DEF Request, Heartbeat, Continue, CheckResult
  <2> QED
    BY <1>3, <2>1, <2>2 DEF TaskCalls, IntrospectRaises
<1>4. CASE TakeLock(t) \/ LockBusy(t) \/ Leave(t) \/ SpawnWorker(t) \/ Finished(t)
  BY <1>4 DEF TakeLock, LockBusy, Leave, SpawnWorker, Finished
<1>5. CASE NoFreeWorker(t)
  BY <1>5 DEF NoFreeWorker, locks
<1>6. CASE Handle(t)
  BY <1>6 DEF Handle, DoNodeDeploy, DoNodeTearDown, DoNodeClean, InspectHardware,
              Provide, Manage, Adopt, Abort, UpdateNode, ContinueNodeClean,
              FailIfInState, Refuse, Begin, Advance, Skip, locks
<1>7. CASE Work(t)
  BY <1>7 DEF Work, Deploy, Raises, TearDown, StartCleaning, ChooseCleaning,
              RunCleanSteps, CleaningErrorHandler, SetMaintenance, CleanAbort,
              DeployCleanup, Verify, DoAdoption, Inspect, Introspect,
              Advance, Skip, locks
<1>8. CASE AgentWork(t)
  BY <1>8 DEF AgentWork, HeartbeatUpgrade, HeartbeatIgnored, HeartbeatDeploying,
              AgentDeploy, HeartbeatCleaning, AgentClean, Touch, Advance, Skip,
              locks
<1>9. CASE CheckStatus(t) \/ RecordInspection(t)
  BY <1>9 DEF CheckStatus, RecordInspection, Advance, Skip, locks
<1> QED
  BY <1>3, <1>4, <1>5, <1>6, <1>7, <1>8, <1>9 DEF TaskProceeds

LEMMA HostLocks ==
    ASSUME NEW h \in Host, ConductorStep(h)
    PROVE  /\ HostStep(h) \/ UNCHANGED lockVars
           /\ Watch \/ UNCHANGED locks
  BY DEF ConductorStep, HostStep, Die, Stop, Aside, Recover, CheckDeployingStatus,
         CheckTimeouts, BreakAndFail, IntrospectReturns, locks

LEMMA ProvLocks ==
    ASSUME [ProvNext]_vars
    PROVE  /\ [Next]_lockVars
           /\ robbed' = robbed \cup {n \in Node : \E t \in lost' \ lost : Holds(t, n)}
<1>1. Watch \/ UNCHANGED locks
  BY TaskLocks, HostLocks DEF ProvNext, vars, Age, LoseCast
<1>2. [Next]_lockVars
  BY TaskLocks, HostLocks DEF ProvNext, Next, vars, locks, Age, LoseCast
<1>3. UNCHANGED locks => lost' \ lost = {} /\ robbed' = robbed
  BY DEF locks, lockVars
<1> QED
  BY <1>1, <1>2, <1>3 DEF Watch

\* What has been proved of the locks holds under provisioning: the tasks of
\* Provisioning do nothing to a lock that those of TaskManager do not do.
THEOREM ProvisioningKeepsLocks == ProvSpec => Spec
<1>1. ProvInit => Init
  BY DEF ProvInit
<1>2. [ProvNext]_vars => [Next]_lockVars
  BY ProvLocks
<1> QED
  BY <1>1, <1>2, PTL DEF ProvSpec, Spec

-----------------------------------------------------------------------------
(* Rows, copies and events.                                                *)

LEMMA RowFlags ==
    ASSUME NEW r \in Row, NEW b \in BOOLEAN
    PROVE  /\ [r EXCEPT !.maint = b] \in Row
           /\ [r EXCEPT !.maint = b].prov = r.prov
           /\ [r EXCEPT !.maint = b].target = r.target
           /\ [r EXCEPT !.late = b] \in Row
           /\ [r EXCEPT !.late = b].prov = r.prov
           /\ [r EXCEPT !.late = b].target = r.target
  BY DEF Row

LEMMA LoadedFacts ==
    ASSUME NEW r \in Row
    PROVE  /\ Loaded(r) \in Copy /\ Loaded(r).node = r
           /\ Loaded(r).fsm.state = r.prov
<1>1. r.prov \in State /\ r.target \in Stable \cup {NoState}
  BY DEF Row
<1>2. Initialized(r.prov, r.target) \in Machine
  BY <1>1, Defaults DEF Initialized, Machine
<1> QED
  BY <1>2 DEF Loaded, Copy, Initialized

LEMMA NewRowFacts ==
    ASSUME NEW s \in Stable
    PROVE  /\ NewRow(s) \in Row /\ NewRow(s).prov = s
           /\ NewRow(s).target = NoState /\ Fits(s, NoState)
  BY DEF NewRow, Row, State, Fits

LEMMA NoCopyFacts ==
    /\ NoCopy \in Copy /\ NoCopy.fsm.state = NoCopy.node.prov
    /\ NoCopy.node.prov = "enroll" /\ NoCopy.node.target = NoState
    /\ Fits(NoCopy.node.prov, NoCopy.node.target)
<1>1. "enroll" \in Stable
  BY DEF Stable
<1> QED
  BY <1>1, NewRowFacts, LoadedFacts DEF NoCopy

\* A task that is about to end, or has not loaded its row, has a blank copy.
LEMMA BlankCopy ==
    ASSUME NEW j \in Handler \cup InspectorJob \cup {"none", "leave", "finished"}
    PROVE  CopyOfJob(j, NoCopy)
  BY NoCopyFacts DEF CopyOfJob, StateOfJob, Handler, RequestKind, SweepKind,
                     Expected, InspectorJob, Verdict

LEMMA NoUndoFacts == NoUndo \in Undo /\ NoUndo.prov \notin State
  BY Defaults DEF NoUndo, Undo

\* What a row holds fits a state.
LEMMA FitsTypes ==
    ASSUME NEW s, NEW g, Fits(s, g)
    PROVE  s \in State /\ g \in Stable \cup {NoState}
  BY Defaults DEF Fits, State, Stable, Cleanings, Unstable, Failed, NoState

\* What the machine makes of an event it accepts.
LEMMA ProcessedFacts ==
    ASSUME NEW m \in Machine, NEW e, Accepts(m.state, e),
           NEW wanted \in Stable \cup {NoState}, NEW callback \in BOOLEAN,
           wanted # NoState =>
               After(m.state, e) \in Cleanings /\ wanted \in {"available", "manageable"},
           callback => After(m.state, e) \notin Stable
    PROVE  LET s == After(m.state, e)
               p == Processed(m, e, wanted)
           IN  /\ <<m.state, e, s>> \in Edges
               /\ p \in Machine /\ p.state = s
               /\ RowTarget(p, callback) \in Stable \cup {NoState}
               /\ Fits(s, RowTarget(p, callback))
               /\ s \notin Stable => RowTarget(p, callback) =
                      IF wanted # NoState THEN wanted ELSE DefaultTarget[s]
<1> DEFINE s == After(m.state, e)
           p == Processed(m, e, wanted)
<1>1. s \in State /\ <<m.state, e, s>> \in Edges
  BY AcceptedEdge
<1>2. m.target \in Stable \cup {NoState} /\ DefaultTarget[s] \in Stable \cup {NoState}
  BY <1>1, Defaults DEF Machine
<1>3. PostTarget(m, s) \in Stable \cup {NoState}
  BY <1>2 DEF PostTarget
<1>4. /\ p.state = s
      /\ p.target = IF wanted # NoState THEN wanted ELSE PostTarget(m, s)
      /\ p \in Machine
  BY <1>1, <1>3 DEF Processed, Machine
<1>5. s \notin Stable => PostTarget(m, s) = DefaultTarget[s]
  BY <1>1, Defaults DEF PostTarget
<1>6. s \notin Stable => RowTarget(p, callback) =
          IF wanted # NoState THEN wanted ELSE DefaultTarget[s]
  BY <1>4, <1>5 DEF RowTarget
<1>7. RowTarget(p, callback) \in Stable \cup {NoState}
  BY <1>3, <1>4 DEF RowTarget
<1>8. Fits(s, RowTarget(p, callback))
  <2>1. CASE s \in Stable
    BY <1>4, <2>1 DEF RowTarget, Fits
  <2>2. CASE s \notin Stable
    BY <1>1, <1>6, <2>2, Defaults DEF Fits
  <2> QED
    BY <2>1, <2>2
<1> QED
  BY <1>1, <1>4, <1>6, <1>7, <1>8

\* What process_event does to the row and the copy.
LEMMA EventStep ==
    ASSUME ProvTypeOK, NEW t \in Task, At(t) \in Node, NEW e, NEW j \in Job,
           NEW wanted \in Stable \cup {NoState}, NEW callback \in BOOLEAN,
           ProcessEvent(t, e, wanted, callback, j),
           wanted # NoState => /\ After(snap[t].fsm.state, e) \in Cleanings
                               /\ wanted \in {"available", "manageable"},
           callback => After(snap[t].fsm.state, e) \notin Stable
    PROVE  LET s == After(snap[t].fsm.state, e)
               row == db'[At(t)]
           IN  /\ <<snap[t].fsm.state, e, s>> \in Edges
               /\ db' \in [Node -> Row]
               /\ \A n \in Node \ {At(t)} : db'[n] = db[n]
               /\ row.prov = s /\ Fits(row.prov, row.target)
               /\ s \notin Stable => row.target =
                      IF wanted # NoState THEN wanted ELSE DefaultTarget[s]
               /\ job' = [job EXCEPT ![t] = j]
               /\ snap' \in [Task -> Copy]
               /\ \A u \in Task \ {t} : snap'[u] = snap[u]
               /\ IF j \in {"leave", "finished"} THEN snap'[t] = NoCopy
                  ELSE snap'[t].node = row /\ snap'[t].fsm.state = s
<1> DEFINE m == snap[t].fsm
           s == After(m.state, e)
           p == Processed(m, e, wanted)
           row == [db[At(t)] EXCEPT !.prov = p.state,
                                    !.target = RowTarget(p, callback),
                                    !.late = FALSE]
           copy == [node |-> row, fsm |-> p]
<1>1. m \in Machine /\ db[At(t)] \in Row /\ db \in [Node -> Row]
  BY DEF ProvTypeOK, Copy
<1>2. Accepts(m.state, e) /\ Save(t, row, p, j)
  BY DEF ProcessEvent, RowTarget
<1>3. /\ <<m.state, e, s>> \in Edges /\ p \in Machine /\ p.state = s
      /\ RowTarget(p, callback) \in Stable \cup {NoState}
      /\ Fits(s, RowTarget(p, callback))
      /\ s \notin Stable => RowTarget(p, callback) =
             IF wanted # NoState THEN wanted ELSE DefaultTarget[s]
  BY <1>1, <1>2, ProcessedFacts
<1>4. s \in State
  BY <1>2, AcceptedEdge
<1>5. /\ row \in Row /\ row.prov = s /\ row.target = RowTarget(p, callback)
  <2> DEFINE r == db[At(t)]
             g == RowTarget(p, callback)
  <2>1. r \in Row /\ s \in State /\ g \in Stable \cup {NoState}
    BY <1>1, <1>3, <1>4
  <2>2. row = [r EXCEPT !.prov = s, !.target = g, !.late = FALSE]
    BY <1>3
  <2> HIDE DEF r, g, s, p, row
  <2>3. row \in Row /\ row.prov = s /\ row.target = g
    BY <2>1, <2>2 DEF Row
  <2> QED
    BY <2>3 DEF g
<1>6. copy \in Copy /\ copy.node = row /\ copy.fsm.state = s
  BY <1>3, <1>5 DEF Copy
<1> HIDE DEF m, s, p, row, copy
<1>7. /\ db' = [db EXCEPT ![At(t)] = row] /\ job' = [job EXCEPT ![t] = j]
      /\ snap' = [snap EXCEPT ![t] = IF j \in {"leave", "finished"} THEN NoCopy
                                                                  ELSE copy]
  BY <1>2 DEF Save, Goto, copy
<1>8. db' \in [Node -> Row] /\ db'[At(t)] = row
      /\ \A n \in Node \ {At(t)} : db'[n] = db[n]
  BY <1>1, <1>5, <1>7
<1>9. /\ snap' \in [Task -> Copy] /\ \A u \in Task \ {t} : snap'[u] = snap[u]
      /\ snap'[t] = IF j \in {"leave", "finished"} THEN NoCopy ELSE copy
  BY <1>6, <1>7, NoCopyFacts DEF ProvTypeOK
<1> QED
  BY <1>3, <1>5, <1>6, <1>7, <1>8, <1>9 DEF m, s

-----------------------------------------------------------------------------
(* What every step keeps of jobs, copies and arguments.                    *)

LEMMA JobFacts ==
    /\ SweepKind = {"deploy_timeout", "clean_timeout", "inspect_timeout",
                    "offline", "restart"}
    /\ InspectorJob = {"introspect", "check_result", "inspector_done",
                       "inspector_fail"}
    /\ Handler \subseteq Job /\ WorkerJob \subseteq Job /\ InspectorJob \subseteq Job
    /\ {"none", "leave", "finished"} \subseteq Job
    /\ {Expected[k] : k \in SweepKind} =
          {"deploywait", "cleanwait", "inspecting", "deploying"}
  BY DEF SweepKind, Expected, InspectorJob, Verdict, Job, Handler

\* The other tasks, and all they know, stay as they are.
SameTask(u) == /\ task'[u] = task[u] /\ job'[u] = job[u]
               /\ snap'[u] = snap[u] /\ undo'[u] = undo[u]
OthersRest(t) == \A u \in Task \ {t} : SameTask(u)

LEMMA OneMoves ==
    ASSUME TaskInv, ProvTypeOK', NEW t \in Task, OthersRest(t),
           Placed(t)', CopyOfJob(job[t], snap[t])', UndoFits(t)',
           \A n \in Node : Fits(db'[n].prov, db'[n].target)
    PROVE  TaskInv'
<1>1. ASSUME NEW u \in Task \ {t}
      PROVE  (Placed(u) /\ CopyOfJob(job[u], snap[u]) /\ UndoFits(u))'
  <2>1. /\ task'[u] = task[u] /\ job'[u] = job[u]
        /\ snap'[u] = snap[u] /\ undo'[u] = undo[u]
    BY DEF OthersRest, SameTask
  <2>2. Placed(u) /\ CopyOfJob(job[u], snap[u]) /\ UndoFits(u)
    BY DEF TaskInv
  <2>3. Placed(u)'
    BY <2>1, <2>2 DEF Placed
  <2>4. CopyOfJob(job[u], snap[u])'
    BY <2>1, <2>2 DEF CopyOfJob
  <2>5. UndoFits(u)'
    BY <2>1, <2>2 DEF UndoFits
  <2> QED
    BY <2>3, <2>4, <2>5
<1> QED
  BY <1>1 DEF TaskInv

\* Steps that no task takes.
LEMMA NoneMoves ==
    ASSUME TaskInv, ProvTypeOK', UNCHANGED <<task, job, snap, undo>>,
           \A n \in Node : Fits(db'[n].prov, db'[n].target)
    PROVE  TaskInv'
<1>1. ASSUME NEW u \in Task
      PROVE  (Placed(u) /\ CopyOfJob(job[u], snap[u]) /\ UndoFits(u))'
  BY DEF TaskInv, Placed, CopyOfJob, UndoFits
<1> QED
  BY <1>1 DEF TaskInv

\* Tasks that come to their end.
LEMMA SomeEnd ==
    ASSUME TaskInv, ProvTypeOK', NEW ts \in SUBSET Task, Forgotten(ts),
           \A t \in ts : task'[t] = IdleTask,
           \A t \in Task \ ts : task'[t] = task[t], UNCHANGED db
    PROVE  TaskInv'
<1>1. ASSUME NEW u \in ts
      PROVE  (Placed(u) /\ CopyOfJob(job[u], snap[u]) /\ UndoFits(u))'
  <2>1. /\ task'[u].pc = "idle" /\ job'[u] = "none"
        /\ snap'[u] = NoCopy /\ undo'[u] = NoUndo
    BY IdleTaskType DEF Forgotten
  <2>2. Placed(u)'
    BY <2>1 DEF Placed
  <2>3. CopyOfJob(job[u], snap[u])'
    BY <2>1, BlankCopy
  <2>4. UndoFits(u)'
    BY <2>1 DEF UndoFits
  <2> QED
    BY <2>2, <2>3, <2>4
<1>2. ASSUME NEW u \in Task \ ts
      PROVE  (Placed(u) /\ CopyOfJob(job[u], snap[u]) /\ UndoFits(u))'
  <2>1. /\ task'[u] = task[u] /\ job'[u] = job[u]
        /\ snap'[u] = snap[u] /\ undo'[u] = undo[u]
    BY DEF Forgotten
  <2>2. Placed(u) /\ CopyOfJob(job[u], snap[u]) /\ UndoFits(u)
    BY DEF TaskInv
  <2>3. Placed(u)'
    BY <2>1, <2>2 DEF Placed
  <2>4. CopyOfJob(job[u], snap[u])'
    BY <2>1, <2>2 DEF CopyOfJob
  <2>5. UndoFits(u)'
    BY <2>1, <2>2 DEF UndoFits
  <2> QED
    BY <2>3, <2>4, <2>5
<1>3. \A n \in Node : Fits(db'[n].prov, db'[n].target)
  BY DEF TaskInv
<1> QED
  BY <1>1, <1>2, <1>3 DEF TaskInv

LEMMA ForgottenTypes ==
    ASSUME ProvTypeOK, NEW ts \in SUBSET Task, Forgotten(ts)
    PROVE  /\ job' \in [Task -> Job] /\ snap' \in [Task -> Copy]
           /\ undo' \in [Task -> Undo]
  BY NoCopyFacts, NoUndoFacts, JobFacts DEF Forgotten, ProvTypeOK

\* Where a task goes on.
LEMMA GotoStep ==
    ASSUME ProvTypeOK, NEW t \in Task, NEW j \in Job, NEW copy, Goto(t, j, copy),
           copy \in Copy \/ j \in {"leave", "finished"}
    PROVE  /\ job' \in [Task -> Job] /\ job'[t] = j
           /\ snap' \in [Task -> Copy]
           /\ snap'[t] = IF j \in {"leave", "finished"} THEN NoCopy ELSE copy
           /\ \A u \in Task \ {t} : job'[u] = job[u] /\ snap'[u] = snap[u]
  BY NoCopyFacts DEF Goto, ProvTypeOK

\* A task in the block or in its thread that goes on there.
LEMMA PlacedStep ==
    ASSUME TaskInv, NEW t \in Task, UNCHANGED task, job'[t] \in Job,
           \/ /\ task[t].pc = "body" /\ job[t] \notin SharedJob \cup {"leave"}
              /\ job'[t] \notin {"none", "finished"} \cup SharedJob
           \/ /\ task[t].pc = "body" /\ job[t] # "leave" /\ job'[t] = "leave"
           \/ /\ Doing(t, job[t]) /\ job[t] \notin SharedJob \cup {"finished"}
              /\ job'[t] \in (WorkerJob \ SharedJob) \cup {"finished"}
           \/ /\ Doing(t, "heartbeat") /\ job'[t] = "finished"
    PROVE  Placed(t)'
<1>1. Placed(t) /\ task'[t] = task[t]
  BY DEF TaskInv
<1>2. {"none", "leave", "finished"} \cap WorkerJob = {}
  BY DEF WorkerJob
<1>3. task[t].pc \in {"body", "worker"} /\ task[t].node \in Node
  BY <1>1 DEF Placed, Doing, SharedJob
<1>4. task[t].pc = "body" => job'[t] \notin {"none", "finished"}
  BY DEF Doing
<1>5. task[t].pc = "worker" => job'[t] \in WorkerJob \cup {"finished"}
  BY DEF Doing
<1>6. job'[t] \notin {"leave", "finished"} =>
         (task[t].shared <=> job'[t] \in SharedJob)
  <2>1. job[t] # "finished" /\ job[t] # "leave" =>
           (task[t].shared <=> job[t] \in SharedJob)
    BY <1>1, <1>3 DEF Placed
  <2>2. job'[t] \in {"leave", "finished"} \/
           (job[t] \notin SharedJob \cup {"leave", "finished"} /\ job'[t] \notin SharedJob)
    BY <1>1, <1>2 DEF Placed, Doing
  <2> QED
    BY <2>1, <2>2
<1> QED
  BY <1>1, <1>2, <1>3, <1>4, <1>5, <1>6 DEF Placed

LEMMA HasNode ==
    ASSUME TaskInv, NEW t \in Task, task[t].pc # "idle", job[t] # "finished"
    PROVE  At(t) \in Node
  BY DEF TaskInv, Placed, At

LEMMA UndoStep ==
    ASSUME TaskInv, NEW t \in Task, UNCHANGED <<task, undo>>,
           \/ task[t].pc # "body"
           \/ job'[t] = "leave"
           \/ job[t] \in Handler \cup InspectorJob /\ job'[t] \notin WorkerJob
           \/ job[t] \in Handler /\ job'[t] \in {"next_step", "clean_cleanup"}
    PROVE  UndoFits(t)'
<1>1. UndoFits(t)
  BY DEF TaskInv
<1>2. (Handler \cup InspectorJob) \cap (WorkerJob \cup {"leave"}) = {}
  BY JobFacts DEF Handler, RequestKind, WorkerJob
<1>3. "leave" \notin WorkerJob
  BY DEF WorkerJob
<1>4. undo'[t] = undo[t] /\ task'[t] = task[t]
  OBVIOUS
<1> QED
  BY <1>1, <1>2, <1>3, <1>4 DEF UndoFits

-----------------------------------------------------------------------------
(* Steps of a task that has its lock.                                      *)

\* In the with block of its handler, or in its thread.
InBlock(t) == task[t].pc = "body" /\ job[t] \in (Handler \cup InspectorJob) \ SharedJob
InThread(t) == task[t].pc = "worker" /\ job[t] \in WorkerJob \ SharedJob

\* Jobs that are chosen by what the task has just done.
NextJob == (WorkerJob \ Loading) \cup {"leave", "finished"}

LEMMA NextJobFacts ==
    /\ NextJob \subseteq Job /\ NextJob \cap Loading = {}
    /\ NextJob \subseteq (WorkerJob \ SharedJob) \cup {"leave", "finished"}
    /\ (Handler \cup InspectorJob) \cap (WorkerJob \cup {"leave", "finished", "none"}) = {}
    /\ {"leave", "finished", "none"} \cap WorkerJob = {}
  BY JobFacts DEF NextJob, Job, Loading, SharedJob, WorkerJob, Handler, RequestKind

\* A step that leaves the locks alone, with the copy and the row it leaves.
LEMMA LockedStep ==
    ASSUME TaskInv, NEW t \in Task, UNCHANGED <<locks, undo>>,
           \/ InBlock(t) /\ job'[t] = "leave"
           \/ InThread(t) /\ job'[t] \in NextJob \ {"leave"}
           \/ Doing(t, "heartbeat") /\ job'[t] = "finished",
           \A u \in Task \ {t} : job'[u] = job[u] /\ snap'[u] = snap[u],
           job' \in [Task -> Job], snap' \in [Task -> Copy],
           db' \in [Node -> Row], disk' \in [Node -> DiskState],
           sweep' \in [Host -> SUBSET (Node \X (SweepKind \cup {"introspect"}))],
           casts' \in SUBSET Node, CopyOfJob(job[t], snap[t])',
           \A n \in Node : Fits(db'[n].prov, db'[n].target)
    PROVE  TaskInv'
<1>1. ProvTypeOK'
  BY DEF TaskInv, ProvTypeOK, TypeOK, locks, lockVars
<1>2. UNCHANGED task
  BY DEF locks, lockVars
<1>3. Placed(t)'
  <2>1. CASE InBlock(t) /\ job'[t] = "leave"
    <3>1. job[t] # "leave"
      BY <2>1, NextJobFacts DEF InBlock
    <3> QED
      BY <1>2, <2>1, <3>1, NextJobFacts, PlacedStep DEF InBlock
  <2>2. CASE InThread(t) /\ job'[t] \in NextJob \ {"leave"}
    <3>1. job[t] # "finished"
      BY <2>2, NextJobFacts DEF InThread
    <3> QED
      BY <1>2, <2>2, <3>1, NextJobFacts, PlacedStep DEF InThread, Doing
  <2>3. CASE Doing(t, "heartbeat") /\ job'[t] = "finished"
    BY <1>2, <2>3, PlacedStep
  <2> QED
    BY <2>1, <2>2, <2>3
<1>4. UndoFits(t)'
  BY <1>2, UndoStep DEF InThread, Doing
<1>5. OthersRest(t)
  BY <1>2 DEF OthersRest, SameTask
<1> QED
  BY <1>1, <1>3, <1>4, <1>5, OneMoves

\* A copy that goes on unchanged.
LEMMA SameCopy ==
    ASSUME NEW c, NEW d, NEW i, NEW j \in NextJob, CopyOfJob(i, c),
           IF j \in {"leave", "finished"} THEN d = NoCopy
           ELSE /\ d.node.prov = c.node.prov /\ d.node.target = c.node.target
                /\ d.fsm = c.fsm /\ StateOfJob(j, c.fsm.state)
    PROVE  CopyOfJob(j, d)
<1>1. CASE j \in {"leave", "finished"}
  BY <1>1, BlankCopy
<1>2. CASE j \notin {"leave", "finished"}
  BY <1>2, NextJobFacts DEF CopyOfJob
<1> QED
  BY <1>1, <1>2

LEMMA SkipInv ==
    ASSUME TaskInv, NEW t \in Task, NEW j \in NextJob, Skip(t, j),
           \/ InBlock(t) /\ j = "leave"
           \/ InThread(t) /\ j # "leave"
           \/ Doing(t, "heartbeat") /\ j = "finished",
           StateOfJob(j, snap[t].fsm.state)
    PROVE  TaskInv'
<1>1. /\ Goto(t, j, snap[t])
      /\ UNCHANGED <<locks, db, undo, sweep, casts, disk>>
  BY DEF Skip
<1>2. ProvTypeOK /\ snap[t] \in Copy /\ j \in Job
  BY NextJobFacts DEF TaskInv, ProvTypeOK
<1>3. /\ job' \in [Task -> Job] /\ job'[t] = j
      /\ snap' \in [Task -> Copy]
      /\ snap'[t] = IF j \in {"leave", "finished"} THEN NoCopy ELSE snap[t]
      /\ \A u \in Task \ {t} : job'[u] = job[u] /\ snap'[u] = snap[u]
  BY <1>1, <1>2, GotoStep
<1>4. CopyOfJob(job[t], snap[t])
  BY DEF TaskInv
<1>5. CopyOfJob(j, snap'[t])
  BY <1>3, <1>4, SameCopy
<1>6. CopyOfJob(job[t], snap[t])'
  BY <1>3, <1>5
<1>7. /\ db' \in [Node -> Row] /\ disk' \in [Node -> DiskState]
      /\ sweep' \in [Host -> SUBSET (Node \X (SweepKind \cup {"introspect"}))]
      /\ casts' \in SUBSET Node
      /\ \A n \in Node : Fits(db'[n].prov, db'[n].target)
  BY <1>1, <1>2 DEF TaskInv, ProvTypeOK
<1> QED
  BY <1>1, <1>3, <1>6, <1>7, LockedStep

\* A row saved with the state and target that it had.
LEMMA FlagInv ==
    ASSUME TaskInv, NEW t \in Task, NEW j \in NextJob, NEW row \in Row,
           row.prov = db[At(t)].prov, row.target = db[At(t)].target,
           NEW copy \in Copy, Goto(t, j, copy), db' = [db EXCEPT ![At(t)] = row],
           UNCHANGED <<locks, undo, sweep, casts, disk>>,
           (InBlock(t) /\ j = "leave") \/ (InThread(t) /\ j # "leave"),
           CopyOfJob(j, IF j \in {"leave", "finished"} THEN NoCopy ELSE copy)
    PROVE  TaskInv'
<1>2. ProvTypeOK /\ j \in Job /\ At(t) \in Node
  BY NextJobFacts, HasNode DEF TaskInv, ProvTypeOK, InBlock, InThread
<1>3. /\ job' \in [Task -> Job] /\ job'[t] = j
      /\ snap' \in [Task -> Copy]
      /\ snap'[t] = IF j \in {"leave", "finished"} THEN NoCopy ELSE copy
      /\ \A u \in Task \ {t} : job'[u] = job[u] /\ snap'[u] = snap[u]
  BY <1>2, GotoStep
<1>6. CopyOfJob(job[t], snap[t])'
  BY <1>3
<1>7. /\ disk' \in [Node -> DiskState]
      /\ sweep' \in [Host -> SUBSET (Node \X (SweepKind \cup {"introspect"}))]
      /\ casts' \in SUBSET Node
  BY <1>2 DEF ProvTypeOK
<1>8. db \in [Node -> Row] /\ \A n \in Node : Fits(db[n].prov, db[n].target)
  BY DEF TaskInv, ProvTypeOK
<1>9. /\ db' \in [Node -> Row] /\ db'[At(t)] = row
      /\ \A n \in Node \ {At(t)} : db'[n] = db[n]
  BY <1>2, <1>8
<1>10. \A n \in Node : Fits(db'[n].prov, db'[n].target)
  BY <1>8, <1>9
<1> QED
  BY <1>3, <1>6, <1>7, <1>9, <1>10, LockedStep

\* An event processed in the block or in the thread.
LEMMA AdvanceInv ==
    ASSUME TaskInv, NEW t \in Task, NEW e, NEW j \in NextJob,
           NEW wanted \in Stable \cup {NoState}, Advance(t, e, wanted, j),
           disk' \in [Node -> DiskState],
           wanted # NoState => /\ After(snap[t].fsm.state, e) \in Cleanings
                               /\ wanted \in {"available", "manageable"},
           (InBlock(t) /\ j = "leave") \/ (InThread(t) /\ j # "leave"),
           StateOfJob(j, After(snap[t].fsm.state, e))
    PROVE  TaskInv'
<1> DEFINE s == After(snap[t].fsm.state, e)
<1>1. /\ ProcessEvent(t, e, wanted, FALSE, j)
      /\ UNCHANGED <<locks, undo, sweep, casts>>
  BY DEF Advance
<1>2. ProvTypeOK /\ j \in Job /\ At(t) \in Node
  BY NextJobFacts, HasNode DEF TaskInv, ProvTypeOK, InBlock, InThread
<1>3. /\ db' \in [Node -> Row]
      /\ \A n \in Node \ {At(t)} : db'[n] = db[n]
      /\ Fits(db'[At(t)].prov, db'[At(t)].target)
      /\ job' = [job EXCEPT ![t] = j]
      /\ snap' \in [Task -> Copy]
      /\ \A u \in Task \ {t} : snap'[u] = snap[u]
      /\ IF j \in {"leave", "finished"} THEN snap'[t] = NoCopy
         ELSE snap'[t].node = db'[At(t)] /\ snap'[t].fsm.state = s
  <2>1. FALSE \in BOOLEAN
    OBVIOUS
  <2> QED
    BY <1>1, <1>2, <2>1, EventStep
<1>4. job \in [Task -> Job]
  BY <1>2 DEF ProvTypeOK
<1>5. /\ job' \in [Task -> Job] /\ job'[t] = j
      /\ \A u \in Task \ {t} : job'[u] = job[u]
  BY <1>2, <1>3, <1>4
<1>6. CopyOfJob(j, snap'[t])
  <2>1. CASE j \in {"leave", "finished"}
    BY <1>3, <2>1, BlankCopy
  <2>2. CASE j \notin {"leave", "finished"}
    BY <1>3, <2>2, NextJobFacts DEF CopyOfJob
  <2> QED
    BY <2>1, <2>2
<1>7. CopyOfJob(job[t], snap[t])'
  BY <1>5, <1>6
<1>8. /\ sweep' \in [Host -> SUBSET (Node \X (SweepKind \cup {"introspect"}))]
      /\ casts' \in SUBSET Node
  BY <1>1, <1>2 DEF ProvTypeOK
<1>9. \A n \in Node : Fits(db'[n].prov, db'[n].target)
  BY <1>3 DEF TaskInv
<1> QED
  BY <1>1, <1>3, <1>5, <1>7, <1>8, <1>9, LockedStep

\* A handler that has processed its event and is about to spawn.
LEMMA BeginInv ==
    ASSUME TaskInv, NEW t \in Task, NEW e, NEW j \in NextJob \ {"leave", "finished"},
           NEW wanted \in Stable \cup {NoState}, NEW hooked \in BOOLEAN,
           Begin(t, e, wanted, j, hooked), InBlock(t), job[t] \in Handler,
           wanted # NoState => /\ After(snap[t].fsm.state, e) \in Cleanings
                               /\ wanted \in {"available", "manageable"},
           After(snap[t].fsm.state, e) \notin Stable,
           StateOfJob(j, After(snap[t].fsm.state, e)),
           ~hooked => j \in {"next_step", "clean_cleanup"}
    PROVE  TaskInv'
<1> DEFINE s == After(snap[t].fsm.state, e)
           old == [prov |-> Prov(t), target |-> snap[t].node.target]
<1>1. /\ ProcessEvent(t, e, wanted, TRUE, j)
      /\ undo' = IF hooked THEN [undo EXCEPT ![t] = old] ELSE undo
      /\ UNCHANGED <<locks, sweep, casts, disk>>
  BY DEF Begin
<1>2. ProvTypeOK /\ j \in Job /\ At(t) \in Node
  BY NextJobFacts, HasNode DEF TaskInv, ProvTypeOK, InBlock
<1>3. /\ db' \in [Node -> Row]
      /\ \A n \in Node \ {At(t)} : db'[n] = db[n]
      /\ Fits(db'[At(t)].prov, db'[At(t)].target)
      /\ job' = [job EXCEPT ![t] = j]
      /\ snap' \in [Task -> Copy]
      /\ \A u \in Task \ {t} : snap'[u] = snap[u]
      /\ snap'[t].node = db'[At(t)] /\ snap'[t].fsm.state = s
  <2>1. TRUE \in BOOLEAN
    OBVIOUS
  <2> QED
    BY <1>1, <1>2, <2>1, EventStep
<1>4. job \in [Task -> Job] /\ undo \in [Task -> Undo]
  BY <1>2 DEF ProvTypeOK
<1>5. /\ job' \in [Task -> Job] /\ job'[t] = j
      /\ \A u \in Task \ {t} : job'[u] = job[u]
  BY <1>2, <1>3, <1>4
<1>6. CopyOfJob(job[t], snap[t])'
  BY <1>3, <1>5, NextJobFacts DEF CopyOfJob
<1>7. Fits(old.prov, old.target) /\ old \in Undo /\ old # NoUndo
  <2>1. Fits(Prov(t), snap[t].node.target)
    BY DEF TaskInv, CopyOfJob, Prov
  <2>2. Prov(t) \in State /\ snap[t].node.target \in Stable \cup {NoState}
    BY <2>1, FitsTypes
  <2> QED
    BY <2>1, <2>2, NoUndoFacts DEF Undo
<1> HIDE DEF old
<1>8. /\ undo' \in [Task -> Undo] /\ \A u \in Task \ {t} : undo'[u] = undo[u]
      /\ undo'[t] = IF hooked THEN old ELSE undo[t]
  BY <1>1, <1>4, <1>7
<1>9. ProvTypeOK'
  BY <1>1, <1>2, <1>3, <1>5, <1>8 DEF ProvTypeOK, TypeOK, locks, lockVars
<1>10. UNCHANGED task
  BY <1>1 DEF locks, lockVars
<1>11. Placed(t)'
  BY <1>5, <1>10, NextJobFacts, PlacedStep DEF InBlock
<1>12. UndoFits(t)'
  <2>1. CASE hooked
    BY <1>5, <1>7, <1>8, <1>10, <2>1, NextJobFacts DEF UndoFits, InBlock
  <2>2. CASE ~hooked
    BY <1>5, <1>1, <1>8, <1>10, <2>2, UndoStep
  <2> QED
    BY <2>1, <2>2
<1>13. OthersRest(t)
  BY <1>3, <1>5, <1>8, <1>10 DEF OthersRest, SameTask
<1>14. \A n \in Node : Fits(db'[n].prov, db'[n].target)
  BY <1>3 DEF TaskInv
<1> QED
  BY <1>6, <1>9, <1>11, <1>12, <1>13, <1>14, OneMoves

\* No thread is free.
LEMMA NoFreeWorkerInv ==
    ASSUME TaskInv, NEW t \in Task, NoFreeWorker(t)
    PROVE  TaskInv'
<1>1. /\ job[t] \in WorkerJob /\ task[t].pc = "body"
      /\ sweep' = [sweep EXCEPT ![task[t].host] =
                    {w \in @ : w[2] \notin BrokenLoops(t)}]
      /\ UNCHANGED <<locks, undo, casts, disk>>
  BY DEF NoFreeWorker
<1>2. ProvTypeOK /\ At(t) \in Node /\ db[At(t)] \in Row /\ undo[t] \in Undo
      /\ "leave" \in Job
  BY <1>1, JobFacts, HasNode, NextJobFacts DEF TaskInv, ProvTypeOK
<1> DEFINE row == [db[At(t)] EXCEPT !.prov = undo[t].prov,
                                    !.target = undo[t].target, !.late = FALSE]
<1>3. /\ \E copy : Goto(t, "leave", copy)
      /\ IF undo[t] # NoUndo THEN db' = [db EXCEPT ![At(t)] = row]
         ELSE db' = db
  BY DEF NoFreeWorker, Save
<1>4. /\ job' \in [Task -> Job] /\ job'[t] = "leave"
      /\ snap' \in [Task -> Copy] /\ snap'[t] = NoCopy
      /\ \A u \in Task \ {t} : job'[u] = job[u] /\ snap'[u] = snap[u]
  BY <1>2, <1>3, GotoStep
<1>5. UndoFits(t) /\ \A n \in Node : Fits(db[n].prov, db[n].target)
  BY DEF TaskInv
<1>7. db' \in [Node -> Row] /\ \A n \in Node : Fits(db'[n].prov, db'[n].target)
  <2>1. CASE undo[t] # NoUndo
    <3>1. Fits(undo[t].prov, undo[t].target)
      BY <1>5, <2>1 DEF UndoFits
    <3>2. undo[t].prov \in State /\ undo[t].target \in Stable \cup {NoState}
      BY <3>1, FitsTypes
    <3>3. row \in Row /\ row.prov = undo[t].prov /\ row.target = undo[t].target
      BY <1>2, <3>2 DEF Row
    <3> HIDE DEF row
    <3>4. /\ db' \in [Node -> Row] /\ db'[At(t)] = row
          /\ \A n \in Node \ {At(t)} : db'[n] = db[n]
      BY <1>2, <1>3, <2>1, <3>3 DEF ProvTypeOK
    <3> QED
      BY <1>5, <3>1, <3>3, <3>4
  <2>2. CASE undo[t] = NoUndo
    BY <1>2, <1>3, <1>5, <2>2 DEF ProvTypeOK
  <2> QED
    BY <2>1, <2>2
<1>8. sweep' \in [Host -> SUBSET (Node \X (SweepKind \cup {"introspect"}))]
  BY <1>1, <1>2 DEF ProvTypeOK
<1>9. ProvTypeOK'
  BY <1>1, <1>2, <1>4, <1>7, <1>8 DEF ProvTypeOK, TypeOK, locks, lockVars
<1>10. UNCHANGED <<task, undo>>
  BY <1>1 DEF locks, lockVars
<1>11. Placed(t)'
  BY <1>1, <1>4, <1>10, NextJobFacts, PlacedStep
<1>12. UndoFits(t)'
  BY <1>4, <1>10, UndoStep
<1>13. OthersRest(t)
  BY <1>4, <1>10 DEF OthersRest, SameTask
<1>14. CopyOfJob(job[t], snap[t])'
  BY <1>4, BlankCopy
<1> QED
  BY <1>7, <1>9, <1>11, <1>12, <1>13, <1>14, OneMoves

-----------------------------------------------------------------------------
(* The handlers keep TaskInv.                                              *)

\* An event that a task processes is an edge of the machine.
LEMMA BegunEdge ==
    ASSUME NEW t, NEW e, NEW wanted, NEW j, NEW hooked, Begin(t, e, wanted, j, hooked)
    PROVE  <<snap[t].fsm.state, e, After(snap[t].fsm.state, e)>> \in Edges
  BY AcceptedEdge DEF Begin, ProcessEvent

LEMMA AdvancedEdge ==
    ASSUME NEW t, NEW e, NEW wanted, NEW j, Advance(t, e, wanted, j)
    PROVE  <<snap[t].fsm.state, e, After(snap[t].fsm.state, e)>> \in Edges
  BY AcceptedEdge DEF Advance, ProcessEvent

\* A handler reads the state of its machine in the row.
LEMMA HandlersCopy ==
    ASSUME TaskInv, NEW t \in Task, NEW j \in Handler, Handling(t, j)
    PROVE  /\ InBlock(t) /\ job[t] = j
           /\ snap[t].fsm.state = Prov(t)
           /\ Fits(Prov(t), snap[t].node.target)
           /\ KeptTarget(t) \in {NoState, "manageable"}
<1>1. j \notin SharedJob /\ j \in Loading
  BY JobFacts DEF Handler, RequestKind, SharedJob, Loading
<1> QED
  BY <1>1 DEF TaskInv, CopyOfJob, InBlock, Handling, Prov, KeptTarget

LEMMA Jobs ==
    /\ NextJob = (WorkerJob \ {"heartbeat", "heartbeat_locked"})
                     \cup {"leave", "finished"}
    /\ RequestKind \subseteq Handler /\ SweepKind \subseteq Handler
    /\ "continue" \in Handler
    /\ NoState \in Stable \cup {NoState}
    /\ {"available", "manageable"} \subseteq Stable
    /\ TRUE \in BOOLEAN /\ FALSE \in BOOLEAN
  BY JobFacts DEF NextJob, Loading, Handler, RequestKind, WorkerJob, Stable

\* What is begun with no target_state argument.
LEMMA PlainBegin ==
    ASSUME TaskInv, NEW t \in Task, NEW i \in Handler, Handling(t, i),
           NEW e, NEW j \in NextJob \ {"leave", "finished"},
           Begin(t, e, NoState, j, TRUE),
           After(snap[t].fsm.state, e) \notin Stable,
           StateOfJob(j, After(snap[t].fsm.state, e))
    PROVE  TaskInv'
  BY HandlersCopy, BeginInv, Jobs

LEMMA HandleInv ==
    ASSUME TaskInv, NEW t \in Task, Handle(t)
    PROVE  TaskInv'
<1> USE Jobs
<1>1. CASE DoNodeDeploy(t)
  <2>1. PICK j \in {"deploy", "rebuild"} :
            Handling(t, j) /\ Begin(t, j, NoState, "deploying", TRUE)
    BY <1>1 DEF DoNodeDeploy
  <2>2. After(snap[t].fsm.state, j) = "deploying"
    <3>1. <<snap[t].fsm.state, j, After(snap[t].fsm.state, j)>> \in Edges
      BY <2>1, BegunEdge
    <3> QED
      BY <2>1, <3>1, EdgeResults
  <2>3. StateOfJob("deploying", "deploying") /\ "deploying" \notin Stable
    BY DEF StateOfJob, Stable
  <2>4. j \in Handler /\ "deploying" \in NextJob \ {"leave", "finished"}
    BY DEF RequestKind, WorkerJob
  <2> QED
    BY <2>1, <2>2, <2>3, <2>4, PlainBegin
<1>2. CASE DoNodeTearDown(t)
  <2>1. Handling(t, "delete") /\ Begin(t, "delete", NoState, "tearing_down", TRUE)
    BY <1>2 DEF DoNodeTearDown
  <2>2. After(snap[t].fsm.state, "delete") = "deleting"
    <3>1. <<snap[t].fsm.state, "delete", After(snap[t].fsm.state, "delete")>> \in Edges
      BY <2>1, BegunEdge
    <3> QED
      BY <3>1, EdgeResults
  <2>3. StateOfJob("tearing_down", "deleting") /\ "deleting" \notin Stable
    BY DEF StateOfJob, Stable
  <2>4. "delete" \in Handler /\ "tearing_down" \in NextJob \ {"leave", "finished"}
    BY DEF RequestKind, WorkerJob
  <2> QED
    BY <2>1, <2>2, <2>3, <2>4, PlainBegin
<1>3. CASE DoNodeClean(t)
  <2>1. Handling(t, "clean") /\ Begin(t, "clean", "manageable", "clean_manual", TRUE)
    BY <1>3 DEF DoNodeClean
  <2>2. After(snap[t].fsm.state, "clean") = "cleaning"
    <3>1. <<snap[t].fsm.state, "clean", After(snap[t].fsm.state, "clean")>> \in Edges
      BY <2>1, BegunEdge
    <3> QED
      BY <2>1, <3>1, EdgeResults
  <2>3. StateOfJob("clean_manual", "cleaning") /\ "cleaning" \notin Stable
        /\ "cleaning" \in Cleanings
    BY DEF StateOfJob, Stable, Cleanings
  <2>4. "clean" \in Handler /\ "clean_manual" \in NextJob \ {"leave", "finished"}
    BY DEF RequestKind, WorkerJob
  <2>5. InBlock(t) /\ job[t] \in Handler
    BY <2>1, <2>4, HandlersCopy
  <2> QED
    BY <2>1, <2>2, <2>3, <2>4, <2>5, BeginInv
<1>4. CASE InspectHardware(t)
  <2>1. Handling(t, "inspect") /\ Begin(t, "inspect", NoState, "inspecting", TRUE)
    BY <1>4 DEF InspectHardware
  <2>2. After(snap[t].fsm.state, "inspect") = "inspecting"
    <3>1. <<snap[t].fsm.state, "inspect", After(snap[t].fsm.state, "inspect")>> \in Edges
      BY <2>1, BegunEdge
    <3> QED
      BY <2>1, <3>1, EdgeResults
  <2>3. StateOfJob("inspecting", "inspecting") /\ "inspecting" \notin Stable
    BY DEF StateOfJob, Stable
  <2>4. "inspect" \in Handler /\ "inspecting" \in NextJob \ {"leave", "finished"}
    BY DEF RequestKind, WorkerJob
  <2> QED
    BY <2>1, <2>2, <2>3, <2>4, PlainBegin
<1>5. CASE Provide(t)
  <2>1. Handling(t, "provide") /\ Begin(t, "provide", NoState, "clean_auto", TRUE)
    BY <1>5 DEF Provide
  <2>2. After(snap[t].fsm.state, "provide") = "cleaning"
    <3>1. <<snap[t].fsm.state, "provide", After(snap[t].fsm.state, "provide")>> \in Edges
      BY <2>1, BegunEdge
    <3> QED
      BY <2>1, <3>1, EdgeResults
  <2>3. StateOfJob("clean_auto", "cleaning") /\ "cleaning" \notin Stable
    BY DEF StateOfJob, Stable
  <2>4. "provide" \in Handler /\ "clean_auto" \in NextJob \ {"leave", "finished"}
    BY DEF RequestKind, WorkerJob
  <2> QED
    BY <2>1, <2>2, <2>3, <2>4, PlainBegin
<1>6. CASE Manage(t)
  <2>1. Handling(t, "manage") /\ "manage" \in Handler
    BY <1>6 DEF Manage, RequestKind
  <2>2. InBlock(t) /\ snap[t].fsm.state = Prov(t)
    BY <2>1, HandlersCopy
  <2>3. CASE Prov(t) = "enroll"
    <3>1. Begin(t, "manage", NoState, "verifying", TRUE)
      BY <1>6, <2>3 DEF Manage
    <3>2. After(snap[t].fsm.state, "manage") = "verifying"
      <4>1. <<snap[t].fsm.state, "manage", After(snap[t].fsm.state, "manage")>> \in Edges
        BY <2>2, <2>3, <3>1, BegunEdge
      <4> QED
        BY <2>2, <2>3, <3>1, <4>1, EdgeResults
    <3>3. StateOfJob("verifying", "verifying") /\ "verifying" \notin Stable
          /\ "verifying" \in NextJob \ {"leave", "finished"}
      BY DEF StateOfJob, Stable, WorkerJob
    <3> QED
      BY <2>1, <3>1, <3>2, <3>3, PlainBegin
  <2>4. CASE Prov(t) # "enroll"
    <3>1. Advance(t, "manage", NoState, "leave") /\ UNCHANGED disk
      BY <1>6, <2>4 DEF Manage
    <3>2. StateOfJob("leave", After(snap[t].fsm.state, "manage"))
          /\ disk' \in [Node -> DiskState] /\ "leave" \in NextJob
      BY <3>1 DEF StateOfJob, TaskInv, ProvTypeOK
    <3> QED
      BY <2>2, <3>1, <3>2, AdvanceInv
  <2> QED
    BY <2>3, <2>4
<1>7. CASE Adopt(t)
  <2>1. Handling(t, "adopt") /\ Begin(t, "adopt", NoState, "adopting", TRUE)
    BY <1>7 DEF Adopt
  <2>2. After(snap[t].fsm.state, "adopt") = "adopting"
    <3>1. <<snap[t].fsm.state, "adopt", After(snap[t].fsm.state, "adopt")>> \in Edges
      BY <2>1, BegunEdge
    <3> QED
      BY <2>1, <3>1, EdgeResults
  <2>3. StateOfJob("adopting", "adopting") /\ "adopting" \notin Stable
    BY DEF StateOfJob, Stable
  <2>4. "adopt" \in Handler /\ "adopting" \in NextJob \ {"leave", "finished"}
    BY DEF RequestKind, WorkerJob
  <2> QED
    BY <2>1, <2>2, <2>3, <2>4, PlainBegin
<1>8. ASSUME NEW i \in Handler, Handling(t, i),
             Begin(t, "abort", KeptTarget(t), "clean_abort", TRUE)
      PROVE  TaskInv'
  <2>1. After(snap[t].fsm.state, "abort") = "cleanfail"
    <3>1. <<snap[t].fsm.state, "abort", After(snap[t].fsm.state, "abort")>> \in Edges
      BY <1>8, BegunEdge
    <3> QED
      BY <1>8, <3>1, EdgeResults
  <2>2. StateOfJob("clean_abort", "cleanfail") /\ "cleanfail" \notin Stable
        /\ "cleanfail" \in Cleanings
        /\ "clean_abort" \in NextJob \ {"leave", "finished"}
    BY DEF StateOfJob, Stable, Cleanings, WorkerJob
  <2>3. InBlock(t) /\ job[t] \in Handler
        /\ KeptTarget(t) \in {NoState, "manageable"}
    BY <1>8, HandlersCopy
  <2> QED
    BY <1>8, <2>1, <2>2, <2>3, BeginInv
<1>9. ASSUME NEW i \in Handler, Handling(t, i), Skip(t, "leave")
      PROVE  TaskInv'
  <2>1. StateOfJob("leave", snap[t].fsm.state) /\ "leave" \in NextJob
    BY DEF StateOfJob
  <2>2. InBlock(t)
    BY <1>9, HandlersCopy
  <2> QED
    BY <1>9, <2>1, <2>2, SkipInv
<1>10. CASE Abort(t)
  <2>1. "abort" \in Handler /\ Handling(t, "abort")
    BY <1>10 DEF Abort, RequestKind
  <2> QED
    BY <1>8, <1>9, <1>10, <2>1 DEF Abort
<1>11. CASE UpdateNode(t)
  <2>1. /\ Handling(t, "maintain") /\ "maintain" \in Handler
        /\ db' = [db EXCEPT ![At(t)].maint = ~@]
        /\ Goto(t, "leave", snap[t])
        /\ UNCHANGED <<locks, undo, sweep, casts, disk>>
    BY <1>11 DEF UpdateNode, RequestKind
  <2>2. InBlock(t) /\ "leave" \in NextJob
    BY <2>1, HandlersCopy
  <2>3. At(t) \in Node /\ ProvTypeOK
    BY <2>2, NextJobFacts, HasNode DEF InBlock, TaskInv
  <2>4. db[At(t)] \in Row /\ snap[t] \in Copy /\ db \in [Node -> Row]
    BY <2>3 DEF ProvTypeOK
  <2>5. /\ db' = [db EXCEPT ![At(t)] = [db[At(t)] EXCEPT !.maint = ~db[At(t)].maint]]
        /\ (~db[At(t)].maint) \in BOOLEAN
    BY <2>1, <2>3, <2>4
  <2>6. PICK row \in Row : /\ row.prov = db[At(t)].prov
                           /\ row.target = db[At(t)].target
                           /\ db' = [db EXCEPT ![At(t)] = row]
    BY <2>4, <2>5, RowFlags
  <2>7. CopyOfJob("leave", NoCopy)
    BY BlankCopy
  <2> QED
    BY <2>1, <2>2, <2>4, <2>6, <2>7, FlagInv
<1>12. CASE ContinueNodeClean(t)
  <2>1. Handling(t, "continue") /\ Prov(t) = "cleanwait"
    BY <1>12 DEF ContinueNodeClean
  <2>2. CASE Begin(t, "resume", KeptTarget(t), "next_step", FALSE)
    <3>1. /\ InBlock(t) /\ job[t] \in Handler /\ snap[t].fsm.state = "cleanwait"
          /\ KeptTarget(t) \in {NoState, "manageable"}
      BY <2>1, HandlersCopy
    <3>2. After(snap[t].fsm.state, "resume") = "cleaning"
      <4>1. <<snap[t].fsm.state, "resume", After(snap[t].fsm.state, "resume")>> \in Edges
        BY <2>2, <3>1, BegunEdge
      <4> QED
        BY <2>2, <3>1, <4>1, EdgeResults
    <3>3. StateOfJob("next_step", "cleaning") /\ "cleaning" \notin Stable
          /\ "cleaning" \in Cleanings
          /\ "next_step" \in NextJob \ {"leave", "finished"}
      BY DEF StateOfJob, Stable, Cleanings, WorkerJob
    <3> QED
      BY <2>2, <3>1, <3>2, <3>3, BeginInv
  <2> QED
    BY <1>8, <1>12, <2>1, <2>2 DEF ContinueNodeClean
<1>13. CASE FailIfInState(t)
  <2>1. PICK k \in SweepKind :
            /\ Handling(t, k) /\ Prov(t) = Expected[k]
            /\ CASE k \in {"deploy_timeout", "offline"} ->
                    Begin(t, "fail", NoState, "deploy_cleanup", TRUE)
                 [] k = "clean_timeout" ->
                    Begin(t, "fail", snap[t].node.target, "clean_cleanup", FALSE)
                 [] OTHER ->
                    Advance(t, "fail", NoState, "leave") /\ UNCHANGED disk
    BY <1>13 DEF FailIfInState
  <2>2. /\ k \in Handler /\ InBlock(t) /\ job[t] \in Handler
        /\ snap[t].fsm.state = Expected[k]
        /\ Fits(Expected[k], snap[t].node.target)
    BY <2>1, HandlersCopy
  <2>3. CASE k \in {"deploy_timeout", "offline"}
    <3>1. Begin(t, "fail", NoState, "deploy_cleanup", TRUE)
      BY <2>1, <2>3
    <3>2. snap[t].fsm.state \in {"deploywait", "deploying"}
      BY <2>2, <2>3 DEF Expected
    <3>3. After(snap[t].fsm.state, "fail") = "deployfail"
      <4>1. <<snap[t].fsm.state, "fail", After(snap[t].fsm.state, "fail")>> \in Edges
        BY <3>1, <3>2, BegunEdge
      <4> QED
        BY <3>1, <3>2, <4>1, EdgeResults
    <3>4. StateOfJob("deploy_cleanup", "deployfail") /\ "deployfail" \notin Stable
          /\ "deploy_cleanup" \in NextJob \ {"leave", "finished"}
      BY DEF StateOfJob, Stable, WorkerJob
    <3> QED
      BY <2>1, <2>2, <3>1, <3>3, <3>4, PlainBegin
  <2>4. CASE k = "clean_timeout"
    <3>1. Begin(t, "fail", snap[t].node.target, "clean_cleanup", FALSE)
      BY <2>1, <2>4
    <3>2. snap[t].fsm.state = "cleanwait" /\ Expected[k] = "cleanwait"
      BY <2>2, <2>4 DEF Expected
    <3>3. snap[t].node.target \in {"available", "manageable"}
      BY <2>2, <3>2 DEF Fits, Cleanings, Stable
    <3>4. After(snap[t].fsm.state, "fail") = "cleanfail"
      <4>1. <<snap[t].fsm.state, "fail", After(snap[t].fsm.state, "fail")>> \in Edges
        BY <3>1, <3>2, BegunEdge
      <4> QED
        BY <3>1, <3>2, <4>1, EdgeResults
    <3>5. StateOfJob("clean_cleanup", "cleanfail") /\ "cleanfail" \notin Stable
          /\ "cleanfail" \in Cleanings
          /\ "clean_cleanup" \in NextJob \ {"leave", "finished"}
      BY DEF StateOfJob, Stable, Cleanings, WorkerJob
    <3> QED
      BY <2>2, <3>1, <3>3, <3>4, <3>5, BeginInv
  <2>5. CASE k \notin {"deploy_timeout", "offline", "clean_timeout"}
    <3>1. Advance(t, "fail", NoState, "leave") /\ UNCHANGED disk
      BY <2>1, <2>5
    <3>2. StateOfJob("leave", After(snap[t].fsm.state, "fail"))
          /\ disk' \in [Node -> DiskState] /\ "leave" \in NextJob
      BY <3>1 DEF StateOfJob, TaskInv, ProvTypeOK
    <3> QED
      BY <2>2, <3>1, <3>2, AdvanceInv
  <2> QED
    BY <2>3, <2>4, <2>5
<1>14. CASE Refuse(t)
  <2>1. job[t] \in Handler /\ Handling(t, job[t]) /\ Skip(t, "leave")
    BY <1>14 DEF Refuse, Handling
  <2> QED
    BY <1>9, <2>1
<1> QED
  BY <1>1, <1>2, <1>3, <1>4, <1>5, <1>6, <1>7, <1>10, <1>11, <1>12, <1>13,
     <1>14 DEF Handle

-----------------------------------------------------------------------------
(* The spawned methods keep TaskInv.                                       *)

\* A worker knows where its machine is.
LEMMA WorkersCopy ==
    ASSUME TaskInv, NEW t \in Task, NEW j \in WorkerJob \ SharedJob, Doing(t, j)
    PROVE  /\ InThread(t) /\ job[t] = j /\ At(t) \in Node
           /\ StateOfJob(j, snap[t].fsm.state)
           /\ j \in Loading => snap[t].fsm.state = Prov(t)
<1>1. j # "finished"
  BY DEF WorkerJob
<1> QED
  BY <1>1, HasNode DEF TaskInv, CopyOfJob, InThread, Doing, Prov

LEMMA DiskTypes ==
    ASSUME TaskInv, NEW n \in Node
    PROVE  /\ disk \in [Node -> DiskState]
           /\ \A d \in DiskState : [disk EXCEPT ![n] = d] \in [Node -> DiskState]
           /\ [disk EXCEPT ![n] = IF @ = "scrubbing" THEN "clean" ELSE @]
                 \in [Node -> DiskState]
           /\ {"dirty", "scrubbing", "clean"} \subseteq DiskState
  BY DEF TaskInv, ProvTypeOK, DiskState

\* A thread that processes its last event.
LEMMA LastEvent ==
    ASSUME TaskInv, NEW t \in Task, NEW j \in WorkerJob \ SharedJob, Doing(t, j),
           NEW e, Advance(t, e, NoState, "finished"), disk' \in [Node -> DiskState]
    PROVE  TaskInv'
<1>1. StateOfJob("finished", After(snap[t].fsm.state, e)) /\ "finished" \in NextJob
  BY Jobs DEF StateOfJob
<1> QED
  BY <1>1, Jobs, WorkersCopy, AdvanceInv

\* A thread that ends, or goes on in the same state.
LEMMA LastSkip ==
    ASSUME TaskInv, NEW t \in Task, NEW j \in WorkerJob \ SharedJob, Doing(t, j),
           Skip(t, "finished")
    PROVE  TaskInv'
<1>1. StateOfJob("finished", snap[t].fsm.state) /\ "finished" \in NextJob
  BY Jobs DEF StateOfJob
<1> QED
  BY <1>1, WorkersCopy, SkipInv

LEMMA NextSkip ==
    ASSUME TaskInv, NEW t \in Task, NEW j \in WorkerJob \ SharedJob, Doing(t, j),
           NEW k \in NextJob \ {"leave", "finished"}, Skip(t, k),
           StateOfJob(k, snap[t].fsm.state)
    PROVE  TaskInv'
  BY WorkersCopy, SkipInv

\* SetMaintenance saves the row with its flag set.
LEMMA SetMaintenanceInv ==
    ASSUME TaskInv, NEW t \in Task, NEW i \in WorkerJob \ SharedJob, Doing(t, i),
           NEW j \in NextJob \ {"leave"}, SetMaintenance(t, j),
           StateOfJob(j, snap[t].fsm.state)
    PROVE  TaskInv'
<1> DEFINE row == [db[At(t)] EXCEPT !.maint = TRUE]
           copy == [node |-> row, fsm |-> snap[t].fsm]
<1>1. /\ db' = [db EXCEPT ![At(t)] = row] /\ Goto(t, j, copy)
      /\ UNCHANGED <<locks, undo, sweep, casts, disk>>
  BY DEF SetMaintenance, Save
<1>2. InThread(t) /\ At(t) \in Node
  BY WorkersCopy
<1>3. db[At(t)] \in Row /\ snap[t].fsm \in Machine
  BY <1>2 DEF TaskInv, ProvTypeOK, Copy
<1>4. /\ row \in Row /\ row.prov = db[At(t)].prov
      /\ row.target = db[At(t)].target
  BY <1>3, RowFlags
<1>5. copy \in Copy /\ copy.node = row /\ copy.fsm = snap[t].fsm
  BY <1>3, <1>4 DEF Copy
<1> HIDE DEF row, copy
<1>6. CopyOfJob(j, IF j \in {"leave", "finished"} THEN NoCopy ELSE copy)
  <2>1. CASE j = "finished"
    BY <2>1, BlankCopy
  <2>2. CASE j # "finished"
    <3>1. Fits(copy.node.prov, copy.node.target)
      BY <1>2, <1>4, <1>5 DEF TaskInv
    <3>2. StateOfJob(j, copy.fsm.state) /\ j \notin Loading
      BY <1>5, NextJobFacts
    <3> QED
      BY <2>2, <3>1, <3>2 DEF CopyOfJob
  <2> QED
    BY <2>1, <2>2
<1> QED
  BY <1>1, <1>2, <1>4, <1>5, <1>6, FlagInv

LEMMA WorkersInv ==
    ASSUME TaskInv, NEW t \in Task, Work(t)
    PROVE  TaskInv'
<1>j. /\ {"deploying", "tearing_down", "clean_auto", "clean_manual",
          "next_step", "step_auto", "step_manual", "clean_failing",
          "fail_auto", "fail_manual", "clean_abort", "clean_cleanup",
          "deploy_cleanup", "verifying", "adopting", "inspecting"}
            \subseteq WorkerJob \ SharedJob
      /\ {"clean_auto", "next_step", "step_auto", "step_manual", "clean_failing",
          "fail_auto", "fail_manual"} \subseteq NextJob \ {"leave", "finished"}
      /\ "finished" \in NextJob
  BY Jobs DEF WorkerJob, SharedJob
<1>d. UNCHANGED disk => disk' \in [Node -> DiskState]
  BY DEF TaskInv, ProvTypeOK
<1>c. /\ {"cleaning", "cleanwait", "cleanfail"} = Cleanings
      /\ {NoState, "manageable"} \subseteq Stable \cup {NoState}
  BY Jobs DEF Cleanings
<1>1. CASE Deploy(t)
  <2>1. CASE \E e \in {"done", "wait", "fail"} :
                Advance(t, e, NoState, "finished") /\ UNCHANGED disk
    BY <1>1, <1>j, <1>d, <2>1, LastEvent DEF Deploy
  <2>2. CASE Raises(t)
    BY <1>1, <1>j, <2>2, LastSkip DEF Deploy, Raises
  <2> QED
    BY <1>1, <2>1, <2>2 DEF Deploy
<1>2. CASE TearDown(t)
  <2>1. Doing(t, "tearing_down") /\ "tearing_down" \in WorkerJob \ SharedJob
    BY <1>2, <1>j DEF TearDown
  <2>2. CASE Advance(t, "error", NoState, "finished") /\ UNCHANGED disk
    BY <1>d, <2>1, <2>2, LastEvent
  <2>3. CASE /\ Advance(t, "clean", NoState, "clean_auto")
             /\ disk' = [disk EXCEPT ![At(t)] = "scrubbing"]
    <3>1. InThread(t) /\ At(t) \in Node
      BY <2>1, WorkersCopy
    <3>2. disk' \in [Node -> DiskState]
      BY <2>3, <3>1, DiskTypes
    <3>3. After(snap[t].fsm.state, "clean") = "cleaning"
      <4>1. <<snap[t].fsm.state, "clean", After(snap[t].fsm.state, "clean")>> \in Edges
        BY <2>3, AdvancedEdge
      <4> QED
        BY <4>1, EdgeResults
    <3>4. StateOfJob("clean_auto", "cleaning")
      BY DEF StateOfJob
    <3> QED
      BY <1>j, <1>c, <2>3, <3>1, <3>2, <3>3, <3>4, AdvanceInv
  <2> QED
    BY <1>2, <2>2, <2>3 DEF TearDown
<1>w. ASSUME NEW j \in {"clean_auto", "clean_manual", "step_auto", "step_manual"},
             Doing(t, j), NEW wanted \in {NoState, "manageable"},
             Advance(t, "wait", wanted, "finished"), UNCHANGED disk
      PROVE  TaskInv'
  <2>1. InThread(t) /\ snap[t].fsm.state = "cleaning"
    BY <1>w, <1>j, WorkersCopy DEF StateOfJob
  <2>2. After(snap[t].fsm.state, "wait") = "cleanwait"
    <3>1. <<snap[t].fsm.state, "wait", After(snap[t].fsm.state, "wait")>> \in Edges
      BY <1>w, AdvancedEdge
    <3> QED
      BY <2>1, <3>1, EdgeResults
  <2>3. StateOfJob("finished", After(snap[t].fsm.state, "wait"))
    BY DEF StateOfJob
  <2> QED
    BY <1>w, <1>j, <1>d, <1>c, <2>1, <2>2, <2>3, AdvanceInv
<1>s. ASSUME NEW j \in {"clean_auto", "clean_manual", "step_auto", "step_manual",
                        "next_step"}, Doing(t, j),
             NEW k \in {"next_step", "step_auto", "step_manual", "clean_failing"},
             Skip(t, k)
      PROVE  TaskInv'
  <2>1. snap[t].fsm.state = "cleaning"
    BY <1>s, <1>j, WorkersCopy DEF StateOfJob
  <2>2. StateOfJob(k, "cleaning")
    BY DEF StateOfJob
  <2> QED
    BY <1>s, <1>j, <2>1, <2>2, NextSkip
<1>3. CASE StartCleaning(t)
  <2>1. PICK j \in {"clean_auto", "clean_manual"} : Doing(t, j)
    BY <1>3 DEF StartCleaning
  <2>2. CASE Advance(t, "done", NoState, "finished") /\ UNCHANGED disk
    BY <1>j, <1>d, <2>1, <2>2, LastEvent
  <2>3. CASE \E wanted \in {NoState, "manageable"} :
                Advance(t, "wait", wanted, "finished") /\ UNCHANGED disk
    BY <1>w, <2>1, <2>3
  <2>4. CASE Skip(t, "next_step") \/ Skip(t, "clean_failing")
    BY <1>s, <2>1, <2>4
  <2>5. CASE Raises(t)
    BY <1>j, <2>1, <2>5, LastSkip DEF Raises
  <2> QED
    BY <1>3, <2>2, <2>3, <2>4, <2>5 DEF StartCleaning
<1>4. CASE ChooseCleaning(t)
  BY <1>4, <1>s DEF ChooseCleaning
<1>5. CASE RunCleanSteps(t)
  <2>1. PICK j \in {"step_auto", "step_manual"} : Doing(t, j)
    BY <1>5 DEF RunCleanSteps
  <2>2. CASE \E e : /\ Advance(t, e, NoState, "finished")
                    /\ disk' = [disk EXCEPT ![At(t)] =
                             IF @ = "scrubbing" THEN "clean" ELSE @]
    <3>1. At(t) \in Node
      BY <1>j, <2>1, WorkersCopy
    <3>2. disk' \in [Node -> DiskState]
      BY <2>2, <3>1, DiskTypes
    <3> QED
      BY <1>j, <2>1, <2>2, <3>2, LastEvent
  <2>3. CASE \E wanted \in {NoState, "manageable"} :
                Advance(t, "wait", wanted, "finished") /\ UNCHANGED disk
    BY <1>w, <2>1, <2>3
  <2>4. CASE Skip(t, "clean_failing")
    BY <1>s, <2>1, <2>4
  <2> QED
    BY <1>5, <2>2, <2>3, <2>4 DEF RunCleanSteps
<1>6. CASE CleaningErrorHandler(t)
  <2>1. ASSUME NEW i \in {"clean_failing", "clean_cleanup"}, Doing(t, i),
               NEW j \in {"fail_manual", "fail_auto"}, SetMaintenance(t, j)
        PROVE  TaskInv'
    <3>1. StateOfJob(i, snap[t].fsm.state)
      BY <1>j, <2>1, WorkersCopy
    <3>2. StateOfJob(j, snap[t].fsm.state)
      BY <3>1 DEF StateOfJob, Cleanings
    <3> QED
      BY <1>j, <2>1, <3>2, SetMaintenanceInv
  <2>2. ASSUME NEW j \in {"fail_manual", "fail_auto"}, Doing(t, j),
               NEW wanted \in {NoState, "manageable"},
               Advance(t, "fail", wanted, "finished"), UNCHANGED disk
        PROVE  TaskInv'
    <3>1. InThread(t) /\ snap[t].fsm.state \in Cleanings
      BY <2>2, <1>j, WorkersCopy DEF StateOfJob
    <3>2. After(snap[t].fsm.state, "fail") = "cleanfail"
      <4>1. <<snap[t].fsm.state, "fail", After(snap[t].fsm.state, "fail")>> \in Edges
        BY <2>2, AdvancedEdge
      <4> QED
        BY <3>1, <4>1, EdgeResults DEF Cleanings
    <3>3. StateOfJob("finished", After(snap[t].fsm.state, "fail"))
      BY DEF StateOfJob
    <3> QED
      BY <2>2, <1>j, <1>d, <1>c, <3>1, <3>2, <3>3, AdvanceInv
  <2> QED
    BY <1>6, <1>j, <2>1, <2>2, LastSkip DEF CleaningErrorHandler
<1>7. CASE CleanAbort(t)
  <2>1. Doing(t, "clean_abort") /\ StateOfJob("finished", snap[t].fsm.state)
    BY <1>7 DEF CleanAbort, StateOfJob
  <2> QED
    BY <1>7, <1>j, <2>1, SetMaintenanceInv, LastSkip DEF CleanAbort
<1>8. CASE DeployCleanup(t)
  BY <1>8, <1>j, LastSkip DEF DeployCleanup
<1>9. CASE Verify(t)
  BY <1>9, <1>j, <1>d, LastEvent DEF Verify
<1>10. CASE DoAdoption(t)
  BY <1>10, <1>j, <1>d, LastEvent DEF DoAdoption
<1>11. CASE Inspect(t)
  <2>1. Doing(t, "inspecting") /\ InThread(t) /\ At(t) \in Node
    BY <1>11, <1>j, WorkersCopy DEF Inspect
  <2>2. CASE Introspect(t)
    <3>1. /\ sweep' = [sweep EXCEPT ![task[t].host] = @ \cup {<<At(t), "introspect">>}]
          /\ Goto(t, "finished", snap[t])
          /\ UNCHANGED <<locks, db, undo, casts, disk>>
      BY <2>2 DEF Introspect
    <3>2. ProvTypeOK /\ snap[t] \in Copy /\ "finished" \in Job
      BY JobFacts DEF TaskInv, ProvTypeOK
    <3>3. /\ job' \in [Task -> Job] /\ job'[t] = "finished"
          /\ snap' \in [Task -> Copy] /\ snap'[t] = NoCopy
          /\ \A u \in Task \ {t} : job'[u] = job[u] /\ snap'[u] = snap[u]
      BY <3>1, <3>2, GotoStep
    <3>4. CopyOfJob(job[t], snap[t])'
      BY <3>3, BlankCopy
    <3>5. sweep' \in [Host -> SUBSET (Node \X (SweepKind \cup {"introspect"}))]
      <4> DEFINE W == Node \X (SweepKind \cup {"introspect"})
                 w == <<At(t), "introspect">>
      <4>1. w \in W /\ sweep \in [Host -> SUBSET W]
        BY <2>1, <3>2 DEF ProvTypeOK
      <4>2. sweep' = [sweep EXCEPT ![task[t].host] = @ \cup {w}]
        BY <3>1
      <4> HIDE DEF W, w
      <4>3. \A h \in Host : sweep[h] \cup {w} \in SUBSET W
        BY <4>1
      <4>4. sweep' \in [Host -> SUBSET W]
        BY <4>1, <4>2, <4>3
      <4> QED
        BY <4>4 DEF W
    <3>6. /\ db' \in [Node -> Row] /\ disk' \in [Node -> DiskState]
          /\ casts' \in SUBSET Node
          /\ \A n \in Node : Fits(db'[n].prov, db'[n].target)
      BY <3>1, <3>2 DEF TaskInv, ProvTypeOK
    <3> QED
      BY <1>j, <2>1, <3>1, <3>3, <3>4, <3>5, <3>6, LockedStep
  <2> QED
    BY <1>11, <1>j, <1>d, <2>1, <2>2, LastEvent, LastSkip DEF Inspect
<1> QED
  BY <1>1, <1>2, <1>3, <1>4, <1>5, <1>6, <1>7, <1>8, <1>9, <1>10, <1>11 DEF Work

-----------------------------------------------------------------------------
(* The agent's and the inspector's steps keep TaskInv.                     *)

\* A row saved with provision_updated_at refreshed.
LEMMA TouchInv ==
    ASSUME TaskInv, NEW t \in Task, NEW i \in WorkerJob \ SharedJob, Doing(t, i),
           NEW j \in NextJob \ {"leave"}, Touch(t, j),
           StateOfJob(j, snap[t].fsm.state)
    PROVE  TaskInv'
<1> DEFINE row == [db[At(t)] EXCEPT !.late = FALSE]
<1>1. /\ db' = [db EXCEPT ![At(t)] = row] /\ Goto(t, j, snap[t])
      /\ UNCHANGED <<locks, undo, sweep, casts, disk>>
  BY DEF Touch
<1>2. InThread(t) /\ At(t) \in Node
  BY WorkersCopy
<1>3. db[At(t)] \in Row /\ snap[t] \in Copy /\ CopyOfJob(job[t], snap[t])
  BY <1>2 DEF TaskInv, ProvTypeOK
<1>4. /\ row \in Row /\ row.prov = db[At(t)].prov
      /\ row.target = db[At(t)].target
  BY <1>3, RowFlags
<1> HIDE DEF row
<1>6. CopyOfJob(j, IF j \in {"leave", "finished"} THEN NoCopy ELSE snap[t])
  BY <1>3, SameCopy
<1> QED
  BY <1>1, <1>2, <1>3, <1>4, <1>6, FlagInv

\* A task whose record changes, with its job and copy but nothing else.
LEMMA RecordInv ==
    ASSUME TaskInv, TypeOK', robbed' \in SUBSET Node, NEW t \in Task,
           NEW j \in Job, NEW copy \in Copy, Goto(t, j, copy),
           \A u \in Task \ {t} : task'[u] = task[u],
           UNCHANGED <<db, undo, disk>>,
           sweep' \in [Host -> SUBSET (Node \X (SweepKind \cup {"introspect"}))],
           casts' \in SUBSET Node,
           Placed(t)', UndoFits(t)',
           CopyOfJob(j, IF j \in {"leave", "finished"} THEN NoCopy ELSE copy)
    PROVE  TaskInv'
<1>1. ProvTypeOK
  BY DEF TaskInv
<1>2. /\ job' \in [Task -> Job] /\ job'[t] = j
      /\ snap' \in [Task -> Copy]
      /\ snap'[t] = IF j \in {"leave", "finished"} THEN NoCopy ELSE copy
      /\ \A u \in Task \ {t} : job'[u] = job[u] /\ snap'[u] = snap[u]
  BY <1>1, GotoStep
<1>3. ProvTypeOK'
  BY <1>1, <1>2 DEF ProvTypeOK
<1>4. CopyOfJob(job[t], snap[t])'
  BY <1>2
<1>5. OthersRest(t)
  BY <1>2 DEF OthersRest, SameTask
<1>6. \A n \in Node : Fits(db'[n].prov, db'[n].target)
  BY DEF TaskInv
<1> QED
  BY <1>3, <1>4, <1>5, <1>6, OneMoves

\* A row that a task has just loaded.
LEMMA LoadedCopy ==
    ASSUME NEW r \in Row, Fits(r.prov, r.target), NEW j \in Loading
    PROVE  Loaded(r) \in Copy /\ CopyOfJob(j, Loaded(r))
<1>1. StateOfJob(j, r.prov)
  BY JobFacts DEF StateOfJob, Loading, Handler, RequestKind
<1> QED
  BY <1>1, LoadedFacts DEF CopyOfJob

LEMMA AgentInv ==
    ASSUME TaskInv, TypeOK', robbed' \in SUBSET Node, NEW t \in Task, AgentWork(t)
    PROVE  TaskInv'
<1>j. /\ {"heartbeat_locked", "agent_deploy", "agent_clean"}
            \subseteq WorkerJob \ SharedJob
      /\ {"agent_deploy", "agent_clean", "clean_failing", "finished"}
            \subseteq NextJob \ {"leave"}
      /\ "finished" \in Job /\ "heartbeat_locked" \in Loading
      /\ "heartbeat" \in WorkerJob
  BY Jobs, JobFacts DEF WorkerJob, SharedJob, Loading
<1>d. UNCHANGED disk => disk' \in [Node -> DiskState]
  BY DEF TaskInv, ProvTypeOK
<1>1. CASE HeartbeatUpgrade(t)
  <2>1. /\ job[t] = "heartbeat" /\ task[t].pc = "worker" /\ Upgrade(t)
        /\ UNCHANGED provVars
    BY <1>1 DEF HeartbeatUpgrade, Doing
  <2>2. TypeOK /\ task \in [Task -> TaskRecord]
    BY DEF TaskInv, ProvTypeOK, TypeOK
  <2>3. /\ task'[t].pc = "worker_upgrading" /\ task'[t].node = task[t].node
        /\ \A u \in Task \ {t} : task'[u] = task[u]
    BY <2>1, <2>2 DEF Upgrade, TaskRecord
  <2>4. Placed(t) /\ UndoFits(t) /\ CopyOfJob(job[t], snap[t])
    BY DEF TaskInv
  <2>5. Placed(t)'
    BY <2>1, <2>3, <2>4 DEF Placed, provVars
  <2>6. UndoFits(t)'
    BY <2>1, <2>3, <2>4 DEF UndoFits, provVars
  <2>7. ProvTypeOK' /\ OthersRest(t) /\ CopyOfJob(job[t], snap[t])'
    BY <2>1, <2>3, <2>4 DEF TaskInv, ProvTypeOK, provVars, OthersRest, SameTask
  <2>8. \A n \in Node : Fits(db'[n].prov, db'[n].target)
    BY <2>1 DEF TaskInv, provVars
  <2> QED
    BY <2>5, <2>6, <2>7, <2>8, OneMoves
<1>2. CASE HeartbeatIgnored(t)
  <2>1. StateOfJob("finished", snap[t].fsm.state)
    BY DEF StateOfJob
  <2>2. CASE Doing(t, "heartbeat") /\ Skip(t, "finished")
    BY <1>j, <2>1, <2>2, SkipInv
  <2> QED
    BY <1>2, <1>j, <2>2, LastSkip DEF HeartbeatIgnored
<1>3. CASE HeartbeatDeploying(t)
  <2>1. Doing(t, "heartbeat_locked") /\ Prov(t) = "deploywait"
    BY <1>3 DEF HeartbeatDeploying
  <2>2. InThread(t) /\ snap[t].fsm.state = "deploywait"
    BY <1>j, <2>1, WorkersCopy
  <2>3. CASE Advance(t, "resume", NoState, "agent_deploy") /\ UNCHANGED disk
    <3>1. After(snap[t].fsm.state, "resume") = "deploying"
      <4>1. <<snap[t].fsm.state, "resume", After(snap[t].fsm.state, "resume")>> \in Edges
        BY <2>3, AdvancedEdge
      <4> QED
        BY <2>2, <4>1, EdgeResults
    <3>2. StateOfJob("agent_deploy", "deploying")
      BY DEF StateOfJob
    <3> QED
      BY <1>j, <1>d, <2>2, <2>3, <3>1, <3>2, Jobs, AdvanceInv
  <2>4. CASE Touch(t, "finished")
    <3>1. StateOfJob("finished", snap[t].fsm.state)
      BY DEF StateOfJob
    <3> QED
      BY <1>j, <2>1, <2>4, <3>1, TouchInv
  <2>5. CASE Advance(t, "fail", NoState, "finished") /\ UNCHANGED disk
    BY <1>j, <1>d, <2>1, <2>5, LastEvent
  <2> QED
    BY <1>3, <2>3, <2>4, <2>5 DEF HeartbeatDeploying
<1>4. CASE AgentDeploy(t)
  BY <1>4, <1>j, <1>d, LastEvent DEF AgentDeploy
<1>5. CASE HeartbeatCleaning(t)
  <2>1. /\ Doing(t, "heartbeat_locked") /\ Prov(t) = "cleanwait"
        /\ Touch(t, "agent_clean")
    BY <1>5 DEF HeartbeatCleaning
  <2>2. snap[t].fsm.state = "cleanwait"
    BY <1>j, <2>1, WorkersCopy
  <2>3. StateOfJob("agent_clean", "cleanwait")
    BY DEF StateOfJob
  <2> QED
    BY <1>j, <2>1, <2>2, <2>3, TouchInv
<1>6. CASE AgentClean(t)
  <2>1. Doing(t, "agent_clean") /\ "agent_clean" \in WorkerJob \ SharedJob
    BY <1>6, <1>j DEF AgentClean
  <2>2. CASE Skip(t, "finished")
    BY <2>1, <2>2, LastSkip
  <2>3. CASE Skip(t, "clean_failing")
    <3>1. snap[t].fsm.state = "cleanwait"
      BY <2>1, WorkersCopy DEF StateOfJob
    <3>2. StateOfJob("clean_failing", "cleanwait")
      BY DEF StateOfJob
    <3> QED
      BY <1>j, <2>1, <2>3, <3>1, <3>2, NextSkip
  <2>4. CASE /\ casts' = casts \cup {At(t)}
             /\ Goto(t, "finished", snap[t])
             /\ ReleaseEarly(t)
             /\ UNCHANGED <<db, undo, sweep, disk>>
    <3>1. At(t) \in Node /\ ProvTypeOK /\ snap[t] \in Copy /\ UndoFits(t)
      BY <2>1, WorkersCopy DEF TaskInv, ProvTypeOK
    <3>2. task \in [Task -> TaskRecord] /\ job \in [Task -> Job]
      BY <3>1 DEF ProvTypeOK, TypeOK
    <3>3. /\ task'[t].pc = "worker" /\ \A u \in Task \ {t} : task'[u] = task[u]
      BY <2>1, <2>4, <3>2 DEF ReleaseEarly, Doing, TaskRecord
    <3>4. job'[t] = "finished" /\ undo'[t] = NoUndo
      BY <2>1, <2>4, <3>1, <3>2 DEF Goto, UndoFits, Doing
    <3>5. Placed(t)'
      BY <3>3, <3>4 DEF Placed
    <3>6. UndoFits(t)'
      BY <3>3, <3>4 DEF UndoFits
    <3>7. /\ sweep' \in [Host -> SUBSET (Node \X (SweepKind \cup {"introspect"}))]
          /\ casts' \in SUBSET Node
      BY <2>4, <3>1 DEF ProvTypeOK
    <3>8. CopyOfJob("finished", NoCopy)
      BY BlankCopy
    <3> QED
      BY <1>j, <2>4, <3>1, <3>3, <3>5, <3>6, <3>7, <3>8, RecordInv
  <2> QED
    BY <1>6, <2>2, <2>3, <2>4 DEF AgentClean
<1> QED
  BY <1>1, <1>2, <1>3, <1>4, <1>5, <1>6 DEF AgentWork

LEMMA RecordInspectionInv ==
    ASSUME TaskInv, NEW t \in Task, RecordInspection(t)
    PROVE  TaskInv'
<1>1. PICK j \in InspectorJob \ {"check_result"}, e \in {"done", "fail"} :
          /\ Handling(t, j)
          /\ \/ Advance(t, e, NoState, "leave") /\ UNCHANGED disk
             \/ Skip(t, "leave")
  BY DEF RecordInspection
<1>2. InBlock(t) /\ "leave" \in NextJob
  BY <1>1, Jobs, JobFacts DEF InBlock, Handling, SharedJob
<1>3. /\ StateOfJob("leave", snap[t].fsm.state)
      /\ StateOfJob("leave", After(snap[t].fsm.state, e))
  BY DEF StateOfJob
<1>4. CASE Advance(t, e, NoState, "leave") /\ UNCHANGED disk
  <2>1. disk' \in [Node -> DiskState]
    BY <1>4 DEF TaskInv, ProvTypeOK
  <2> QED
    BY <1>2, <1>3, <1>4, <2>1, Jobs, AdvanceInv
<1>5. CASE Skip(t, "leave")
  BY <1>2, <1>3, <1>5, SkipInv
<1> QED
  BY <1>1, <1>4, <1>5

LEMMA CheckStatusInv ==
    ASSUME TaskInv, TypeOK', robbed' \in SUBSET Node, NEW t \in Task, CheckStatus(t)
    PROVE  TaskInv'
<1>1. /\ task[t].pc = "body" /\ job[t] = "check_result"
      /\ UNCHANGED <<db, sweep, casts, disk>>
  BY DEF CheckStatus, Handling
<1>2. ProvTypeOK /\ task \in [Task -> TaskRecord]
  BY DEF TaskInv, ProvTypeOK, TypeOK
<1>3. CASE Exit(t) /\ Forgotten({t})
  <2>1. task'[t] = IdleTask /\ \A u \in Task \ {t} : task'[u] = task[u]
    BY <1>2, <1>3 DEF Exit, Finish
  <2>2. ProvTypeOK'
    BY <1>1, <1>2, <1>3, ForgottenTypes DEF ProvTypeOK
  <2> QED
    BY <1>1, <1>3, <2>1, <2>2, SomeEnd
<1>4. CASE /\ \E e \in {"done", "fail"} : Goto(t, Verdict[e], snap[t])
           /\ Upgrade(t)
           /\ UNCHANGED undo
  <2>1. PICK j \in {Verdict.done, Verdict.fail} : Goto(t, j, snap[t])
    BY <1>4 DEF Verdict
  <2>2. j \in {"inspector_done", "inspector_fail"}
    BY <2>1 DEF Verdict
  <2>3. /\ snap[t] \in Copy /\ CopyOfJob("check_result", snap[t])
        /\ UndoFits(t) /\ Placed(t)
    BY <1>1, <1>2 DEF TaskInv, ProvTypeOK
  <2>4. j \in Job /\ j \in Loading /\ "check_result" \in Loading
    BY <2>2, JobFacts DEF Loading
  <2>5. /\ task'[t].pc = "upgrading" /\ task'[t].node = task[t].node
        /\ \A u \in Task \ {t} : task'[u] = task[u]
    BY <1>1, <1>2, <1>4 DEF Upgrade, TaskRecord
  <2>6. job'[t] = j /\ undo' = undo
    BY <1>2, <1>4, <2>1 DEF Goto, ProvTypeOK
  <2>7. Placed(t)'
    BY <1>1, <2>1, <2>2, <2>3, <2>5, <2>6 DEF Placed
  <2>8. UndoFits(t)'
    BY <1>1, <2>3, <2>5, <2>6, NextJobFacts DEF UndoFits, SharedJob
  <2>9. CopyOfJob(j, IF j \in {"leave", "finished"} THEN NoCopy ELSE snap[t])
    BY <2>2, <2>3, <2>4 DEF CopyOfJob, StateOfJob
  <2>10. /\ sweep' \in [Host -> SUBSET (Node \X (SweepKind \cup {"introspect"}))]
         /\ casts' \in SUBSET Node
    BY <1>1, <1>2 DEF ProvTypeOK
  <2> QED
    BY <1>1, <1>4, <2>1, <2>3, <2>4, <2>5, <2>7, <2>8, <2>9, <2>10, RecordInv
<1> QED
  BY <1>3, <1>4 DEF CheckStatus

-----------------------------------------------------------------------------
(* The life of a task keeps TaskInv.                                       *)

LEMMA TakeLockInv ==
    ASSUME TaskInv, TypeOK', robbed' \in SUBSET Node, NEW t \in Task, TakeLock(t)
    PROVE  TaskInv'
<1> DEFINE j == IF job[t] = "heartbeat" THEN "heartbeat_locked" ELSE job[t]
<1>1. /\ Reserve(t) /\ Goto(t, j, Loaded(db[At(t)]))
      /\ UNCHANGED <<db, undo, sweep, casts, disk>>
  BY DEF TakeLock
<1>2. ProvTypeOK /\ task \in [Task -> TaskRecord] /\ Placed(t) /\ UndoFits(t)
  BY DEF TaskInv, ProvTypeOK, TypeOK
<1>3. /\ task[t].pc \in {"reserving", "upgrading", "worker_upgrading"}
      /\ job[t] \in (Handler \cup (InspectorJob \ SharedJob)) \cup {"heartbeat"}
      /\ task[t].pc = "worker_upgrading" <=> job[t] = "heartbeat"
  <2>1. "heartbeat" \notin Handler \cup {"introspect", Verdict.done, Verdict.fail}
    BY JobFacts DEF Handler, RequestKind, Verdict
  <2>2. {"introspect", Verdict.done, Verdict.fail} \subseteq InspectorJob \ SharedJob
    BY DEF InspectorJob, SharedJob, Verdict
  <2>3. task[t].pc \in {"reserving", "upgrading", "worker_upgrading"}
    BY <1>1 DEF Reserve, Reserving
  <2> QED
    BY <1>2, <2>1, <2>2, <2>3 DEF Placed
<1>4. /\ j \in Loading \ SharedJob /\ j \in Job
      /\ j \notin {"none", "leave", "finished"}
      /\ job[t] # "heartbeat" => j \notin WorkerJob
      /\ job[t] = "heartbeat" => j \in WorkerJob
  <2>1. "heartbeat_locked" \in WorkerJob \ SharedJob
    BY DEF WorkerJob, SharedJob
  <2>2. Handler \cap SharedJob = {}
    BY JobFacts DEF Handler, RequestKind, SharedJob
  <2> QED
    BY <1>3, <2>1, <2>2, NextJobFacts, JobFacts DEF Loading
<1>5. At(t) \in Node
  <2>1. job[t] # "finished"
    BY <1>3, NextJobFacts
  <2> QED
    BY <1>3, <2>1, HasNode
<1>6. db[At(t)] \in Row /\ Fits(db[At(t)].prov, db[At(t)].target)
  BY <1>2, <1>5 DEF TaskInv, ProvTypeOK
<1>7. Loaded(db[At(t)]) \in Copy /\ CopyOfJob(j, Loaded(db[At(t)]))
  BY <1>4, <1>6, LoadedCopy
<1>8. /\ task'[t].pc = IF job[t] = "heartbeat" THEN "worker" ELSE "body"
      /\ task'[t].node = At(t) /\ task'[t].shared = FALSE
      /\ \A u \in Task \ {t} : task'[u] = task[u]
  BY <1>1, <1>2, <1>3 DEF Reserve, TaskRecord, At
<1> HIDE DEF j
<1>9. job'[t] = j /\ undo' = undo
  BY <1>1, <1>2 DEF Goto, ProvTypeOK
<1>10. Placed(t)'
  BY <1>4, <1>5, <1>8, <1>9 DEF Placed
<1>11. UndoFits(t)'
  BY <1>2, <1>3, <1>4, <1>8, <1>9 DEF UndoFits
<1>12. /\ sweep' \in [Host -> SUBSET (Node \X (SweepKind \cup {"introspect"}))]
       /\ casts' \in SUBSET Node
  BY <1>1, <1>2 DEF ProvTypeOK
<1> QED
  BY <1>1, <1>4, <1>7, <1>8, <1>10, <1>11, <1>12, RecordInv

\* Tasks that end one at a time.
LEMMA OneEnds ==
    ASSUME TaskInv, TypeOK', robbed' \in SUBSET Node, NEW t \in Task,
           Finish(t), Forgotten({t}), UNCHANGED <<db, sweep, casts, disk>>
    PROVE  TaskInv'
<1>1. ProvTypeOK /\ task \in [Task -> TaskRecord]
  BY DEF TaskInv, ProvTypeOK, TypeOK
<1>2. task'[t] = IdleTask /\ \A u \in Task \ {t} : task'[u] = task[u]
  BY <1>1 DEF Finish
<1>3. ProvTypeOK'
  BY <1>1, ForgottenTypes DEF ProvTypeOK
<1> QED
  BY <1>2, <1>3, SomeEnd

LEMMA LockBusyInv ==
    ASSUME TaskInv, TypeOK', robbed' \in SUBSET Node, NEW t \in Task, LockBusy(t)
    PROVE  TaskInv'
<1>1. CASE LastAttempt(t)
  BY <1>1, OneEnds DEF LockBusy, ReserveFails
<1>2. CASE ~LastAttempt(t)
  <2>1. /\ task' = [task EXCEPT ![t].tries = @ + 1] /\ Reserving(t)
        /\ UNCHANGED <<job, snap, undo, db, sweep, casts, disk>>
    BY <1>2 DEF LockBusy, ReserveFails
  <2>2. ProvTypeOK /\ task \in [Task -> TaskRecord]
    BY DEF TaskInv, ProvTypeOK, TypeOK
  <2>3. /\ task'[t].pc = task[t].pc /\ task'[t].node = task[t].node
        /\ task'[t].shared = task[t].shared
        /\ \A u \in Task \ {t} : task'[u] = task[u]
    BY <2>1, <2>2 DEF TaskRecord
  <2>4. Placed(t) /\ UndoFits(t) /\ CopyOfJob(job[t], snap[t])
        /\ \A n \in Node : Fits(db[n].prov, db[n].target)
    BY DEF TaskInv
  <2>5. Placed(t)'
    BY <2>1, <2>3, <2>4 DEF Placed
  <2>6. UndoFits(t)'
    BY <2>1, <2>3, <2>4 DEF UndoFits
  <2>7. CopyOfJob(job[t], snap[t])' /\ OthersRest(t) /\ ProvTypeOK'
        /\ \A n \in Node : Fits(db'[n].prov, db'[n].target)
    BY <2>1, <2>2, <2>3, <2>4 DEF OthersRest, SameTask, ProvTypeOK
  <2> QED
    BY <2>5, <2>6, <2>7, OneMoves
<1> QED
  BY <1>1, <1>2

LEMMA SpawnWorkerInv ==
    ASSUME TaskInv, TypeOK', robbed' \in SUBSET Node, NEW t \in Task, SpawnWorker(t)
    PROVE  TaskInv'
<1>1. /\ job[t] \in WorkerJob /\ task[t].pc = "body"
      /\ task' = [task EXCEPT ![t].pc = "worker"]
      /\ undo' = [undo EXCEPT ![t] = NoUndo]
      /\ disk' = [disk EXCEPT ![At(t)] = DiskOnSpawn(t)]
      /\ UNCHANGED <<db, snap, job, sweep, casts>>
  BY DEF SpawnWorker, Spawn
<1>2. ProvTypeOK /\ task \in [Task -> TaskRecord] /\ undo \in [Task -> Undo]
      /\ At(t) \in Node
  BY <1>1, HasNode, NextJobFacts DEF TaskInv, ProvTypeOK, TypeOK
<1>3. /\ task'[t].pc = "worker" /\ task'[t].node = task[t].node
      /\ task'[t].shared = task[t].shared
      /\ \A u \in Task \ {t} : task'[u] = task[u]
  BY <1>1, <1>2 DEF TaskRecord
<1>4. Placed(t) /\ CopyOfJob(job[t], snap[t])
      /\ \A n \in Node : Fits(db[n].prov, db[n].target)
  BY DEF TaskInv
<1>5. /\ undo' \in [Task -> Undo] /\ undo'[t] = NoUndo
      /\ \A u \in Task \ {t} : undo'[u] = undo[u]
  BY <1>1, <1>2, NoUndoFacts
<1>6. DiskOnSpawn(t) \in DiskState
  BY <1>2 DEF DiskOnSpawn, DiskState, ProvTypeOK
<1>7. disk' \in [Node -> DiskState]
  BY <1>1, <1>2, <1>6, DiskTypes
<1>8. Placed(t)'
  BY <1>1, <1>3, <1>4 DEF Placed
<1>9. UndoFits(t)'
  BY <1>3, <1>5 DEF UndoFits
<1>10. CopyOfJob(job[t], snap[t])' /\ OthersRest(t) /\ ProvTypeOK'
       /\ \A n \in Node : Fits(db'[n].prov, db'[n].target)
  BY <1>1, <1>2, <1>3, <1>4, <1>5, <1>7 DEF OthersRest, SameTask, ProvTypeOK
<1> QED
  BY <1>8, <1>9, <1>10, OneMoves

\* A task that asks for a lock.
LEMMA CallInv ==
    ASSUME TaskInv, TypeOK', robbed' \in SUBSET Node, NEW t \in Task,
           NEW h \in Host, NEW n \in Node, NEW j, NEW shared \in BOOLEAN,
           NEW copy \in Copy,
           Acquire(t, h, n, shared), Goto(t, j, copy), CopyOfJob(j, copy),
           IF shared THEN j \in SharedJob ELSE j \in Handler \cup {"introspect"},
           UNCHANGED <<db, undo, disk>>,
           sweep' \in [Host -> SUBSET (Node \X (SweepKind \cup {"introspect"}))],
           casts' \in SUBSET Node
    PROVE  TaskInv'
<1>1. ProvTypeOK /\ task \in [Task -> TaskRecord] /\ Placed(t) /\ UndoFits(t)
  BY DEF TaskInv, ProvTypeOK, TypeOK
<1>2. /\ task[t].pc = "idle"
      /\ task'[t].pc = IF shared THEN "body" ELSE "reserving"
      /\ task'[t].node = n /\ task'[t].shared = shared
      /\ \A u \in Task \ {t} : task'[u] = task[u]
  BY <1>1 DEF Acquire
<1>3. /\ j \in Job /\ j \notin {"none", "leave", "finished"}
      /\ shared => j \in {"heartbeat", "check_result"}
  <2>1. SharedJob \subseteq Job /\ "introspect" \in Job
        /\ SharedJob \cap {"none", "leave", "finished"} = {}
        /\ Handler \cap {"none", "leave", "finished"} = {}
    BY JobFacts, NextJobFacts DEF SharedJob, WorkerJob
  <2> QED
    BY <2>1, JobFacts DEF SharedJob
<1>4. job'[t] = j /\ undo' = undo /\ undo[t] = NoUndo
  BY <1>1, <1>2 DEF Goto, ProvTypeOK, UndoFits
<1>5. Placed(t)'
  BY <1>2, <1>3, <1>4 DEF Placed, SharedJob
<1>6. UndoFits(t)'
  <2>1. "check_result" \notin WorkerJob
    BY DEF WorkerJob
  <2> QED
    BY <1>2, <1>3, <1>4, <2>1 DEF UndoFits
<1>7. CopyOfJob(j, IF j \in {"leave", "finished"} THEN NoCopy ELSE copy)
  BY <1>3
<1> QED
  BY <1>2, <1>3, <1>5, <1>6, <1>7, RecordInv

LEMMA TaskCallsInv ==
    ASSUME TaskInv, TypeOK', robbed' \in SUBSET Node, NEW t \in Task, TaskCalls(t)
    PROVE  TaskInv'
<1> DEFINE W == Node \X (SweepKind \cup {"introspect"})
<1>1. ProvTypeOK /\ sweep \in [Host -> SUBSET W]
  BY DEF TaskInv, ProvTypeOK
<1>j. /\ RequestKind \cup SweepKind \cup {"continue"} \subseteq Handler \cup {"introspect"}
      /\ "heartbeat" \in Loading /\ "check_result" \in Loading
      /\ TRUE \in BOOLEAN /\ FALSE \in BOOLEAN
  BY JobFacts DEF Handler, Loading
<1> HIDE DEF W
<1>2. ASSUME NEW h \in Host, NEW n \in Node, NEW j \in Handler \cup {"introspect"},
             Call(t, h, n, j), sweep' \in [Host -> SUBSET W], casts' \in SUBSET Node
      PROVE  TaskInv'
  <2>1. /\ Acquire(t, h, n, FALSE) /\ Goto(t, j, NoCopy)
        /\ UNCHANGED <<db, undo, disk>>
    BY <1>2 DEF Call
  <2>2. CopyOfJob(j, NoCopy) /\ NoCopy \in Copy
    BY BlankCopy, NoCopyFacts, JobFacts
  <2> QED
    BY <1>2, <1>j, <2>1, <2>2, CallInv DEF W
<1>3. ASSUME NEW h \in Host, NEW n \in Node, NEW j \in SharedJob,
             Acquire(t, h, n, TRUE), Goto(t, j, Loaded(db[n])),
             UNCHANGED <<db, undo, sweep, casts, disk>>
      PROVE  TaskInv'
  <2>1. db[n] \in Row /\ Fits(db[n].prov, db[n].target) /\ j \in Loading
    BY <1>j DEF TaskInv, ProvTypeOK, SharedJob
  <2>2. Loaded(db[n]) \in Copy /\ CopyOfJob(j, Loaded(db[n]))
    BY <2>1, LoadedCopy
  <2>3. sweep' \in [Host -> SUBSET W] /\ casts' \in SUBSET Node
    BY <1>1, <1>3 DEF ProvTypeOK
  <2> QED
    BY <1>3, <1>j, <2>2, <2>3, CallInv DEF W
<1>4. ASSUME NEW h \in Host, NEW n \in Node, NEW k \in SweepKind \cup {"introspect"},
             SweepNext(t, h, n, k)
      PROVE  TaskInv'
  <2>1. /\ sweep' = [sweep EXCEPT ![h] = @ \ {<<n, k>>}]
        /\ Call(t, h, n, k) /\ UNCHANGED casts
    BY <1>4 DEF SweepNext
  <2>2. sweep' \in [Host -> SUBSET W]
    BY <1>1, <2>1
  <2>3. casts' \in SUBSET Node
    BY <1>1, <2>1 DEF ProvTypeOK
  <2> QED
    BY <1>2, <1>j, <2>1, <2>2, <2>3
<1>5. ASSUME NEW h \in Host, NEW n \in Node, NEW j \in RequestKind, Request(t, h, n, j)
      PROVE  TaskInv'
  <2>1. sweep' \in [Host -> SUBSET W] /\ casts' \in SUBSET Node
    BY <1>1, <1>5 DEF Request, ProvTypeOK
  <2> QED
    BY <1>2, <1>5, <1>j, <2>1 DEF Request
<1>6. ASSUME NEW h \in Host, NEW n \in Node, Heartbeat(t, h, n)
      PROVE  TaskInv'
  BY <1>3, <1>6 DEF Heartbeat, SharedJob
<1>7. ASSUME NEW h \in Host, NEW n \in Node, Continue(t, h, n)
      PROVE  TaskInv'
  <2>1. sweep' \in [Host -> SUBSET W] /\ casts' \in SUBSET Node
    BY <1>1, <1>7 DEF Continue, ProvTypeOK
  <2> QED
    BY <1>2, <1>7, <1>j, <2>1 DEF Continue
<1>8. ASSUME NEW h \in Host, NEW n \in Node, CheckResult(t, h, n)
      PROVE  TaskInv'
  BY <1>3, <1>8 DEF CheckResult, SharedJob
<1> QED
  BY <1>4, <1>5, <1>6, <1>7, <1>8 DEF TaskCalls, IntrospectRaises

\* A conductor's steps change no row; its death ends its tasks.
LEMMA ConductorInv ==
    ASSUME TaskInv, TypeOK', robbed' \in SUBSET Node, NEW h \in Host,
           ConductorStep(h)
    PROVE  TaskInv'
<1> DEFINE W == Node \X (SweepKind \cup {"introspect"})
<1>1. ProvTypeOK /\ sweep \in [Host -> SUBSET W]
      /\ \A n \in Node : Fits(db[n].prov, db[n].target)
  BY DEF TaskInv, ProvTypeOK
<1>k. Timeout \cup {"restart", "offline"} \subseteq SweepKind
  BY JobFacts DEF Timeout
<1>w. \A k \in SweepKind, S \in SUBSET Node : S \X {k} \in SUBSET W
  OBVIOUS
<1> HIDE DEF W
<1>2. CASE UNCHANGED <<task, job, snap, undo, db, casts, disk>>
           /\ sweep' \in [Host -> SUBSET W]
  <2>1. ProvTypeOK'
    BY <1>1, <1>2 DEF ProvTypeOK, W
  <2> QED
    BY <1>1, <1>2, <2>1, NoneMoves
<1>3. CASE Die(h)
  <2>1. /\ task' = [t \in Task |-> IF task[t].host = h THEN IdleTask ELSE task[t]]
        /\ Forgotten(TasksOf(h)) /\ sweep' = [sweep EXCEPT ![h] = {}]
        /\ UNCHANGED <<db, casts, disk>>
    BY <1>3 DEF Die, Crash
  <2>2. TasksOf(h) \in SUBSET Task
    BY DEF TasksOf
  <2>3. sweep' \in [Host -> SUBSET W]
    BY <1>1, <2>1
  <2>4. ProvTypeOK'
    BY <1>1, <2>1, <2>2, <2>3, ForgottenTypes DEF ProvTypeOK, W
  <2>5. /\ \A t \in TasksOf(h) : task'[t] = IdleTask
        /\ \A t \in Task \ TasksOf(h) : task'[t] = task[t]
    BY <2>1 DEF TasksOf
  <2> QED
    BY <2>1, <2>2, <2>4, <2>5, SomeEnd
<1>4. CASE \/ Start(h) /\ Aside
           \/ InitClear(h) /\ Aside
           \/ EndStop(h) /\ Aside
           \/ Keepalive(h) /\ Aside
           \/ HeartbeatTimeout(h) /\ Aside
           \/ \E S \in SUBSET Node : CheckDeployingStatus(h, S)
  <2>1. UNCHANGED <<task, job, snap, undo, db, casts, disk, sweep>>
    BY <1>4 DEF Start, InitClear, EndStop, Keepalive, HeartbeatTimeout, Aside,
                CheckDeployingStatus, ScanOffline, provVars
  <2> QED
    BY <1>1, <1>2, <2>1
<1>5. CASE Stop(h)
  <2>1. /\ UNCHANGED <<task, job, snap, undo, db, casts, disk>>
        /\ sweep' = [sweep EXCEPT ![h] = {}]
    BY <1>5 DEF Stop, BeginStop
  <2>2. sweep' \in [Host -> SUBSET W]
    BY <1>1, <2>1
  <2> QED
    BY <1>2, <2>1, <2>2
<1>6. ASSUME NEW S \in SUBSET Node, Recover(h, S)
      PROVE  TaskInv'
  <2>1. /\ UNCHANGED <<task, job, snap, undo, db, casts, disk>>
        /\ sweep' = [sweep EXCEPT ![h] = S \X {"restart"}]
    BY <1>6 DEF Recover, Register
  <2>2. S \X {"restart"} \in SUBSET W
    BY <1>k, <1>w
  <2>3. sweep' \in [Host -> SUBSET W]
    BY <1>1, <2>1, <2>2
  <2> QED
    BY <1>2, <2>1, <2>3
<1>7. ASSUME NEW S \in SUBSET Node, NEW k \in Timeout, CheckTimeouts(h, k, S)
      PROVE  TaskInv'
  <2>1. /\ UNCHANGED <<task, job, snap, undo, db, casts, disk>>
        /\ sweep' = [sweep EXCEPT ![h] = @ \cup (S \X {k})]
    BY <1>7 DEF CheckTimeouts, locks, lockVars
  <2>2. S \X {k} \in SUBSET W
    BY <1>k, <1>w
  <2>3. sweep' \in [Host -> SUBSET W]
    BY <1>1, <2>1, <2>2
  <2> QED
    BY <1>2, <2>1, <2>3
<1>8. ASSUME NEW S \in SUBSET Node, NEW n \in Node, NEW tag \in Host,
             BreakAndFail(h, n, tag, S)
      PROVE  TaskInv'
  <2>1. /\ UNCHANGED <<task, job, snap, undo, db, casts, disk>>
        /\ \/ sweep' = [sweep EXCEPT ![h] = @ \cup (S \X {"offline"})]
           \/ sweep' = sweep
    BY <1>8 DEF BreakAndFail, BreakLock
  <2>2. S \X {"offline"} \in SUBSET W
    BY <1>k, <1>w
  <2>3. sweep' \in [Host -> SUBSET W]
    BY <1>1, <2>1, <2>2
  <2> QED
    BY <1>2, <2>1, <2>3
<1>9. ASSUME NEW n \in Node, IntrospectReturns(h, n)
      PROVE  TaskInv'
  <2>1. /\ UNCHANGED <<task, job, snap, undo, db, casts, disk>>
        /\ sweep' = [sweep EXCEPT ![h] = @ \ {<<n, "introspect">>}]
    BY <1>9 DEF IntrospectReturns, locks, lockVars
  <2>2. sweep' \in [Host -> SUBSET W]
    BY <1>1, <2>1
  <2> QED
    BY <1>2, <2>1, <2>2
<1> QED
  BY <1>3, <1>4, <1>5, <1>6, <1>7, <1>8, <1>9 DEF ConductorStep

LEMMA ClockInv ==
    ASSUME TaskInv, NEW n \in Node, Age(n) \/ LoseCast(n)
    PROVE  TaskInv'
<1>1. ProvTypeOK /\ db \in [Node -> Row]
      /\ \A m \in Node : Fits(db[m].prov, db[m].target)
  BY DEF TaskInv, ProvTypeOK
<1>2. UNCHANGED <<locks, job, snap, undo, sweep, disk>> /\ casts' \in SUBSET Node
  BY <1>1 DEF Age, LoseCast, ProvTypeOK
<1>3. /\ db' \in [Node -> Row]
      /\ \A m \in Node : db'[m].prov = db[m].prov /\ db'[m].target = db[m].target
  <2>1. CASE Age(n)
    <3> DEFINE row == [db[n] EXCEPT !.late = TRUE]
    <3>1. db[n] \in Row /\ db' = [db EXCEPT ![n] = row]
      BY <1>1, <2>1 DEF Age
    <3>2. row \in Row /\ row.prov = db[n].prov /\ row.target = db[n].target
      BY <3>1, RowFlags
    <3> HIDE DEF row
    <3> QED
      BY <1>1, <3>1, <3>2
  <2>2. CASE LoseCast(n)
    BY <1>1, <2>2 DEF LoseCast
  <2> QED
    BY <2>1, <2>2
<1>4. ProvTypeOK' /\ UNCHANGED <<task, job, snap, undo>>
  BY <1>1, <1>2, <1>3 DEF ProvTypeOK, TypeOK, locks, lockVars
<1>5. \A m \in Node : Fits(db'[m].prov, db'[m].target)
  BY <1>1, <1>3
<1> QED
  BY <1>4, <1>5, NoneMoves

-----------------------------------------------------------------------------
(* TaskInv.                                                                *)

LEMMA TaskInvInit == ProvInit => TaskInv
<1> SUFFICES ASSUME ProvInit PROVE TaskInv
  OBVIOUS
<1>1. TypeOK
  BY InitLockInv DEF ProvInit, LockInv
<1>2. \A s \in CreatedAs : /\ s \in Stable /\ NewRow(s) \in Row
                           /\ NewRow(s).prov = s /\ NewRow(s).target = NoState
                           /\ Fits(s, NoState)
  BY NewRowFacts, ProvisioningAssumption DEF Stable
<1>3. /\ db \in [Node -> Row]
      /\ \A n \in Node : Fits(db[n].prov, db[n].target)
  BY <1>2 DEF ProvInit
<1>4. disk \in [Node -> DiskState]
  BY DEF ProvInit, DiskState
<1>5. ProvTypeOK
  BY <1>1, <1>3, <1>4, NoCopyFacts, NoUndoFacts, JobFacts DEF ProvInit, ProvTypeOK
<1>6. ASSUME NEW t \in Task
      PROVE  Placed(t) /\ CopyOfJob(job[t], snap[t]) /\ UndoFits(t)
  <2>1. task[t].pc = "idle" /\ job[t] = "none" /\ snap[t] = NoCopy
        /\ undo[t] = NoUndo
    BY IdleTaskType DEF ProvInit, Init
  <2>2. Placed(t) /\ UndoFits(t)
    BY <2>1 DEF Placed, UndoFits
  <2> QED
    BY <2>1, <2>2, BlankCopy
<1> QED
  BY <1>3, <1>5, <1>6 DEF TaskInv

LEMMA TaskInvNext == TaskInv /\ [ProvNext]_vars => TaskInv'
<1> SUFFICES ASSUME TaskInv, [ProvNext]_vars PROVE TaskInv'
  OBVIOUS
<1>1. TypeOK' /\ robbed' \in SUBSET Node
  <2>1. TypeOK /\ robbed \in SUBSET Node
    BY DEF TaskInv, ProvTypeOK
  <2> QED
    BY <2>1, ProvLocks, TypeStep
<1>2. ASSUME NEW t \in Task, TaskProceeds(t)
      PROVE  TaskInv'
  <2>1. CASE Leave(t) \/ Finished(t)
    BY <1>1, <2>1, OneEnds DEF Leave, Finished, Exit, WorkerDone
  <2> QED
    BY <1>1, <1>2, <2>1, TakeLockInv, LockBusyInv, HandleInv, SpawnWorkerInv,
       NoFreeWorkerInv, WorkersInv, AgentInv, CheckStatusInv, RecordInspectionInv
    DEF TaskProceeds
<1>3. CASE UNCHANGED vars
  <2>1. UNCHANGED <<task, job, snap, undo, db>> /\ ProvTypeOK'
    BY <1>3 DEF vars, locks, lockVars, provVars, TaskInv, ProvTypeOK, TypeOK
  <2>2. \A n \in Node : Fits(db'[n].prov, db'[n].target)
    BY <2>1 DEF TaskInv
  <2> QED
    BY <2>1, <2>2, NoneMoves
<1> QED
  BY <1>1, <1>2, <1>3, TaskCallsInv, ConductorInv, ClockInv DEF ProvNext

LEMMA TaskInvHolds == ProvSpec => []TaskInv
  BY TaskInvInit, TaskInvNext, PTL DEF ProvSpec

\* Provisioning keeps its types, whatever the constants are.
THEOREM ProvTypeCorrect == ProvSpec => []ProvTypeOK
<1>1. TaskInv => ProvTypeOK
  BY DEF TaskInv
<1> QED
  BY <1>1, TaskInvHolds, PTL

\* The rows fit, in all states: process_event, the arguments kept for a manual
\* cleaning and the error hooks leave no row with a target of another kind of
\* work, and for this nobody has to have kept the lock.
THEOREM TargetFitsStateHolds == ProvSpec => []TargetFitsState
<1>1. TaskInv => TargetFitsState
  <2> SUFFICES ASSUME TaskInv, NEW n \in Node
               PROVE  LET s == db[n].prov
                          g == db[n].target
                      IN  \/ s \in Stable /\ g = NoState
                          \/ s \in {"cleaning", "cleanwait", "cleanfail"}
                                /\ g \in {"available", "manageable"}
                          \/ s \notin Stable /\ g = DefaultTarget[s]
    BY DEF TargetFitsState
  <2>1. Fits(db[n].prov, db[n].target)
    BY DEF TaskInv
  <2> QED
    BY <2>1 DEF Fits, Cleanings
<1> QED
  BY <1>1, TaskInvHolds, PTL

\* The machine of a task takes the events that its job asks for: StateOfJob says
\* in which states it may be, the table which events they have.
LEMMA AsksAccepted ==
    ASSUME TaskInv, NEW t \in Task, NEW e \in Asks(t)
    PROVE  Accepts(snap[t].fsm.state, e)
<1> DEFINE s == snap[t].fsm.state
<1>1. /\ StateOfJob(job[t], s)
      /\ job[t] \in Loading => s = Prov(t)
  BY DEF TaskInv, CopyOfJob, Prov
<1> HIDE DEF s
<1>k. SweepKind = {"deploy_timeout", "clean_timeout", "inspect_timeout", "offline",
                   "restart"}
  BY JobFacts
<1>2. CASE job[t] \in {"deploying", "agent_deploy"}
  <2>1. Asks(t) = {"done", "wait", "fail"}
    BY <1>2, <1>k DEF Asks
  <2>2. s = "deploying"
    BY <1>1, <1>2 DEF StateOfJob
  <2> QED
    BY <2>1, <2>2, WorkAccepts DEF s
<1>3. CASE job[t] = "tearing_down"
  <2>1. Asks(t) = {"error", "clean"}
    BY <1>3, <1>k DEF Asks
  <2>2. s = "deleting"
    BY <1>1, <1>3 DEF StateOfJob
  <2> QED
    BY <2>1, <2>2, WorkAccepts DEF s
<1>4. CASE job[t] \in {"clean_auto", "step_auto", "clean_manual", "step_manual"}
  <2>1. Asks(t) \subseteq {"wait", "done", "manage"}
    BY <1>4, <1>k DEF Asks
  <2>2. s = "cleaning"
    BY <1>1, <1>4 DEF StateOfJob
  <2> QED
    BY <2>1, <2>2, WorkAccepts DEF s
<1>5. CASE job[t] \in {"fail_auto", "fail_manual"}
  <2>1. s # "cleanfail" /\ e = "fail"
    BY <1>5, <1>k DEF Asks, s
  <2>2. s \in {"cleaning", "cleanwait"}
    BY <1>1, <1>5, <2>1 DEF StateOfJob, Cleanings
  <2> QED
    BY <2>1, <2>2, WorkAccepts DEF s
<1>6. CASE job[t] \in {"verifying", "adopting", "inspecting"}
  <2>1. Asks(t) = {"done", "fail"}
    BY <1>6, <1>k DEF Asks
  <2>2. s \in {"verifying", "adopting", "inspecting"}
    BY <1>1, <1>6 DEF StateOfJob
  <2> QED
    BY <2>1, <2>2, WorkAccepts DEF s
<1>7. CASE job[t] \in {"heartbeat_locked", "continue", "abort"}
  <2>1. job[t] \in Loading /\ job[t] \notin SweepKind
    BY <1>7, <1>k DEF Loading, Handler, RequestKind
  <2>2. \/ Prov(t) = "deploywait" /\ e \in {"resume", "fail"}
        \/ Prov(t) = "cleanwait" /\ e \in {"resume", "abort"}
    BY <1>7, <2>1 DEF Asks
  <2> QED
    BY <1>1, <2>1, <2>2, WorkAccepts DEF s
<1>8. CASE job[t] \in SweepKind
  <2>1. job[t] \in Loading
    BY <1>8 DEF Loading, Handler
  <2>2. Admitted(t) /\ e = "fail"
    BY <1>8, <1>k DEF Asks
  <2>3. Prov(t) = Expected[job[t]]
    BY <1>8, <2>2 DEF Admitted
  <2>4. Prov(t) \in {"deploywait", "cleanwait", "inspecting", "deploying"}
    BY <1>8, <1>k, <2>3 DEF Expected
  <2> QED
    BY <1>1, <2>1, <2>2, <2>4, WorkAccepts DEF s
<1>9. \/ job[t] \in {"deploying", "agent_deploy", "tearing_down", "clean_auto",
                     "step_auto", "clean_manual", "step_manual", "fail_auto",
                     "fail_manual", "verifying", "adopting", "inspecting"}
      \/ job[t] \in {"heartbeat_locked", "continue", "abort"}
      \/ job[t] \in SweepKind
  BY DEF Asks
<1> QED
  BY <1>2, <1>3, <1>4, <1>5, <1>6, <1>7, <1>8, <1>9

\* Whatever conductors die, whichever lock was taken away, InvalidState ends no
\* thread in the middle of its work.  Locks have nothing to do with it: a task
\* asks its own machine.
THEOREM NoInvalidStateHolds == ProvSpec => []NoInvalidState
<1>1. TaskInv => NoInvalidState
  BY AsksAccepted DEF NoInvalidState
<1> QED
  BY <1>1, TaskInvHolds, PTL

-----------------------------------------------------------------------------
(* Who writes a row, and from which copy.                                  *)

Locked(t) == InBlock(t) \/ InThread(t)

\* A step of task t on the row it has locked: t leaves it alone, or writes a
\* successor of the state in its copy, or the state it has been told to restore.
WriteStep(t) ==
    /\ UNCHANGED locks
    /\ Holds(t, At(t)) /\ At(t) \in Node /\ job[t] \notin {"leave", "finished"}
    /\ \A n \in Node \ {At(t)} : db'[n] = db[n]
    /\ \A u \in Task \ {t} : job'[u] = job[u] /\ snap'[u] = snap[u]
    /\ \/ job'[t] \in {"leave", "finished"}
       \/ Fresh(t, At(t)) => Fresh(t, At(t))'
    /\ \/ db'[At(t)].prov = db[At(t)].prov
       \/ undo[t].prov = db'[At(t)].prov
       \/ \E e : <<snap[t].fsm.state, e, db'[At(t)].prov>> \in Edges

\* Task t has begun something on n that it is going to end.
Busy(t, n) == Holds(t, n) /\ job[t] \in Ending

\* A step that is about no row: a copy that comes to be of use is the row, and
\* unless a conductor dies nothing that has been begun is dropped.
QuietStep ==
    /\ \A n \in Node : db'[n].prov = db[n].prov /\ db'[n].target = db[n].target
    /\ UNCHANGED disk
    /\ \A u \in Task : undo'[u] \in {undo[u], NoUndo}
    /\ \A u \in Task, n \in Node : Works(u, n)' =>
          \/ Works(u, n) /\ SameTask(u)
          \/ Fresh(u, n)' /\ job'[u] \in Loading /\ undo'[u] = NoUndo
    /\ \A u \in Task, n \in Node :
          Busy(u, n) => Busy(u, n)' \/ proc'[task[u].host] = "down"

LEMMA LockedHolds ==
    ASSUME TaskInv, NEW t \in Task, Locked(t)
    PROVE  /\ Holds(t, At(t)) /\ At(t) \in Node /\ job[t] \notin {"leave", "finished"}
           /\ db \in [Node -> Row] /\ db[At(t)] \in Row
           /\ job \in [Task -> Job] /\ snap \in [Task -> Copy]
<1>1. job[t] \notin {"leave", "finished"} \cup SharedJob
  BY NextJobFacts DEF Locked, InBlock, InThread
<1>2. At(t) \in Node
  BY <1>1, HasNode DEF Locked, InBlock, InThread
<1>3. Holds(t, At(t))
  BY <1>1 DEF TaskInv, Placed, Locked, InBlock, InThread, Holds, At
<1> QED
  BY <1>1, <1>2, <1>3 DEF TaskInv, ProvTypeOK

LEMMA SkipShape ==
    ASSUME TaskInv, NEW t \in Task, Locked(t), NEW j,
           Goto(t, j, snap[t]), UNCHANGED <<locks, db>>
    PROVE  WriteStep(t)
<1>1. /\ job'[t] = j /\ snap'[t] = IF j \in {"leave", "finished"} THEN NoCopy ELSE snap[t]
      /\ \A u \in Task \ {t} : job'[u] = job[u] /\ snap'[u] = snap[u]
  BY LockedHolds DEF Goto
<1>2. At(t)' = At(t)
  BY DEF At, locks, lockVars
<1>3. job'[t] \in {"leave", "finished"} \/ (Fresh(t, At(t)) => Fresh(t, At(t))')
  BY <1>1, <1>2 DEF Fresh
<1> QED
  BY <1>1, <1>3, LockedHolds DEF WriteStep

LEMMA FlagShape ==
    ASSUME TaskInv, NEW t \in Task, Locked(t), NEW j, NEW row, NEW copy,
           row.prov = db[At(t)].prov, row.target = db[At(t)].target,
           copy = snap[t] \/ (copy.node = row /\ copy.fsm = snap[t].fsm),
           db' = [db EXCEPT ![At(t)] = row], Goto(t, j, copy), UNCHANGED locks
    PROVE  WriteStep(t)
<1>1. /\ job'[t] = j /\ snap'[t] = IF j \in {"leave", "finished"} THEN NoCopy ELSE copy
      /\ \A u \in Task \ {t} : job'[u] = job[u] /\ snap'[u] = snap[u]
  BY LockedHolds DEF Goto
<1>2. /\ db'[At(t)] = row /\ At(t) \in Node
      /\ \A n \in Node \ {At(t)} : db'[n] = db[n]
  BY LockedHolds
<1>3. UNCHANGED task
  BY DEF locks, lockVars
<1>4. At(t)' = At(t)
  BY <1>3 DEF At
<1>5. job'[t] \in {"leave", "finished"} \/ (Fresh(t, At(t)) => Fresh(t, At(t))')
  BY <1>1, <1>2, <1>4 DEF Fresh
<1> QED
  BY <1>1, <1>2, <1>5, LockedHolds DEF WriteStep

LEMMA EventShape ==
    ASSUME TaskInv, NEW t \in Task, Locked(t), NEW e, NEW wanted,
           NEW callback \in BOOLEAN, NEW j,
           ProcessEvent(t, e, wanted, callback, j), UNCHANGED locks
    PROVE  WriteStep(t)
<1> DEFINE s == After(snap[t].fsm.state, e)
           p == Processed(snap[t].fsm, e, wanted)
           row == [db[At(t)] EXCEPT !.prov = p.state,
                                    !.target = RowTarget(p, callback),
                                    !.late = FALSE]
           copy == [node |-> row, fsm |-> p]
<1>1. Accepts(snap[t].fsm.state, e) /\ Save(t, row, p, j)
  BY DEF ProcessEvent, RowTarget
<1>2. <<snap[t].fsm.state, e, s>> \in Edges /\ p.state = s
  BY <1>1, AcceptedEdge DEF Processed
<1>3. row.prov = p.state
  BY LockedHolds DEF Row
<1>4. copy.node = row /\ copy.fsm = p
  OBVIOUS
<1>5. db' = [db EXCEPT ![At(t)] = row] /\ Goto(t, j, copy)
  BY <1>1 DEF Save
<1> HIDE DEF row, copy, p, s
<1>6. /\ job'[t] = j /\ snap'[t] = IF j \in {"leave", "finished"} THEN NoCopy ELSE copy
      /\ \A u \in Task \ {t} : job'[u] = job[u] /\ snap'[u] = snap[u]
  BY <1>5, LockedHolds DEF Goto
<1>7. /\ db'[At(t)] = row /\ At(t) \in Node
      /\ \A n \in Node \ {At(t)} : db'[n] = db[n]
  BY <1>5, LockedHolds
<1>8. At(t)' = At(t)
  BY DEF At, locks, lockVars
<1>9. job'[t] \in {"leave", "finished"} \/ Fresh(t, At(t))'
  BY <1>2, <1>3, <1>4, <1>6, <1>7, <1>8 DEF Fresh
<1>10. \E ev : <<snap[t].fsm.state, ev, db'[At(t)].prov>> \in Edges
  BY <1>2, <1>3, <1>7
<1> QED
  BY <1>6, <1>7, <1>9, <1>10, LockedHolds DEF WriteStep

LEMMA BeginShape ==
    ASSUME TaskInv, NEW t \in Task, Locked(t), NEW e, NEW wanted, NEW j, NEW hooked,
           Begin(t, e, wanted, j, hooked)
    PROVE  WriteStep(t)
<1>1. ProcessEvent(t, e, wanted, TRUE, j) /\ UNCHANGED locks /\ TRUE \in BOOLEAN
  BY DEF Begin
<1> QED
  BY <1>1, EventShape

LEMMA AdvanceShape ==
    ASSUME TaskInv, NEW t \in Task, Locked(t), NEW e, NEW wanted, NEW j,
           Advance(t, e, wanted, j)
    PROVE  WriteStep(t)
<1>1. ProcessEvent(t, e, wanted, FALSE, j) /\ UNCHANGED locks /\ FALSE \in BOOLEAN
  BY DEF Advance
<1> QED
  BY <1>1, EventShape

LEMMA PlainShape ==
    ASSUME TaskInv, NEW t \in Task, Locked(t), NEW j, Skip(t, j)
    PROVE  WriteStep(t)
<1>1. Goto(t, j, snap[t]) /\ UNCHANGED <<locks, db>>
  BY DEF Skip
<1> QED
  BY <1>1, SkipShape

LEMMA HandleShape ==
    ASSUME TaskInv, NEW t \in Task, Handle(t)
    PROVE  WriteStep(t)
<1>1. Locked(t)
  <2>1. \A j \in Handler : Handling(t, j) => Locked(t)
    BY HandlersCopy DEF Locked
  <2>2. Refuse(t) => \E j \in Handler : Handling(t, j)
    BY DEF Refuse, Handling
  <2>3. Handle(t) /\ ~Refuse(t) => \E j \in RequestKind \cup SweepKind \cup {"continue"} :
                                        Handling(t, j)
    BY DEF Handle, DoNodeDeploy, DoNodeTearDown, DoNodeClean, InspectHardware,
           Provide, Manage, Adopt, Abort, UpdateNode, ContinueNodeClean,
           FailIfInState, RequestKind
  <2> QED
    BY <2>1, <2>2, <2>3, Jobs
<1>2. CASE UpdateNode(t)
  <2> DEFINE row == [db[At(t)] EXCEPT !.maint = ~@]
  <2>1. /\ db' = [db EXCEPT ![At(t)] = row] /\ Goto(t, "leave", snap[t])
        /\ UNCHANGED locks
    BY <1>1, <1>2, LockedHolds DEF UpdateNode
  <2>2. row.prov = db[At(t)].prov /\ row.target = db[At(t)].target
    BY <1>1, LockedHolds DEF Row
  <2> HIDE DEF row
  <2> QED
    BY <1>1, <2>1, <2>2, FlagShape
<1>3. CASE DoNodeDeploy(t) \/ DoNodeTearDown(t) \/ DoNodeClean(t)
             \/ InspectHardware(t) \/ Provide(t) \/ Manage(t) \/ Adopt(t)
             \/ Abort(t) \/ ContinueNodeClean(t)
  BY <1>1, <1>3, BeginShape, AdvanceShape, PlainShape
  DEF DoNodeDeploy, DoNodeTearDown, DoNodeClean, InspectHardware,
      Provide, Manage, Adopt, Abort, ContinueNodeClean
<1>4. CASE FailIfInState(t)
  BY <1>1, <1>4, BeginShape, AdvanceShape DEF FailIfInState
<1>5. CASE Refuse(t)
  BY <1>1, <1>5, PlainShape DEF Refuse
<1> QED
  BY <1>2, <1>3, <1>4, <1>5 DEF Handle

LEMMA WorkShape ==
    ASSUME TaskInv, NEW t \in Task, Work(t)
    PROVE  WriteStep(t)
<1>1. Locked(t)
  <2>1. \A j \in WorkerJob \ SharedJob : Doing(t, j) => Locked(t)
    BY WorkersCopy DEF Locked
  <2>2. \E j \in {"deploying", "tearing_down", "clean_auto", "clean_manual",
          "next_step", "step_auto", "step_manual", "clean_failing",
          "fail_auto", "fail_manual", "clean_abort", "clean_cleanup",
          "deploy_cleanup", "verifying", "adopting", "inspecting"} : Doing(t, j)
    BY DEF Work, Deploy, TearDown, StartCleaning, ChooseCleaning,
           RunCleanSteps, CleaningErrorHandler, CleanAbort,
           DeployCleanup, Verify, DoAdoption, Inspect
  <2> QED
    BY <2>1, <2>2 DEF WorkerJob, SharedJob
<1>2. ASSUME NEW j, SetMaintenance(t, j)
      PROVE  WriteStep(t)
  <2> DEFINE row == [db[At(t)] EXCEPT !.maint = TRUE]
             copy == [node |-> row, fsm |-> snap[t].fsm]
  <2>1. /\ db' = [db EXCEPT ![At(t)] = row] /\ Goto(t, j, copy)
        /\ UNCHANGED locks
    BY <1>2 DEF SetMaintenance, Save
  <2>2. /\ row.prov = db[At(t)].prov /\ row.target = db[At(t)].target
        /\ copy.node = row /\ copy.fsm = snap[t].fsm
    BY <1>1, LockedHolds DEF Row
  <2> HIDE DEF row, copy
  <2> QED
    BY <1>1, <2>1, <2>2, FlagShape
<1>3. CASE Introspect(t)
  BY <1>1, <1>3, SkipShape DEF Introspect
<1>4. CASE Deploy(t) \/ TearDown(t) \/ Verify(t) \/ DoAdoption(t)
  BY <1>1, <1>4, AdvanceShape, PlainShape
  DEF Deploy, Raises, TearDown, Verify, DoAdoption
<1>5. CASE StartCleaning(t)
  BY <1>1, <1>5, AdvanceShape, PlainShape DEF StartCleaning, Raises
<1>6. CASE ChooseCleaning(t) \/ DeployCleanup(t)
  BY <1>1, <1>6, PlainShape DEF ChooseCleaning, DeployCleanup
<1>7. CASE RunCleanSteps(t)
  BY <1>1, <1>7, AdvanceShape, PlainShape DEF RunCleanSteps
<1>8. CASE CleaningErrorHandler(t)
  BY <1>1, <1>2, <1>8, AdvanceShape, PlainShape DEF CleaningErrorHandler
<1>9. CASE CleanAbort(t)
  BY <1>1, <1>2, <1>9, PlainShape DEF CleanAbort
<1>10. CASE Inspect(t)
  BY <1>1, <1>3, <1>10, AdvanceShape, PlainShape DEF Inspect
<1> QED
  BY <1>4, <1>5, <1>6, <1>7, <1>8, <1>9, <1>10 DEF Work

\* A step of task t that leaves the rows alone.
LEMMA OneQuiet ==
    ASSUME NEW t \in Task, UNCHANGED <<db, disk>>, robbed \subseteq robbed',
           OthersRest(t), undo'[t] \in {undo[t], NoUndo},
           \A n \in Node : Works(t, n)' =>
               Fresh(t, n)' /\ job'[t] \in Loading /\ undo'[t] = NoUndo,
           \A n \in Node : ~Busy(t, n)
    PROVE  QuietStep
<1>1. ASSUME NEW u \in Task \ {t}, NEW n \in Node
      PROVE  /\ Works(u, n)' => Works(u, n) /\ SameTask(u)
             /\ Busy(u, n) => Busy(u, n)'
  <2>1. SameTask(u)
    BY DEF OthersRest
  <2> QED
    BY <2>1 DEF SameTask, Works, Holds, Busy
<1>2. ASSUME NEW u \in Task
      PROVE  /\ undo'[u] \in {undo[u], NoUndo}
             /\ \A n \in Node : Busy(u, n) => Busy(u, n)'
  BY <1>1 DEF OthersRest, SameTask
<1>3. ASSUME NEW u \in Task, NEW n \in Node, Works(u, n)'
      PROVE  \/ Works(u, n) /\ SameTask(u)
             \/ Fresh(u, n)' /\ job'[u] \in Loading /\ undo'[u] = NoUndo
  BY <1>1, <1>3
<1> QED
  BY <1>2, <1>3 DEF QuietStep

\* A task without an exclusive lock works on no node.
LEMMA IdleQuiet ==
    ASSUME NEW t \in Task, UNCHANGED <<db, disk>>, robbed \subseteq robbed',
           OthersRest(t), undo'[t] \in {undo[t], NoUndo},
           \/ task'[t].pc \notin {"body", "worker"} \/ task'[t].shared
           \/ job'[t] \in {"leave", "finished"},
           \/ task[t].pc \notin {"body", "worker"} \/ task[t].shared
           \/ job[t] \notin Ending
    PROVE  QuietStep
<1>1. \A n \in Node : ~Works(t, n)' /\ ~Busy(t, n)
  BY DEF Works, Holds, Busy
<1> QED
  BY <1>1, OneQuiet

LEMMA NoFreeWorkerShape ==
    ASSUME TaskInv, NEW t \in Task, NoFreeWorker(t)
    PROVE  WriteStep(t) \/ QuietStep
<1> DEFINE row == [db[At(t)] EXCEPT !.prov = undo[t].prov,
                                    !.target = undo[t].target, !.late = FALSE]
<1>1. /\ job[t] \in WorkerJob /\ task[t].pc = "body"
      /\ UNCHANGED <<locks, undo, disk>> /\ \E copy : Goto(t, "leave", copy)
      /\ IF undo[t] # NoUndo THEN db' = [db EXCEPT ![At(t)] = row]
         ELSE db' = db
  BY DEF NoFreeWorker, Save
<1>2. UndoFits(t) /\ Placed(t) /\ db \in [Node -> Row] /\ job \in [Task -> Job]
      /\ snap \in [Task -> Copy]
  BY DEF TaskInv, ProvTypeOK
<1>3. /\ job'[t] = "leave"
      /\ \A u \in Task \ {t} : job'[u] = job[u] /\ snap'[u] = snap[u]
  BY <1>1, <1>2 DEF Goto
<1>4. UNCHANGED <<task, robbed>>
  BY <1>1 DEF locks, lockVars
<1>5. CASE job[t] = "heartbeat"
  <2>1. undo[t] = NoUndo /\ task[t].shared
    BY <1>1, <1>2, <1>5 DEF UndoFits, Placed, SharedJob
  <2>2. UNCHANGED <<db, disk>> /\ OthersRest(t) /\ undo'[t] \in {undo[t], NoUndo}
    BY <1>1, <1>3, <1>4, <2>1 DEF OthersRest, SameTask
  <2> QED
    BY <1>3, <1>4, <2>1, <2>2, IdleQuiet
<1>6. CASE job[t] # "heartbeat"
  <2>1. job[t] \notin SharedJob \cup {"leave", "finished"}
    BY <1>1, <1>6 DEF WorkerJob, SharedJob
  <2>2. At(t) \in Node /\ Holds(t, At(t)) /\ db[At(t)] \in Row
    BY <1>1, <1>2, <2>1 DEF Placed, Holds, At
  <2>3. row.prov = undo[t].prov
    BY <2>2 DEF Row
  <2> HIDE DEF row
  <2>4. /\ \A n \in Node \ {At(t)} : db'[n] = db[n]
        /\ db'[At(t)].prov \in {db[At(t)].prov, undo[t].prov}
    BY <1>1, <1>2, <2>2, <2>3
  <2> QED
    BY <1>1, <1>3, <2>1, <2>2, <2>4 DEF WriteStep
<1> QED
  BY <1>5, <1>6

LEMMA AgentShape ==
    ASSUME TaskInv, robbed \subseteq robbed', NEW t \in Task, AgentWork(t)
    PROVE  WriteStep(t) \/ QuietStep
<1>1. task \in [Task -> TaskRecord] /\ job \in [Task -> Job] /\ snap \in [Task -> Copy]
  BY DEF TaskInv, ProvTypeOK, TypeOK
<1>2. ASSUME Doing(t, "heartbeat_locked") \/ Doing(t, "agent_deploy")
                \/ Doing(t, "agent_clean")
      PROVE  Locked(t)
  <2>1. {"heartbeat_locked", "agent_deploy", "agent_clean"} \subseteq WorkerJob \ SharedJob
    BY DEF WorkerJob, SharedJob
  <2> QED
    BY <1>2, <2>1, WorkersCopy DEF Locked
<1>3. CASE HeartbeatUpgrade(t)
  <2>1. /\ task'[t].pc = "worker_upgrading" /\ UNCHANGED <<db, disk, undo>>
        /\ task[t].shared /\ OthersRest(t)
    BY <1>1, <1>3 DEF HeartbeatUpgrade, Upgrade, Doing, TaskRecord, provVars,
                      OthersRest, SameTask
  <2> QED
    BY <2>1, IdleQuiet
<1>4. ASSUME Goto(t, "finished", snap[t]), UNCHANGED <<db, disk, undo>>,
             \A u \in Task \ {t} : task'[u] = task[u], job[t] \notin Ending
      PROVE  QuietStep
  <2>1. /\ job'[t] = "finished"
        /\ \A u \in Task \ {t} : job'[u] = job[u] /\ snap'[u] = snap[u]
    BY <1>1, <1>4 DEF Goto
  <2>2. OthersRest(t)
    BY <1>4, <2>1 DEF OthersRest, SameTask
  <2> QED
    BY <1>4, <2>1, <2>2, IdleQuiet
<1>5. CASE HeartbeatIgnored(t)
  <2>1. /\ Goto(t, "finished", snap[t]) /\ UNCHANGED <<db, disk, undo, locks>>
        /\ job[t] \in {"heartbeat", "heartbeat_locked"}
    BY <1>5 DEF HeartbeatIgnored, Skip, Doing
  <2>2. UNCHANGED task /\ job[t] \notin Ending
    BY <2>1 DEF locks, lockVars, Ending
  <2> QED
    BY <1>4, <2>1, <2>2
<1>6. ASSUME NEW j, Touch(t, j), Locked(t)
      PROVE  WriteStep(t)
  <2> DEFINE row == [db[At(t)] EXCEPT !.late = FALSE]
  <2>1. /\ db' = [db EXCEPT ![At(t)] = row] /\ Goto(t, j, snap[t])
        /\ UNCHANGED locks
    BY <1>6, LockedHolds DEF Touch
  <2>2. row.prov = db[At(t)].prov /\ row.target = db[At(t)].target
    BY <1>6, LockedHolds DEF Row
  <2> HIDE DEF row
  <2> QED
    BY <1>6, <2>1, <2>2, FlagShape
<1>7. CASE HeartbeatDeploying(t) \/ HeartbeatCleaning(t)
  BY <1>2, <1>6, <1>7, AdvanceShape DEF HeartbeatDeploying, HeartbeatCleaning
<1>8. CASE AgentDeploy(t)
  BY <1>2, <1>8, AdvanceShape DEF AgentDeploy
<1>9. CASE AgentClean(t)
  <2>1. CASE Skip(t, "finished") \/ Skip(t, "clean_failing")
    BY <1>2, <1>9, <2>1, PlainShape DEF AgentClean
  <2>2. CASE Goto(t, "finished", snap[t]) /\ ReleaseEarly(t)
                /\ UNCHANGED <<db, disk, undo>>
    <3>1. /\ \A u \in Task \ {t} : task'[u] = task[u]
          /\ job[t] \notin Ending
      BY <1>1, <1>9, <2>2 DEF ReleaseEarly, AgentClean, Doing, Ending
    <3> QED
      BY <1>4, <2>2, <3>1
  <2> QED
    BY <1>9, <2>1, <2>2 DEF AgentClean
<1> QED
  BY <1>3, <1>5, <1>7, <1>8, <1>9 DEF AgentWork

LEMMA RecordShape ==
    ASSUME TaskInv, NEW t \in Task, RecordInspection(t)
    PROVE  WriteStep(t)
<1>1. PICK j \in InspectorJob \ {"check_result"}, e \in {"done", "fail"} :
          /\ Handling(t, j)
          /\ \/ Advance(t, e, NoState, "leave") /\ UNCHANGED disk
             \/ Skip(t, "leave")
  BY DEF RecordInspection
<1>2. Locked(t)
  BY <1>1, JobFacts DEF Locked, InBlock, Handling, SharedJob
<1> QED
  BY <1>1, <1>2, AdvanceShape, PlainShape

\* The steps in which a task comes, waits or goes.
LEMMA LifeShape ==
    ASSUME TaskInv, robbed \subseteq robbed', NEW t \in Task,
           \/ TaskCalls(t) \/ TakeLock(t) \/ LockBusy(t) \/ Leave(t)
           \/ CheckStatus(t) \/ Finished(t)
    PROVE  QuietStep
<1>1. task \in [Task -> TaskRecord] /\ job \in [Task -> Job] /\ snap \in [Task -> Copy]
      /\ undo \in [Task -> Undo]
  BY DEF TaskInv, ProvTypeOK, TypeOK
<1>2. ASSUME NEW h, NEW n, NEW shared, NEW j, NEW copy,
             Acquire(t, h, n, shared), Goto(t, j, copy), UNCHANGED <<db, undo, disk>>
      PROVE  QuietStep
  <2>1. /\ task'[t].pc = IF shared THEN "body" ELSE "reserving"
        /\ task'[t].shared = shared
        /\ \A u \in Task \ {t} : task'[u] = task[u]
        /\ task[t].pc = "idle"
    BY <1>1, <1>2 DEF Acquire
  <2>2. OthersRest(t)
    BY <1>1, <1>2, <2>1 DEF Goto, OthersRest, SameTask
  <2> QED
    BY <1>2, <2>1, <2>2, IdleQuiet
<1>3. CASE TaskCalls(t)
  <2>1. ASSUME NEW h, NEW n, NEW j, Call(t, h, n, j)
        PROVE  QuietStep
    BY <1>2, <2>1 DEF Call
  <2>2. ASSUME NEW h, NEW n, Heartbeat(t, h, n)
        PROVE  QuietStep
    BY <1>2, <2>2 DEF Heartbeat
  <2>3. ASSUME NEW h, NEW n, CheckResult(t, h, n)
        PROVE  QuietStep
    BY <1>2, <2>3 DEF CheckResult
  <2>4. ASSUME NEW h, NEW n, NEW j, Request(t, h, n, j) \/ SweepNext(t, h, n, j)
        PROVE  QuietStep
    BY <2>1, <2>4 DEF Request, SweepNext
  <2>5. ASSUME NEW h, NEW n, Continue(t, h, n) \/ IntrospectRaises(t, h, n)
        PROVE  QuietStep
    BY <2>1, <2>4, <2>5 DEF Continue, IntrospectRaises
  <2> QED
    BY <1>3, <2>2, <2>3, <2>4, <2>5 DEF TaskCalls
<1>4. ASSUME Finish(t), Forgotten({t}), UNCHANGED <<db, disk>>,
             \/ task[t].pc \notin {"body", "worker"} \/ job[t] \notin Ending
      PROVE  QuietStep
  <2>1. /\ task'[t].pc = "idle" /\ \A u \in Task \ {t} : task'[u] = task[u]
    BY <1>1, <1>4, IdleTaskType DEF Finish
  <2>2. OthersRest(t) /\ undo'[t] = NoUndo
    BY <1>4, <2>1 DEF Forgotten, OthersRest, SameTask
  <2> QED
    BY <1>4, <2>1, <2>2, IdleQuiet
<1>5. CASE Leave(t) \/ Finished(t)
  <2>1. job[t] \notin Ending
    BY <1>5 DEF Leave, Finished, Ending
  <2> QED
    BY <1>4, <1>5, <2>1 DEF Leave, Finished, Exit, WorkerDone
<1>6. CASE TakeLock(t)
  <2> DEFINE j == IF job[t] = "heartbeat" THEN "heartbeat_locked" ELSE job[t]
  <2>1. /\ Reserve(t) /\ Goto(t, j, Loaded(db[At(t)]))
        /\ UNCHANGED <<db, undo, disk>>
    BY <1>6 DEF TakeLock
  <2>2. /\ task'[t].node = At(t) /\ \A u \in Task \ {t} : task'[u] = task[u]
        /\ task[t].pc \in {"reserving", "upgrading", "worker_upgrading"}
    BY <1>1, <2>1 DEF Reserve, Reserving, TaskRecord, At
  <2>3. job[t] \in Handler \cup InspectorJob \cup {"heartbeat"}
    BY <2>2 DEF TaskInv, Placed, InspectorJob
  <2>4. j \in Loading
    BY <2>3 DEF Loading
  <2>5. undo[t] = NoUndo
    BY <2>2 DEF TaskInv, UndoFits
  <2> HIDE DEF j
  <2>6. /\ job'[t] = j
        /\ snap'[t] = IF j \in {"leave", "finished"} THEN NoCopy ELSE Loaded(db[At(t)])
        /\ OthersRest(t)
    BY <1>1, <2>1, <2>2 DEF Goto, OthersRest, SameTask
  <2>7. ASSUME NEW n \in Node, Works(t, n)'
        PROVE  Fresh(t, n)'
    <3>1. n = At(t) /\ snap'[t] = Loaded(db[n])
      BY <2>2, <2>6, <2>7 DEF Works, Holds
    <3>2. db[n] \in Row
      BY DEF TaskInv, ProvTypeOK
    <3> QED
      BY <2>1, <3>1, <3>2, LoadedFacts DEF Fresh
  <2>8. \A n \in Node : ~Busy(t, n)
    BY <2>2 DEF Busy, Holds
  <2> QED
    BY <2>1, <2>4, <2>5, <2>6, <2>7, <2>8, OneQuiet
<1>7. CASE LockBusy(t)
  <2>1. task[t].pc \notin {"body", "worker"} /\ UNCHANGED <<db, disk>>
    BY <1>7 DEF LockBusy, ReserveFails, Reserving
  <2>2. CASE LastAttempt(t)
    BY <1>4, <1>7, <2>1, <2>2 DEF LockBusy, ReserveFails
  <2>3. CASE ~LastAttempt(t)
    <3>1. /\ task' = [task EXCEPT ![t].tries = @ + 1]
          /\ UNCHANGED <<job, snap, undo>>
      BY <1>7, <2>3 DEF LockBusy, ReserveFails
    <3>2. /\ task'[t].pc \notin {"body", "worker"}
          /\ OthersRest(t)
      BY <1>1, <2>1, <3>1 DEF TaskRecord, OthersRest, SameTask
    <3> QED
      BY <2>1, <3>1, <3>2, IdleQuiet
  <2> QED
    BY <2>2, <2>3
<1>8. CASE CheckStatus(t)
  <2>1. /\ job[t] = "check_result" /\ task[t].pc = "body" /\ UNCHANGED <<db, disk>>
    BY <1>8 DEF CheckStatus, Handling
  <2>2. job[t] \notin Ending
    BY <2>1 DEF Ending
  <2>3. CASE Exit(t) /\ Forgotten({t})
    BY <1>4, <2>1, <2>2, <2>3 DEF Exit
  <2>4. CASE (\E e \in {"done", "fail"} : Goto(t, Verdict[e], snap[t])) /\ Upgrade(t)
                /\ UNCHANGED undo
    <3>1. task'[t].pc \in {"upgrading", "worker_upgrading"}
          /\ \A u \in Task \ {t} : task'[u] = task[u]
      BY <1>1, <2>4 DEF Upgrade, TaskRecord
    <3>2. OthersRest(t)
      BY <1>1, <2>4, <3>1 DEF Goto, OthersRest, SameTask
    <3> QED
      BY <2>1, <2>2, <2>4, <3>1, <3>2, IdleQuiet
  <2> QED
    BY <1>8, <2>3, <2>4 DEF CheckStatus
<1> QED
  BY <1>3, <1>5, <1>6, <1>7, <1>8

\* A worker gets its thread.
LEMMA SpawnShape ==
    ASSUME TaskInv, NEW t \in Task, SpawnWorker(t)
    PROVE  /\ OthersRest(t) /\ UNCHANGED <<db, snap, job, robbed>>
           /\ task[t].pc = "body" /\ task'[t].pc = "worker" /\ job[t] \in WorkerJob
           /\ At(t) \in Node
           /\ \A n \in Node : Holds(t, n)' <=> Holds(t, n)
           /\ undo'[t] = NoUndo
           /\ \A n \in Node \ {At(t)} : disk'[n] = disk[n]
           /\ disk'[At(t)] = DiskOnSpawn(t)
<1>1. task \in [Task -> TaskRecord] /\ undo \in [Task -> Undo]
      /\ disk \in [Node -> DiskState] /\ job \in [Task -> Job]
  BY DEF TaskInv, ProvTypeOK, TypeOK
<1>2. /\ task' = [task EXCEPT ![t].pc = "worker"] /\ task[t].pc = "body"
      /\ job[t] \in WorkerJob /\ UNCHANGED <<db, snap, job, lost>>
      /\ undo' = [undo EXCEPT ![t] = NoUndo]
      /\ disk' = [disk EXCEPT ![At(t)] = DiskOnSpawn(t)] /\ Watch
  BY DEF SpawnWorker, Spawn
<1>3. robbed' = robbed
  <2>1. lost' \ lost = {} /\ robbed \in SUBSET Node
    BY <1>2 DEF TaskInv, ProvTypeOK
  <2> QED
    BY <1>2, <2>1 DEF Watch
<1>4. /\ task'[t].pc = "worker" /\ task'[t].node = task[t].node
      /\ task'[t].shared = task[t].shared
      /\ \A u \in Task \ {t} : task'[u] = task[u]
  BY <1>1, <1>2 DEF TaskRecord
<1>5. \A n \in Node : Holds(t, n)' <=> Holds(t, n)
  BY <1>2, <1>4 DEF Holds
<1>6. OthersRest(t) /\ undo'[t] = NoUndo
  BY <1>1, <1>2, <1>4 DEF OthersRest, SameTask
<1>7. At(t) \in Node
  BY <1>2, HasNode DEF WorkerJob, At
<1>8. (\A n \in Node \ {At(t)} : disk'[n] = disk[n]) /\ disk'[At(t)] = DiskOnSpawn(t)
  BY <1>1, <1>2, <1>7
<1> QED
  BY <1>2, <1>3, <1>4, <1>5, <1>6, <1>7, <1>8

LEMMA ConductorShape ==
    ASSUME TaskInv, robbed \subseteq robbed',
           \/ \E h \in Host : ConductorStep(h)
           \/ \E n \in Node : Age(n) \/ LoseCast(n)
           \/ UNCHANGED vars
    PROVE  QuietStep
<1>1. ASSUME NEW h \in Host, Die(h)
      PROVE  QuietStep
  <2>1. /\ task' = [t \in Task |-> IF task[t].host = h THEN IdleTask ELSE task[t]]
        /\ Forgotten(TasksOf(h)) /\ UNCHANGED <<db, disk>>
        /\ proc' = [proc EXCEPT ![h] = "down"]
    BY <1>1 DEF Die, Crash
  <2>2. ASSUME NEW u \in Task
        PROVE  undo'[u] \in {undo[u], NoUndo}
    BY <2>1 DEF Forgotten
  <2>3. ASSUME NEW u \in Task, NEW n \in Node, Works(u, n)'
        PROVE  Works(u, n) /\ SameTask(u)
    <3>1. u \notin TasksOf(h)
      BY <2>1, <2>3, IdleTaskType DEF Works, Holds, TasksOf
    <3>2. SameTask(u)
      BY <2>1, <3>1 DEF Forgotten, TasksOf, SameTask
    <3> QED
      BY <2>3, <3>2 DEF Works, Holds, SameTask
  <2>4. ASSUME NEW u \in Task, NEW n \in Node, Busy(u, n)
        PROVE  Busy(u, n)' \/ proc'[task[u].host] = "down"
    <3>1. CASE u \in TasksOf(h)
      <4>1. task[u].host = h /\ proc \in [Host -> ProcState]
        BY <3>1 DEF TasksOf, TaskInv, ProvTypeOK, TypeOK
      <4> QED
        BY <2>1, <4>1
    <3>2. CASE u \notin TasksOf(h)
      <4>1. SameTask(u)
        BY <2>1, <3>2 DEF Forgotten, TasksOf, SameTask
      <4> QED
        BY <2>4, <4>1 DEF Busy, Holds, SameTask
    <3> QED
      BY <3>1, <3>2
  <2> QED
    BY <2>1, <2>2, <2>3, <2>4 DEF QuietStep
<1>2. ASSUME UNCHANGED <<task, job, snap, undo, disk>>,
             \A n \in Node : db'[n].prov = db[n].prov /\ db'[n].target = db[n].target
      PROVE  QuietStep
  <2>1. ASSUME NEW u \in Task, NEW n \in Node
        PROVE  /\ Works(u, n)' => Works(u, n)
               /\ SameTask(u) /\ undo'[u] = undo[u]
               /\ Busy(u, n) => Busy(u, n)'
    BY <1>2 DEF Works, Holds, SameTask, Busy
  <2>2. \A u \in Task : undo'[u] \in {undo[u], NoUndo}
    BY <1>2
  <2> QED
    BY <1>2, <2>1, <2>2 DEF QuietStep
<1>3. ASSUME NEW h \in Host, ConductorStep(h), ~Die(h)
      PROVE  UNCHANGED <<task, job, snap, undo, disk, db>>
  BY <1>3 DEF ConductorStep, Stop, Aside, Recover, CheckDeployingStatus,
              CheckTimeouts, BreakAndFail, IntrospectReturns, Start, InitClear,
              EndStop, Keepalive, HeartbeatTimeout, BeginStop, Register,
              ScanOffline, BreakLock, provVars, locks, lockVars
<1>4. ASSUME NEW n \in Node, Age(n)
      PROVE  QuietStep
  <2> DEFINE row == [db[n] EXCEPT !.late = TRUE]
  <2>1. db \in [Node -> Row] /\ db[n] \in Row
    BY DEF TaskInv, ProvTypeOK
  <2>2. /\ db' = [db EXCEPT ![n] = row] /\ UNCHANGED <<task, job, snap, undo, disk>>
    BY <1>4 DEF Age, locks, lockVars
  <2>3. row.prov = db[n].prov /\ row.target = db[n].target
    BY <2>1 DEF Row
  <2> HIDE DEF row
  <2>4. \A m \in Node : db'[m].prov = db[m].prov /\ db'[m].target = db[m].target
    BY <2>1, <2>2, <2>3
  <2> QED
    BY <1>2, <2>2, <2>4
<1>5. ASSUME NEW n \in Node, LoseCast(n)
      PROVE  QuietStep
  BY <1>2, <1>5 DEF LoseCast, locks, lockVars
<1>6. CASE UNCHANGED vars
  BY <1>2, <1>6 DEF vars, locks, lockVars, provVars
<1> QED
  BY <1>1, <1>2, <1>3, <1>4, <1>5, <1>6

LEMMA Shape ==
    ASSUME TaskInv, [ProvNext]_vars
    PROVE  QuietStep \/ \E t \in Task : SpawnWorker(t) \/ WriteStep(t)
<1>1. robbed \subseteq robbed'
  BY ProvLocks
<1> QED
  BY <1>1, HandleShape, WorkShape, AgentShape, NoFreeWorkerShape, RecordShape,
     LifeShape, ConductorShape DEF ProvNext, TaskProceeds

-----------------------------------------------------------------------------
(* FreshInv.                                                               *)

\* A task that has lost a lock has not taken it just now.
LEMMA LostHeld ==
    ASSUME LockInv, [Next]_lockVars, NEW t \in lost', NEW n \in Node, Holds(t, n)'
    PROVE  Holds(t, n)
<1>1. TypeOK /\ task \in [Task -> TaskRecord] /\ lost \in SUBSET Task /\ t \in Task
  <2>1. TypeOK /\ TypeOK'
    BY TypeStep DEF LockInv
  <2> QED
    BY <2>1 DEF TypeOK
<1>2. CASE task'[t] = task[t]
  BY <1>2 DEF Holds
<1>3. CASE TaskStep(t)
  <2>1. ASSUME NEW h, NEW m, NEW shared, Acquire(t, h, m, shared)
        PROVE  FALSE
    BY <1>1, <2>1 DEF Acquire, Holds
  <2>2. ASSUME Reserve(t)
        PROVE  FALSE
    <3>1. t \in lost
      BY <2>2 DEF Reserve
    <3>2. PICK m \in Node : Holds(t, m)
      BY <3>1 DEF LockInv, LostAreHolders
    <3> QED
      BY <2>2, <3>2 DEF Reserve, Reserving, Holds
  <2>3. ASSUME Finish(t)
        PROVE  FALSE
    BY <1>1, <2>3, IdleTaskType DEF Finish, Holds
  <2>4. ASSUME Upgrade(t)
        PROVE  FALSE
    BY <1>1, <2>4 DEF Upgrade, Holds, TaskRecord
  <2>5. ASSUME ReserveFails(t)
        PROVE  FALSE
    <3>1. task'[t].pc \notin {"body", "worker"}
      BY <1>1, <2>3, <2>5 DEF ReserveFails, Reserving, TaskRecord
    <3> QED
      BY <3>1 DEF Holds
  <2>6. ASSUME Spawn(t)
        PROVE  Holds(t, n)
    <3>1. task[t].pc = "body" /\ task'[t].node = task[t].node
          /\ task'[t].shared = task[t].shared
      BY <1>1, <2>6 DEF Spawn, TaskRecord
    <3> QED
      BY <3>1 DEF Holds
  <2>7. ASSUME ReleaseEarly(t)
        PROVE  FALSE
    <3>1. task'[t].node = NoNode
      BY <1>1, <2>7 DEF ReleaseEarly, TaskRecord
    <3> QED
      BY <3>1, TaskManagerAssumption DEF Holds
  <2> QED
    BY <1>3, <2>1, <2>2, <2>3, <2>4, <2>5, <2>6, <2>7
    DEF TaskStep, Exit, SpawnRejected, WorkerDone
<1>4. ASSUME NEW u \in Task \ {t}, TaskStep(u)
      PROVE  task'[t] = task[t]
  BY <1>1, <1>4 DEF TaskStep, Acquire, Upgrade, Reserve, ReserveFails, Exit, Spawn,
                    SpawnRejected, ReleaseEarly, WorkerDone, Finish
<1>5. ASSUME NEW h \in Host, HostStep(h), ~Crash(h)
      PROVE  task'[t] = task[t]
  BY <1>5 DEF HostStep, Start, InitClear, Register, BeginStop, EndStop, Keepalive,
              HeartbeatTimeout, ScanOffline, BreakLock
<1>6. ASSUME NEW h \in Host, Crash(h)
      PROVE  task'[t] = task[t]
  <2>1. task'[t] # IdleTask
    BY IdleTaskType DEF Holds
  <2> QED
    BY <1>1, <1>6, <2>1 DEF Crash
<1>7. CASE UNCHANGED lockVars
  BY <1>2, <1>7 DEF lockVars
<1> QED
  BY <1>2, <1>3, <1>4, <1>5, <1>6, <1>7 DEF Next

\* Nobody else works on a node that a task works on.
LEMMA OneWorks ==
    ASSUME FreshInv, NEW n \in Node \ robbed, NEW t \in Task, NEW u \in Task,
           Holds(t, n), Holds(u, n)
    PROVE  t = u
<1>1. t \notin lost /\ u \notin lost
  BY DEF FreshInv, LostAreRobbed
<1> QED
  BY <1>1 DEF FreshInv, LockInv, MutualExclusion, Owns

LEMMA FreshInvInit == ProvInit => FreshInv
<1> SUFFICES ASSUME ProvInit PROVE FreshInv
  OBVIOUS
<1>1. LockInv /\ TaskInv
  BY InitLockInv, TaskInvInit DEF ProvInit
<1>2. LostAreRobbed
  BY DEF ProvInit, Init, LostAreRobbed
<1>3. \A t \in Task, n \in Node : ~Works(t, n)
  BY IdleTaskType DEF ProvInit, Init, Works, Holds
<1> QED
  BY <1>1, <1>2, <1>3 DEF FreshInv

LEMMA FreshInvNext == FreshInv /\ [ProvNext]_vars => FreshInv'
<1> SUFFICES ASSUME FreshInv, [ProvNext]_vars PROVE FreshInv'
  OBVIOUS
<1>1. /\ LockInv /\ TaskInv /\ LockInv' /\ TaskInv'
      /\ [Next]_lockVars
      /\ robbed' = robbed \cup {n \in Node : \E t \in lost' \ lost : Holds(t, n)}
  BY ProvLocks, LockInvInductive, TaskInvNext DEF FreshInv
<1>2. LostAreRobbed'
  <2> SUFFICES ASSUME NEW t \in lost', NEW n \in Node, Holds(t, n)'
               PROVE  n \in robbed'
    BY DEF LostAreRobbed
  <2>1. Holds(t, n)
    BY <1>1, LostHeld
  <2>2. CASE t \in lost
    BY <1>1, <2>1, <2>2 DEF FreshInv, LostAreRobbed
  <2>3. CASE t \notin lost
    BY <1>1, <2>1, <2>3
  <2> QED
    BY <2>2, <2>3
<1>3. ASSUME NEW u \in Task, NEW n \in Node, Works(u, n)'
      PROVE  Fresh(u, n)'
  <2>1. CASE QuietStep
    <3>1. Works(u, n) => Fresh(u, n)
      BY DEF FreshInv
    <3> QED
      BY <1>3, <2>1, <3>1 DEF QuietStep, Fresh, SameTask
  <2>2. ASSUME NEW t \in Task, WriteStep(t)
        PROVE  Fresh(u, n)'
    <3>1. UNCHANGED <<task, robbed, lost>> /\ At(t)' = At(t)
      BY <2>2 DEF WriteStep, locks, lockVars, At
    <3>2. Holds(u, n) /\ n \notin robbed
      BY <1>3, <3>1 DEF Works, Holds
    <3>3. CASE u = t
      <4>1. n = At(t) /\ Works(t, n)
        BY <2>2, <3>2, <3>3 DEF WriteStep, Works, Holds, At
      <4>2. Fresh(t, n)
        BY <4>1 DEF FreshInv
      <4>3. job'[t] \notin {"leave", "finished"}
        BY <1>3, <3>3 DEF Works
      <4> QED
        BY <2>2, <3>1, <3>3, <4>1, <4>2, <4>3 DEF WriteStep
    <3>4. CASE u # t
      <4>1. n # At(t)
        BY <2>2, <3>2, <3>4, OneWorks DEF WriteStep
      <4>2. db'[n] = db[n] /\ job'[u] = job[u] /\ snap'[u] = snap[u]
        BY <2>2, <3>4, <4>1 DEF WriteStep
      <4>3. Works(u, n)
        BY <1>3, <3>2, <4>2 DEF Works
      <4> QED
        BY <4>2, <4>3 DEF FreshInv, Fresh
    <3> QED
      BY <3>3, <3>4
  <2>3. ASSUME NEW t \in Task, SpawnWorker(t)
        PROVE  Fresh(u, n)'
    <3>1. /\ OthersRest(t) /\ UNCHANGED <<db, snap, job, robbed>>
          /\ Holds(t, n)' <=> Holds(t, n)
      BY <1>1, <2>3, SpawnShape
    <3>2. Works(u, n)
      BY <1>3, <3>1 DEF Works, OthersRest, SameTask, Holds
    <3> QED
      BY <3>1, <3>2 DEF FreshInv, Fresh
  <2> QED
    BY <1>1, <2>1, <2>2, <2>3, Shape
<1> QED
  BY <1>1, <1>2, <1>3 DEF FreshInv

LEMMA FreshInvHolds == ProvSpec => []FreshInv
  BY FreshInvInit, FreshInvNext, PTL DEF ProvSpec

\* No handler, worker, heartbeat, timeout or inspector ever decides by a stale
\* copy, as long as nobody has taken the lock of the node away: a state that is
\* written follows, in the machine, the one that is in the row.
THEOREM MachineIsFollowedHolds == ProvSpec => MachineIsFollowed
<1>1. ASSUME FreshInv, [ProvNext]_vars, NEW n \in Node \ robbed',
             db'[n].prov # db[n].prov
      PROVE  LegalStep(n)
  <2>1. TaskInv /\ ~QuietStep /\ db' # db
    BY <1>1 DEF FreshInv, QuietStep
  <2>2. PICK t \in Task : WriteStep(t)
    BY <1>1, <2>1, Shape DEF SpawnWorker
  <2>3. n = At(t) /\ robbed' = robbed
    BY <1>1, <2>2 DEF WriteStep, locks
  <2>4. Works(t, n)
    BY <2>2, <2>3 DEF WriteStep, Works
  <2>5. snap[t].fsm.state = db[n].prov
    BY <1>1, <2>4 DEF FreshInv, Fresh
  <2>6. CASE undo[t].prov = db'[n].prov
    BY <2>3, <2>5, <2>6 DEF LegalStep, At
  <2>7. CASE \E e : <<snap[t].fsm.state, e, db'[n].prov>> \in Edges
    <3>1. PICK e : <<db[n].prov, e, db'[n].prov>> \in Edges
      BY <2>5, <2>7
    <3>2. e \in Event
      BY <3>1 DEF Event
    <3> QED
      BY <3>1, <3>2 DEF LegalStep
  <2> QED
    BY <1>1, <2>2, <2>3, <2>6, <2>7 DEF WriteStep
<1>2. FreshInv /\ [ProvNext]_vars =>
         [\A n \in Node \ robbed' : db'[n].prov # db[n].prov => LegalStep(n)]_vars
  BY <1>1
<1> QED
  BY <1>2, FreshInvHolds, PTL DEF ProvSpec, MachineIsFollowed

-----------------------------------------------------------------------------
(* What is begun is ended.                                                 *)

\* A step of task t on the row it has locked: the row is left in a state in
\* which nobody has to work, or t is going to work on, or t leaves a state
\* alone that it had not to end; and t is told to restore the state it found.
EndsWell(t) ==
    /\ \/ job'[t] \in Ending
       \/ db'[At(t)].prov \notin Working
       \/ job[t] \notin Ending /\ db'[At(t)].prov = db[At(t)].prov
    /\ \A u \in Task : \/ undo'[u] \in {undo[u], NoUndo}
                       \/ u = t /\ job[t] \in Handler /\ undo'[u].prov = Prov(t)

LEMMA EventWrites ==
    ASSUME TaskInv, NEW t \in Task, Locked(t), NEW e, NEW wanted,
           NEW callback \in BOOLEAN, NEW j,
           ProcessEvent(t, e, wanted, callback, j)
    PROVE  /\ db'[At(t)].prov = After(snap[t].fsm.state, e)
           /\ db'[At(t)].target = RowTarget(Processed(snap[t].fsm, e, wanted), callback)
           /\ job'[t] = j
           /\ j \notin {"leave", "finished"} => snap'[t].node.target = db'[At(t)].target
           /\ <<snap[t].fsm.state, e, After(snap[t].fsm.state, e)>> \in Edges
<1> DEFINE p == Processed(snap[t].fsm, e, wanted)
           row == [db[At(t)] EXCEPT !.prov = p.state,
                                    !.target = RowTarget(p, callback),
                                    !.late = FALSE]
           copy == [node |-> row, fsm |-> p]
<1>1. Accepts(snap[t].fsm.state, e) /\ Save(t, row, p, j)
  BY DEF ProcessEvent, RowTarget
<1>2. <<snap[t].fsm.state, e, After(snap[t].fsm.state, e)>> \in Edges
      /\ p.state = After(snap[t].fsm.state, e)
  BY <1>1, AcceptedEdge DEF Processed
<1>3. row.prov = p.state /\ row.target = RowTarget(p, callback)
  BY LockedHolds DEF Row
<1>4. copy.node = row
  OBVIOUS
<1>5. db' = [db EXCEPT ![At(t)] = row] /\ Goto(t, j, copy)
  BY <1>1 DEF Save
<1> HIDE DEF row, copy, p
<1>6. job'[t] = j /\ snap'[t] = IF j \in {"leave", "finished"} THEN NoCopy ELSE copy
  BY <1>5, LockedHolds DEF Goto
<1>7. db'[At(t)] = row
  BY <1>5, LockedHolds
<1>8. db'[At(t)].target = RowTarget(Processed(snap[t].fsm, e, wanted), callback)
  BY <1>3, <1>7 DEF p
<1> QED
  BY <1>2, <1>3, <1>4, <1>6, <1>7, <1>8

\* The same of an event that has no callback, and of one that has.
LEMMA PlainEventWrites ==
    ASSUME TaskInv, NEW t \in Task, Locked(t), NEW e, NEW wanted, NEW j,
           ProcessEvent(t, e, wanted, FALSE, j)
    PROVE  /\ db'[At(t)].prov = After(snap[t].fsm.state, e)
           /\ job'[t] = j
<1>1. FALSE \in BOOLEAN
  OBVIOUS
<1>2. /\ db'[At(t)].prov = After(snap[t].fsm.state, e)
      /\ db'[At(t)].target = RowTarget(Processed(snap[t].fsm, e, wanted), FALSE)
      /\ job'[t] = j
      /\ j \notin {"leave", "finished"} => snap'[t].node.target = db'[At(t)].target
      /\ <<snap[t].fsm.state, e, After(snap[t].fsm.state, e)>> \in Edges
  BY <1>1, EventWrites, Zenon
<1> QED
  BY <1>2

LEMMA CallbackEventWrites ==
    ASSUME TaskInv, NEW t \in Task, Locked(t), NEW e, NEW wanted, NEW j,
           ProcessEvent(t, e, wanted, TRUE, j)
    PROVE  /\ db'[At(t)].prov = After(snap[t].fsm.state, e)
           /\ db'[At(t)].target = RowTarget(Processed(snap[t].fsm, e, wanted), TRUE)
           /\ job'[t] = j
           /\ j \notin {"leave", "finished"} => snap'[t].node.target = db'[At(t)].target
           /\ <<snap[t].fsm.state, e, After(snap[t].fsm.state, e)>> \in Edges
<1>1. TRUE \in BOOLEAN
  OBVIOUS
<1> QED
  BY <1>1, EventWrites, Zenon

LEMMA BeginWrites ==
    ASSUME TaskInv, NEW t \in Task, Locked(t), NEW e, NEW wanted, NEW j, NEW hooked,
           Begin(t, e, wanted, j, hooked)
    PROVE  /\ db'[At(t)].prov = After(snap[t].fsm.state, e)
           /\ db'[At(t)].target = RowTarget(Processed(snap[t].fsm, e, wanted), TRUE)
           /\ job'[t] = j
           /\ j \notin {"leave", "finished"} => snap'[t].node.target = db'[At(t)].target
           /\ <<snap[t].fsm.state, e, After(snap[t].fsm.state, e)>> \in Edges
<1>1. ProcessEvent(t, e, wanted, TRUE, j)
  BY DEF Begin
<1> QED
  BY <1>1, CallbackEventWrites, Zenon

LEMMA BeginEnds ==
    ASSUME TaskInv, NEW t \in Task, NEW i \in Handler, Handling(t, i),
           NEW e, NEW wanted, NEW j, NEW hooked, Begin(t, e, wanted, j, hooked),
           After(snap[t].fsm.state, e) \notin Working \/ j \in Ending
    PROVE  EndsWell(t)
<1>1. Locked(t) /\ job[t] \in Handler
  BY HandlersCopy DEF Locked
<1>2. /\ db'[At(t)].prov = After(snap[t].fsm.state, e)
      /\ db'[At(t)].target = RowTarget(Processed(snap[t].fsm, e, wanted), TRUE)
      /\ job'[t] = j
      /\ j \notin {"leave", "finished"} => snap'[t].node.target = db'[At(t)].target
      /\ <<snap[t].fsm.state, e, After(snap[t].fsm.state, e)>> \in Edges
  BY <1>1, BeginWrites, Zenon
<1>3. db'[At(t)].prov \notin Working \/ job'[t] \in Ending
  BY <1>2
<1>4. undo \in [Task -> Undo]
  BY DEF TaskInv, ProvTypeOK
<1>5. ASSUME NEW u \in Task
      PROVE  \/ undo'[u] \in {undo[u], NoUndo}
             \/ u = t /\ job[t] \in Handler /\ undo'[u].prov = Prov(t)
  BY <1>1, <1>4 DEF Begin
<1> QED
  BY <1>3, <1>5 DEF EndsWell

LEMMA AdvanceWrites ==
    ASSUME TaskInv, NEW t \in Task, Locked(t), NEW e, NEW wanted, NEW j,
           Advance(t, e, wanted, j)
    PROVE  /\ db'[At(t)].prov = After(snap[t].fsm.state, e)
           /\ job'[t] = j
<1>1. ProcessEvent(t, e, wanted, FALSE, j)
  BY DEF Advance
<1> QED
  BY <1>1, PlainEventWrites, Zenon

LEMMA AdvanceEnds ==
    ASSUME TaskInv, NEW t \in Task, Locked(t), NEW e, NEW wanted, NEW j,
           Advance(t, e, wanted, j),
           After(snap[t].fsm.state, e) \notin Working \/ j \in Ending
    PROVE  EndsWell(t)
<1>1. UNCHANGED undo
  BY DEF Advance
<1>2. db'[At(t)].prov = After(snap[t].fsm.state, e) /\ job'[t] = j
  BY AdvanceWrites
<1> QED
  BY <1>1, <1>2 DEF EndsWell

LEMMA KeepEnds ==
    ASSUME TaskInv, NEW t \in Task, NEW j, NEW copy, Goto(t, j, copy),
           UNCHANGED undo, db'[At(t)].prov = db[At(t)].prov,
           job[t] \notin Ending \/ j \in Ending \/ db[At(t)].prov \notin Working
    PROVE  EndsWell(t)
<1>1. job'[t] = j
  BY DEF Goto, TaskInv, ProvTypeOK
<1> QED
  BY <1>1 DEF EndsWell

LEMMA HandleEnds ==
    ASSUME TaskInv, NEW t \in Task, Handle(t)
    PROVE  EndsWell(t)
<1> USE Jobs
<1>1. ASSUME NEW i \in Handler, Handling(t, i)
      PROVE  /\ Locked(t) /\ job[t] \notin Ending
             /\ snap[t].fsm.state = Prov(t)
  <2>1. Handler \cap Ending = {}
    BY JobFacts DEF Handler, RequestKind, Ending
  <2> QED
    BY <1>1, <2>1, HandlersCopy DEF Locked
<1>2. ASSUME NEW i \in Handler, Handling(t, i), Skip(t, "leave")
      PROVE  EndsWell(t)
  BY <1>1, <1>2, KeepEnds DEF Skip
<1>3. CASE DoNodeDeploy(t) \/ DoNodeTearDown(t) \/ DoNodeClean(t) \/ Provide(t)
             \/ Adopt(t)
  <2>1. {"deploying", "tearing_down", "clean_manual", "clean_auto", "adopting"}
           \subseteq Ending
    BY DEF Ending
  <2> QED
    BY <1>3, <2>1, BeginEnds
    DEF DoNodeDeploy, DoNodeTearDown, DoNodeClean, Provide, Adopt, Handler, RequestKind
<1>4. CASE InspectHardware(t)
  <2>1. Begin(t, "inspect", NoState, "inspecting", TRUE) /\ Handling(t, "inspect")
        /\ "inspect" \in Handler
    BY <1>4 DEF InspectHardware, Handler, RequestKind
  <2>2. After(snap[t].fsm.state, "inspect") = "inspecting"
    <3>1. <<snap[t].fsm.state, "inspect", After(snap[t].fsm.state, "inspect")>> \in Edges
      BY <2>1, BegunEdge
    <3> QED
      BY <3>1, EdgeResults
  <2>3. "inspecting" \notin Working
    BY DEF Working
  <2> QED
    BY <2>1, <2>2, <2>3, BeginEnds
<1>5. CASE Manage(t)
  <2>1. Handling(t, "manage") /\ "manage" \in Handler
    BY <1>5 DEF Manage, Handler, RequestKind
  <2>2. CASE Begin(t, "manage", NoState, "verifying", TRUE)
    BY <2>1, <2>2, BeginEnds DEF Ending
  <2>3. CASE Prov(t) # "enroll" /\ Advance(t, "manage", NoState, "leave")
    <3>1. <<snap[t].fsm.state, "manage", After(snap[t].fsm.state, "manage")>> \in Edges
      BY <2>3, AdvancedEdge
    <3>2. After(snap[t].fsm.state, "manage") = "manageable"
      BY <1>1, <2>1, <2>3, <3>1, EdgeResults
    <3>3. "manageable" \notin Working
      BY DEF Working, Unstable
    <3> QED
      BY <1>1, <2>1, <2>3, <3>2, <3>3, AdvanceEnds
  <2> QED
    BY <1>5, <2>2, <2>3 DEF Manage
<1>6. ASSUME NEW i \in Handler, Handling(t, i), NEW wanted,
             Begin(t, "abort", wanted, "clean_abort", TRUE)
      PROVE  EndsWell(t)
  <2>1. <<snap[t].fsm.state, "abort", After(snap[t].fsm.state, "abort")>> \in Edges
    BY <1>6, BegunEdge
  <2>2. After(snap[t].fsm.state, "abort") = "cleanfail"
    BY <2>1, EdgeResults
  <2>3. "cleanfail" \notin Working
    BY DEF Working, Unstable
  <2> QED
    BY <1>6, <2>2, <2>3, BeginEnds
<1>7. CASE Abort(t)
  BY <1>2, <1>6, <1>7 DEF Abort, Handler, RequestKind
<1>8. CASE ContinueNodeClean(t)
  <2>1. Handling(t, "continue") /\ "continue" \in Handler
    BY <1>8 DEF ContinueNodeClean
  <2>2. CASE Begin(t, "resume", KeptTarget(t), "next_step", FALSE)
    BY <2>1, <2>2, BeginEnds DEF Ending
  <2> QED
    BY <1>6, <1>8, <2>1, <2>2 DEF ContinueNodeClean
<1>9. CASE UpdateNode(t)
  <2> DEFINE row == [db[At(t)] EXCEPT !.maint = ~@]
  <2>1. /\ db' = [db EXCEPT ![At(t)] = row] /\ Goto(t, "leave", snap[t])
        /\ UNCHANGED undo /\ Handling(t, "maintain") /\ "maintain" \in Handler
    BY <1>9 DEF UpdateNode, Handler, RequestKind
  <2>2. row.prov = db[At(t)].prov
    BY <1>1, <2>1, LockedHolds DEF Row
  <2> HIDE DEF row
  <2>3. db'[At(t)].prov = db[At(t)].prov
    BY <1>1, <2>1, <2>2, LockedHolds
  <2> QED
    BY <1>1, <2>1, <2>3, KeepEnds
<1>10. CASE FailIfInState(t)
  <2>1. PICK k \in Handler :
           /\ Handling(t, k)
           /\ \/ \E wanted, j, hooked : Begin(t, "fail", wanted, j, hooked)
              \/ Advance(t, "fail", NoState, "leave")
    BY <1>10 DEF FailIfInState
  <2>2. <<snap[t].fsm.state, "fail", After(snap[t].fsm.state, "fail")>> \in Edges
    BY <2>1, BegunEdge, AdvancedEdge
  <2>3. After(snap[t].fsm.state, "fail") \notin Working
    BY <2>2, EdgeResults
  <2> QED
    BY <1>1, <2>1, <2>3, BeginEnds, AdvanceEnds
<1>11. CASE Refuse(t)
  BY <1>2, <1>11 DEF Refuse, Handling
<1> QED
  BY <1>3, <1>4, <1>5, <1>7, <1>8, <1>9, <1>10, <1>11 DEF Handle

\* The row is saved with its flag set, or as it was.
LEMMA FlagRow ==
    ASSUME TaskInv, NEW t \in Task, At(t) \in Node, NEW row,
           row \in {[db[At(t)] EXCEPT !.maint = TRUE], [db[At(t)] EXCEPT !.late = FALSE]},
           db' = [db EXCEPT ![At(t)] = row]
    PROVE  db'[At(t)].prov = db[At(t)].prov /\ db'[At(t)].target = db[At(t)].target
<1>1. db \in [Node -> Row] /\ db[At(t)] \in Row
  BY DEF TaskInv, ProvTypeOK
<1>2. row.prov = db[At(t)].prov /\ row.target = db[At(t)].target
  BY <1>1 DEF Row
<1>3. db'[At(t)] = row
  BY <1>1
<1> QED
  BY <1>2, <1>3

\* A worker ends what it does or goes on with it, or lets what is raised pass.
LEMMA WorkEnds ==
    ASSUME TaskInv, NEW t \in Task, Work(t),
           Locked(t) => Fresh(t, At(t))
    PROVE  EndsWell(t) \/ (Locked(t) /\ Raises(t))
<1>1. ASSUME NEW j \in WorkerJob \ SharedJob, Doing(t, j)
      PROVE  /\ Locked(t) /\ job[t] = j /\ At(t) \in Node
             /\ StateOfJob(j, snap[t].fsm.state)
             /\ db[At(t)].prov = snap[t].fsm.state
  BY <1>1, WorkersCopy DEF Locked, Fresh
<1>2. ASSUME Locked(t), NEW e \in {"done", "fail", "error", "wait"}, NEW wanted, NEW j,
             Advance(t, e, wanted, j)
      PROVE  EndsWell(t)
  <2>1. <<snap[t].fsm.state, e, After(snap[t].fsm.state, e)>> \in Edges
    BY <1>2, AdvancedEdge
  <2>2. After(snap[t].fsm.state, e) \notin Working
    BY <2>1, EdgeResults
  <2> QED
    BY <1>2, <2>2, AdvanceEnds
<1>3. ASSUME NEW j, Skip(t, j), j \in Ending \/ job[t] \notin Ending
      PROVE  EndsWell(t)
  BY <1>3, KeepEnds DEF Skip
<1>4. ASSUME NEW j, SetMaintenance(t, j), j \in Ending \/ job[t] \notin Ending,
             At(t) \in Node
      PROVE  EndsWell(t)
  <2> DEFINE row == [db[At(t)] EXCEPT !.maint = TRUE]
             copy == [node |-> row, fsm |-> snap[t].fsm]
  <2>1. db' = [db EXCEPT ![At(t)] = row] /\ Goto(t, j, copy) /\ UNCHANGED undo
    BY <1>4 DEF SetMaintenance, Save
  <2>2. db'[At(t)].prov = db[At(t)].prov
    BY <1>4, <2>1, FlagRow
  <2> HIDE DEF row, copy
  <2> QED
    BY <1>4, <2>1, <2>2, KeepEnds
<1>5. CASE Deploy(t) \/ Verify(t) \/ DoAdoption(t)
  <2>1. Locked(t)
    BY <1>1, <1>5 DEF Deploy, Verify, DoAdoption, WorkerJob, SharedJob
  <2> QED
    BY <1>2, <1>5, <2>1 DEF Deploy, Verify, DoAdoption
<1>6. CASE TearDown(t)
  <2>1. Locked(t)
    BY <1>1, <1>6 DEF TearDown, WorkerJob, SharedJob
  <2>2. CASE Advance(t, "clean", NoState, "clean_auto")
    BY <2>1, <2>2, AdvanceEnds DEF Ending
  <2> QED
    BY <1>2, <1>6, <2>1, <2>2 DEF TearDown
<1>7. CASE StartCleaning(t)
  <2>1. Locked(t)
    BY <1>1, <1>7 DEF StartCleaning, WorkerJob, SharedJob
  <2>2. ASSUME NEW j \in {"next_step", "clean_failing"}, Skip(t, j)
        PROVE  EndsWell(t)
    BY <1>3, <2>2 DEF Ending
  <2> QED
    BY <1>2, <1>7, <2>1, <2>2 DEF StartCleaning
<1>8. CASE ChooseCleaning(t)
  BY <1>3, <1>8 DEF ChooseCleaning, Ending
<1>9. CASE RunCleanSteps(t)
  <2>1. Locked(t) /\ snap[t].fsm.state = "cleaning"
    BY <1>1, <1>9 DEF RunCleanSteps, WorkerJob, SharedJob, StateOfJob
  <2>2. CASE Skip(t, "clean_failing")
    BY <1>3, <2>2 DEF Ending
  <2>3. CASE Advance(t, "manage", NoState, "finished")
    <3>1. <<snap[t].fsm.state, "manage", After(snap[t].fsm.state, "manage")>> \in Edges
      BY <2>3, AdvancedEdge
    <3>2. After(snap[t].fsm.state, "manage") \notin Working
      BY <2>1, <3>1, EdgeResults
    <3> QED
      BY <2>1, <2>3, <3>2, AdvanceEnds
  <2> QED
    BY <1>2, <1>9, <2>1, <2>2, <2>3 DEF RunCleanSteps
<1>10. CASE CleaningErrorHandler(t)
  <2>1. CASE Doing(t, "clean_failing") \/ Doing(t, "clean_cleanup")
    <3>1. At(t) \in Node
      BY <1>1, <2>1 DEF WorkerJob, SharedJob
    <3>2. \E j \in {"fail_manual", "fail_auto"} : SetMaintenance(t, j)
      BY <1>10, <2>1 DEF CleaningErrorHandler, Doing
    <3> QED
      BY <1>4, <3>1, <3>2 DEF Ending
  <2>2. CASE \E j \in {"fail_manual", "fail_auto"} : Doing(t, j)
    <3>1. Locked(t) /\ db[At(t)].prov = snap[t].fsm.state
          /\ snap[t].fsm.state \in Cleanings
      BY <1>1, <2>2 DEF WorkerJob, SharedJob, StateOfJob
    <3>2. CASE \E wanted : Advance(t, "fail", wanted, "finished")
      BY <1>2, <3>1, <3>2
    <3>3. CASE ~Accepts(snap[t].fsm.state, "fail") /\ Skip(t, "finished")
      <4>1. db[At(t)].prov \in {"cleanwait", "cleanfail"}
        BY <3>1, <3>3, CleaningMayFail DEF Cleanings
      <4>2. db[At(t)].prov \notin Working
        BY <4>1 DEF Working, Unstable
      <4> QED
        BY <3>3, <4>2, KeepEnds DEF Skip
    <3> QED
      BY <1>10, <2>2, <3>2, <3>3 DEF CleaningErrorHandler, Doing
  <2> QED
    BY <1>10, <2>1, <2>2 DEF CleaningErrorHandler
<1>11. CASE CleanAbort(t) \/ DeployCleanup(t)
  <2>1. At(t) \in Node /\ job[t] \notin Ending
    BY <1>1, <1>11 DEF CleanAbort, DeployCleanup, WorkerJob, SharedJob, Ending
  <2> QED
    BY <1>3, <1>4, <1>11, <2>1 DEF CleanAbort, DeployCleanup
<1>12. CASE Inspect(t)
  <2>1. Locked(t) /\ job[t] \notin Ending
    BY <1>1, <1>12 DEF Inspect, WorkerJob, SharedJob, Ending
  <2>2. CASE Introspect(t)
    BY <2>1, <2>2, KeepEnds DEF Introspect
  <2> QED
    BY <1>2, <1>3, <1>12, <2>1, <2>2 DEF Inspect
<1> QED
  BY <1>5, <1>6, <1>7, <1>8, <1>9, <1>10, <1>11, <1>12 DEF Work

LEMMA AgentEnds ==
    ASSUME TaskInv, NEW t \in Task, AgentWork(t) \/ RecordInspection(t)
    PROVE  EndsWell(t)
<1>1. job \in [Task -> Job]
  BY DEF TaskInv, ProvTypeOK
<1>2. ASSUME Locked(t), NEW e \in {"done", "fail", "wait"}, NEW j,
             Advance(t, e, NoState, j)
      PROVE  EndsWell(t)
  <2>1. <<snap[t].fsm.state, e, After(snap[t].fsm.state, e)>> \in Edges
    BY <1>2, AdvancedEdge
  <2>2. After(snap[t].fsm.state, e) \notin Working
    BY <2>1, EdgeResults
  <2> QED
    BY <1>2, <2>2, AdvanceEnds
<1>3. ASSUME NEW j, Skip(t, j), job[t] \notin Ending
      PROVE  EndsWell(t)
  BY <1>3, KeepEnds DEF Skip
<1>4. CASE HeartbeatUpgrade(t)
  BY <1>4 DEF HeartbeatUpgrade, Doing, provVars, EndsWell, Ending
<1>5. CASE HeartbeatIgnored(t)
  BY <1>3, <1>5 DEF HeartbeatIgnored, Doing, Ending
<1>6. ASSUME Doing(t, "heartbeat_locked") \/ Doing(t, "agent_deploy")
      PROVE  Locked(t) /\ At(t) \in Node
  BY <1>6, WorkersCopy DEF Locked, WorkerJob, SharedJob
<1>7. ASSUME Doing(t, "heartbeat_locked"), NEW j, Touch(t, j)
      PROVE  EndsWell(t)
  <2> DEFINE row == [db[At(t)] EXCEPT !.late = FALSE]
  <2>1. /\ db' = [db EXCEPT ![At(t)] = row] /\ Goto(t, j, snap[t])
        /\ UNCHANGED undo /\ At(t) \in Node /\ job[t] \notin Ending
    BY <1>6, <1>7 DEF Touch, Doing, Ending
  <2>2. db'[At(t)].prov = db[At(t)].prov
    BY <2>1, FlagRow
  <2> QED
    BY <2>1, <2>2, KeepEnds
<1>8. CASE HeartbeatDeploying(t)
  <2>1. Doing(t, "heartbeat_locked") /\ Locked(t)
    BY <1>6, <1>8 DEF HeartbeatDeploying
  <2>2. CASE Advance(t, "resume", NoState, "agent_deploy")
    BY <2>1, <2>2, AdvanceEnds DEF Ending
  <2> QED
    BY <1>2, <1>7, <1>8, <2>1, <2>2 DEF HeartbeatDeploying
<1>9. CASE AgentDeploy(t)
  BY <1>2, <1>6, <1>9 DEF AgentDeploy
<1>10. CASE HeartbeatCleaning(t)
  BY <1>7, <1>10 DEF HeartbeatCleaning
<1>11. CASE AgentClean(t)
  <2>1. job[t] \notin Ending
    BY <1>11 DEF AgentClean, Doing, Ending
  <2>2. CASE Goto(t, "finished", snap[t]) /\ UNCHANGED <<db, undo>>
    BY <2>1, <2>2, KeepEnds
  <2> QED
    BY <1>3, <1>11, <2>1, <2>2 DEF AgentClean
<1>12. CASE RecordInspection(t)
  <2>1. PICK j \in InspectorJob \ {"check_result"}, e \in {"done", "fail"} :
            /\ Handling(t, j)
            /\ \/ Advance(t, e, NoState, "leave")
               \/ Skip(t, "leave")
    BY <1>12 DEF RecordInspection
  <2>2. Locked(t)
    BY <2>1, JobFacts DEF Locked, InBlock, Handling, SharedJob
  <2>3. job[t] \notin Ending
    BY <2>1 DEF Handling, InspectorJob, Verdict, Ending
  <2> QED
    BY <1>2, <1>3, <2>1, <2>2, <2>3
<1> QED
  BY <1>4, <1>5, <1>8, <1>9, <1>10, <1>11, <1>12 DEF AgentWork

\* What becomes of a job that t has to end on n: WorkIsEnded, one step of it.
GoesOn(t, n) ==
    \/ Holds(t, n)' /\ job'[t] \in Ending
    \/ db'[n].prov \notin Working
    \/ proc'[task[t].host] = "down"
    \/ /\ task[t].pc = "body" /\ ~HasFreeWorker(task[t].host)
       /\ job[t] = "next_step" \/ db'[n].prov = undo[t].prov
    \/ job[t] \in Uncaught /\ job'[t] = "finished"

\* The pool refuses the thread: the row gets back the state that spawn_after
\* was told to restore, which a cleaning that is resumed has not told it.
LEMMA NoFreeWorkerDrops ==
    ASSUME TaskInv, NEW t \in Task, NoFreeWorker(t), job[t] \in Ending
    PROVE  GoesOn(t, At(t))
<1>1. Placed(t) /\ UndoFits(t) /\ db \in [Node -> Row]
  BY DEF TaskInv, ProvTypeOK
<1>2. job[t] \in WorkerJob /\ task[t].pc = "body" /\ ~HasFreeWorker(task[t].host)
  BY DEF NoFreeWorker
<1>3. CASE undo[t] = NoUndo
  <2>1. job[t] = "next_step"
    BY <1>1, <1>2, <1>3 DEF UndoFits, Ending
  <2> QED
    BY <1>2, <2>1 DEF GoesOn
<1>4. CASE undo[t] # NoUndo
  <2> DEFINE row == [db[At(t)] EXCEPT !.prov = undo[t].prov,
                                      !.target = undo[t].target, !.late = FALSE]
  <2>1. db' = [db EXCEPT ![At(t)] = row]
    BY <1>4 DEF NoFreeWorker, Save
  <2>2. At(t) \in Node
    BY <1>1, <1>2, HasNode DEF WorkerJob
  <2>3. row.prov = undo[t].prov
    BY <1>1, <2>2 DEF Row
  <2> HIDE DEF row
  <2>4. db'[At(t)].prov = undo[t].prov
    BY <1>1, <2>1, <2>2, <2>3
  <2> QED
    BY <1>2, <2>4 DEF GoesOn
<1> QED
  BY <1>3, <1>4

\* Each step of a task on the row it has locked ends the work, or goes on.
LEMMA LockedGoesOn ==
    ASSUME FreshInv, [ProvNext]_vars, NEW t \in Task, NEW n \in Node \ robbed,
           Holds(t, n), job[t] \in Ending, WriteStep(t),
           TaskCalls(t) \/ TaskProceeds(t)
    PROVE  GoesOn(t, n)
<1>1. TaskInv /\ At(t) = n /\ Holds(t, n)' /\ robbed \subseteq robbed'
  BY ProvLocks DEF FreshInv, Holds, At, WriteStep, locks, lockVars
<1>2. ASSUME EndsWell(t)
      PROVE  GoesOn(t, n)
  BY <1>1, <1>2 DEF EndsWell, GoesOn
<1>3. Fresh(t, n)
  <2>1. Works(t, n)
    BY DEF Works, WriteStep
  <2> QED
    BY <2>1 DEF FreshInv
<1>4. CASE Handle(t)
  BY <1>1, <1>2, <1>4, HandleEnds
<1>5. CASE Work(t)
  <2>1. CASE Raises(t)
    BY <1>1, <2>1 DEF Raises, Skip, Goto, GoesOn, TaskInv, ProvTypeOK
  <2> QED
    BY <1>1, <1>2, <1>3, <1>5, <2>1, WorkEnds
<1>6. CASE AgentWork(t) \/ RecordInspection(t)
  BY <1>1, <1>2, <1>6, AgentEnds
<1>7. CASE NoFreeWorker(t)
  BY <1>1, <1>7, NoFreeWorkerDrops
<1>8. CASE SpawnWorker(t)
  <2>1. job' = job
    BY <1>1, <1>8, SpawnShape
  <2> QED
    BY <1>1, <2>1 DEF GoesOn
<1>9. CASE \/ TaskCalls(t) \/ TakeLock(t) \/ LockBusy(t) \/ Leave(t)
           \/ CheckStatus(t) \/ Finished(t)
  <2>1. Busy(t, n)' \/ proc'[task[t].host] = "down"
    BY <1>1, <1>9, LifeShape DEF QuietStep, Busy
  <2> QED
    BY <2>1 DEF GoesOn, Busy
<1> QED
  BY <1>4, <1>5, <1>6, <1>7, <1>8, <1>9 DEF TaskProceeds

\* With any faults, and however many tasks: what a handler, worker, callback or
\* timeout has begun on a node under its lock is taken up at every step until
\* it is ended.  Only the end of the conductor, the loss of the lock or the
\* want of a thread for it stops that.
THEOREM WorkIsEndedHolds == ProvSpec => WorkIsEnded
<1>1. ASSUME FreshInv, [ProvNext]_vars, NEW t \in Task, NEW n \in Node \ robbed',
             Holds(t, n), job[t] \in Ending
      PROVE  GoesOn(t, n)
  <2>1. TaskInv /\ robbed \subseteq robbed' /\ n \in Node \ robbed
    BY <1>1, ProvLocks DEF FreshInv
  <2>2. CASE QuietStep
    BY <1>1, <2>2 DEF QuietStep, Busy, GoesOn
  <2>3. ASSUME NEW u \in Task, SpawnWorker(u)
        PROVE  GoesOn(t, n)
    <3>1. Holds(t, n)' /\ job'[t] = job[t]
      BY <1>1, <2>1, <2>3, SpawnShape DEF OthersRest, SameTask, Holds
    <3> QED
      BY <1>1, <3>1 DEF GoesOn
  <2>4. ASSUME NEW u \in Task \ {t}, WriteStep(u)
        PROVE  GoesOn(t, n)
    <3>1. Holds(t, n)' /\ job'[t] = job[t]
      BY <1>1, <2>4 DEF WriteStep, locks, lockVars, Holds
    <3> QED
      BY <1>1, <3>1 DEF GoesOn
  <2>5. ASSUME TaskCalls(t) \/ TaskProceeds(t)
        PROVE  GoesOn(t, n)
    <3>1. QuietStep \/ SpawnWorker(t) \/ WriteStep(t)
      BY <2>1, <2>5, HandleShape, WorkShape, AgentShape, NoFreeWorkerShape,
         RecordShape, LifeShape DEF TaskProceeds
    <3> QED
      BY <1>1, <2>1, <2>2, <2>3, <2>5, <3>1, LockedGoesOn
  <2>6. ASSUME NEW u \in Task \ {t}, TaskCalls(u) \/ TaskProceeds(u)
        PROVE  GoesOn(t, n)
    <3>1. QuietStep \/ SpawnWorker(u) \/ WriteStep(u)
      BY <2>1, <2>6, HandleShape, WorkShape, AgentShape, NoFreeWorkerShape,
         RecordShape, LifeShape DEF TaskProceeds
    <3> QED
      BY <2>2, <2>3, <2>4, <3>1
  <2>7. CASE \/ \E h \in Host : ConductorStep(h)
             \/ \E m \in Node : Age(m) \/ LoseCast(m)
             \/ UNCHANGED vars
    BY <2>1, <2>2, <2>7, ConductorShape
  <2> QED
    BY <1>1, <2>5, <2>6, <2>7 DEF ProvNext
<1>2. FreshInv /\ [ProvNext]_vars =>
         [\A t \in Task, n \in Node \ robbed' :
             Holds(t, n) /\ job[t] \in Ending => GoesOn(t, n)]_vars
  BY <1>1
<1> QED
  BY <1>2, FreshInvHolds, PTL DEF ProvSpec, WorkIsEnded, GoesOn

\* Whoever holds a node belongs to a conductor.
LEMMA HoldersHost ==
    ASSUME LockInv, NEW t \in Task, NEW n \in Node, Holds(t, n)
    PROVE  task[t].host \in Host
<1>1. task[t] \in TaskRecord /\ task[t].pc # "idle"
  BY DEF LockInv, TypeOK, Holds
<1> QED
  BY <1>1 DEF LockInv, LiveTasks, TaskRecord

\* A pool that is full has fewer threads than there are tasks: one more waits.
LEMMA FullPool ==
    ASSUME IsFiniteSet(Task), NEW t \in Task, task[t].pc = "body", NEW h,
           ~HasFreeWorker(h)
    PROVE  PoolSize < Cardinality(Task)
<1>1. Workers(h) \in SUBSET (Task \ {t})
  BY DEF Workers, TasksOf
<1>2. /\ IsFiniteSet(Task \ {t})
      /\ Cardinality(Task \ {t}) = Cardinality(Task) - 1
      /\ Cardinality(Task) \in Nat
  BY FS_RemoveElement, FS_CardinalityType
<1>3. /\ IsFiniteSet(Workers(h))
      /\ Cardinality(Workers(h)) <= Cardinality(Task \ {t})
  BY <1>1, <1>2, FS_Subset
<1>4. Cardinality(Workers(h)) \in Nat
  BY <1>3, FS_CardinalityType
<1> QED
  BY <1>2, <1>3, <1>4, TaskManagerAssumption DEF HasFreeWorker

\* Without faults nobody is robbed of a lock.
CalmWork == FreshInv /\ Calm /\ robbed = {} /\ WorkInv

\* Without faults: it ends well, or the work is of those that may be abandoned.
Settles(t) == EndsWell(t) \/ (MayAbandon(db'[At(t)].prov) /\ UNCHANGED undo)

LEMMA NoFreeWorkerSettles ==
    ASSUME CalmWork, IsFiniteSet(Task), NEW t \in Task, NoFreeWorker(t)
    PROVE  Settles(t)
<1>1. TaskInv /\ Placed(t) /\ UndoFits(t) /\ CopyOfJob(job[t], snap[t])
      /\ db \in [Node -> Row]
  BY DEF CalmWork, FreshInv, TaskInv, ProvTypeOK
<1>2. /\ job[t] \in WorkerJob /\ task[t].pc = "body" /\ UNCHANGED undo
      /\ ~HasFreeWorker(task[t].host)
  BY DEF NoFreeWorker
<1>3. CASE undo[t] # NoUndo
  <2> DEFINE row == [db[At(t)] EXCEPT !.prov = undo[t].prov,
                                      !.target = undo[t].target, !.late = FALSE]
  <2>1. db' = [db EXCEPT ![At(t)] = row]
    BY <1>3 DEF NoFreeWorker, Save
  <2>2. At(t) \in Node
    BY <1>1, <1>2, HasNode DEF WorkerJob
  <2>3. row.prov = undo[t].prov
    BY <1>1, <2>2 DEF Row
  <2> HIDE DEF row
  <2>4. db'[At(t)].prov = undo[t].prov
    BY <1>1, <2>1, <2>2, <2>3
  <2>5. undo[t].prov \in Working => MayAbandon(undo[t].prov)
    BY DEF CalmWork, WorkInv
  <2> QED
    BY <1>2, <2>4, <2>5 DEF Settles, EndsWell
<1>4. CASE undo[t] = NoUndo
  <2>1. Goto(t, "leave", snap[t]) /\ UNCHANGED db
    BY <1>4 DEF NoFreeWorker
  <2>2. job[t] \in {"heartbeat", "next_step", "clean_cleanup"}
    BY <1>1, <1>2, <1>4 DEF UndoFits
  <2>3. CASE job[t] # "next_step"
    BY <1>1, <1>2, <2>1, <2>2, <2>3, KeepEnds DEF Settles, Ending
  <2>4. CASE job[t] = "next_step"
    <3>1. Holds(t, At(t)) /\ At(t) \in Node
      BY <1>1, <1>2, <2>4 DEF Placed, Holds, At, SharedJob
    <3>2. snap[t].fsm.state = "cleaning"
      BY <1>1, <2>4 DEF CopyOfJob, StateOfJob
    <3>3. Works(t, At(t))
      BY <2>4, <3>1 DEF Works, CalmWork
    <3>4. db[At(t)].prov = "cleaning"
      BY <3>1, <3>2, <3>3 DEF CalmWork, FreshInv, Fresh
    <3>5. MayAbandon(db'[At(t)].prov)
      BY <1>2, <2>1, <3>4, FullPool DEF MayAbandon
    <3> QED
      BY <1>2, <3>5 DEF Settles
  <2> QED
    BY <2>2, <2>3, <2>4
<1> QED
  BY <1>3, <1>4

LEMMA RaisesSettles ==
    ASSUME TaskInv, NEW t \in Task, Locked(t), Fresh(t, At(t)), Raises(t)
    PROVE  MayAbandon(db'[At(t)].prov) /\ UNCHANGED undo
<1>1. CopyOfJob(job[t], snap[t]) /\ At(t) \in Node
  BY LockedHolds DEF TaskInv
<1>2. /\ job[t] \in Uncaught /\ UNCHANGED <<db, undo>>
      /\ job[t] \in {"deploying", "clean_auto", "clean_manual"}
  BY ProvisioningAssumption DEF Raises, Skip
<1>3. snap[t].fsm.state = IF job[t] = "deploying" THEN "deploying" ELSE "cleaning"
  BY <1>1, <1>2 DEF CopyOfJob, StateOfJob
<1>4. db[At(t)].prov = snap[t].fsm.state
  BY DEF Fresh
<1> QED
  BY <1>2, <1>3, <1>4 DEF MayAbandon

LEMMA WriteSettles ==
    ASSUME CalmWork, IsFiniteSet(Task), [ProvNext]_vars
    PROVE  \/ QuietStep
           \/ \E t \in Task : SpawnWorker(t) \/ (WriteStep(t) /\ Settles(t))
<1>1. TaskInv /\ robbed \subseteq robbed'
  BY ProvLocks DEF CalmWork, FreshInv
<1>2. ASSUME NEW t \in Task, Locked(t)
      PROVE  Fresh(t, At(t))
  <2>1. Works(t, At(t)) /\ At(t) \in Node
    BY <1>1, <1>2, LockedHolds DEF Works, CalmWork
  <2> QED
    BY <2>1 DEF CalmWork, FreshInv
<1>3. ASSUME NEW t \in Task, Handle(t)
      PROVE  WriteStep(t) /\ Settles(t)
  BY <1>1, <1>3, HandleShape, HandleEnds DEF Settles
<1>4. ASSUME NEW t \in Task, Work(t)
      PROVE  WriteStep(t) /\ Settles(t)
  <2>1. CASE Locked(t) /\ Raises(t)
    BY <1>1, <1>2, <1>4, <2>1, WorkShape, RaisesSettles DEF Settles
  <2> QED
    BY <1>1, <1>2, <1>4, <2>1, WorkShape, WorkEnds DEF Settles
<1>5. ASSUME NEW t \in Task, AgentWork(t) \/ RecordInspection(t)
      PROVE  QuietStep \/ (WriteStep(t) /\ Settles(t))
  BY <1>1, <1>5, AgentShape, RecordShape, AgentEnds DEF Settles
<1>6. ASSUME NEW t \in Task, NoFreeWorker(t)
      PROVE  QuietStep \/ (WriteStep(t) /\ Settles(t))
  BY <1>1, <1>6, NoFreeWorkerShape, NoFreeWorkerSettles
<1>7. ASSUME NEW t \in Task,
             TaskCalls(t) \/ TakeLock(t) \/ LockBusy(t) \/ Leave(t)
                \/ CheckStatus(t) \/ Finished(t)
      PROVE  QuietStep
  BY <1>1, <1>7, LifeShape
<1>8. CASE \/ \E h \in Host : ConductorStep(h)
           \/ \E n \in Node : Age(n) \/ LoseCast(n)
           \/ UNCHANGED vars
  BY <1>1, <1>8, ConductorShape
<1> QED
  BY <1>3, <1>4, <1>5, <1>6, <1>7, <1>8 DEF ProvNext, TaskProceeds

LEMMA CalmWorkNext ==
    ASSUME CalmWork, Faults = {}, IsFiniteSet(Task), [ProvNext]_vars
    PROVE  CalmWork'
<1>1. FreshInv' /\ FreshInv /\ TaskInv /\ undo \in [Task -> Undo]
  BY FreshInvNext DEF CalmWork, FreshInv, TaskInv, ProvTypeOK
<1>2. Calm' /\ robbed' = {}
  <2>1. LockInv /\ Calm /\ [Next]_lockVars
    BY ProvLocks DEF CalmWork, FreshInv
  <2>2. Calm'
    BY <2>1, CalmStep
  <2>3. robbed' = robbed \cup {n \in Node : \E t \in lost' \ lost : Holds(t, n)}
    BY ProvLocks DEF CalmWork, FreshInv
  <2>4. lost' = {}
    BY <2>2 DEF Calm
  <2> QED
    BY <2>2, <2>3, <2>4 DEF CalmWork
<1>3. NoUndo.prov \notin Working
  BY NoUndoFacts DEF Working, State
<1>4. CASE QuietStep
  <2>1. ASSUME NEW n \in Node, db'[n].prov \in Working
        PROVE  \/ MayAbandon(db'[n].prov)
               \/ \E u \in Task : Holds(u, n)' /\ job'[u] \in Ending
    <3>1. \/ MayAbandon(db[n].prov)
          \/ \E u \in Task : Busy(u, n)
      BY <1>4, <2>1 DEF QuietStep, CalmWork, WorkInv, Busy
    <3>2. ASSUME NEW u \in Task, Busy(u, n)
          PROVE  Holds(u, n)' /\ job'[u] \in Ending
      <4>1. task[u].host \in Host
        BY <1>1, <3>2, HoldersHost DEF FreshInv, Busy
      <4>2. proc'[task[u].host] # "down"
        BY <1>2, <4>1 DEF Calm
      <4> QED
        BY <1>4, <3>2, <4>2 DEF QuietStep, Busy
    <3> QED
      BY <1>4, <3>1, <3>2 DEF QuietStep
  <2>2. ASSUME NEW u \in Task, undo'[u].prov \in Working
        PROVE  MayAbandon(undo'[u].prov)
    <3>1. undo'[u] = undo[u]
      BY <1>3, <1>4, <2>2 DEF QuietStep
    <3> QED
      BY <2>2, <3>1 DEF CalmWork, WorkInv
  <2>3. WorkInv'
    BY <2>1, <2>2 DEF WorkInv
  <2> QED
    BY <1>1, <1>2, <2>3 DEF CalmWork
<1>5. ASSUME NEW t \in Task, SpawnWorker(t)
      PROVE  CalmWork'
  <2>1. /\ OthersRest(t) /\ UNCHANGED <<db, job>> /\ undo'[t] = NoUndo
        /\ \A n \in Node : Holds(t, n)' <=> Holds(t, n)
    BY <1>1, <1>5, SpawnShape
  <2>2. ASSUME NEW u \in Task, NEW n \in Node
        PROVE  Holds(u, n)' <=> Holds(u, n)
    BY <2>1 DEF OthersRest, SameTask, Holds
  <2>3. ASSUME NEW u \in Task
        PROVE  undo'[u] \in {undo[u], NoUndo}
    BY <2>1 DEF OthersRest, SameTask
  <2>4. ASSUME NEW u \in Task, undo'[u].prov \in Working
        PROVE  MayAbandon(undo'[u].prov)
    <3>1. undo'[u] = undo[u]
      BY <1>3, <2>3, <2>4
    <3> QED
      BY <2>4, <3>1 DEF CalmWork, WorkInv
  <2>5. \A n \in Node : db'[n].prov \in Working =>
            MayAbandon(db'[n].prov) \/ \E u \in Task : Holds(u, n)' /\ job'[u] \in Ending
    BY <2>1, <2>2 DEF CalmWork, WorkInv
  <2>6. WorkInv'
    BY <2>4, <2>5 DEF WorkInv
  <2> QED
    BY <1>1, <1>2, <2>6 DEF CalmWork
<1>6. ASSUME NEW t \in Task, WriteStep(t), Settles(t)
      PROVE  CalmWork'
  <2>1. /\ At(t) \in Node /\ Holds(t, At(t)) /\ UNCHANGED task
        /\ job[t] \notin {"leave", "finished"}
        /\ \A n \in Node \ {At(t)} : db'[n] = db[n]
        /\ \A u \in Task \ {t} : job'[u] = job[u]
    BY <1>6 DEF WriteStep, locks, lockVars
  <2>2. \A u \in Task, n \in Node : Holds(u, n)' <=> Holds(u, n)
    BY <2>1 DEF Holds
  <2>3. ASSUME NEW n \in Node, db[n].prov \in Working, ~MayAbandon(db[n].prov),
               Holds(t, n)
        PROVE  job[t] \in Ending
    <3>1. PICK u \in Task : Holds(u, n) /\ job[u] \in Ending
      BY <2>3 DEF CalmWork, WorkInv
    <3>2. u = t
      BY <1>1, <2>3, <3>1, OneWorks DEF CalmWork
    <3> QED
      BY <3>1, <3>2
  <2>4. ASSUME NEW n \in Node, db'[n].prov \in Working
        PROVE  \/ MayAbandon(db'[n].prov)
               \/ \E u \in Task : Holds(u, n)' /\ job'[u] \in Ending
    <3>1. CASE n # At(t)
      <4>1. db'[n] = db[n] /\ ~Holds(t, n)
        BY <2>1, <3>1 DEF Holds, At
      <4>2. MayAbandon(db[n].prov) \/ \E u \in Task : Holds(u, n) /\ job[u] \in Ending
        BY <2>4, <4>1 DEF CalmWork, WorkInv
      <4>3. ASSUME NEW u \in Task, Holds(u, n) /\ job[u] \in Ending
            PROVE  Holds(u, n)' /\ job'[u] \in Ending
        BY <2>1, <2>2, <4>1, <4>3
      <4> QED
        BY <4>1, <4>2, <4>3
    <3>2. CASE n = At(t) /\ job'[t] \in Ending
      BY <2>1, <2>2, <3>2
    <3>3. CASE n = At(t) /\ job[t] \notin Ending /\ db'[n].prov = db[n].prov
      BY <2>1, <2>3, <2>4, <3>3
    <3> QED
      BY <1>6, <2>4, <3>1, <3>2, <3>3 DEF Settles, EndsWell
  <2>5. ASSUME NEW u \in Task, undo'[u].prov \in Working
        PROVE  MayAbandon(undo'[u].prov)
    <3>1. CASE undo'[u] \in {undo[u], NoUndo}
      BY <1>3, <2>5, <3>1 DEF CalmWork, WorkInv
    <3>2. CASE job[t] \in Handler /\ undo'[u].prov = Prov(t)
      <4>1. Works(t, At(t))
        BY <2>1 DEF Works, CalmWork
      <4>2. Prov(t) = db[At(t)].prov
        BY <1>1, <2>1, <4>1 DEF FreshInv, Fresh, Prov
      <4>3. job[t] \notin Ending
        BY <3>2, JobFacts DEF Handler, RequestKind, Ending
      <4> QED
        BY <2>1, <2>3, <2>5, <3>2, <4>2, <4>3
    <3> QED
      BY <1>6, <3>1, <3>2 DEF Settles, EndsWell
  <2>6. WorkInv'
    BY <2>4, <2>5 DEF WorkInv
  <2> QED
    BY <1>1, <1>2, <2>6 DEF CalmWork
<1> QED
  BY <1>4, <1>5, <1>6, WriteSettles

LEMMA CalmWorkInit ==
    ASSUME ProvInit
    PROVE  CalmWork
<1>1. FreshInv /\ robbed = {}
  BY FreshInvInit DEF ProvInit
<1>2. Calm
  BY DEF ProvInit, Init, Calm
<1>3. \A n \in Node : db[n].prov \in {"enroll", "available"}
  BY ProvisioningAssumption DEF ProvInit, NewRow
<1>4. NoUndo.prov \notin Working
  BY NoUndoFacts DEF Working, State
<1>5. \A n \in Node : db[n].prov \notin Working
  BY <1>3 DEF Working, Unstable
<1>6. WorkInv
  BY <1>4, <1>5 DEF WorkInv, ProvInit
<1> QED
  BY <1>1, <1>2, <1>6 DEF CalmWork

\* As long as no conductor dies, stops or is late, whatever a handler, worker
\* or timeout begins under the lock of a node is ended under it, in a state
\* from which somebody goes on, however its drivers fail and whatever the pool
\* refuses.  The code does leave work behind in the cases of MayAbandon, and
\* in no other: a deployment or a cleaning in which something is raised that
\* its method lets pass, and a cleaning that a full pool cuts.
THEOREM NoAbandonedWorkHolds ==
    ASSUME Faults = {}, IsFiniteSet(Task)
    PROVE  ProvSpec => []NoAbandonedWork
<1>1. ProvInit => CalmWork
  BY CalmWorkInit
<1>2. CalmWork /\ [ProvNext]_vars => CalmWork'
  BY CalmWorkNext
<1>3. CalmWork => NoAbandonedWork
  <2> SUFFICES ASSUME CalmWork, NEW n \in Node, Free(n), db[n].prov \in Working,
                      ~MayAbandon(db[n].prov)
               PROVE  FALSE
    BY DEF NoAbandonedWork, MayAbandon
  <2>1. PICK t \in Task : Holds(t, n)
    BY DEF CalmWork, WorkInv
  <2>2. reservation[n] = task[t].host
    BY <2>1 DEF CalmWork, FreshInv, LockInv, OwnersTag, Owns, Calm
  <2>3. task[t].host \in Host
    BY <2>1, HoldersHost DEF CalmWork, FreshInv
  <2> QED
    BY <2>2, <2>3, TaskManagerAssumption DEF Free
<1> QED
  BY <1>1, <1>2, <1>3, PTL DEF ProvSpec

-----------------------------------------------------------------------------
(* What is on the disks.                                                   *)

\* The jobs about which DiskOfJob says something.
Scrub == {"clean_auto", "clean_manual", "next_step", "step_auto"}

Scrubbed == AutomatedClean /\ FreshInv /\ DiskInv

\* A step of task t on the row it has locked keeps what DiskInv says of it.
KeepsClean(t) ==
    /\ \A n \in Node \ {At(t)} : disk'[n] = disk[n]
    /\ \A u \in Task \ {t} : undo'[u] = undo[u]
    /\ At(t) \notin robbed =>
          /\ CleanEnough(db'[At(t)].prov, db'[At(t)].target, disk'[At(t)])
          /\ job'[t] \in {"leave", "finished"} \/ DiskOfJob(t, At(t))'

LEMMA CleanTypes ==
    ASSUME Scrubbed
    PROVE  /\ TaskInv /\ job \in [Task -> Job] /\ snap \in [Task -> Copy]
           /\ undo \in [Task -> Undo] /\ disk \in [Node -> DiskState]
           /\ db \in [Node -> Row] /\ task \in [Task -> TaskRecord]
  BY DEF Scrubbed, FreshInv, TaskInv, ProvTypeOK, TypeOK

LEMMA LockedClean ==
    ASSUME Scrubbed, NEW t \in Task, Locked(t), At(t) \notin robbed
    PROVE  /\ At(t) \in Node /\ Works(t, At(t)) /\ Fresh(t, At(t))
           /\ DiskOfJob(t, At(t))
           /\ CleanEnough(db[At(t)].prov, db[At(t)].target, disk[At(t)])
           /\ Fits(db[At(t)].prov, db[At(t)].target)
<1>1. TaskInv
  BY CleanTypes
<1>2. At(t) \in Node /\ Works(t, At(t))
  BY <1>1, LockedHolds DEF Works
<1> QED
  BY <1>1, <1>2 DEF Scrubbed, FreshInv, DiskInv, TaskInv

\* What a job that DiskOfJob says nothing about needs.
LEMMA PlainDisk ==
    ASSUME NEW t, NEW n, job'[t] \notin Scrub,
           undo'[t] # NoUndo => CleanEnough(undo'[t].prov, undo'[t].target, disk'[n])
    PROVE  DiskOfJob(t, n)'
  BY DEF DiskOfJob, Scrub

LEMMA CleanKeep ==
    ASSUME Scrubbed, NEW t \in Task, Locked(t), NEW j, j \notin Scrub,
           NEW copy, Goto(t, j, copy), UNCHANGED <<locks, undo, disk>>,
           db'[At(t)].prov = db[At(t)].prov, db'[At(t)].target = db[At(t)].target
    PROVE  KeepsClean(t)
<1>1. job'[t] = j
  BY CleanTypes DEF Goto
<1>2. At(t)' = At(t)
  BY DEF At, locks, lockVars
<1>3. ASSUME At(t) \notin robbed
      PROVE  /\ CleanEnough(db'[At(t)].prov, db'[At(t)].target, disk'[At(t)])
             /\ DiskOfJob(t, At(t))'
  <2>1. /\ DiskOfJob(t, At(t))
        /\ CleanEnough(db[At(t)].prov, db[At(t)].target, disk[At(t)])
    BY <1>3, LockedClean
  <2>2. undo'[t] # NoUndo =>
            CleanEnough(undo'[t].prov, undo'[t].target, disk'[At(t)])
    BY <2>1 DEF DiskOfJob
  <2>3. ASSUME NEW n, n = At(t)
        PROVE  DiskOfJob(t, n)'
    BY <1>1, <2>2, <2>3, PlainDisk
  <2>4. CleanEnough(db'[At(t)].prov, db'[At(t)].target, disk'[At(t)])
    BY <2>1
  <2> QED
    BY <1>2, <2>3, <2>4
<1> QED
  BY <1>3 DEF KeepsClean

\* What it writes as the target.
LEMMA AdvanceAims ==
    ASSUME TaskInv, NEW t \in Task, Locked(t), NEW e, NEW wanted, NEW j,
           Advance(t, e, wanted, j), After(snap[t].fsm.state, e) \notin Stable
    PROVE  db'[At(t)].target = Processed(snap[t].fsm, e, wanted).target
<1> DEFINE p == Processed(snap[t].fsm, e, wanted)
           row == [db[At(t)] EXCEPT !.prov = p.state, !.target = p.target,
                                    !.late = FALSE]
<1>1. p.state \notin Stable
  BY DEF Processed
<1>2. row.target = p.target
  BY LockedHolds DEF Row
<1> HIDE DEF p
<1>3. db' = [db EXCEPT ![At(t)] = row]
  BY <1>1 DEF Advance, ProcessEvent, Save, p
<1> HIDE DEF row
<1>4. db'[At(t)] = row
  BY <1>3, LockedHolds
<1> QED
  BY <1>2, <1>4 DEF p

LEMMA CleanAdvance ==
    ASSUME Scrubbed, NEW t \in Task, Locked(t), NEW e, NEW wanted, NEW j,
           j \notin Scrub, Advance(t, e, wanted, j), UNCHANGED disk,
           After(snap[t].fsm.state, e) \notin {"available", "cleanwait"}
    PROVE  KeepsClean(t)
<1>t. TaskInv
  BY CleanTypes
<1>1. UNCHANGED <<locks, undo>>
  BY DEF Advance
<1>2. job'[t] = j /\ db'[At(t)].prov = After(snap[t].fsm.state, e)
  BY <1>t, AdvanceWrites
<1>3. At(t)' = At(t)
  BY <1>1 DEF At, locks, lockVars
<1>4. CleanEnough(db'[At(t)].prov, db'[At(t)].target, disk'[At(t)])
  BY <1>2 DEF CleanEnough
<1>5. ASSUME At(t) \notin robbed
      PROVE  DiskOfJob(t, At(t))'
  <2>1. DiskOfJob(t, At(t))
    BY <1>5, LockedClean
  <2>2. undo'[t] # NoUndo =>
            CleanEnough(undo'[t].prov, undo'[t].target, disk'[At(t)])
    BY <1>1, <2>1 DEF DiskOfJob
  <2>3. ASSUME NEW n, n = At(t)
        PROVE  DiskOfJob(t, n)'
    BY <1>2, <2>2, <2>3, PlainDisk
  <2> QED
    BY <1>3, <2>3
<1> QED
  BY <1>1, <1>4, <1>5 DEF KeepsClean

\* A handler begins: it is to restore a row about which DiskInv has spoken.
LEMMA CleanBegin ==
    ASSUME Scrubbed, NEW t \in Task, NEW i \in Handler, Handling(t, i),
           NEW e, NEW wanted, NEW j, NEW hooked, Begin(t, e, wanted, j, hooked),
           After(snap[t].fsm.state, e) \notin {"available", "cleanwait"},
           j \notin {"step_auto", "leave", "finished"},
           j = "clean_manual" => wanted = "manageable",
           j = "next_step" /\ At(t) \notin robbed =>
               wanted = "manageable" \/ disk[At(t)] # "dirty"
    PROVE  KeepsClean(t)
<1>1. TaskInv /\ Locked(t) /\ job[t] = i /\ task[t].pc = "body"
  BY CleanTypes, HandlersCopy DEF Locked, Handling
<1>2. /\ db'[At(t)].prov = After(snap[t].fsm.state, e)
      /\ db'[At(t)].target = RowTarget(Processed(snap[t].fsm, e, wanted), TRUE)
      /\ job'[t] = j
      /\ snap'[t].node.target = db'[At(t)].target
  BY <1>1, BeginWrites
<1>3. wanted = "manageable" => snap'[t].node.target = "manageable"
  BY <1>2 DEF RowTarget, Processed, NoState
<1>4. /\ undo' = [undo EXCEPT ![t] = [prov |-> Prov(t),
                                      target |-> snap[t].node.target]]
         \/ undo' = undo
      /\ UNCHANGED <<locks, disk>>
  BY DEF Begin
<1>5. At(t)' = At(t) /\ task' = task
  BY <1>4 DEF At, locks, lockVars
<1>6. \A u \in Task \ {t} : undo'[u] = undo[u]
  BY <1>4, CleanTypes
<1>7. CleanEnough(db'[At(t)].prov, db'[At(t)].target, disk'[At(t)])
  BY <1>2 DEF CleanEnough
<1>8. ASSUME At(t) \notin robbed
      PROVE  DiskOfJob(t, At(t))'
  <2>1. /\ Fresh(t, At(t)) /\ At(t) \in Node /\ DiskOfJob(t, At(t))
        /\ CleanEnough(db[At(t)].prov, db[At(t)].target, disk[At(t)])
    BY <1>1, <1>8, LockedClean
  <2>2. undo'[t] # NoUndo =>
            CleanEnough(undo'[t].prov, undo'[t].target, disk'[At(t)])
    <3>1. CASE undo' = undo
      BY <1>4, <2>1, <3>1 DEF DiskOfJob
    <3>2. CASE undo' = [undo EXCEPT ![t] = [prov |-> Prov(t),
                                            target |-> snap[t].node.target]]
      <4>1. undo'[t].prov = db[At(t)].prov /\ undo'[t].target = db[At(t)].target
        BY <2>1, <3>2, CleanTypes DEF Fresh, Prov
      <4> QED
        BY <1>4, <2>1, <4>1
    <3> QED
      BY <1>4, <3>1, <3>2
  <2>3. job'[t] = "next_step" /\ snap'[t].node.target = "available" =>
            disk'[At(t)] # "dirty"
    BY <1>2, <1>3, <1>4, <1>8
  <2>4. job'[t] = "clean_manual" => snap'[t].node.target = "manageable"
    BY <1>2, <1>3
  <2>5. job'[t] # "step_auto" /\ task'[t].pc # "worker"
    BY <1>1, <1>2, <1>5
  <2>6. ASSUME NEW n, n = At(t)
        PROVE  DiskOfJob(t, n)'
    BY <2>2, <2>3, <2>4, <2>5, <2>6 DEF DiskOfJob
  <2> QED
    BY <1>5, <2>6
<1> QED
  BY <1>4, <1>6, <1>7, <1>8 DEF KeepsClean

LEMMA HandleClean ==
    ASSUME Scrubbed, NEW t \in Task, Handle(t)
    PROVE  KeepsClean(t)
<1> USE Jobs
<1>t. TaskInv
  BY CleanTypes
<1>1. ASSUME NEW i \in Handler, Handling(t, i)
      PROVE  Locked(t) /\ snap[t].fsm.state = Prov(t)
  BY <1>t, <1>1, HandlersCopy DEF Locked
<1>2. ASSUME NEW i \in Handler, Handling(t, i), Skip(t, "leave")
      PROVE  KeepsClean(t)
  <2>1. Locked(t) /\ "leave" \notin Scrub
    BY <1>1, <1>2 DEF Scrub
  <2> QED
    BY <1>2, <2>1, CleanKeep DEF Skip
<1>3. ASSUME NEW e \in {"deploy", "rebuild", "delete", "clean", "inspect", "provide",
                        "manage", "adopt", "abort", "fail", "resume"}, NEW s,
             <<s, e, After(s, e)>> \in Edges
      PROVE  After(s, e) \notin {"available", "cleanwait"}
  BY <1>3, EdgeResults
<1>4. ASSUME NEW i \in Handler, Handling(t, i),
             NEW e \in {"deploy", "rebuild", "delete", "clean", "inspect", "provide",
                        "manage", "adopt", "abort", "fail", "resume"},
             NEW wanted, NEW j, NEW hooked, Begin(t, e, wanted, j, hooked),
             j \in WorkerJob \ {"step_auto"},
             j = "clean_manual" => wanted = "manageable",
             j = "next_step" /\ At(t) \notin robbed =>
                 wanted = "manageable" \/ disk[At(t)] # "dirty"
      PROVE  KeepsClean(t)
  <2>1. <<snap[t].fsm.state, e, After(snap[t].fsm.state, e)>> \in Edges
    BY <1>4, BegunEdge
  <2>2. After(snap[t].fsm.state, e) \notin {"available", "cleanwait"}
    BY <1>3, <2>1
  <2>3. j \notin {"step_auto", "leave", "finished"}
    BY <1>4 DEF WorkerJob
  <2> QED
    BY <1>4, <2>2, <2>3, CleanBegin
<1>5. ASSUME NEW i \in Handler, Handling(t, i), NEW e \in {"manage", "fail"},
             Advance(t, e, NoState, "leave"), UNCHANGED disk
      PROVE  KeepsClean(t)
  <2>1. <<snap[t].fsm.state, e, After(snap[t].fsm.state, e)>> \in Edges
    BY <1>5, AdvancedEdge
  <2>2. After(snap[t].fsm.state, e) \notin {"available", "cleanwait"}
    BY <1>3, <2>1
  <2>3. Locked(t) /\ "leave" \notin Scrub
    BY <1>1, <1>5 DEF Scrub
  <2> QED
    BY <1>5, <2>2, <2>3, CleanAdvance
<1>6. CASE DoNodeDeploy(t) \/ DoNodeTearDown(t) \/ DoNodeClean(t)
             \/ InspectHardware(t) \/ Provide(t) \/ Adopt(t)
  <2>1. {"deploying", "tearing_down", "clean_manual", "inspecting", "clean_auto",
         "adopting"} \subseteq WorkerJob \ {"step_auto"}
    BY DEF WorkerJob
  <2>2. PICK i \in Handler,
             e \in {"deploy", "rebuild", "delete", "clean", "inspect", "provide",
                    "adopt"},
             wanted \in {NoState, "manageable"},
             j \in {"deploying", "tearing_down", "clean_manual", "inspecting",
                    "clean_auto", "adopting"} :
                Handling(t, i) /\ Begin(t, e, wanted, j, TRUE)
                  /\ (j = "clean_manual" => wanted = "manageable")
    BY <1>6 DEF DoNodeDeploy, DoNodeTearDown, DoNodeClean, InspectHardware, Provide,
                Adopt, Handler, RequestKind
  <2>3. j # "next_step" /\ j \in WorkerJob \ {"step_auto"}
    BY <2>1
  <2> QED
    BY <1>4, <2>2, <2>3
<1>7. CASE Manage(t)
  <2>1. Handling(t, "manage") /\ "manage" \in Handler
        /\ "verifying" \in WorkerJob \ {"step_auto"}
    BY <1>7 DEF Manage, Handler, RequestKind, WorkerJob
  <2>2. CASE Begin(t, "manage", NoState, "verifying", TRUE)
    BY <1>4, <2>1, <2>2
  <2>3. CASE Advance(t, "manage", NoState, "leave") /\ UNCHANGED disk
    BY <1>5, <2>1, <2>3
  <2> QED
    BY <1>7, <2>2, <2>3 DEF Manage
<1>8. ASSUME NEW i \in Handler, Handling(t, i), NEW wanted,
             Begin(t, "abort", wanted, "clean_abort", TRUE)
      PROVE  KeepsClean(t)
  <2>1. "clean_abort" \in WorkerJob \ {"step_auto"}
    BY DEF WorkerJob
  <2> QED
    BY <1>4, <1>8, <2>1
<1>9. CASE Abort(t)
  BY <1>2, <1>8, <1>9 DEF Abort, Handler, RequestKind
<1>10. CASE ContinueNodeClean(t)
  <2>1. Handling(t, "continue") /\ "continue" \in Handler /\ Prov(t) = "cleanwait"
        /\ "next_step" \in WorkerJob \ {"step_auto"}
    BY <1>10 DEF ContinueNodeClean, WorkerJob
  <2>2. CASE Begin(t, "resume", KeptTarget(t), "next_step", FALSE)
    <3>1. At(t) \notin robbed =>
              KeptTarget(t) = "manageable" \/ disk[At(t)] # "dirty"
      <4> SUFFICES ASSUME At(t) \notin robbed, ~Manual(t)
                   PROVE  disk[At(t)] # "dirty"
        BY DEF KeptTarget
      <4>1. /\ Fresh(t, At(t))
            /\ CleanEnough(db[At(t)].prov, db[At(t)].target, disk[At(t)])
            /\ Fits(db[At(t)].prov, db[At(t)].target)
        BY <1>1, <2>1, LockedClean
      <4>2. db[At(t)].prov = "cleanwait" /\ db[At(t)].target # "manageable"
        BY <2>1, <4>1 DEF Fresh, Prov, Manual
      <4>3. db[At(t)].target = "available"
        BY <4>1, <4>2 DEF Fits, Cleanings, Stable, State
      <4> QED
        BY <4>1, <4>2, <4>3 DEF CleanEnough
    <3> QED
      BY <1>4, <2>1, <2>2, <3>1
  <2> QED
    BY <1>8, <1>10, <2>1, <2>2 DEF ContinueNodeClean
<1>11. CASE UpdateNode(t)
  <2> DEFINE row == [db[At(t)] EXCEPT !.maint = ~@]
  <2>1. /\ db' = [db EXCEPT ![At(t)] = row] /\ Goto(t, "leave", snap[t])
        /\ UNCHANGED <<locks, undo, disk>> /\ Locked(t)
    BY <1>1, <1>11 DEF UpdateNode, Handler, RequestKind
  <2>2. row.prov = db[At(t)].prov /\ row.target = db[At(t)].target
    BY <1>t, <2>1, LockedHolds DEF Row
  <2> HIDE DEF row
  <2>3. db'[At(t)] = row
    BY <1>t, <2>1, LockedHolds
  <2>4. "leave" \notin Scrub
    BY DEF Scrub
  <2> QED
    BY <2>1, <2>2, <2>3, <2>4, CleanKeep
<1>12. CASE FailIfInState(t)
  <2>1. PICK k \in Handler :
           /\ Handling(t, k)
           /\ \/ \E wanted : \E j \in {"deploy_cleanup", "clean_cleanup"} :
                    \E hooked : Begin(t, "fail", wanted, j, hooked)
              \/ Advance(t, "fail", NoState, "leave") /\ UNCHANGED disk
    BY <1>12 DEF FailIfInState
  <2>2. {"deploy_cleanup", "clean_cleanup"} \subseteq WorkerJob \ {"step_auto"}
    BY DEF WorkerJob
  <2>3. ASSUME NEW wanted, NEW j \in {"deploy_cleanup", "clean_cleanup"}, NEW hooked,
               Begin(t, "fail", wanted, j, hooked)
        PROVE  KeepsClean(t)
    <3>1. j \in WorkerJob \ {"step_auto"} /\ j \notin {"clean_manual", "next_step"}
      BY <2>2, <2>3
    <3> QED
      BY <1>4, <2>1, <2>3, <3>1
  <2> QED
    BY <1>5, <2>1, <2>3
<1>13. CASE Refuse(t)
  BY <1>2, <1>13 DEF Refuse, Handling
<1> QED
  BY <1>6, <1>7, <1>9, <1>10, <1>11, <1>12, <1>13 DEF Handle

\* A thread goes on in the same state.
LEMMA CleanGoto ==
    ASSUME Scrubbed, NEW t \in Task, Locked(t), NEW j, Skip(t, j),
           j \notin {"clean_auto", "clean_manual"},
           At(t) \notin robbed =>
              /\ j = "next_step" /\ snap[t].node.target = "available" =>
                    disk[At(t)] # "dirty"
              /\ j = "step_auto" => disk[At(t)] # "dirty"
    PROVE  KeepsClean(t)
<1>1. Goto(t, j, snap[t]) /\ UNCHANGED <<locks, db, undo, disk>>
  BY DEF Skip
<1>2. job'[t] = j /\ (j \notin {"leave", "finished"} => snap'[t] = snap[t])
  BY <1>1, CleanTypes DEF Goto
<1>3. At(t)' = At(t)
  BY <1>1 DEF At, locks, lockVars
<1>4. ASSUME At(t) \notin robbed
      PROVE  /\ CleanEnough(db'[At(t)].prov, db'[At(t)].target, disk'[At(t)])
             /\ job'[t] \in {"leave", "finished"} \/ DiskOfJob(t, At(t))'
  <2>1. /\ DiskOfJob(t, At(t))
        /\ CleanEnough(db[At(t)].prov, db[At(t)].target, disk[At(t)])
    BY <1>4, LockedClean
  <2>2. undo'[t] # NoUndo =>
            CleanEnough(undo'[t].prov, undo'[t].target, disk'[At(t)])
    BY <1>1, <2>1 DEF DiskOfJob
  <2>3. ASSUME NEW n, n = At(t), j \notin {"leave", "finished"}
        PROVE  DiskOfJob(t, n)'
    BY <1>1, <1>2, <1>4, <2>2, <2>3 DEF DiskOfJob
  <2>4. CleanEnough(db'[At(t)].prov, db'[At(t)].target, disk'[At(t)])
    BY <1>1, <2>1
  <2> QED
    BY <1>2, <1>3, <2>3, <2>4
<1>5. UNCHANGED <<undo, disk>>
  BY <1>1
<1> QED
  BY <1>4, <1>5 DEF KeepsClean

\* A cleaning waits: for the agent of a node that is not dirty, or manually.
LEMMA CleanWait ==
    ASSUME Scrubbed, NEW t \in Task, Locked(t), NEW wanted,
           Advance(t, "wait", wanted, "finished"), UNCHANGED disk,
           At(t) \notin robbed => wanted = "manageable" \/ disk[At(t)] # "dirty"
    PROVE  KeepsClean(t)
<1>t. TaskInv
  BY CleanTypes
<1> DEFINE r == After(snap[t].fsm.state, "wait")
<1>1. job'[t] = "finished" /\ db'[At(t)].prov = r
  BY <1>t, AdvanceWrites
<1>2. <<snap[t].fsm.state, "wait", r>> \in Edges
  BY AdvancedEdge
<1>3. r # "available"
  BY <1>2, EdgeResults
<1>4. r = "cleanwait" /\ wanted = "manageable" => db'[At(t)].target = "manageable"
  <2> SUFFICES ASSUME r = "cleanwait", wanted = "manageable"
               PROVE  db'[At(t)].target = "manageable"
    OBVIOUS
  <2>1. r \notin Stable
    BY DEF Stable
  <2>2. db'[At(t)].target = Processed(snap[t].fsm, "wait", wanted).target
    BY <1>t, <2>1, AdvanceAims
  <2> QED
    BY <2>2 DEF Processed, NoState
<1> HIDE DEF r
<1>5. At(t) \notin robbed =>
          CleanEnough(db'[At(t)].prov, db'[At(t)].target, disk'[At(t)])
  BY <1>1, <1>3, <1>4 DEF CleanEnough
<1>6. UNCHANGED <<undo, disk>>
  BY DEF Advance
<1> QED
  BY <1>1, <1>5, <1>6 DEF KeepsClean

\* A thread's last event, that ends no cleaning.
LEMMA CleanLast ==
    ASSUME Scrubbed, NEW t \in Task, Locked(t),
           NEW e \in {"done", "fail", "error", "wait"}, NEW wanted, NEW j,
           Advance(t, e, wanted, j), UNCHANGED disk, j \notin Scrub,
           e = "fail" \/ snap[t].fsm.state # "cleaning"
    PROVE  KeepsClean(t)
<1>1. <<snap[t].fsm.state, e, After(snap[t].fsm.state, e)>> \in Edges
  BY AdvancedEdge
<1>2. After(snap[t].fsm.state, e) \notin {"available", "cleanwait"}
  BY <1>1, EdgeResults
<1> QED
  BY <1>2, CleanAdvance

LEMMA CleanMaintenance ==
    ASSUME Scrubbed, NEW t \in Task, Locked(t), NEW j, j \notin Scrub,
           SetMaintenance(t, j)
    PROVE  KeepsClean(t)
<1> DEFINE row == [db[At(t)] EXCEPT !.maint = TRUE]
           copy == [node |-> row, fsm |-> snap[t].fsm]
<1>1. /\ db' = [db EXCEPT ![At(t)] = row] /\ Goto(t, j, copy)
      /\ UNCHANGED <<locks, undo, disk>>
  BY DEF SetMaintenance, Save
<1>2. TaskInv /\ At(t) \in Node
  BY CleanTypes, LockedHolds
<1>3. db'[At(t)].prov = db[At(t)].prov /\ db'[At(t)].target = db[At(t)].target
  BY <1>1, <1>2, FlagRow
<1> HIDE DEF row, copy
<1> QED
  BY <1>1, <1>3, CleanKeep

LEMMA TearDownClean ==
    ASSUME Scrubbed, NEW t \in Task, TearDown(t)
    PROVE  KeepsClean(t)
<1>t. TaskInv
  BY CleanTypes
<1>1. /\ Locked(t) /\ At(t) \in Node /\ task[t].pc = "worker"
      /\ snap[t].fsm.state = "deleting"
  BY <1>t, WorkersCopy DEF TearDown, Doing, Locked, WorkerJob, SharedJob, StateOfJob
<1>2. CASE Advance(t, "error", NoState, "finished") /\ UNCHANGED disk
  BY <1>1, <1>2, CleanLast DEF Scrub
<1>3. CASE /\ Advance(t, "clean", NoState, "clean_auto")
           /\ disk' = [disk EXCEPT ![At(t)] = "scrubbing"]
  <2>1. job'[t] = "clean_auto"
        /\ db'[At(t)].prov = After(snap[t].fsm.state, "clean")
    BY <1>t, <1>1, <1>3, AdvanceWrites
  <2>2. <<snap[t].fsm.state, "clean", After(snap[t].fsm.state, "clean")>> \in Edges
    BY <1>3, AdvancedEdge
  <2>3. db'[At(t)].prov = "cleaning"
    BY <2>1, <2>2, EdgeResults
  <2>4. /\ disk'[At(t)] = "scrubbing"
        /\ \A n \in Node \ {At(t)} : disk'[n] = disk[n]
        /\ UNCHANGED <<locks, undo>>
    BY <1>1, <1>3, CleanTypes DEF Advance
  <2>5. At(t)' = At(t)
    BY <2>4 DEF At, locks, lockVars
  <2>6. undo'[t] = NoUndo
    BY <1>t, <1>1, <2>4 DEF TaskInv, UndoFits
  <2>7. ASSUME NEW n, n = At(t)
        PROVE  DiskOfJob(t, n)'
    BY <2>1, <2>4, <2>6, <2>7 DEF DiskOfJob
  <2>8. CleanEnough(db'[At(t)].prov, db'[At(t)].target, disk'[At(t)])
    BY <2>3 DEF CleanEnough
  <2> QED
    BY <2>4, <2>5, <2>7, <2>8 DEF KeepsClean
<1> QED
  BY <1>2, <1>3 DEF TearDown

LEMMA StartCleaningClean ==
    ASSUME Scrubbed, NEW t \in Task, StartCleaning(t)
    PROVE  KeepsClean(t)
<1>t. TaskInv
  BY CleanTypes
<1>1. /\ Locked(t) /\ task[t].pc = "worker"
      /\ job[t] \in {"clean_auto", "clean_manual"}
  BY <1>t, WorkersCopy DEF StartCleaning, Doing, Locked, WorkerJob, SharedJob
<1>2. At(t) \notin robbed =>
          /\ job[t] = "clean_auto" => disk[At(t)] # "dirty"
          /\ job[t] = "clean_manual" => snap[t].node.target = "manageable"
  BY <1>1, LockedClean DEF DiskOfJob
<1>3. CASE Skip(t, "next_step")
  BY <1>1, <1>2, <1>3, CleanGoto
<1>4. CASE Skip(t, "clean_failing") \/ Raises(t)
  BY <1>1, <1>4, CleanGoto DEF Raises
<1>5. ASSUME NEW wanted, Advance(t, "wait", wanted, "finished"), UNCHANGED disk,
             job[t] = "clean_manual" => wanted = "manageable"
      PROVE  KeepsClean(t)
  <2>1. At(t) \notin robbed => wanted = "manageable" \/ disk[At(t)] # "dirty"
    BY <1>1, <1>2, <1>5
  <2> QED
    BY <1>1, <1>5, <2>1, CleanWait
<1>6. AutomatedClean
  BY DEF Scrubbed
<1> QED
  BY <1>1, <1>3, <1>4, <1>5, <1>6 DEF StartCleaning

LEMMA ChooseCleaningClean ==
    ASSUME Scrubbed, NEW t \in Task, ChooseCleaning(t)
    PROVE  KeepsClean(t)
<1>t. TaskInv
  BY CleanTypes
<1>1. Locked(t) /\ job[t] = "next_step" /\ snap[t].fsm.state = "cleaning"
  BY <1>t, WorkersCopy
  DEF ChooseCleaning, Doing, Locked, WorkerJob, SharedJob, StateOfJob
<1>2. CASE Skip(t, "step_manual")
  BY <1>1, <1>2, CleanGoto
<1>3. CASE Skip(t, "step_auto") /\ ~Manual(t)
  <2>1. ASSUME At(t) \notin robbed
        PROVE  disk[At(t)] # "dirty"
    <3>1. /\ Fresh(t, At(t)) /\ DiskOfJob(t, At(t))
          /\ Fits(db[At(t)].prov, db[At(t)].target)
      BY <1>1, <2>1, LockedClean
    <3>2. db[At(t)].prov = "cleaning" /\ snap[t].node.target = db[At(t)].target
      BY <1>1, <3>1 DEF Fresh
    <3>3. snap[t].node.target = "available"
      BY <1>3, <3>1, <3>2 DEF Fits, Cleanings, Stable, State, Manual
    <3> QED
      BY <1>1, <3>1, <3>3 DEF DiskOfJob
  <2> QED
    BY <1>1, <1>3, <2>1, CleanGoto
<1> QED
  BY <1>2, <1>3 DEF ChooseCleaning

LEMMA RunCleanStepsClean ==
    ASSUME Scrubbed, NEW t \in Task, RunCleanSteps(t)
    PROVE  KeepsClean(t)
<1>t. TaskInv
  BY CleanTypes
<1>1. /\ Locked(t) /\ job[t] \in {"step_auto", "step_manual"}
      /\ At(t) \in Node /\ snap[t].fsm.state = "cleaning"
  BY <1>t, WorkersCopy
  DEF RunCleanSteps, Doing, Locked, WorkerJob, SharedJob, StateOfJob
<1>2. At(t) \notin robbed /\ job[t] = "step_auto" => disk[At(t)] # "dirty"
  BY <1>1, LockedClean DEF DiskOfJob
<1>3. CASE Skip(t, "clean_failing")
  BY <1>1, <1>3, CleanGoto
<1>4. ASSUME NEW wanted, Advance(t, "wait", wanted, "finished"), UNCHANGED disk,
             job[t] = "step_manual" => wanted = "manageable"
      PROVE  KeepsClean(t)
  <2>1. At(t) \notin robbed => wanted = "manageable" \/ disk[At(t)] # "dirty"
    BY <1>1, <1>2, <1>4
  <2> QED
    BY <1>1, <1>4, <2>1, CleanWait
<1>5. ASSUME NEW e \in {"done", "manage"}, Advance(t, e, NoState, "finished"),
             e = "done" => job[t] = "step_auto",
             disk' = [disk EXCEPT ![At(t)] = IF @ = "scrubbing" THEN "clean" ELSE @]
      PROVE  KeepsClean(t)
  <2>1. job'[t] = "finished" /\ db'[At(t)].prov = After(snap[t].fsm.state, e)
    BY <1>t, <1>1, <1>5, AdvanceWrites
  <2>2. <<snap[t].fsm.state, e, After(snap[t].fsm.state, e)>> \in Edges
    BY <1>5, AdvancedEdge
  <2>3. /\ db'[At(t)].prov # "cleanwait"
        /\ db'[At(t)].prov = "available" => e = "done"
    BY <1>5, <2>1, <2>2, EdgeResults
  <2>4. /\ disk'[At(t)] = IF disk[At(t)] = "scrubbing" THEN "clean" ELSE disk[At(t)]
        /\ \A n \in Node \ {At(t)} : disk'[n] = disk[n]
        /\ disk[At(t)] \in {"dirty", "scrubbing", "clean"}
    BY <1>1, <1>5, CleanTypes DEF DiskState
  <2>5. At(t) \notin robbed =>
            CleanEnough(db'[At(t)].prov, db'[At(t)].target, disk'[At(t)])
    BY <1>2, <1>5, <2>3, <2>4 DEF CleanEnough
  <2>6. UNCHANGED undo
    BY <1>5 DEF Advance
  <2> QED
    BY <2>1, <2>4, <2>5, <2>6 DEF KeepsClean
<1>6. CASE job[t] = "step_auto"
  BY <1>3, <1>4, <1>5, <1>6 DEF RunCleanSteps
<1>7. CASE job[t] = "step_manual"
  BY <1>3, <1>4, <1>5, <1>7 DEF RunCleanSteps
<1> QED
  BY <1>1, <1>6, <1>7

LEMMA WorkClean ==
    ASSUME Scrubbed, NEW t \in Task, Work(t)
    PROVE  KeepsClean(t)
<1>t. TaskInv
  BY CleanTypes
<1>1. ASSUME NEW j \in WorkerJob \ SharedJob, Doing(t, j)
      PROVE  Locked(t) /\ job[t] = j /\ StateOfJob(j, snap[t].fsm.state)
  BY <1>t, <1>1, WorkersCopy DEF Locked
<1>2. CASE (Deploy(t) /\ ~Raises(t)) \/ Verify(t) \/ DoAdoption(t)
  <2>1. PICK j \in {"deploying", "verifying", "adopting"},
             e \in {"done", "wait", "fail"} :
                Doing(t, j) /\ Advance(t, e, NoState, "finished") /\ UNCHANGED disk
    BY <1>2 DEF Deploy, Verify, DoAdoption
  <2>2. Locked(t) /\ snap[t].fsm.state # "cleaning"
    BY <1>1, <2>1 DEF WorkerJob, SharedJob, StateOfJob
  <2>3. "finished" \notin Scrub
    BY DEF Scrub
  <2> QED
    BY <2>1, <2>2, <2>3, CleanLast
<1>3. ASSUME NEW j \in WorkerJob \ SharedJob, Doing(t, j), Skip(t, "finished")
      PROVE  KeepsClean(t)
  BY <1>1, <1>3, CleanGoto
<1>r. CASE Deploy(t) /\ Raises(t)
  BY <1>3, <1>r DEF Deploy, Raises, WorkerJob, SharedJob
<1>4. CASE CleaningErrorHandler(t)
  <2>1. CASE Doing(t, "clean_failing") \/ Doing(t, "clean_cleanup")
    <3>1. Locked(t)
      BY <1>1, <2>1 DEF WorkerJob, SharedJob
    <3>2. PICK j \in {"fail_manual", "fail_auto"} : SetMaintenance(t, j)
      BY <1>4, <2>1 DEF CleaningErrorHandler, Doing
    <3>3. j \notin Scrub
      BY <3>2 DEF Scrub
    <3> QED
      BY <3>1, <3>2, <3>3, CleanMaintenance
  <2>2. CASE \E j \in {"fail_manual", "fail_auto"} : Doing(t, j)
    <3>1. Locked(t) /\ "finished" \notin Scrub
      BY <1>1, <2>2 DEF WorkerJob, SharedJob, Scrub
    <3>2. \/ \E wanted : Advance(t, "fail", wanted, "finished") /\ UNCHANGED disk
          \/ Skip(t, "finished")
      BY <1>4, <2>2 DEF CleaningErrorHandler, Doing
    <3> QED
      BY <3>1, <3>2, CleanLast, CleanGoto
  <2> QED
    BY <1>4, <2>1, <2>2 DEF CleaningErrorHandler
<1>5. CASE CleanAbort(t)
  <2>1. Locked(t) /\ "finished" \notin Scrub
    BY <1>1, <1>5 DEF CleanAbort, WorkerJob, SharedJob, Scrub
  <2> QED
    BY <1>5, <2>1, CleanMaintenance, CleanGoto DEF CleanAbort
<1>6. CASE DeployCleanup(t)
  BY <1>3, <1>6 DEF DeployCleanup, WorkerJob, SharedJob
<1>7. CASE Inspect(t)
  <2>1. Locked(t) /\ snap[t].fsm.state # "cleaning" /\ "finished" \notin Scrub
    BY <1>1, <1>7 DEF Inspect, WorkerJob, SharedJob, StateOfJob, Scrub
  <2>2. CASE \E e \in {"done", "fail"} :
                 Advance(t, e, NoState, "finished") /\ UNCHANGED disk
    BY <2>1, <2>2, CleanLast
  <2>3. CASE Introspect(t)
    <3>1. Goto(t, "finished", snap[t]) /\ UNCHANGED <<locks, undo, disk>>
          /\ UNCHANGED db
      BY <2>3 DEF Introspect
    <3> QED
      BY <2>1, <3>1, CleanKeep
  <2>4. CASE Skip(t, "finished")
    BY <2>1, <2>4, CleanGoto
  <2> QED
    BY <1>7, <2>2, <2>3, <2>4 DEF Inspect
<1> QED
  BY <1>2, <1>r, <1>4, <1>5, <1>6, <1>7, TearDownClean, StartCleaningClean,
     ChooseCleaningClean, RunCleanStepsClean DEF Work

\* A thread that leaves everything alone.
LEMMA CleanSame ==
    ASSUME Scrubbed, NEW t \in Task, UNCHANGED <<db, undo, disk>>,
           task[t].pc # "idle", job[t] # "finished",
           \/ job'[t] \in {"leave", "finished"}
           \/ At(t)' = At(t) /\ undo[t] = NoUndo /\ job'[t] \notin Scrub
    PROVE  KeepsClean(t)
<1>1. TaskInv /\ At(t) \in Node
  BY CleanTypes, HasNode
<1>2. At(t) \notin robbed =>
          CleanEnough(db'[At(t)].prov, db'[At(t)].target, disk'[At(t)])
  BY <1>1 DEF Scrubbed, DiskInv
<1>3. CASE job'[t] \in {"leave", "finished"}
  BY <1>2, <1>3 DEF KeepsClean
<1>4. CASE At(t)' = At(t) /\ undo[t] = NoUndo /\ job'[t] \notin Scrub
  <2>1. ASSUME NEW n, n = At(t)
        PROVE  DiskOfJob(t, n)'
    BY <1>4, PlainDisk
  <2>2. DiskOfJob(t, At(t))'
    BY <1>4, <2>1
  <2> QED
    BY <1>2, <2>2 DEF KeepsClean
<1> QED
  BY <1>3, <1>4

LEMMA AgentWorkClean ==
    ASSUME Scrubbed, NEW t \in Task, AgentWork(t)
    PROVE  KeepsClean(t)
<1>t. TaskInv /\ UndoFits(t) /\ job \in [Task -> Job] /\ task \in [Task -> TaskRecord]
  BY CleanTypes DEF TaskInv
<1>1. task[t].pc = "worker" /\ undo[t] = NoUndo
      /\ job[t] \in {"heartbeat", "heartbeat_locked", "agent_deploy", "agent_clean"}
  BY <1>t DEF UndoFits, AgentWork, HeartbeatUpgrade, HeartbeatIgnored,
              HeartbeatDeploying, AgentDeploy, HeartbeatCleaning, AgentClean, Doing
<1>2. job[t] # "heartbeat" => Locked(t) /\ StateOfJob(job[t], snap[t].fsm.state)
  BY <1>t, <1>1, WorkersCopy DEF Doing, Locked, WorkerJob, SharedJob
<1>s. {"finished", "agent_deploy", "agent_clean", "heartbeat", "clean_failing"}
         \cap Scrub = {}
  BY DEF Scrub
<1>3. CASE HeartbeatUpgrade(t)
  <2>1. UNCHANGED <<db, undo, disk, job>> /\ At(t)' = At(t) /\ job[t] = "heartbeat"
    BY <1>t, <1>3 DEF HeartbeatUpgrade, Upgrade, provVars, At, TaskRecord, Doing
  <2> QED
    BY <1>1, <1>s, <2>1, CleanSame
<1>4. ASSUME Goto(t, "finished", snap[t]), UNCHANGED <<db, undo, disk>>
      PROVE  KeepsClean(t)
  <2>1. job'[t] = "finished"
    BY <1>t, <1>4 DEF Goto
  <2> QED
    BY <1>1, <1>4, <2>1, CleanSame
<1>5. CASE HeartbeatIgnored(t)
  BY <1>4, <1>5 DEF HeartbeatIgnored, Skip
<1>6. ASSUME NEW j \in {"finished", "agent_clean"}, Touch(t, j), Locked(t)
      PROVE  KeepsClean(t)
  <2> DEFINE row == [db[At(t)] EXCEPT !.late = FALSE]
  <2>1. /\ db' = [db EXCEPT ![At(t)] = row] /\ Goto(t, j, snap[t])
        /\ UNCHANGED <<locks, undo, disk>>
    BY <1>6 DEF Touch
  <2>2. At(t) \in Node /\ j \notin Scrub
    BY <1>t, <1>6, <1>s, LockedHolds
  <2>3. db'[At(t)].prov = db[At(t)].prov /\ db'[At(t)].target = db[At(t)].target
    BY <1>t, <2>1, <2>2, FlagRow
  <2> HIDE DEF row
  <2> QED
    BY <1>6, <2>1, <2>2, <2>3, CleanKeep
<1>7. CASE HeartbeatDeploying(t)
  <2>1. Locked(t)
    BY <1>2, <1>7 DEF HeartbeatDeploying, Doing
  <2>2. CASE Advance(t, "resume", NoState, "agent_deploy") /\ UNCHANGED disk
    <3>1. <<snap[t].fsm.state, "resume", After(snap[t].fsm.state, "resume")>> \in Edges
      BY <2>2, AdvancedEdge
    <3>2. After(snap[t].fsm.state, "resume") \notin {"available", "cleanwait"}
      BY <3>1, EdgeResults
    <3> QED
      BY <1>s, <2>1, <2>2, <3>2, CleanAdvance
  <2>3. CASE Advance(t, "fail", NoState, "finished") /\ UNCHANGED disk
    BY <1>s, <2>1, <2>3, CleanLast
  <2> QED
    BY <1>6, <1>7, <2>1, <2>2, <2>3 DEF HeartbeatDeploying
<1>8. CASE AgentDeploy(t)
  <2>1. PICK e \in {"done", "wait", "fail"} :
            Advance(t, e, NoState, "finished") /\ UNCHANGED disk
    BY <1>8 DEF AgentDeploy
  <2>2. Locked(t) /\ snap[t].fsm.state # "cleaning"
    BY <1>2, <1>8 DEF AgentDeploy, Doing, StateOfJob
  <2> QED
    BY <1>s, <2>1, <2>2, CleanLast
<1>9. CASE HeartbeatCleaning(t)
  BY <1>2, <1>6, <1>9 DEF HeartbeatCleaning, Doing
<1>10. CASE AgentClean(t)
  <2>1. Locked(t)
    BY <1>2, <1>10 DEF AgentClean, Doing
  <2>2. CASE Skip(t, "clean_failing")
    BY <2>1, <2>2, CleanGoto
  <2> QED
    BY <1>4, <1>10, <2>2 DEF AgentClean, Skip
<1> QED
  BY <1>3, <1>5, <1>7, <1>8, <1>9, <1>10 DEF AgentWork

\* A verdict of the inspector on a node that is not being cleaned.
LEMMA RecordClean ==
    ASSUME Scrubbed, NEW t \in Task, RecordInspection(t),
           At(t) \notin robbed => snap[t].fsm.state # "cleaning"
    PROVE  KeepsClean(t)
<1>t. TaskInv
  BY CleanTypes
<1>1. PICK j \in InspectorJob \ {"check_result"}, e \in {"done", "fail"} :
          /\ Handling(t, j)
          /\ \/ Advance(t, e, NoState, "leave") /\ UNCHANGED disk
             \/ Skip(t, "leave")
  BY DEF RecordInspection
<1>2. Locked(t) /\ "leave" \notin Scrub
  BY <1>1, JobFacts DEF Locked, InBlock, Handling, SharedJob, Scrub
<1>3. CASE Advance(t, e, NoState, "leave") /\ UNCHANGED disk
  <2>1. job'[t] = "leave" /\ db'[At(t)].prov = After(snap[t].fsm.state, e)
    BY <1>t, <1>2, <1>3, AdvanceWrites
  <2>2. <<snap[t].fsm.state, e, After(snap[t].fsm.state, e)>> \in Edges
    BY <1>3, AdvancedEdge
  <2>3. snap[t].fsm.state # "cleaning" =>
            db'[At(t)].prov \notin {"available", "cleanwait"}
    BY <2>1, <2>2, EdgeResults
  <2>4. UNCHANGED <<undo, disk>>
    BY <1>3 DEF Advance
  <2>5. At(t) \notin robbed =>
            CleanEnough(db'[At(t)].prov, db'[At(t)].target, disk'[At(t)])
    BY <2>3 DEF CleanEnough
  <2> QED
    BY <2>1, <2>4, <2>5 DEF KeepsClean
<1>4. CASE Skip(t, "leave")
  BY <1>2, <1>4, CleanGoto
<1> QED
  BY <1>1, <1>3, <1>4

\* The states of before the event come back, and DiskInv has spoken of them.
LEMMA NoFreeWorkerClean ==
    ASSUME Scrubbed, NEW t \in Task, NoFreeWorker(t)
    PROVE  KeepsClean(t)
<1>1. TaskInv /\ UndoFits(t) /\ Placed(t) /\ job \in [Task -> Job]
      /\ db \in [Node -> Row]
  BY CleanTypes DEF TaskInv
<1>2. /\ job[t] \in WorkerJob /\ task[t].pc = "body"
      /\ UNCHANGED <<undo, disk>>
      /\ \E copy : Goto(t, "leave", copy)
  BY DEF NoFreeWorker, Save
<1>3. job'[t] = "leave" /\ job[t] \notin {"leave", "finished"}
  BY <1>1, <1>2 DEF Goto, WorkerJob
<1>4. CASE undo[t] = NoUndo
  <2>1. UNCHANGED <<db, undo, disk>>
    BY <1>2, <1>4 DEF NoFreeWorker
  <2> QED
    BY <1>2, <1>3, <2>1, CleanSame
<1>5. CASE undo[t] # NoUndo
  <2> DEFINE row == [db[At(t)] EXCEPT !.prov = undo[t].prov,
                                      !.target = undo[t].target, !.late = FALSE]
  <2>1. db' = [db EXCEPT ![At(t)] = row]
    BY <1>5 DEF NoFreeWorker, Save
  <2>2. At(t) \in Node /\ Holds(t, At(t))
    BY <1>1, <1>2, <1>3, <1>5 DEF UndoFits, Placed, Holds, At
  <2>3. row.prov = undo[t].prov /\ row.target = undo[t].target
    BY <1>1, <2>2 DEF Row
  <2> HIDE DEF row
  <2>4. db'[At(t)] = row
    BY <1>1, <2>1, <2>2
  <2>5. ASSUME At(t) \notin robbed
        PROVE  CleanEnough(undo[t].prov, undo[t].target, disk[At(t)])
    <3>1. Works(t, At(t))
      BY <1>3, <2>2, <2>5 DEF Works
    <3>2. DiskOfJob(t, At(t))
      BY <2>2, <3>1 DEF Scrubbed, DiskInv
    <3> QED
      BY <1>5, <3>2 DEF DiskOfJob
  <2>6. At(t) \notin robbed =>
            CleanEnough(db'[At(t)].prov, db'[At(t)].target, disk'[At(t)])
    BY <1>2, <2>3, <2>4, <2>5
  <2> QED
    BY <1>2, <1>3, <2>6 DEF KeepsClean
<1> QED
  BY <1>4, <1>5

-----------------------------------------------------------------------------
(* Without the inspector there are no verdicts.                            *)

NoVerdicts ==
    /\ \A t \in Task : job[t] \notin InspectorJob
    /\ \A h \in Host, n \in Node : <<n, "introspect">> \notin sweep[h]

\* A step that asks ironic-inspector for nothing.
NoQuestion ==
    \A h \in Host : \A w \in sweep'[h] : w \in sweep[h] \/ w[2] # "introspect"

LEMMA VerdictsStay ==
    ASSUME NoVerdicts, NoQuestion,
           \A t \in Task : job'[t] = job[t] \/ job'[t] \notin InspectorJob
    PROVE  NoVerdicts'
<1>1. \A n \in Node : <<n, "introspect">>[2] = "introspect"
  OBVIOUS
<1> QED
  BY <1>1 DEF NoVerdicts, NoQuestion

LEMMA VerdictsGoto ==
    ASSUME TaskInv, NoVerdicts, NoQuestion, NEW t \in Task, NEW j, NEW copy,
           j \notin InspectorJob, Goto(t, j, copy)
    PROVE  NoVerdicts'
<1>1. job \in [Task -> Job]
  BY DEF TaskInv, ProvTypeOK
<1>2. \A u \in Task : job'[u] = job[u] \/ job'[u] \notin InspectorJob
  BY <1>1 DEF Goto
<1> QED
  BY <1>2, VerdictsStay

\* The jobs of handlers and workers are not those of the inspector's thread.
LEMMA OtherJobs ==
    /\ Handler \cap InspectorJob = {} /\ WorkerJob \cap InspectorJob = {}
    /\ {"none", "leave", "finished"} \cap InspectorJob = {}
  BY JobFacts DEF Handler, RequestKind, WorkerJob

LEMMA NoVerdictsNext ==
    ASSUME TaskInv, NoVerdicts, ~UsesInspector, [ProvNext]_vars
    PROVE  NoVerdicts'
<1>s. sweep \in [Host -> SUBSET (Node \X (SweepKind \cup {"introspect"}))]
      /\ job \in [Task -> Job]
  BY DEF TaskInv, ProvTypeOK
<1>k. "introspect" \notin SweepKind /\ "restart" \in SweepKind /\ "offline" \in SweepKind
      /\ Timeout \subseteq SweepKind /\ SweepKind \subseteq Handler
  BY JobFacts, Jobs DEF Timeout
<1>u. ASSUME UNCHANGED sweep
      PROVE  NoQuestion
  BY <1>u DEF NoQuestion
<1>f. ASSUME NEW ts, Forgotten(ts), NoQuestion
      PROVE  NoVerdicts'
  <2>1. \A u \in Task : job'[u] = job[u] \/ job'[u] \notin InspectorJob
    BY <1>f, OtherJobs DEF Forgotten
  <2> QED
    BY <1>f, <2>1, VerdictsStay
<1>1. ASSUME NEW t \in Task, TaskCalls(t)
      PROVE  NoVerdicts'
  <2>1. PICK h \in Host, n \in Node :
           \/ \E j \in RequestKind : Request(t, h, n, j)
           \/ Heartbeat(t, h, n)
           \/ Continue(t, h, n)
           \/ \E k \in SweepKind \cup {"introspect"} : SweepNext(t, h, n, k)
           \/ CheckResult(t, h, n)
    BY <1>1 DEF TaskCalls, IntrospectRaises
  <2>2. ASSUME NEW j \in RequestKind \cup {"heartbeat", "continue"}, NEW copy,
               Goto(t, j, copy), UNCHANGED sweep
        PROVE  NoVerdicts'
    BY <1>u, <2>2, VerdictsGoto, OtherJobs, Jobs DEF WorkerJob
  <2>3. ASSUME NEW k \in SweepKind \cup {"introspect"}, SweepNext(t, h, n, k)
        PROVE  NoVerdicts'
    <3>1. k \in SweepKind
      BY <2>3 DEF SweepNext, NoVerdicts
    <3>2. NoQuestion
      BY <1>s, <2>3 DEF SweepNext, NoQuestion
    <3>3. k \notin InspectorJob
      BY <1>k, <3>1, OtherJobs
    <3> QED
      BY <2>3, <3>2, <3>3, VerdictsGoto DEF SweepNext, Call
  <2>4. ~CheckResult(t, h, n)
    BY DEF CheckResult
  <2> QED
    BY <2>1, <2>2, <2>3, <2>4 DEF Request, Heartbeat, Continue, Call
<1>2. ASSUME NEW t \in Task, TakeLock(t)
      PROVE  NoVerdicts'
  <2>1. job[t] \notin InspectorJob /\ "heartbeat_locked" \notin InspectorJob
    BY OtherJobs DEF NoVerdicts, WorkerJob
  <2> QED
    BY <1>2, <1>u, <2>1, VerdictsGoto DEF TakeLock
<1>3. ASSUME NEW t \in Task, LockBusy(t) \/ Leave(t) \/ Finished(t)
      PROVE  NoVerdicts'
  <2>1. UNCHANGED job => NoVerdicts'
    BY <1>3, <1>u, VerdictsStay DEF LockBusy, Leave, Finished
  <2> QED
    BY <1>3, <1>u, <1>f, <2>1 DEF LockBusy, Leave, Finished
<1>4. ASSUME NEW t \in Task, SpawnWorker(t)
      PROVE  NoVerdicts'
  BY <1>4, <1>u, VerdictsStay DEF SpawnWorker
<1>5. ASSUME NEW t \in Task, NoFreeWorker(t)
      PROVE  NoVerdicts'
  <2>1. \E copy : Goto(t, "leave", copy)
    BY <1>5 DEF NoFreeWorker, Save
  <2>2. NoQuestion
    BY <1>s, <1>5 DEF NoFreeWorker, NoQuestion
  <2> QED
    BY <2>1, <2>2, VerdictsGoto, OtherJobs
<1>6. ASSUME NEW t \in Task, Handle(t)
      PROVE  NoVerdicts'
  <2>1. \E j \in WorkerJob \cup {"leave"} : \E copy : Goto(t, j, copy)
    BY <1>6 DEF Handle, DoNodeDeploy, DoNodeTearDown, DoNodeClean, InspectHardware,
                Provide, Manage, Adopt, Abort, UpdateNode, ContinueNodeClean,
                FailIfInState, Refuse, Begin, Advance, Skip, ProcessEvent, Save,
                WorkerJob
  <2>2. UNCHANGED sweep
    BY <1>6 DEF Handle, DoNodeDeploy, DoNodeTearDown, DoNodeClean, InspectHardware,
                Provide, Manage, Adopt, Abort, UpdateNode, ContinueNodeClean,
                FailIfInState, Refuse, Begin, Advance, Skip
  <2> QED
    BY <1>u, <2>1, <2>2, VerdictsGoto, OtherJobs
<1>7. ASSUME NEW t \in Task, Work(t)
      PROVE  NoVerdicts'
  <2>1. \E j \in WorkerJob \cup {"finished"} : \E copy : Goto(t, j, copy)
    BY <1>7 DEF Work, Deploy, Raises, TearDown, StartCleaning, ChooseCleaning,
                RunCleanSteps, CleaningErrorHandler, SetMaintenance, CleanAbort,
                DeployCleanup, Verify, DoAdoption, Inspect, Introspect,
                Advance, Skip, ProcessEvent, Save, WorkerJob
  <2>2. UNCHANGED sweep
    BY <1>7 DEF Work, Deploy, Raises, TearDown, StartCleaning, ChooseCleaning,
                RunCleanSteps, CleaningErrorHandler, SetMaintenance, CleanAbort,
                DeployCleanup, Verify, DoAdoption, Inspect, Advance, Skip
  <2> QED
    BY <1>u, <2>1, <2>2, VerdictsGoto, OtherJobs
<1>8. ASSUME NEW t \in Task, AgentWork(t)
      PROVE  NoVerdicts'
  <2>1. \/ UNCHANGED job
        \/ \E j \in WorkerJob \cup {"finished"} : \E copy : Goto(t, j, copy)
    BY <1>8 DEF AgentWork, HeartbeatUpgrade, HeartbeatIgnored, HeartbeatDeploying,
                AgentDeploy, HeartbeatCleaning, AgentClean, Touch, Advance, Skip,
                ProcessEvent, Save, WorkerJob, provVars
  <2>2. UNCHANGED sweep
    BY <1>8 DEF AgentWork, HeartbeatUpgrade, HeartbeatIgnored, HeartbeatDeploying,
                AgentDeploy, HeartbeatCleaning, AgentClean, Touch, Advance, Skip,
                provVars
  <2> QED
    BY <1>u, <2>1, <2>2, VerdictsGoto, VerdictsStay, OtherJobs
<1>9. ASSUME NEW t \in Task, CheckStatus(t) \/ RecordInspection(t)
      PROVE  FALSE
  BY <1>9, JobFacts DEF CheckStatus, RecordInspection, Handling, NoVerdicts
<1>10. ASSUME NEW h \in Host, ConductorStep(h)
       PROVE  NoVerdicts'
  <2>1. CASE Die(h)
    <3>1. NoQuestion
      BY <1>s, <2>1 DEF Die, NoQuestion
    <3> QED
      BY <1>f, <2>1, <3>1 DEF Die
  <2>2. ASSUME NoQuestion, UNCHANGED job
        PROVE  NoVerdicts'
    BY <2>2, VerdictsStay
  <2>3. CASE Stop(h)
    <3>1. NoQuestion
      BY <1>s, <2>3 DEF Stop, NoQuestion
    <3> QED
      BY <2>2, <2>3, <3>1 DEF Stop
  <2>4. ASSUME NEW S \in SUBSET Node, NEW k, k # "introspect", UNCHANGED job,
               \/ sweep' = [sweep EXCEPT ![h] = S \X {k}]
               \/ sweep' = [sweep EXCEPT ![h] = @ \cup (S \X {k})]
               \/ UNCHANGED sweep
        PROVE  NoVerdicts'
    <3>1. \A w \in S \X {k} : w[2] # "introspect"
      BY <2>4
    <3>2. NoQuestion
      BY <1>s, <2>4, <3>1 DEF NoQuestion
    <3> QED
      BY <2>2, <2>4, <3>2
  <2>5. CASE \E n \in Node : IntrospectReturns(h, n)
    BY <2>5 DEF IntrospectReturns, NoVerdicts
  <2>6. CASE \E S \in SUBSET Node :
                \/ Recover(h, S)
                \/ CheckDeployingStatus(h, S)
                \/ \E k \in Timeout : CheckTimeouts(h, k, S)
                \/ \E n \in Node, tag \in Host : BreakAndFail(h, n, tag, S)
    <3>1. PICK S \in SUBSET Node :
                \/ Recover(h, S)
                \/ CheckDeployingStatus(h, S)
                \/ \E k \in Timeout : CheckTimeouts(h, k, S)
                \/ \E n \in Node, tag \in Host : BreakAndFail(h, n, tag, S)
      BY <2>6
    <3>2. CASE Recover(h, S)
      <4>1. sweep' = [sweep EXCEPT ![h] = S \X {"restart"}] /\ UNCHANGED job
        BY <3>2 DEF Recover
      <4>2. "restart" # "introspect"
        OBVIOUS
      <4> QED
        BY <2>4, <4>1, <4>2
    <3>3. CASE CheckDeployingStatus(h, S)
      BY <1>u, <2>2, <3>3 DEF CheckDeployingStatus, provVars
    <3>4. CASE \E k \in Timeout : CheckTimeouts(h, k, S)
      <4>1. PICK k \in Timeout : CheckTimeouts(h, k, S)
        BY <3>4
      <4>2. k # "introspect"
        BY <1>k
      <4>3. sweep' = [sweep EXCEPT ![h] = @ \cup (S \X {k})] /\ UNCHANGED job
        BY <4>1 DEF CheckTimeouts
      <4> QED
        BY <2>4, <4>2, <4>3
    <3>5. CASE \E n \in Node, tag \in Host : BreakAndFail(h, n, tag, S)
      BY <1>k, <2>4, <3>5 DEF BreakAndFail
    <3> QED
      BY <3>1, <3>2, <3>3, <3>4, <3>5
  <2>7. CASE Aside
    BY <1>u, <2>2, <2>7 DEF Aside, provVars
  <2> QED
    BY <1>10, <2>1, <2>3, <2>5, <2>6, <2>7 DEF ConductorStep
<1>11. CASE (\E n \in Node : Age(n) \/ LoseCast(n)) \/ UNCHANGED vars
  BY <1>u, <1>11, VerdictsStay DEF Age, LoseCast, vars, provVars
<1> QED
  BY <1>1, <1>2, <1>3, <1>4, <1>5, <1>6, <1>7, <1>8, <1>9, <1>10, <1>11
  DEF ProvNext, TaskProceeds

-----------------------------------------------------------------------------
(* DiskInv.                                                                *)

\* A verdict of the inspector does not meet a cleaning.
VerdictsApart ==
    \A t \in Task : RecordInspection(t) /\ At(t) \notin robbed =>
        snap[t].fsm.state # "cleaning"

LEMMA CleanShape ==
    ASSUME Scrubbed, [ProvNext]_vars, VerdictsApart
    PROVE  \/ QuietStep
           \/ \E t \in Task : SpawnWorker(t) \/ (WriteStep(t) /\ KeepsClean(t))
<1>1. TaskInv /\ robbed \subseteq robbed'
  BY CleanTypes, ProvLocks
<1>2. ASSUME NEW t \in Task, Handle(t) \/ Work(t)
      PROVE  WriteStep(t) /\ KeepsClean(t)
  BY <1>1, <1>2, HandleShape, WorkShape, HandleClean, WorkClean
<1>3. ASSUME NEW t \in Task, AgentWork(t) \/ NoFreeWorker(t)
      PROVE  QuietStep \/ (WriteStep(t) /\ KeepsClean(t))
  BY <1>1, <1>3, AgentShape, NoFreeWorkerShape, AgentWorkClean, NoFreeWorkerClean
<1>4. ASSUME NEW t \in Task, RecordInspection(t)
      PROVE  WriteStep(t) /\ KeepsClean(t)
  BY <1>1, <1>4, RecordShape, RecordClean DEF VerdictsApart
<1>5. ASSUME NEW t \in Task,
             TaskCalls(t) \/ TakeLock(t) \/ LockBusy(t) \/ Leave(t)
                \/ CheckStatus(t) \/ Finished(t)
      PROVE  QuietStep
  BY <1>1, <1>5, LifeShape
<1>6. CASE \/ \E h \in Host : ConductorStep(h)
           \/ \E n \in Node : Age(n) \/ LoseCast(n)
           \/ UNCHANGED vars
  BY <1>1, <1>6, ConductorShape
<1> QED
  BY <1>2, <1>3, <1>4, <1>5, <1>6 DEF ProvNext, TaskProceeds

LEMMA SpawnAt ==
    ASSUME TaskInv, NEW t \in Task, SpawnWorker(t)
    PROVE  At(t)' = At(t)
<1>1. task \in [Task -> TaskRecord] /\ task' = [task EXCEPT ![t].pc = "worker"]
  BY DEF TaskInv, ProvTypeOK, TypeOK, SpawnWorker, Spawn
<1> QED
  BY <1>1 DEF At, TaskRecord

\* The worker of a task with a shared lock writes nothing.
LEMMA SharedSpawn ==
    ASSUME TaskInv, NEW t \in Task, SpawnWorker(t), ~Holds(t, At(t))
    PROVE  disk'[At(t)] = disk[At(t)]
<1>1. /\ task[t].pc = "body" /\ job[t] \in WorkerJob /\ At(t) \in Node
      /\ disk'[At(t)] = DiskOnSpawn(t) /\ Placed(t)
  BY SpawnShape DEF TaskInv
<1>2. job[t] \in SharedJob
  BY <1>1 DEF Placed, Holds, At, WorkerJob
<1> QED
  BY <1>1, <1>2 DEF DiskOnSpawn, SharedJob

\* A worker has its thread: what it is going to write on the disks fits the row.
LEMMA SpawnDisk ==
    ASSUME Scrubbed, NEW t \in Task, SpawnWorker(t), At(t) \notin robbed,
           Holds(t, At(t))
    PROVE  /\ CleanEnough(db[At(t)].prov, db[At(t)].target, disk'[At(t)])
           /\ DiskOfJob(t, At(t))'
<1>1. /\ TaskInv /\ disk \in [Node -> DiskState]
      /\ OthersRest(t) /\ UNCHANGED <<db, snap, job, robbed>>
      /\ job[t] \in WorkerJob /\ At(t) \in Node /\ undo'[t] = NoUndo
      /\ disk'[At(t)] = DiskOnSpawn(t)
  BY CleanTypes, SpawnShape
<1>2. Works(t, At(t))
  BY <1>1 DEF Works, WorkerJob
<1>3. /\ Fresh(t, At(t)) /\ DiskOfJob(t, At(t))
      /\ CleanEnough(db[At(t)].prov, db[At(t)].target, disk[At(t)])
      /\ StateOfJob(job[t], snap[t].fsm.state)
  BY <1>1, <1>2 DEF Scrubbed, FreshInv, DiskInv, TaskInv, CopyOfJob
<1>4. CASE job[t] \in {"deploying", "adopting", "clean_manual", "clean_auto"}
  <2>1. db[At(t)].prov \in {"deploying", "adopting", "cleaning"}
    BY <1>3, <1>4 DEF StateOfJob, Fresh
  <2>2. CleanEnough(db[At(t)].prov, db[At(t)].target, disk'[At(t)])
    BY <2>1 DEF CleanEnough
  <2>3. ASSUME NEW n, n = At(t)
        PROVE  DiskOfJob(t, n)'
    <3>1. job[t] = "clean_auto" => disk'[n] = "scrubbing"
      BY <1>1, <2>3 DEF DiskOnSpawn
    <3>2. job[t] = "clean_manual" => snap[t].node.target = "manageable"
      BY <1>3 DEF DiskOfJob
    <3> QED
      BY <1>1, <1>4, <3>1, <3>2 DEF DiskOfJob
  <2>4. At(t)' = At(t)
    BY <1>1, SpawnAt
  <2> QED
    BY <2>2, <2>3, <2>4
<1>5. CASE job[t] \notin {"deploying", "adopting", "clean_manual", "clean_auto"}
  <2>1. disk'[At(t)] = disk[At(t)]
    BY <1>1, <1>5 DEF DiskOnSpawn
  <2>2. ASSUME NEW n, n = At(t)
        PROVE  DiskOfJob(t, n)'
    BY <1>1, <1>3, <1>5, <2>1, <2>2 DEF DiskOfJob
  <2>3. At(t)' = At(t)
    BY <1>1, SpawnAt
  <2> QED
    BY <1>3, <2>1, <2>2, <2>3
<1> QED
  BY <1>4, <1>5

LEMMA DiskInvNext ==
    ASSUME Scrubbed, [ProvNext]_vars, VerdictsApart
    PROVE  Scrubbed'
<1>1. /\ AutomatedClean /\ FreshInv /\ FreshInv' /\ TaskInv /\ robbed \subseteq robbed'
  BY FreshInvNext, ProvLocks, CleanTypes DEF Scrubbed
<1>d. /\ \A n \in Node \ robbed : CleanEnough(db[n].prov, db[n].target, disk[n])
      /\ \A t \in Task, n \in Node : Works(t, n) => DiskOfJob(t, n)
  BY DEF Scrubbed, DiskInv
<1>2. CASE QuietStep
  <2>1. ASSUME NEW n \in Node \ robbed'
        PROVE  CleanEnough(db'[n].prov, db'[n].target, disk'[n])
    BY <1>1, <1>2, <1>d DEF QuietStep
  <2>2. ASSUME NEW u \in Task, NEW n \in Node, Works(u, n)'
        PROVE  DiskOfJob(u, n)'
    <3>1. CASE Works(u, n) /\ SameTask(u)
      BY <1>2, <1>d, <3>1 DEF QuietStep, SameTask, DiskOfJob
    <3>2. CASE job'[u] \in Loading /\ undo'[u] = NoUndo
      <4>1. job'[u] \notin Scrub
        BY <3>2, JobFacts DEF Loading, Handler, RequestKind, Scrub
      <4> QED
        BY <3>2, <4>1, PlainDisk
    <3> QED
      BY <1>2, <2>2, <3>1, <3>2 DEF QuietStep
  <2> QED
    BY <1>1, <2>1, <2>2 DEF Scrubbed, DiskInv
<1>3. ASSUME NEW t \in Task, SpawnWorker(t)
      PROVE  Scrubbed'
  <2>1. /\ OthersRest(t) /\ UNCHANGED <<db, snap, job, robbed>> /\ At(t) \in Node
        /\ \A n \in Node : Holds(t, n)' <=> Holds(t, n)
        /\ \A n \in Node \ {At(t)} : disk'[n] = disk[n]
    BY <1>1, <1>3, SpawnShape
  <2>2. /\ Holds(t, At(t)) => At(t) \in robbed \/ CleanEnough(db[At(t)].prov, db[At(t)].target, disk'[At(t)])
        /\ Holds(t, At(t)) => At(t) \in robbed \/ DiskOfJob(t, At(t))'
    BY <1>3, SpawnDisk
  <2>3. ~Holds(t, At(t)) => disk'[At(t)] = disk[At(t)]
    BY <1>1, <1>3, SharedSpawn
  <2>4. ASSUME NEW n \in Node \ robbed'
        PROVE  CleanEnough(db'[n].prov, db'[n].target, disk'[n])
    BY <1>d, <2>1, <2>2, <2>3, <2>4
  <2>5. ASSUME NEW u \in Task, NEW n \in Node, Works(u, n)'
        PROVE  DiskOfJob(u, n)'
    <3>1. CASE u = t
      <4>1. n = At(t) /\ Holds(t, n) /\ n \notin robbed
        BY <2>1, <2>5, <3>1 DEF Works, Holds, At
      <4>2. At(t)' = At(t)
        BY <1>1, <1>3, SpawnAt
      <4>3. DiskOfJob(t, At(t))'
        BY <2>2, <4>1
      <4>4. ASSUME NEW m, m = At(t)', DiskOfJob(t, At(t))'
            PROVE  DiskOfJob(t, m)'
        BY <4>4 DEF DiskOfJob
      <4> QED
        BY <3>1, <4>1, <4>2, <4>3, <4>4
    <3>2. CASE u # t
      <4>1. SameTask(u) /\ Works(u, n)
        BY <2>1, <2>5, <3>2 DEF OthersRest, SameTask, Works, Holds
      <4>2. disk'[n] = disk[n]
        <5>1. CASE n # At(t)
          BY <2>1, <5>1
        <5>2. CASE n = At(t)
          <6>1. ~Holds(t, n)
            BY <1>1, <3>2, <4>1, OneWorks DEF Works
          <6> QED
            BY <2>3, <5>2, <6>1
        <5> QED
          BY <5>1, <5>2
      <4> QED
        BY <1>d, <4>1, <4>2 DEF SameTask, DiskOfJob
    <3> QED
      BY <3>1, <3>2
  <2> QED
    BY <1>1, <2>4, <2>5 DEF Scrubbed, DiskInv
<1>4. ASSUME NEW t \in Task, WriteStep(t), KeepsClean(t)
      PROVE  Scrubbed'
  <2>1. /\ At(t) \in Node /\ Holds(t, At(t)) /\ UNCHANGED <<task, robbed>>
        /\ At(t)' = At(t) /\ job[t] \notin {"leave", "finished"}
        /\ \A n \in Node \ {At(t)} : db'[n] = db[n]
        /\ \A u \in Task \ {t} : job'[u] = job[u] /\ snap'[u] = snap[u]
    BY <1>4 DEF WriteStep, locks, lockVars, At
  <2>2. ASSUME NEW n \in Node \ robbed'
        PROVE  CleanEnough(db'[n].prov, db'[n].target, disk'[n])
    <3>1. CASE n = At(t)
      BY <1>4, <2>1, <3>1 DEF KeepsClean
    <3>2. CASE n # At(t)
      BY <1>4, <1>d, <2>1, <3>2 DEF KeepsClean
    <3> QED
      BY <3>1, <3>2
  <2>3. ASSUME NEW u \in Task, NEW n \in Node, Works(u, n)'
        PROVE  DiskOfJob(u, n)'
    <3>1. Holds(u, n) /\ n \notin robbed /\ job'[u] \notin {"leave", "finished"}
      BY <2>1, <2>3 DEF Works, Holds
    <3>2. CASE u = t
      <4>1. n = At(t)
        BY <3>1, <3>2 DEF Holds, At
      <4>2. DiskOfJob(t, At(t))'
        BY <1>4, <3>1, <3>2, <4>1 DEF KeepsClean
      <4>3. ASSUME NEW m, m = At(t)', DiskOfJob(t, At(t))'
            PROVE  DiskOfJob(t, m)'
        BY <4>3 DEF DiskOfJob
      <4> QED
        BY <2>1, <3>2, <4>1, <4>2, <4>3
    <3>3. CASE u # t
      <4>1. n # At(t)
        BY <1>1, <2>1, <3>1, <3>3, OneWorks
      <4>2. /\ disk'[n] = disk[n] /\ undo'[u] = undo[u]
            /\ job'[u] = job[u] /\ snap'[u] = snap[u] /\ task'[u] = task[u]
        BY <1>4, <2>1, <3>3, <4>1 DEF KeepsClean
      <4>3. Works(u, n)
        BY <3>1, <4>2 DEF Works
      <4> QED
        BY <1>d, <4>2, <4>3 DEF DiskOfJob
    <3> QED
      BY <3>2, <3>3
  <2> QED
    BY <1>1, <2>2, <2>3 DEF Scrubbed, DiskInv
<1> QED
  BY <1>2, <1>3, <1>4, CleanShape

\* No cleaning is left behind: nothing fails, there are threads enough and
\* what _do_node_clean calls raises what it catches.
CleaningsKept ==
    /\ Faults = {} /\ IsFiniteSet(Task) /\ Cardinality(Task) <= PoolSize
    /\ Uncaught \cap {"clean_auto", "clean_manual"} = {}

\* Why no verdict meets a cleaning: there are none, or a cleaning is always in
\* the hands of the task that is going to end it.
VerdictsHarmless ==
    \/ ~UsesInspector /\ NoVerdicts
    \/ CleaningsKept /\ CalmWork

CleanInv == FreshInv /\ VerdictsHarmless /\ (AutomatedClean => DiskInv)

LEMMA HarmlessApart ==
    ASSUME FreshInv, VerdictsHarmless
    PROVE  VerdictsApart
<1> SUFFICES ASSUME NEW t \in Task, RecordInspection(t), At(t) \notin robbed,
                    snap[t].fsm.state = "cleaning"
             PROVE  FALSE
  BY DEF VerdictsApart
<1>1. TaskInv /\ InBlock(t) /\ job[t] \in InspectorJob
  BY JobFacts DEF FreshInv, RecordInspection, Handling, InBlock, SharedJob
<1>2. ~NoVerdicts
  BY <1>1 DEF NoVerdicts
<1>3. CleaningsKept /\ CalmWork
  BY <1>2 DEF VerdictsHarmless
<1>4. At(t) \in Node /\ Works(t, At(t))
  BY <1>1, LockedHolds DEF Works, Locked
<1>5. db[At(t)].prov = "cleaning"
  BY <1>4 DEF FreshInv, Fresh
<1>6. ~MayAbandon("cleaning")
  <2>1. Cardinality(Task) \in Nat /\ PoolSize \in Nat
    BY <1>3, FS_CardinalityType, TaskManagerAssumption DEF CleaningsKept
  <2> QED
    BY <1>3, <2>1 DEF MayAbandon, CleaningsKept
<1>7. PICK u \in Task : Holds(u, At(t)) /\ job[u] \in Ending
  <2>1. "cleaning" \in Working
    BY DEF Working, Unstable, State, Stable
  <2> QED
    BY <1>3, <1>4, <1>5, <1>6, <2>1 DEF CalmWork, WorkInv
<1>8. u = t
  BY <1>4, <1>7, OneWorks DEF Works
<1> QED
  BY <1>1, <1>7, <1>8, JobFacts DEF Ending

\* A node is not offered to a new user before an automated cleaning has run all
\* its steps since the node last held something: however often a cleaning is
\* begun, fails, is aborted or is cut by a crash, and whatever is restored when
\* no thread is free.  The hypothesis is there for the inspector, whose verdict
\* is processed under the upgraded lock without another look at the state: on a
\* node whose cleaning was abandoned by a crash, for want of a thread or by what
\* its driver raised, it is the "done" of the cleaning.
THEOREM AvailableIsCleanHolds ==
    ASSUME ~UsesInspector \/ CleaningsKept
    PROVE  ProvSpec => []AvailableIsClean
<1>1. ProvInit => CleanInv
  <2> SUFFICES ASSUME ProvInit PROVE CleanInv
    OBVIOUS
  <2>1. FreshInv
    BY FreshInvInit
  <2>2. NoVerdicts
    BY OtherJobs DEF ProvInit, NoVerdicts
  <2>3. Faults = {} /\ IsFiniteSet(Task) => CalmWork
    BY CalmWorkInit
  <2>4. VerdictsHarmless
    BY <2>2, <2>3 DEF VerdictsHarmless, CleaningsKept
  <2>5. ASSUME NEW n \in Node
        PROVE  CleanEnough(db[n].prov, db[n].target, disk[n])
    <3>1. db[n].prov \in {"enroll", "available"}
      BY ProvisioningAssumption DEF ProvInit, NewRow
    <3>2. db[n].prov = "available" => disk[n] = "clean"
      BY DEF ProvInit
    <3> QED
      BY <3>1, <3>2 DEF CleanEnough
  <2>6. \A t \in Task, n \in Node : ~Works(t, n)
    BY IdleTaskType DEF ProvInit, Init, Works, Holds
  <2> QED
    BY <2>1, <2>4, <2>5, <2>6 DEF CleanInv, DiskInv
<1>2. CleanInv /\ [ProvNext]_vars => CleanInv'
  <2> SUFFICES ASSUME CleanInv, [ProvNext]_vars PROVE CleanInv'
    OBVIOUS
  <2>1. FreshInv /\ FreshInv' /\ TaskInv
    BY FreshInvNext DEF CleanInv, FreshInv
  <2>2. VerdictsHarmless'
    BY <2>1, NoVerdictsNext, CalmWorkNext DEF CleanInv, VerdictsHarmless, CleaningsKept
  <2>3. AutomatedClean => DiskInv'
    BY <2>1, HarmlessApart, DiskInvNext DEF CleanInv, Scrubbed
  <2> QED
    BY <2>1, <2>2, <2>3 DEF CleanInv
<1>3. CleanInv => AvailableIsClean
  BY DEF CleanInv, DiskInv, CleanEnough, AvailableIsClean
<1> QED
  BY <1>1, <1>2, <1>3, PTL DEF ProvSpec
=============================================================================
