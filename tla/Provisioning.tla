---------------------------- MODULE Provisioning -----------------------------
(***************************************************************************)
(* What the conductors do to a node's provision state under its lock: the  *)
(* RPC handlers and workers of ironic/conductor/manager.py, the error      *)
(* handlers of conductor/utils.py, the timeouts and the restart recovery   *)
(* of conductor/base_manager.py, the agent's heartbeat (drivers/modules/   *)
(* agent_base_vendor.py) and the results of ironic-inspector (drivers/     *)
(* modules/inspector.py), composed with the locks of TaskManager.          *)
(*                                                                         *)
(* A task works on a copy of the node's row: process_event decides by the  *)
(* copy and overwrites the row, whoever holds the lock by then.  Drivers   *)
(* are external: a call of theirs returns or raises, nondeterministically. *)
(* Which nodes a conductor's hash ring maps to it is not modelled: a       *)
(* periodic task handles any subset of the nodes its filters match.        *)
(***************************************************************************)
EXTENDS TaskManager, ProvisionStates

CONSTANTS
    Requests,        \* the operations that users ask for
    CreatedAs,       \* the states that nodes are created in
    AutomatedClean,  \* [conductor]automated_clean
    UsesInspector,   \* the nodes have the inspect interface of inspector.py
    Uncaught         \* the spawned methods in which a driver, or Swift, may
                     \* raise or return what the method does not expect

RequestKind == {"deploy", "rebuild", "delete", "clean", "provide", "manage",
                "adopt", "abort", "inspect", "maintain"}

ASSUME ProvisioningAssumption ==
    /\ Requests \subseteq RequestKind
    /\ CreatedAs \subseteq {"enroll", "available"}
    /\ {AutomatedClean, UsesInspector} \subseteq BOOLEAN
    /\ Uncaught \subseteq {"deploying", "clean_auto", "clean_manual"}

VARIABLES
    db,     \* [Node -> Row]: the nodes table
    snap,   \* [Task -> Copy]: task.node and task.fsm
    undo,   \* [Task -> Undo]: the arguments of provisioning_error_handler
    job,    \* [Task -> Job]: the handler or spawned method, and where it is
    sweep,  \* [Host -> set of <<node, kind>>]: the nodes that a running
            \* _fail_if_in_state has read and not yet handled, or whose
            \* introspection has been asked for ("introspect")
    casts,  \* the nodes with a continue_node_clean message in flight
    disk,   \* history: [Node -> DiskState]: what is on the node's disks
    robbed  \* history: the nodes of which a task has ever lost its lock

provVars == <<db, snap, undo, job, sweep, casts, disk>>
locks == <<lockVars, robbed>>
vars == <<locks, provVars>>

\* "late": provision_updated_at (or inspection_started_at) is older than the
\* timeout of the state.
Row == [prov : State, target : Stable \cup {NoState},
        maint : BOOLEAN, late : BOOLEAN]
Copy == [node : Row, fsm : Machine]
Undo == [prov : State \cup {NoState}, target : Stable \cup {NoState}]

\* initial_node_provision_state: ENROLL, or AVAILABLE for old API versions.
NewRow(s) == [prov |-> s, target |-> NoState, maint |-> FALSE, late |-> FALSE]
Loaded(row) == [node |-> row, fsm |-> Initialized(row.prov, row.target)]
NoCopy == Loaded(NewRow("enroll"))
NoUndo == [prov |-> NoState, target |-> NoState]

\* The callers of _fail_if_in_state, and the state each is about.
Expected == [deploy_timeout |-> "deploywait", clean_timeout |-> "cleanwait",
             inspect_timeout |-> "inspecting", offline |-> "deploying",
             restart |-> "deploying"]
Timeout == {"deploy_timeout", "clean_timeout", "inspect_timeout"}
SweepKind == DOMAIN Expected

\* "introspect": the thread of _start_inspection; the other jobs are those of
\* the loop of _periodic_check_result.
Verdict == [done |-> "inspector_done", fail |-> "inspector_fail"]
InspectorJob == {"introspect", "check_result", Verdict.done, Verdict.fail}

\* Handlers that run in the with block of a task with an exclusive lock.
Handler == RequestKind \cup SweepKind \cup {"continue"}

\* Spawned methods, in the places where they can be interrupted.
WorkerJob == {"deploying", "tearing_down", "clean_auto", "clean_manual",
              "next_step", "step_auto", "step_manual", "clean_failing",
              "fail_auto", "fail_manual", "clean_abort", "clean_cleanup",
              "deploy_cleanup", "verifying", "adopting", "inspecting",
              "heartbeat", "heartbeat_locked", "agent_deploy", "agent_clean"}

Job == Handler \cup WorkerJob \cup InspectorJob
         \cup {"none", "leave", "finished"}

\* "scrubbing": an automated cleaning has begun and has not run all its steps.
\* A node created as AVAILABLE is clean: whoever creates it so says it is.
DiskState == {"dirty", "scrubbing", "clean"}

ProvTypeOK ==
    /\ TypeOK
    /\ db \in [Node -> Row]
    /\ snap \in [Task -> Copy]
    /\ undo \in [Task -> Undo]
    /\ job \in [Task -> Job]
    /\ sweep \in [Host -> SUBSET (Node \X (SweepKind \cup {"introspect"}))]
    /\ casts \in SUBSET Node
    /\ disk \in [Node -> DiskState]
    /\ robbed \in SUBSET Node

ProvInit ==
    /\ Init
    /\ db \in [Node -> {NewRow(s) : s \in CreatedAs}]
    /\ snap = [t \in Task |-> NoCopy]
    /\ undo = [t \in Task |-> NoUndo]
    /\ job = [t \in Task |-> "none"]
    /\ sweep = [h \in Host |-> {}]
    /\ casts = {}
    /\ disk = [n \in Node |-> IF db[n].prov = "available" THEN "clean"
                                                         ELSE "dirty"]
    /\ robbed = {}

-----------------------------------------------------------------------------
\* What a task sees of its node, and the node it sees.
Prov(t) == snap[t].node.prov
Maint(t) == snap[t].node.maint
Manual(t) == snap[t].node.target = "manageable"
At(t) == task[t].node

\* Operators named Mut... are plausible bugs: nothing uses them; each breaks a
\* property when it stands in for the definition that follows it.
MutKeptTarget(t) == NoState              \* a manual cleaning turns automated

\* The target_state argument that keeps a manual cleaning manual.
KeptTarget(t) == IF Manual(t) THEN "manageable" ELSE NoState

Handling(t, j) == job[t] = j /\ task[t].pc = "body"
Doing(t, j) == job[t] = j /\ task[t].pc = "worker"

\* With every step on a lock: who loses one.
Watch == robbed' = robbed \cup {n \in Node : \E t \in lost' \ lost : Holds(t, n)}

\* The task goes on at j with this copy, for which it has no more use when it
\* is about to end.
Goto(t, j, copy) ==
    /\ job' = [job EXCEPT ![t] = j]
    /\ snap' = [snap EXCEPT ![t] = IF j \in {"leave", "finished"} THEN NoCopy
                                                                ELSE copy]

\* node.save() of the columns that row changes; the object then holds the row.
Save(t, row, fsm, j) ==
    /\ db' = [db EXCEPT ![At(t)] = row]
    /\ Goto(t, j, [node |-> row, fsm |-> fsm])

\* TaskManager.process_event: the machine of the task decides, the row gets
\* the new state; provision_updated_at is refreshed with it.
ProcessEvent(t, e, wanted, callback, j) ==
    LET fsm == Processed(snap[t].fsm, e, wanted)
    IN  /\ Accepts(snap[t].fsm.state, e)
        /\ Save(t, [db[At(t)] EXCEPT
                      !.prov = fsm.state,
                      !.target = IF ~callback /\ fsm.state \in Stable
                                 THEN NoState ELSE fsm.target,
                      !.late = FALSE],
                fsm, j)

\* process_event with a callback: the method to spawn, and whether
\* provisioning_error_handler is the hook that is told the old states.
Begin(t, e, wanted, worker, hooked) ==
    /\ ProcessEvent(t, e, wanted, TRUE, worker)
    /\ undo' = IF hooked
               THEN [undo EXCEPT ![t] = [prov |-> Prov(t),
                                         target |-> snap[t].node.target]]
               ELSE undo
    /\ UNCHANGED <<locks, sweep, casts, disk>>

\* A spawned method that processes an event and goes on at j.
Advance(t, e, wanted, j) ==
    /\ ProcessEvent(t, e, wanted, FALSE, j)
    /\ UNCHANGED <<locks, undo, sweep, casts>>

\* A task that goes on at j and touches nothing.
Skip(t, j) ==
    /\ Goto(t, j, snap[t])
    /\ UNCHANGED <<locks, db, undo, sweep, casts, disk>>

Forgotten(ts) ==
    /\ job' = [t \in Task |-> IF t \in ts THEN "none" ELSE job[t]]
    /\ snap' = [t \in Task |-> IF t \in ts THEN NoCopy ELSE snap[t]]
    /\ undo' = [t \in Task |-> IF t \in ts THEN NoUndo ELSE undo[t]]

-----------------------------------------------------------------------------
(* The life of a task: TaskManager's steps and what the node copy does.    *)

\* A handler is called and asks for the exclusive lock.
Call(t, h, n, j) ==
    /\ Acquire(t, h, n, FALSE) /\ Watch
    /\ Goto(t, j, NoCopy)
    /\ UNCHANGED <<db, undo, disk>>

\* An RPC of a user; the API's own check of the state is on a row it read
\* before, so that any request may meet any state.
Request(t, h, n, j) ==
    /\ j \in Requests
    /\ Call(t, h, n, j)
    /\ UNCHANGED <<sweep, casts>>

\* ConductorManager.heartbeat: a shared lock, and a worker for the driver.
Heartbeat(t, h, n) ==
    /\ Acquire(t, h, n, TRUE) /\ Watch
    /\ Goto(t, "heartbeat", Loaded(db[n]))
    /\ UNCHANGED <<db, undo, sweep, casts, disk>>

\* A continue_node_clean message arrives.
Continue(t, h, n) ==
    /\ n \in casts
    /\ casts' = casts \ {n}
    /\ Call(t, h, n, "continue")
    /\ UNCHANGED sweep

\* The loop of _fail_if_in_state goes to its next node.
SweepNext(t, h, n, k) ==
    /\ proc[h] = "up"
    /\ <<n, k>> \in sweep[h]
    /\ ~\E u \in TasksOf(h) : job[u] = k
    /\ sweep' = [sweep EXCEPT ![h] = @ \ {<<n, k>>}]
    /\ Call(t, h, n, k)
    /\ UNCHANGED casts

MutTakeLock(t) ==                        \* upgrade_lock keeps the old copy
    /\ Reserve(t) /\ Watch
    /\ Goto(t, IF job[t] = "heartbeat" THEN "heartbeat_locked" ELSE job[t],
            IF job[t] = "heartbeat" THEN snap[t] ELSE Loaded(db[At(t)]))
    /\ UNCHANGED <<db, undo, sweep, casts, disk>>

\* The exclusive lock is taken, the row is loaded with it.
TakeLock(t) ==
    /\ Reserve(t) /\ Watch
    /\ Goto(t, IF job[t] = "heartbeat" THEN "heartbeat_locked" ELSE job[t],
            Loaded(db[At(t)]))
    /\ UNCHANGED <<db, undo, sweep, casts, disk>>

LockBusy(t) ==
    /\ ReserveFails(t) /\ Watch
    /\ IF LastAttempt(t) THEN Forgotten({t}) ELSE UNCHANGED <<job, snap, undo>>
    /\ UNCHANGED <<db, sweep, casts, disk>>

\* __exit__ of a handler that spawns nothing.
Leave(t) ==
    /\ job[t] = "leave"
    /\ Exit(t) /\ Watch
    /\ Forgotten({t})
    /\ UNCHANGED <<db, sweep, casts, disk>>

\* What a spawned method means for the disks: instance data, a scrub begun,
\* or steps of the operator's choice, which need not scrub anything.
DiskOnSpawn(t) ==
    CASE job[t] \in {"deploying", "adopting", "clean_manual"} -> "dirty"
      [] job[t] = "clean_auto" -> "scrubbing"
      [] OTHER -> disk[At(t)]

\* __exit__ of a handler that spawns a method, and a thread is free.
SpawnWorker(t) ==
    /\ job[t] \in WorkerJob
    /\ Spawn(t) /\ Watch
    /\ undo' = [undo EXCEPT ![t] = NoUndo]
    /\ disk' = [disk EXCEPT ![At(t)] = DiskOnSpawn(t)]
    /\ UNCHANGED <<db, snap, job, sweep, casts>>

\* The loops of _fail_if_in_state that end when t finds no free thread.
BrokenLoops(t) ==
    {k \in SweepKind \ {"restart"} :
        \/ job[t] = "clean_cleanup" /\ k = "clean_timeout"
        \/ job[t] = "deploy_cleanup" /\ Expected[k] = undo[t].prov}

MutNoFreeWorker(t) ==                    \* the hook is run for every caller
    /\ job[t] \in WorkerJob
    /\ task[t].pc = "body"
    /\ ~HasFreeWorker(task[t].host)
    /\ Save(t, [db[At(t)] EXCEPT !.prov = undo[t].prov,
                                 !.target = undo[t].target], snap[t].fsm, "leave")
    /\ UNCHANGED <<locks, undo, sweep, casts, disk>>

MutForgetfulHook(t) ==                   \* the hook forgets the target
    /\ job[t] \in WorkerJob
    /\ task[t].pc = "body"
    /\ ~HasFreeWorker(task[t].host)
    /\ IF undo[t] # NoUndo
       THEN Save(t, [db[At(t)] EXCEPT !.prov = undo[t].prov],
                 snap[t].fsm, "leave")
       ELSE Goto(t, "leave", snap[t]) /\ UNCHANGED db
    /\ UNCHANGED <<locks, undo, sweep, casts, disk>>

\* No thread is free: the hook provisioning_error_handler restores the states
\* of before the event; spawn_cleaning_error_handler sets only last_error, and
\* other callers have no hook.  _fail_if_in_state then ends its loop.
NoFreeWorker(t) ==
    /\ job[t] \in WorkerJob
    /\ task[t].pc = "body"
    /\ ~HasFreeWorker(task[t].host)
    /\ IF undo[t] # NoUndo
       THEN Save(t, [db[At(t)] EXCEPT !.prov = undo[t].prov,
                                      !.target = undo[t].target,
                                      !.late = FALSE],
                 snap[t].fsm, "leave")
       ELSE Goto(t, "leave", snap[t]) /\ UNCHANGED db
    /\ sweep' = [sweep EXCEPT ![task[t].host] =
                    {w \in @ : w[2] \notin BrokenLoops(t)}]
    /\ UNCHANGED <<locks, undo, casts, disk>>

\* The thread of the spawned method ends.
Finished(t) ==
    /\ job[t] = "finished"
    /\ WorkerDone(t) /\ Watch
    /\ Forgotten({t})
    /\ UNCHANGED <<db, sweep, casts, disk>>

-----------------------------------------------------------------------------
(* Handlers, under the exclusive lock.                                     *)

\* do_node_deploy.
DoNodeDeploy(t) ==
    \E j \in {"deploy", "rebuild"} :
        /\ Handling(t, j)
        /\ ~Maint(t)
        /\ Begin(t, j, NoState, "deploying", TRUE)

\* do_node_tear_down.
DoNodeTearDown(t) ==
    /\ Handling(t, "delete")
    /\ Begin(t, "delete", NoState, "tearing_down", TRUE)

\* do_node_clean: manual cleaning.
DoNodeClean(t) ==
    /\ Handling(t, "clean")
    /\ ~Maint(t)
    /\ Begin(t, "clean", "manageable", "clean_manual", TRUE)

\* inspect_hardware.
InspectHardware(t) ==
    /\ Handling(t, "inspect")
    /\ Begin(t, "inspect", NoState, "inspecting", TRUE)

\* do_provisioning_action.
Provide(t) ==
    /\ Handling(t, "provide")
    /\ Prov(t) = "manageable"
    /\ Begin(t, "provide", NoState, "clean_auto", TRUE)

Manage(t) ==
    /\ Handling(t, "manage")
    /\ IF Prov(t) = "enroll"
       THEN Begin(t, "manage", NoState, "verifying", TRUE)
       ELSE Advance(t, "manage", NoState, "leave") /\ UNCHANGED disk

Adopt(t) ==
    /\ Handling(t, "adopt")
    /\ Prov(t) \in {"manageable", "adoptfail"}
    /\ Begin(t, "adopt", NoState, "adopting", TRUE)

\* A clean step that is not abortable is only flagged.
Abort(t) ==
    /\ Handling(t, "abort")
    /\ Prov(t) = "cleanwait"
    /\ \/ Begin(t, "abort", KeptTarget(t), "clean_abort", TRUE)
       \/ Skip(t, "leave")

\* update_node: the operator sets or clears maintenance.
UpdateNode(t) ==
    /\ Handling(t, "maintain")
    /\ db' = [db EXCEPT ![At(t)].maint = ~@]
    /\ Goto(t, "leave", snap[t])
    /\ UNCHANGED <<locks, undo, sweep, casts, disk>>

\* continue_node_clean: the next step, or the abort that was asked for.  The
\* hook of the first, spawn_cleaning_error_handler, restores nothing.
ContinueNodeClean(t) ==
    /\ Handling(t, "continue")
    /\ Prov(t) = "cleanwait"
    /\ \/ Begin(t, "abort", KeptTarget(t), "clean_abort", TRUE)
       \/ Begin(t, "resume", KeptTarget(t), "next_step", FALSE)

\* _fail_if_in_state, for one node: the state and maintenance are checked
\* again under the lock, the age of the state is not.
FailIfInState(t) ==
    \E k \in SweepKind :
        /\ Handling(t, k)
        /\ ~Maint(t)
        /\ Prov(t) = Expected[k]
        /\ CASE k \in {"deploy_timeout", "offline"} ->
                    Begin(t, "fail", NoState, "deploy_cleanup", TRUE)
             [] k = "clean_timeout" ->
                    Begin(t, "fail", snap[t].node.target, "clean_cleanup", FALSE)
             [] OTHER ->
                    Advance(t, "fail", NoState, "leave") /\ UNCHANGED disk

\* The state the handler needs before it processes its event.
Admitted(t) ==
    IF job[t] \in SweepKind THEN ~Maint(t) /\ Prov(t) = Expected[job[t]]
    ELSE IF job[t] = "continue" THEN Prov(t) = "cleanwait"
    ELSE job[t] = "maintain" \/ Accepts(Prov(t), job[t])

\* The handler raises, or has nothing to do.  The drivers' validation may
\* raise in any state, and so may the checks on maintenance and the event.
Refuse(t) ==
    /\ task[t].pc = "body"
    /\ job[t] \in Handler
    /\ job[t] \in {"deploy", "rebuild", "delete", "clean", "inspect"}
         \/ ~Admitted(t)
    /\ Skip(t, "leave")

Handle(t) ==
    \/ DoNodeDeploy(t) \/ DoNodeTearDown(t) \/ DoNodeClean(t)
    \/ InspectHardware(t) \/ Provide(t) \/ Manage(t) \/ Adopt(t)
    \/ Abort(t) \/ UpdateNode(t) \/ ContinueNodeClean(t)
    \/ FailIfInState(t) \/ Refuse(t)

-----------------------------------------------------------------------------
(* Workers.                                                                *)

\* What is raised passes through the method and ends the thread, which
\* releases the node as it is: no event is processed.
Raises(t) == job[t] \in Uncaught /\ Skip(t, "finished")

\* The worker do_node_deploy: the driver is done, waits for a callback, or
\* raises.  But storing the configdrive may raise more than the one exception
\* that is caught, and nothing is done with an answer of the driver that is
\* neither DEPLOYDONE nor DEPLOYWAIT.
Deploy(t) ==
    /\ Doing(t, "deploying")
    /\ \/ /\ \E e \in {"done", "wait", "fail"} :
                               Advance(t, e, NoState, "finished")
          /\ UNCHANGED disk
       \/ Raises(t)

MutTearDown(t) ==                        \* an error that sets no state
    /\ Doing(t, "tearing_down")
    /\ \/ Skip(t, "finished")
       \/ /\ Advance(t, "clean", NoState, "clean_auto")
          /\ disk' = [disk EXCEPT ![At(t)] = "scrubbing"]

\* _do_node_tear_down.
TearDown(t) ==
    /\ Doing(t, "tearing_down")
    /\ \/ /\ Advance(t, "error", NoState, "finished")
          /\ UNCHANGED disk
       \/ /\ Advance(t, "clean", NoState, "clean_auto")
          /\ disk' = [disk EXCEPT ![At(t)] = "scrubbing"]

MutStartCleaning(t) ==                   \* automated_clean is read wrongly
    /\ Doing(t, "clean_auto") \/ Doing(t, "clean_manual")
    /\ IF AutomatedClean
       THEN Advance(t, "done", NoState, "finished") /\ UNCHANGED disk
       ELSE Skip(t, "next_step")

\* _do_node_clean.  All that prepare_cleaning raises is caught; of what the
\* validations and set_node_cleaning_steps raise, only what they document.
StartCleaning(t) ==
    /\ Doing(t, "clean_auto") \/ Doing(t, "clean_manual")
    /\ LET manual == job[t] = "clean_manual"
           wanted == IF manual THEN "manageable" ELSE NoState
       IN  IF ~manual /\ ~AutomatedClean
           THEN Advance(t, "done", NoState, "finished") /\ UNCHANGED disk
           ELSE \/ Advance(t, "wait", wanted, "finished") /\ UNCHANGED disk
                \/ Skip(t, "next_step")
                \/ Skip(t, "clean_failing")
                \/ Raises(t)

\* _do_next_clean_step looks at the target to know which cleaning this is.
ChooseCleaning(t) ==
    /\ Doing(t, "next_step")
    /\ Skip(t, IF Manual(t) THEN "step_manual" ELSE "step_auto")

\* The steps: one raises, one is asynchronous, or all have been run.
RunCleanSteps(t) ==
    /\ Doing(t, "step_auto") \/ Doing(t, "step_manual")
    /\ LET manual == job[t] = "step_manual"
           wanted == IF manual THEN "manageable" ELSE NoState
       IN  \/ Skip(t, "clean_failing")
           \/ /\ Advance(t, "wait", wanted, "finished")
              /\ UNCHANGED disk
           \/ /\ Advance(t, IF manual THEN "manage" ELSE "done", NoState,
                         "finished")
              /\ disk' = [disk EXCEPT ![At(t)] =
                             IF @ = "scrubbing" THEN "clean" ELSE @]

\* cleaning_error_handler: maintenance is saved, the ramdisk is torn down,
\* then the node fails with the target of its kind of cleaning.
SetMaintenance(t, j) ==
    /\ Save(t, [db[At(t)] EXCEPT !.maint = TRUE], snap[t].fsm, j)
    /\ UNCHANGED <<locks, undo, sweep, casts, disk>>

CleaningErrorHandler(t) ==
    \/ /\ Doing(t, "clean_failing") \/ Doing(t, "clean_cleanup")
       /\ SetMaintenance(t, IF Manual(t) THEN "fail_manual" ELSE "fail_auto")
    \/ \E j \in {"fail_manual", "fail_auto"} :
          /\ Doing(t, j)
          /\ IF Accepts(snap[t].fsm.state, "fail")
             THEN /\ Advance(t, "fail", IF j = "fail_manual" THEN "manageable"
                                        ELSE NoState, "finished")
                  /\ UNCHANGED disk
             ELSE Skip(t, "finished")          \* InvalidState ends the worker

\* _do_node_clean_abort: tear_down_cleaning raises, or not.
CleanAbort(t) ==
    /\ Doing(t, "clean_abort")
    /\ SetMaintenance(t, "finished") \/ Skip(t, "finished")

\* cleanup_after_timeout saves last_error only.
DeployCleanup(t) == Doing(t, "deploy_cleanup") /\ Skip(t, "finished")

\* _do_node_verify: the power state can be read, or not.
Verify(t) ==
    /\ Doing(t, "verifying")
    /\ \E e \in {"done", "fail"} : Advance(t, e, NoState, "finished")
    /\ UNCHANGED disk

\* _do_adoption: the drivers take the running node over, or one raises.
DoAdoption(t) ==
    /\ Doing(t, "adopting")
    /\ \E e \in {"done", "fail"} : Advance(t, e, NoState, "finished")
    /\ UNCHANGED disk

\* Inspector.inspect_hardware spawns a thread of its own, outside the pool.
Introspect(t) ==
    /\ sweep' = [sweep EXCEPT ![task[t].host] = @ \cup {<<At(t), "introspect">>}]
    /\ Goto(t, "finished", snap[t])
    /\ UNCHANGED <<locks, db, undo, casts, disk>>

\* _do_inspect_hardware; a driver that returns INSPECTING goes on by itself, and
\* the one of inspector.py always does.
Inspect(t) ==
    /\ Doing(t, "inspecting")
    /\ IF UsesInspector
       THEN Introspect(t)
       ELSE \/ \E e \in {"done", "fail"} :
                  Advance(t, e, NoState, "finished") /\ UNCHANGED disk
            \/ Skip(t, "finished")

Work(t) ==
    \/ Deploy(t) \/ TearDown(t) \/ StartCleaning(t) \/ ChooseCleaning(t)
    \/ RunCleanSteps(t) \/ CleaningErrorHandler(t) \/ CleanAbort(t)
    \/ DeployCleanup(t) \/ Verify(t) \/ DoAdoption(t) \/ Inspect(t)

-----------------------------------------------------------------------------
(* HeartbeatMixin.heartbeat, in a worker that has a shared lock at first.  *)

HeartbeatUpgrade(t) ==
    /\ Doing(t, "heartbeat")
    /\ Prov(t) \in {"deploywait", "cleanwait"}
    /\ Upgrade(t) /\ Watch
    /\ UNCHANGED provVars

HeartbeatIgnored(t) ==
    \/ /\ Doing(t, "heartbeat")
       /\ Prov(t) \notin {"deploywait", "cleanwait"}
       /\ Skip(t, "finished")
    \/ /\ Doing(t, "heartbeat_locked")
       /\ Maint(t) \/ Prov(t) \notin {"deploywait", "cleanwait"}
       /\ Skip(t, "finished")

\* touch_provisioning.
Touch(t, j) ==
    /\ db' = [db EXCEPT ![At(t)].late = FALSE]
    /\ Goto(t, j, snap[t])
    /\ UNCHANGED <<locks, undo, sweep, casts, disk>>

MutHeartbeatDeploying(t) ==              \* 'resume' is not processed
    /\ Doing(t, "heartbeat_locked")
    /\ ~Maint(t)
    /\ Prov(t) = "deploywait"
    /\ Skip(t, "agent_deploy")

\* The deployment goes on (continue_deploy, reboot_to_instance), is still
\* running, or the agent cannot be asked (set_failed_state).
HeartbeatDeploying(t) ==
    /\ Doing(t, "heartbeat_locked")
    /\ ~Maint(t)
    /\ Prov(t) = "deploywait"
    /\ \/ Advance(t, "resume", NoState, "agent_deploy") /\ UNCHANGED disk
       \/ Touch(t, "finished")
       \/ Advance(t, "fail", NoState, "finished") /\ UNCHANGED disk

AgentDeploy(t) ==
    /\ Doing(t, "agent_deploy")
    /\ \E e \in {"wait", "done", "fail"} : Advance(t, e, NoState, "finished")
    /\ UNCHANGED disk

HeartbeatCleaning(t) ==
    /\ Doing(t, "heartbeat_locked")
    /\ ~Maint(t)
    /\ Prov(t) = "cleanwait"
    /\ Touch(t, "agent_clean")

\* The step still runs, has failed (or the agent has), or is finished:
\* _notify_conductor_resume_clean gives the lock back before it sends the RPC.
\* If the lock is no longer this conductor's, the release raises.
AgentClean(t) ==
    /\ Doing(t, "agent_clean")
    /\ \/ Skip(t, "finished")
       \/ Skip(t, "clean_failing")
       \/ /\ casts' = casts \cup {At(t)}
          /\ Goto(t, "finished", snap[t])
          /\ ReleaseEarly(t) /\ Watch
          /\ UNCHANGED <<db, undo, sweep, disk>>

AgentWork(t) ==
    \/ HeartbeatUpgrade(t) \/ HeartbeatIgnored(t) \/ HeartbeatDeploying(t)
    \/ AgentDeploy(t) \/ HeartbeatCleaning(t) \/ AgentClean(t)

-----------------------------------------------------------------------------
(* ironic-inspector: who inspects by asking it, and what comes of it.      *)

\* introspect returns: the node is ironic-inspector's now.
IntrospectReturns(h, n) ==
    /\ <<n, "introspect">> \in sweep[h]
    /\ sweep' = [sweep EXCEPT ![h] = @ \ {<<n, "introspect">>}]
    /\ UNCHANGED <<locks, db, snap, undo, job, casts, disk>>

\* It raises, some time later: the thread asks for the exclusive lock.
IntrospectRaises(t, h, n) == SweepNext(t, h, n, "introspect")

\* The loop of _periodic_check_result takes a shared lock for its next node;
\* one that is not INSPECTING any more it leaves alone.
CheckResult(t, h, n) ==
    /\ UsesInspector
    /\ proc[h] = "up"
    /\ db[n].prov = "inspecting"
    /\ ~\E u \in TasksOf(h) : job[u] \in InspectorJob \ {"introspect"}
    /\ Acquire(t, h, n, TRUE) /\ Watch
    /\ Goto(t, "check_result", Loaded(db[n]))
    /\ UNCHANGED <<db, undo, sweep, casts, disk>>

\* _check_status: without an answer the task ends; with one, it upgrades its
\* lock.
CheckStatus(t) ==
    /\ Handling(t, "check_result")
    /\ \/ Exit(t) /\ Forgotten({t})
       \/ /\ \E e \in {"done", "fail"} : Goto(t, Verdict[e], snap[t])
          /\ Upgrade(t)
          /\ UNCHANGED undo
    /\ Watch
    /\ UNCHANGED <<db, sweep, casts, disk>>

\* Under the exclusive lock the event is processed without another look at the
\* state.  If the machine refuses it, the exception ends the thread or loop;
\* the next period begins another loop.
RecordInspection(t) ==
    \E j \in InspectorJob \ {"check_result"} :
        LET e == IF j = Verdict.done THEN "done" ELSE "fail"
        IN  /\ Handling(t, j)
            /\ IF Accepts(Prov(t), e)
               THEN Advance(t, e, NoState, "leave") /\ UNCHANGED disk
               ELSE Skip(t, "leave")

-----------------------------------------------------------------------------
(* Conductors, clocks and messages.                                        *)

\* Time passes: a node has been waiting for longer than its timeout.
Age(n) ==
    /\ db[n].prov \in {Expected[k] : k \in Timeout}
    /\ ~db[n].late
    /\ db' = [db EXCEPT ![n].late = TRUE]
    /\ UNCHANGED <<locks, snap, undo, job, sweep, casts, disk>>

MutMatching(k) ==                        \* only deployments are looked for
    {n \in Node : /\ Free(n)
                  /\ db[n].prov = Expected[k]
                  /\ db[n].late
                  /\ db[n].target = "active"}

\* The nodes that the filters of a periodic check match.
Matching(k) ==
    {n \in Node : /\ Free(n)
                  /\ db[n].prov = Expected[k]
                  /\ db[n].late
                  /\ k # "inspect_timeout" => ~db[n].maint}

\* _check_deploy_timeouts, _check_cleanwait_timeouts, _check_inspect_timeouts:
\* iter_nodes reads all matching nodes of this conductor at once.
CheckTimeouts(h, k, S) ==
    /\ proc[h] = "up"
    /\ S # {} /\ S \subseteq Matching(k)
    /\ ~\E w \in sweep[h] : w[2] = k
    /\ ~\E u \in TasksOf(h) : job[u] = k
    /\ sweep' = [sweep EXCEPT ![h] = @ \cup (S \X {k})]
    /\ UNCHANGED <<locks, db, snap, undo, job, casts, disk>>

\* Registration, then the recovery of the deployments that died: init_host
\* reads the unreserved DEPLOYING nodes of this conductor.
Recover(h, S) ==
    /\ Register(h) /\ Watch
    /\ S \subseteq {n \in Node : Free(n) /\ db[n].prov = "deploying"}
    /\ sweep' = [sweep EXCEPT ![h] = S \X {"restart"}]
    /\ UNCHANGED <<db, snap, undo, job, casts, disk>>

\* _check_deploying_status, first half.
CheckDeployingStatus(h, S) ==
    /\ ScanOffline(h, S) /\ Watch
    /\ \A n \in S : db[n].prov = "deploying" /\ ~db[n].maint
    /\ UNCHANGED provVars

\* Second half: unless the lock is somebody else's, _fail_if_in_state is
\* called.  Its filter names the node by 'id', which the database API
\* ignores, so that it reads all nodes S of this conductor.
BreakAndFail(h, n, tag, S) ==
    /\ n \in S
    /\ BreakLock(h, n, tag) /\ Watch
    /\ IF reservation[n] \in {tag, NoHost}
       THEN sweep' = [sweep EXCEPT ![h] = @ \cup (S \X {"offline"})]
       ELSE UNCHANGED sweep
    /\ UNCHANGED <<db, snap, undo, job, casts, disk>>

\* A conductor dies or is stopped: its threads and loops are gone.
Die(h) ==
    /\ Crash(h) /\ Watch
    /\ Forgotten(TasksOf(h))
    /\ sweep' = [sweep EXCEPT ![h] = {}]
    /\ UNCHANGED <<db, casts, disk>>

Stop(h) ==
    /\ BeginStop(h) /\ Watch
    /\ sweep' = [sweep EXCEPT ![h] = {}]
    /\ UNCHANGED <<db, snap, undo, job, casts, disk>>

\* A message is lost with the conductor that had fetched it.
LoseCast(n) ==
    /\ "crash" \in Faults
    /\ n \in casts
    /\ casts' = casts \ {n}
    /\ UNCHANGED <<locks, db, snap, undo, job, sweep, disk>>

-----------------------------------------------------------------------------
TaskCalls(t) ==
    \E h \in Host, n \in Node :
        \/ \E j \in RequestKind : Request(t, h, n, j)
        \/ Heartbeat(t, h, n)
        \/ Continue(t, h, n)
        \/ \E k \in SweepKind : SweepNext(t, h, n, k)
        \/ IntrospectRaises(t, h, n) \/ CheckResult(t, h, n)

TaskProceeds(t) ==
    \/ TakeLock(t) \/ LockBusy(t) \/ Handle(t) \/ Leave(t)
    \/ SpawnWorker(t) \/ NoFreeWorker(t)
    \/ Work(t) \/ AgentWork(t) \/ CheckStatus(t) \/ RecordInspection(t)
    \/ Finished(t)

Aside == Watch /\ UNCHANGED provVars    \* a conductor step apart from nodes

ConductorStep(h) ==
    \/ Die(h) \/ Stop(h)
    \/ Start(h) /\ Aside
    \/ InitClear(h) /\ Aside
    \/ EndStop(h) /\ Aside
    \/ Keepalive(h) /\ Aside
    \/ HeartbeatTimeout(h) /\ Aside
    \/ \E S \in SUBSET Node :
          \/ Recover(h, S)
          \/ CheckDeployingStatus(h, S)
          \/ \E k \in Timeout : CheckTimeouts(h, k, S)
          \/ \E n \in Node, tag \in Host : BreakAndFail(h, n, tag, S)
    \/ \E n \in Node : IntrospectReturns(h, n)

ProvNext ==
    \/ \E t \in Task : TaskCalls(t) \/ TaskProceeds(t)
    \/ \E h \in Host : ConductorStep(h)
    \/ \E n \in Node : Age(n) \/ LoseCast(n)

ProvSpec == ProvInit /\ [][ProvNext]_vars

\* Threads are scheduled and what they call returns; time passes; the periodic
\* checks run, read every node there is, and their loops go on.  Nothing makes
\* a user ask, an agent call or a message arrive.
ProvFairness ==
    /\ \A t \in Task : WF_vars(TaskProceeds(t))
    /\ \A n \in Node : WF_vars(Age(n))
    /\ \A k \in Timeout, n \in Node :
          /\ WF_vars(\E h \in Host, S \in SUBSET Node :
                                         n \in S /\ CheckTimeouts(h, k, S))
          /\ WF_vars(\E t \in Task, h \in Host :
                                         SweepNext(t, h, n, k))

ProvFairSpec == ProvSpec /\ ProvFairness

\* Besides, the heartbeats of dead conductors time out and
\* _check_deploying_status runs, to its end and over all the nodes it reads.
TakeoverFairness ==
    /\ \A h \in Host : WF_vars(HeartbeatTimeout(h) /\ Aside)
    /\ \A n \in Node :
          /\ WF_vars(\E h \in Host, S \in SUBSET Node :
                                         n \in S /\ CheckDeployingStatus(h, S))
          /\ WF_vars(\E h, tag \in Host, S \in SUBSET Node :
                                         BreakAndFail(h, n, tag, S))
          /\ WF_vars(\E t \in Task, h \in Host :
                                         SweepNext(t, h, n, "offline"))

ProvTakeoverSpec == ProvFairSpec /\ TakeoverFairness

-----------------------------------------------------------------------------
(* Properties.  A node of which a task has lost its lock is out of reach of *)
(* most of them: two threads may then work on it, see TagIdentifiesHolder.  *)

\* No node is offered to a new user before an automated cleaning has run all
\* its steps since the node last held something, whatever cleanings were
\* begun, failed, aborted, waited for, resumed or cut by a crash in between.
AvailableIsClean ==
    \A n \in Node \ robbed :
        AutomatedClean /\ db[n].prov = "available" => disk[n] = "clean"

\* The two kinds of work that the code may leave on an unlocked node, where
\* nobody takes them up again: a deployment, if something is raised that
\* do_node_deploy does not catch; a cleaning, if that happens to
\* _do_node_clean, or if the pool was full when it should have gone on.
MayAbandon(s) ==
    \/ s = "deploying" /\ "deploying" \in Uncaught
    \/ /\ s = "cleaning"
       /\ \/ Uncaught \cap {"clean_auto", "clean_manual"} # {}
          \/ PoolSize < Cardinality(Task)

\* A node that nobody has locked is not in the middle of some work: whatever
\* a handler or worker has begun, it has ended in a state that a user, an
\* agent or a timeout can move on, with exactly the exceptions above.  (So of
\* tearing down, verifying, adopting and the error handlers none is ever left
\* behind, however drivers fail and threads are refused; nor is a deployment
\* or a cleaning for any reason but these.)
NoAbandonedWork ==
    \A n \in Node : Free(n) => db[n].prov \notin Working \/ MayAbandon(db[n].prov)

\* The jobs that end a state in which a thread works.
Ending == {"deploying", "agent_deploy", "tearing_down", "verifying", "adopting",
           "clean_auto", "clean_manual", "next_step", "step_auto", "step_manual",
           "clean_failing", "fail_auto", "fail_manual"}

\* With faults too, whoever has work to end on a node goes on with it until it
\* is ended.  It is dropped if the conductor dies or the lock is taken away;
\* for want of a thread: then the state of before the request is restored, or
\* a cleaning that was to be resumed is left where it is; and by the two
\* methods that let what is raised in them pass, never by another.
WorkIsEnded ==
    [][\A t \in Task, n \in Node \ robbed' :
          Holds(t, n) /\ job[t] \in Ending =>
             \/ Holds(t, n)' /\ job'[t] \in Ending
             \/ db'[n].prov \notin Working
             \/ proc'[task[t].host] = "down"
             \/ /\ task[t].pc = "body" /\ ~HasFreeWorker(task[t].host)
                /\ job[t] = "next_step" \/ db'[n].prov = undo[t].prov
             \/ job[t] \in Uncaught /\ job'[t] = "finished"]_vars

\* The events that a task may process at its next step without expecting a
\* refusal.  (The error handler does expect one after a timeout, which has
\* failed the node already.)
Asks(t) ==
    CASE job[t] \in {"deploying", "agent_deploy"} -> {"done", "wait", "fail"}
      [] job[t] = "tearing_down" -> {"error", "clean"}
      [] job[t] \in {"clean_auto", "step_auto"} -> {"wait", "done"}
      [] job[t] = "clean_manual" -> {"wait"}
      [] job[t] = "step_manual" -> {"wait", "manage"}
      [] job[t] \in {"fail_auto", "fail_manual"}
            /\ snap[t].fsm.state # "cleanfail" -> {"fail"}
      [] job[t] \in {"verifying", "adopting", "inspecting"} -> {"done", "fail"}
      [] job[t] = "heartbeat_locked" /\ Prov(t) = "deploywait" ->
            {"resume", "fail"}
      [] job[t] = "continue" /\ Prov(t) = "cleanwait" -> {"resume", "abort"}
      [] job[t] = "abort" /\ Prov(t) = "cleanwait" -> {"abort"}
      [] job[t] \in SweepKind /\ Admitted(t) -> {"fail"}
      [] OTHER -> {}

\* InvalidState never ends a thread in the middle of its work: whatever was
\* begun, resumed, restored or failed before, and by whichever thread, the
\* machine of a task is in a state that takes the events of its job.
NoInvalidState == \A t \in Task : \A e \in Asks(t) : Accepts(snap[t].fsm.state, e)

\* A node at rest has no target, a node in any other state has the target
\* of its kind of work, whichever states were restored or kept on the way, and
\* whoever wrote them, with the lock or after having lost it.
TargetFitsState ==
    \A n \in Node :
        LET s == db[n].prov
            g == db[n].target
        IN  \/ s \in Stable /\ g = NoState
            \/ s \in {"cleaning", "cleanwait", "cleanfail"}
                  /\ g \in {"available", "manageable"}
            \/ s \notin Stable /\ g = DefaultTarget[s]

\* The row goes from a state to one that the machine has an edge to, or back
\* to the state of before the event when no thread is free.
LegalStep(n) ==
    \/ \E e \in Event : <<db[n].prov, e, db'[n].prov>> \in Edges
    \/ \E t \in Task : /\ task[t].node = n
                       /\ undo[t].prov = db'[n].prov
                       /\ snap[t].fsm.state = db[n].prov

\* The copies on which the tasks decide are never stale: every state written
\* is a successor, in the machine, of the state that is in the row.
MachineIsFollowed ==
    [][\A n \in Node \ robbed' : db'[n].prov # db[n].prov => LegalStep(n)]_vars

\* Nobody asks for anything: no user, no agent and no message.  The checks,
\* those of the inspections too, go on.
Quiet == \A t \in Task : job[t] \in SweepKind \cup InspectorJob \cup
                     {"none", "leave", "finished", "deploy_cleanup",
                      "clean_cleanup", "fail_auto", "fail_manual"}

\* When an agent or a driver never calls back, a node does not wait for ever:
\* whatever lock or thread a timeout finds taken, it is tried again until the
\* node has failed, unless an operator has put it into maintenance.
Waiting(n) == /\ db[n].prov \in {"deploywait", "cleanwait", "inspecting"}
              /\ ~db[n].maint

WaitsEnd == <>[]Quiet => \A n \in Node : Waiting(n) ~> ~Waiting(n)

\* If a conductor that was provisioning a node has died, another one releases
\* the node and fails the deployment.  (It releases the node, but it may then
\* find it locked, and never looks at it again: see README.)
DeadDeploymentsFail ==
    \A n \in Node, h \in Host :
        (\E c \in Host : [](proc[c] = "up")) =>
            []( (/\ db[n].prov = "deploying"
                 /\ reservation[n] = h
                 /\ [](proc[h] = "down" /\ ~db[n].maint))
                    => <>(db[n].prov # "deploying") )
=============================================================================
