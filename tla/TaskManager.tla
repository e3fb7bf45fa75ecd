----------------------------- MODULE TaskManager -----------------------------
(***************************************************************************)
(* The node lock of the Ironic conductors and the life of a TaskManager    *)
(* object: ironic/conductor/task_manager.py, the reservation column of the *)
(* nodes table (db/sqlalchemy/api.py), the worker pool, and the parts of   *)
(* a conductor's start, stop, keepalive and of _check_deploying_status     *)
(* that touch reservations (conductor/base_manager.py, manager.py).        *)
(*                                                                         *)
(* A reservation is a column holding the HOST of the conductor, not the    *)
(* task: two tasks of one host cannot be told apart by it.  Every database *)
(* statement is one step; everything between two statements interleaves.   *)
(* What a task does to the node's row is left to Provisioning.tla.         *)
(***************************************************************************)
EXTENDS Naturals, FiniteSets

CONSTANTS
    Host,         \* conductors, by hostname (CONF.host)
    Node,
    Task,         \* identities of TaskManager objects, reused when idle
    NoHost, NoNode, NoTask,
    MaxAttempts,  \* [conductor]node_locked_retry_attempts
    PoolSize,     \* [conductor]workers_pool_size, less the conductor's own
    Faults        \* what the environment does: see FaultKind

\* "crash": a conductor process dies (and may be started again);
\* "stop": it is stopped in an orderly way; "slow": its keepalive is late.
FaultKind == {"crash", "stop", "slow"}

ASSUME TaskManagerAssumption ==
    /\ NoHost \notin Host
    /\ NoNode \notin Node
    /\ NoTask \notin Task
    /\ MaxAttempts \in Nat \ {0}
    /\ PoolSize \in Nat
    /\ Faults \subseteq FaultKind

VARIABLES
    reservation,  \* [Node -> Host \cup {NoHost}]: nodes.reservation
    proc,         \* [Host -> ProcState]: the conductor process
    fresh,        \* [Host -> BOOLEAN]: conductors.updated_at is recent enough
    suspects,     \* [Host -> set of <<node, host>>]: the rows that a running
                  \* _check_deploying_status has read and not yet handled
    task,         \* [Task -> TaskRecord]: the TaskManager objects
    lost          \* history: the tasks whose reservation was cleared by
                  \* somebody else while they held it

lockVars == <<reservation, proc, fresh, suspects, task, lost>>

\* "starting": the RPC server runs, init_host has not cleared reservations;
\* "cleared": it has, the conductor is not registered yet; "stopping": del_host.
ProcState == {"down", "starting", "cleared", "up", "stopping"}

\* "body": inside the with block; "worker": a pool thread runs the spawned
\* method; "reserving", "upgrading" and "worker_upgrading": in the retry loop
\* of _lock, entered from __init__, from the block, from the spawned method.
PC == {"idle", "reserving", "body", "upgrading", "worker", "worker_upgrading"}

TaskRecord == [pc : PC, host : Host \cup {NoHost}, node : Node \cup {NoNode},
               shared : BOOLEAN, tries : 0..(MaxAttempts - 1)]

IdleTask == [pc |-> "idle", host |-> NoHost, node |-> NoNode,
             shared |-> FALSE, tries |-> 0]

TypeOK ==
    /\ reservation \in [Node -> Host \cup {NoHost}]
    /\ proc \in [Host -> ProcState]
    /\ fresh \in [Host -> BOOLEAN]
    /\ suspects \in [Host -> SUBSET (Node \X Host)]
    /\ task \in [Task -> TaskRecord]
    /\ lost \in SUBSET Task

Init ==
    /\ reservation = [n \in Node |-> NoHost]
    /\ proc = [h \in Host |-> "up"]
    /\ fresh = [h \in Host |-> TRUE]
    /\ suspects = [h \in Host |-> {}]
    /\ task = [t \in Task |-> IdleTask]
    /\ lost = {}

-----------------------------------------------------------------------------
\* The TaskManager believes that it has the exclusive lock of n.
Holds(t, n) ==
    /\ task[t].pc \in {"body", "worker"}
    /\ task[t].node = n
    /\ ~task[t].shared

\* It believes so, and nobody has cleared its reservation.
Owns(t, n) == Holds(t, n) /\ t \notin lost

TasksOf(h) == {t \in Task : task[t].host = h}
Workers(h) == {t \in TasksOf(h) : task[t].pc \in {"worker", "worker_upgrading"}}

\* Tasks that hold n under the tag h: the column cannot tell them apart.
HeldUnder(n, h) == {t \in Task : Holds(t, n) /\ task[t].host = h}

-----------------------------------------------------------------------------
\* Operators named Mut... are plausible bugs: nothing uses them; each breaks a
\* property when it stands in for the definition that follows it.
MutFree(n) == TRUE                       \* reserve without the condition

\* The conditional update of reserve_node.
Free(n) == reservation[n] = NoHost

\* The conditional update of release_node: a row with another tag is left
\* alone (NodeLocked), so is one without a reservation (NodeNotLocked).
ReleasedBy(n, h) == IF reservation[n] = h THEN NoHost ELSE reservation[n]

\* Somebody clears the tag h of n: every holder but t, who does it, loses it.
LosersOf(n, h, t) == IF reservation[n] = h THEN HeldUnder(n, h) \ {t} ELSE {}

\* release_resources: only an exclusive lock with a node object touches the
\* database.
ReleaseResources(t) ==
    IF \E n \in Node : Holds(t, n)
    THEN LET n == task[t].node
             h == task[t].host
         IN  /\ reservation' = [reservation EXCEPT ![n] = ReleasedBy(n, h)]
             /\ lost' = (lost \cup LosersOf(n, h, t)) \ {t}
    ELSE UNCHANGED <<reservation, lost>>

Finish(t) == task' = [task EXCEPT ![t] = IdleTask]

\* The threads that may run code of conductor h now: RPC handlers as soon as
\* the RPC server listens (before init_host), periodic tasks once it is up.
Serving(h) == proc[h] \in {"starting", "cleared", "up"}

-----------------------------------------------------------------------------
\* TaskManager.__init__: a shared lock only reads the row; an exclusive one
\* enters the retry loop of _lock.
Acquire(t, h, n, shared) ==
    /\ Serving(h)
    /\ task[t].pc = "idle"
    /\ task' = [task EXCEPT ![t] =
                  [pc |-> IF shared THEN "body" ELSE "reserving", host |-> h,
                   node |-> n, shared |-> shared, tries |-> 0]]
    /\ UNCHANGED <<reservation, proc, fresh, suspects, lost>>

\* upgrade_lock of a task with a shared lock: do_sync_power_state calls it in
\* the block, the agent's heartbeat in the spawned method.
Upgrade(t) ==
    /\ task[t].pc \in {"body", "worker"}
    /\ task[t].shared
    /\ task' = [task EXCEPT ![t].pc = IF @ = "body" THEN "upgrading"
                                                   ELSE "worker_upgrading"]
    /\ UNCHANGED <<reservation, proc, fresh, suspects, lost>>

\* In the retry loop of _lock.
Reserving(t) == task[t].pc \in {"reserving", "upgrading", "worker_upgrading"}

\* One successful reserve_node.
Reserve(t) ==
    /\ Reserving(t)
    /\ Free(task[t].node)
    /\ reservation' = [reservation EXCEPT ![task[t].node] = task[t].host]
    /\ task' = [task EXCEPT ![t] =
                  [task[t] EXCEPT !.pc = IF task[t].pc = "worker_upgrading"
                                         THEN "worker" ELSE "body",
                                  !.shared = FALSE, !.tries = 0]]
    /\ UNCHANGED <<proc, fresh, suspects, lost>>

MutLastAttempt(t) == task[t].tries = MaxAttempts   \* one attempt too many

\* One attempt that finds the node locked; the last one raises NodeLocked,
\* which ends the task and its thread: there is nothing to release.
LastAttempt(t) == task[t].tries + 1 = MaxAttempts

MutReserveFails(t) ==                    \* attempts are not counted
    /\ Reserving(t)
    /\ ~Free(task[t].node)
    /\ UNCHANGED lockVars

ReserveFails(t) ==
    /\ Reserving(t)
    /\ ~Free(task[t].node)
    /\ IF LastAttempt(t)
       THEN Finish(t)
       ELSE task' = [task EXCEPT ![t].tries = @ + 1]
    /\ UNCHANGED <<reservation, proc, fresh, suspects, lost>>

\* __exit__ without a spawned method, or with an exception; also __init__
\* when loading the ports or building the driver raises.
Exit(t) ==
    /\ task[t].pc = "body"
    /\ ReleaseResources(t)
    /\ Finish(t)
    /\ UNCHANGED <<proc, fresh, suspects>>

\* __exit__ with a spawned method and a free thread: the lock stays with it.
HasFreeWorker(h) == Cardinality(Workers(h)) < PoolSize

Spawn(t) ==
    /\ task[t].pc = "body"
    /\ HasFreeWorker(task[t].host)
    /\ task' = [task EXCEPT ![t].pc = "worker"]
    /\ UNCHANGED <<reservation, proc, fresh, suspects, lost>>

MutSpawnRejected(t) ==                   \* the lock is kept for no thread
    /\ task[t].pc = "body"
    /\ ~HasFreeWorker(task[t].host)
    /\ Finish(t)
    /\ lost' = lost \ {t}
    /\ UNCHANGED <<reservation, proc, fresh, suspects>>

\* __exit__ with a spawned method and no free thread (NoFreeConductorWorker):
\* the error hook runs and the lock is released before the exception leaves.
SpawnRejected(t) ==
    /\ task[t].pc = "body"
    /\ ~HasFreeWorker(task[t].host)
    /\ ReleaseResources(t)
    /\ Finish(t)
    /\ UNCHANGED <<proc, fresh, suspects>>

\* The spawned method calls release_resources itself and goes on without a
\* node (_notify_conductor_resume_clean).
ReleaseEarly(t) ==
    /\ task[t].pc = "worker"
    /\ \E n \in Node : Holds(t, n) /\ reservation[n] = task[t].host
    /\ ReleaseResources(t)
    /\ task' = [task EXCEPT ![t].node = NoNode]
    /\ UNCHANGED <<proc, fresh, suspects>>

\* The spawned method returns or raises: _thread_release_resources.
WorkerDone(t) ==
    /\ task[t].pc = "worker"
    /\ ReleaseResources(t)
    /\ Finish(t)
    /\ UNCHANGED <<proc, fresh, suspects>>

-----------------------------------------------------------------------------
\* The conductor process dies with all its threads; the rows stay.
Crash(h) ==
    /\ "crash" \in Faults
    /\ proc[h] # "down"
    /\ proc' = [proc EXCEPT ![h] = "down"]
    /\ suspects' = [suspects EXCEPT ![h] = {}]
    /\ task' = [t \in Task |-> IF task[t].host = h THEN IdleTask ELSE task[t]]
    /\ lost' = lost \ TasksOf(h)
    /\ UNCHANGED <<reservation, fresh>>

\* RPCService.start: the RPC server listens before init_host is called.
Start(h) ==
    /\ proc[h] = "down"
    /\ proc' = [proc EXCEPT ![h] = "starting"]
    /\ UNCHANGED <<reservation, fresh, suspects, task, lost>>

MutClearedFor(h) == reservation          \* a restart keeps its old locks

\* init_host: clear_node_reservations_for_conductor.
ClearedFor(h) == [n \in Node |-> ReleasedBy(n, h)]

InitClear(h) ==
    /\ proc[h] = "starting"
    /\ proc' = [proc EXCEPT ![h] = "cleared"]
    /\ reservation' = ClearedFor(h)
    /\ lost' = lost \cup {t \in TasksOf(h) : \E n \in Node :
                              Holds(t, n) /\ reservation[n] = h}
    /\ UNCHANGED <<fresh, suspects, task>>

\* init_host: Conductor.register; the keepalive thread starts.
Register(h) ==
    /\ proc[h] = "cleared"
    /\ proc' = [proc EXCEPT ![h] = "up"]
    /\ fresh' = [fresh EXCEPT ![h] = TRUE]
    /\ UNCHANGED <<reservation, suspects, task, lost>>

\* del_host: no new work, the keepalive ends, the threads are waited for.
BeginStop(h) ==
    /\ "stop" \in Faults
    /\ proc[h] = "up"
    /\ proc' = [proc EXCEPT ![h] = "stopping"]
    /\ suspects' = [suspects EXCEPT ![h] = {}]
    /\ UNCHANGED <<reservation, fresh, task, lost>>

EndStop(h) ==
    /\ proc[h] = "stopping"
    /\ TasksOf(h) = {}
    /\ proc' = [proc EXCEPT ![h] = "down"]
    /\ UNCHANGED <<reservation, fresh, suspects, task, lost>>

\* touch_conductor, from the keepalive thread.
Keepalive(h) ==
    /\ proc[h] = "up"
    /\ fresh' = [fresh EXCEPT ![h] = TRUE]
    /\ UNCHANGED <<reservation, proc, suspects, task, lost>>

\* heartbeat_timeout passes without a touch.
Beating(h) == proc[h] = "up" /\ "slow" \notin Faults

HeartbeatTimeout(h) ==
    /\ ~Beating(h)
    /\ fresh' = [fresh EXCEPT ![h] = FALSE]
    /\ UNCHANGED <<reservation, proc, suspects, task, lost>>

\* _check_deploying_status of conductor c, first half: the offline conductors
\* and the nodes S reserved by one of them are read.  Which nodes match its
\* other filters is Provisioning.tla's matter, so S is a parameter here.
ScanOffline(c, S) ==
    /\ proc[c] = "up"
    /\ suspects[c] = {}
    /\ S # {}
    /\ \A n \in S : ~Free(n) /\ ~fresh[reservation[n]]
    /\ suspects' = [suspects EXCEPT ![c] = {<<n, reservation[n]>> : n \in S}]
    /\ UNCHANGED <<reservation, proc, fresh, task, lost>>

\* Second half, for one row it has read: Node.release with the tag that was
\* read, whatever has happened to the node and its conductor since.
BreakLock(c, n, h) ==
    /\ <<n, h>> \in suspects[c]
    /\ suspects' = [suspects EXCEPT ![c] = @ \ {<<n, h>>}]
    /\ reservation' = [reservation EXCEPT ![n] = ReleasedBy(n, h)]
    /\ lost' = lost \cup LosersOf(n, h, NoTask)
    /\ UNCHANGED <<proc, fresh, task>>

-----------------------------------------------------------------------------
TaskStep(t) ==
    \/ \E h \in Host, n \in Node, shared \in BOOLEAN : Acquire(t, h, n, shared)
    \/ Upgrade(t)
    \/ Reserve(t)
    \/ ReserveFails(t)
    \/ Exit(t)
    \/ Spawn(t)
    \/ SpawnRejected(t)
    \/ ReleaseEarly(t)
    \/ WorkerDone(t)

HostStep(h) ==
    \/ Crash(h)
    \/ Start(h)
    \/ InitClear(h)
    \/ Register(h)
    \/ BeginStop(h)
    \/ EndStop(h)
    \/ Keepalive(h)
    \/ HeartbeatTimeout(h)
    \/ \E S \in SUBSET Node : ScanOffline(h, S)
    \/ \E n \in Node, tag \in Host : BreakLock(h, n, tag)

Next ==
    \/ \E t \in Task : TaskStep(t)
    \/ \E h \in Host : HostStep(h)

Spec == Init /\ [][Next]_lockVars

\* Threads are scheduled and what they call returns (the drivers' calls have
\* timeouts); a conductor that has begun to start or to stop goes on with it.
\* Nothing makes anybody ask for a lock, restart a conductor or scan.
ThreadProgress(t) ==
    \/ Reserve(t) \/ ReserveFails(t)
    \/ Exit(t) \/ Spawn(t) \/ SpawnRejected(t) \/ WorkerDone(t)

Fairness ==
    /\ \A t \in Task : WF_lockVars(ThreadProgress(t))
    /\ \A h \in Host : WF_lockVars(InitClear(h) \/ Register(h) \/ EndStop(h))

FairSpec == Spec /\ Fairness

-----------------------------------------------------------------------------
(* Properties.                                                             *)

\* Two tasks own a node only if they are one task: at any time at most one of
\* the tasks that believe to have the exclusive lock has not had it cleared by
\* a restart, by _check_deploying_status, or by a task of its own host.
MutualExclusion ==
    \A t, u \in Task, n \in Node : Owns(t, n) /\ Owns(u, n) => t = u

\* A lock is never leaked: outside a conductor's start, its tag is on a node
\* exactly when one of its live tasks owns that node.
NoLeakedReservation ==
    \A n \in Node, h \in Host :
        proc[h] \notin {"down", "starting"} =>
            (reservation[n] = h <=> \E t \in TasksOf(h) : Owns(t, n))

\* The dbapi's promise that the tag uniquely identifies the holder: no two
\* tasks that hold a node present the same tag.  (This needs that no conductor
\* is ever restarted or suspected: see README.)
TagIdentifiesHolder ==
    \A n \in Node, h \in Host : \A t, u \in HeldUnder(n, h) : t = u

\* Every task comes to its end, whatever it waits for and whoever dies.
TasksEnd == \A t \in Task : (task[t].pc # "idle") ~> (task[t].pc = "idle")

\* A node does not stay locked for ever under the tag of a conductor that
\* keeps coming back, however often that conductor dies holding it.
LocksAreFreed ==
    \A n \in Node, h \in Host :
        []<>(proc[h] = "up") => []<>(reservation[n] # h)

\* The abstract lock: who owns each node.
OwnerOf(n) == IF \E t \in Task : Owns(t, n)
              THEN CHOOSE t \in Task : Owns(t, n)
              ELSE NoTask

Lock == INSTANCE NodeLock WITH
            owner <- [n \in Node |-> OwnerOf(n)],
            MayRevoke <- (Faults # {})

\* The conductors implement the abstract lock: a node changes owner only
\* through nobody, and without faults only its owner gives it up.
ImplementsNodeLock == Lock!Spec
=============================================================================
