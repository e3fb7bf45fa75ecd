# Verification of Server_Manage_Plugin

TLA+ models, model-checking runs and TLAPS proofs kept beside the code of
Huawei/Server_Manage_Plugin. Paths below are relative to the repository root;
`I/` stands for `ironic-plugin-pike/ironic/`.

## 1. Inventory of the system

The repository is a bundle of management plug-ins for Huawei servers. They share
no code; each talks either to a server's BMC (Redfish/SNMP) or to an eSight
management server (HTTP + openid session).

| Component | State it keeps | Operations | Hard behaviours |
|---|---|---|---|
| Node lock and TaskManager (`I/conductor/task_manager.py`, `I/db/sqlalchemy/api.py`) | `nodes.reservation`, TaskManager objects, worker pool | acquire (shared, exclusive, retried), upgrade, spawn, release, error hook | several conductor processes and green threads, crash while locked, retry limit, full pool |
| Conductor membership (`I/conductor/base_manager.py`, `I/common/hash_ring.py`) | `conductors.online/updated_at`, per-process hash ring cache | init_host, keepalive, del_host, offline detection, mapping of nodes | false suspicion, restart before timeout, stale ring, two conductors for a node |
| Provisioning (`I/conductor/manager.py`, `utils.py`, `I/common/states.py`, `fsm.py`) | `provision_state`, `target_provision_state`, `maintenance`, `last_error`, clean steps | deploy, tear down, clean, manage, provide, adopt, inspect, abort, timeouts, restart recovery | work handed from RPC thread to worker, timeout against late callback, crash mid-work, lock broken under a worker |
| Cleaning protocol (`I/conductor/manager.py`, `I/drivers/modules/agent_base_vendor.py`) | clean step list and index, skip flag, abort flag | next step, agent heartbeat, continue RPC, abort, timeout | duplicated or late continue, abort racing a step, hand-over of the lock through RPC |
| Power control (`I/conductor/utils.py`, `manager.py`) | `power_state`, `target_power_state`, sync counters | set power, reboot, periodic sync | check under shared lock then upgrade, crash with a target set |
| Huawei BMC driver (`I/drivers/modules/bmc_redfish/`) | none of its own; Redfish resources | power, boot device | retries, unknown states, session reuse |
| hwsushy (`hwsushy/`) | Redfish session/connector, cached resources | get/patch/post, refresh | stale cached resource |
| SCCM plug-in (`SCCM_Plugin/src`) | eSight sessions (openid, last use), task tables | open/close session, deploy and update tasks, sync workers | session timeout against use, concurrent re-login, task status sync |
| vCenter plug-in (`vCenter_Plugin/src`) | session map, H2 task tables | session provider, task refresh | stale openid, refresh races |
| vRealize plug-in (`vRealize_Plugin`) | collected resources | collect | partial failure of one eSight |
| Cacti plug-in (`Cacti_Plugin`) | scan and import jobs | scan, import, poll | job state across processes |
| Zenoss, OpenNMS plug-ins | none (modeler and configuration) | collect | none modelled |
| Ironic API, drivers of other vendors, migrations, tests | | | outside the core of this repository |

For each part, what makes it correct:

- *Node lock*: one owner at a time; no lock without an owner; every waiter ends;
  a lock of a dead conductor is freed when it comes back.
- *Membership*: every node comes to rest with the conductor that its requests
  are sent to; a takeover never works on a node that has moved on in between.
- *Provisioning*: a node is offered to users only after cleaning; every state a
  handler or worker leaves behind can be ended by a user, an agent or a timeout,
  with the exceptions that section 9 lists;
  the row follows the state machine however requests, heartbeats and timeouts
  interleave; waiting ends.
- *Cleaning protocol*: steps run in order and none twice, an abort takes effect
  between steps, a late or repeated continue does nothing; a cleaning ends.
- *Power control*: the target is cleared when the action ends, by whomever; row
  and machine come to agree again, or the node is put into maintenance.
- *Plug-ins*: a call recovers from an expired session; the stored passwords can
  be decrypted whoever renews the key.

The code does not keep all of this in every case. A property then names the case
as an exception, and what it says is that there is no other; section 9 tells
each case.

The hazards that make these hard to test are listed, each at its line and with
the properties that cover it, in `PROJECT.json`.

## 2. Plan

Done:

1. `NodeLock`, `TaskManager`, `TaskManager_proofs`: the lock everything else
   relies on, its abstract specification, its inductive invariant.
2. `ProvisionStates`, `Provisioning`: handlers, workers, timeouts, restart
   recovery, heartbeats and the inspector, composed with the lock.
3. `CleanOrder`, `CleanSteps`: the steps of a cleaning, and what they promise.
4. `PowerSync`: power actions and the periodic synchronisation.
5. `Membership`: heartbeats of conductors, cached rings, routing, takeover.
6. `ESight`: the SCCM plug-in's sessions and the renewal of its key.

Each of these modules has its theorems in a module of its own, `<module>_proofs`
(section 10): every invariant and every action property that the runs check, and
both refinements, are proved.

Left:

- the SCCM plug-in's deployment and update tasks, then the vCenter plug-in's
  sessions.

The modules other than `Provisioning` do not repeat the lock: each treats a
handler's work under it as far as its own question needs (a field `lock`, or one
step while no worker is at work), and says so at its head.

| Module | Composes | Abstract specification |
|---|---|---|
| `TaskManager` | conductors' life cycle, locks, pool | `NodeLock` (`ImplementsNodeLock`) |
| `Provisioning` | EXTENDS `TaskManager`, `ProvisionStates`: each of its task steps is a lock step together with what it does to the node | the state machine itself (`MachineIsFollowed`) |
| `CleanSteps` | the row, the worker, the agent, the messages | `CleanOrder` (`ImplementsCleanOrder`) |
| `PowerSync` | requests, several conductors' synchronisations, the machine | |
| `Membership` | rows, rings, routing, takeover | |
| `ESight` | threads, processes, the eSight | |

## 3. The lock: `NodeLock`, `TaskManager`

`NodeLock` is what the lock promises: each node has at most one owner, an owner
takes it only when it is free and is the only one to give it up, unless locks
may be revoked. `TaskManager` models `task_manager.py` and what touches the
`reservation` column elsewhere.

| State | Code |
|---|---|
| `reservation` | the `reservation` column: a host name, not a task |
| `task[t]` | a `TaskManager` object and the thread that runs it: in `_lock`, in the `with` block, in the spawned worker |
| `proc[h]` | the conductor process: `RPCService.start` listens ("starting"), `init_host` has cleared reservations ("cleared"), has registered ("up"), `del_host` ("stopping") |
| `fresh[h]` | `conductors.updated_at` against `heartbeat_timeout` |
| `suspects[h]` | rows read by a running `_check_deploying_status` |
| `lost` | history: tasks whose reservation was cleared by somebody else |

Every database statement is one action, everything in between interleaves.
`Acquire`, `Reserve`, `ReserveFails`, `Upgrade` are `__init__`, `_lock` and
`upgrade_lock`; `Exit`, `Spawn`, `SpawnRejected`, `WorkerDone` are `__exit__`
and `_thread_release_resources`; `ReleaseEarly` is the agent's hand-over of the
lock. Losing the lock is silent in the code: the task goes on, so the model
keeps it going.

`MutualExclusion` is about tasks that have not lost their lock. That one of
them may lose it is real (section 9, "met on the way"), and the property says that this is the
*only* way to two threads on a node.

## 4. Provisioning: `ProvisionStates`, `Provisioning`

`ProvisionStates` is the table of `states.py` and the target tracking of
`fsm.py`.

| State | Code |
|---|---|
| `db[n]` | `provision_state`, `target_provision_state`, `maintenance`, and whether `provision_updated_at` is older than the timeout of the state |
| `snap[t]` | `task.node` and `task.fsm`: a *copy*; `process_event` decides by it and overwrites the row |
| `undo[t]` | the arguments given to `provisioning_error_handler` |
| `job[t]` | the handler or the spawned method and the place in it |
| `sweep[h]` | nodes read by a running `_fail_if_in_state`, `_periodic_check_result` or `_start_inspection` and not handled yet |
| `casts` | `continue_node_clean` messages in flight |
| `disk[n]`, `robbed` | history: whether the disks have been cleaned since they held something; nodes whose lock was taken from a task |

A handler is `Request`/`Heartbeat`/`Continue`/`SweepNext` (call), `TakeLock` or
`LockBusy`, one action of the with block, and `Leave` or `SpawnWorker` or
`NoFreeWorker`. A worker is one action per place where it can be interrupted:
each `process_event`, the save of maintenance before the ramdisk is torn down,
the read of the target that tells manual from automated cleaning. Drivers are
external and return or raise at will. Most workers catch whatever is raised and
process an event. Two do not: `do_node_deploy` catches one of the exceptions that
storing the configdrive raises and does nothing with an unknown answer of the
driver, and `_do_node_clean` catches what the validations and
`set_node_cleaning_steps` document. `Raises` is everything else in these two: the
thread ends and the lock is released, without an event. The constant `Uncaught`
names the jobs in which that may happen. A request of a user may meet any state:
the API's check is on a row it read earlier.

`NoAbandonedWork` and `WorkIsEnded` say what the code guarantees all the same: an
unlocked node is in the middle of no work other than such a deployment or
cleaning (`MayAbandon`), and no method but these two lets go of work that it has
begun while its conductor lives and it has its lock and its thread.

With `UsesInspector` the driver's `inspect_hardware` is `inspector.py`'s: it
starts a green thread (`Introspect`) and leaves the node `INSPECTING`; the thread
ends (`IntrospectReturns`) or, failing, takes the lock anew and fails the node
whatever it does by then (`IntrospectRaises`); the periodic task reads the state
under a shared lock, asks ironic-inspector (`CheckStatus`), upgrades and
processes the verdict without another look (`RecordInspection`).

Two conductors, or two tasks of one, may work on a node at once only after a
lock was taken away. The safety properties other than `TargetFitsState` exclude such nodes (`robbed`): in
the run with faults the search stops there (constraint `NotRobbed`, one node).

## 5. Cleaning step by step: `CleanOrder`, `CleanSteps`

`CleanOrder` is the promise: steps one at a time, in order, none before all
earlier ones are complete, none twice, a good end only when all are; a cleaning
may be broken off or begun anew at any time. `CleanSteps` is one node's
bookkeeping and whoever uses it.

| State | Code |
|---|---|
| `node` | the row: state, kind of cleaning, `clean_step`, its `abort_after`, `clean_step_index`, `skip_current_clean_step`, `cleaning_reboot`, maintenance |
| `work` | the worker under the lock: `_do_node_clean`, the loop of `_do_next_clean_step`, `cleaning_error_handler`, `_do_node_clean_abort` |
| `agent` | the last command of the agent in the ramdisk and the step it is for; or a machine that is off or boots |
| `casts` | `continue_node_clean` messages on their way |
| `done`, `ended` | history: steps completed, and a good end |

A heartbeat in CLEANWAIT is one action per case of `heartbeat` and
`continue_cleaning`; a heartbeat that changes nothing is a stutter. Steps of the
agent (`InBand`) end by its own doing, the conductor's own when they return; the
agent may refuse a step because its versions changed, which starts the cleaning
anew (automated) or repeats the step (manual).

Maintenance is set by `cleaning_error_handler` and by operators (`UpdateNode`),
and only an operator clears it: `manage` leaves it as it is, and `provide` does not
ask for it, while a manual cleaning is refused. So a cleaning may begin, or come
to be, in maintenance, where neither the agent's calls nor the timeout move it.

`CleaningEnds` has four exceptions, in which the code keeps a cleaning for ever:
a step flagged for an abort (section 9), a lost message that would have repeated
a step, a node in maintenance, and an exception that `_do_node_clean` does not
catch (`LeftBehind`). Any other cleaning ends, and so does one whose node is taken
out of maintenance and left there.
`Prepare`'s branch for drivers that need no ramdisk is there for instances with
`InBand = {}`, which no run has: they have no message, heartbeat or agent.

## 6. Power: `PowerSync`

| State | Code |
|---|---|
| `row` | `power_state`, `target_power_state`, maintenance, "in `SYNC_EXCLUDED_STATES`", the reservation |
| `job[t]` | a thread in `change_node_power_state`/`node_power_action` or in `_sync_power_states`, with what it has read |
| `count[h]` | `power_state_sync_count` of each conductor |
| `machine` | what the BMC would answer |

The synchronisation reads the machine under a shared lock and upgrades before it
acts; a conductor whose ring is stale may take the node for its own, so several
synchronise it, each with its own counter. Actions fail before or after they had
an effect. `RecordConverges` counts a waiting node (DEPLOYWAIT, CLEANWAIT) as
settled: the code leaves those alone. It has one exception: a node without a
recorded state whose driver fails to validate (`SyncNotValidated`) is left alone
without being counted, so that it never gets maintenance. If that does not
happen again and again, record and machine come to agree.

## 7. Membership: `Membership`

| State | Code |
|---|---|
| `conductor[h]` | the process, its row (`online`, age of `updated_at`), a `touch_conductor` on its way |
| `ring[h]` | the hash ring cached by the process and whether it is still used |
| `node` | ACTIVE or not, maintenance, `conductor_affinity`, the reservation |
| `job[t]` | a run of `_sync_local_state`, a request that was sent or is worked on |

The ring is an order of the hosts: a node belongs to the first one that the ring
knows, which is what consistent hashing with one replica gives for one node.
Messages go to the host that the API computed; it may be dead or no longer the
owner when it arrives, and the handler does not look.

## 8. eSight sessions: `ESight`

| State | Code |
|---|---|
| `mainKey`, `stored` | the key file; the key that the password in the database is encrypted with |
| `mutex` | the named mutex of `RefreshPwds` |
| `pwd`, `online`, `openid`, `header` | a process's `ESSession`: its copy of the row, `LatestStatus`/`_isOpen`, `_openID`, the header of its `HttpClient` |
| `pc`, `back`, `seen` | a thread's place in `Instance`, `FindAndOpenESSession` and a call, and what it has read |
| `valid` | the openids that the eSight accepts |

Sessions are shared by the threads of a process without a lock; every
distribution of the threads over two processes is an initial state (`home`). A
password is the key it was encrypted with. `crossed` is history: a session was
started again, from a row read earlier, between the new password and its save.

A login is four steps, between which the process's other threads go on:
`InitHC` gives the session a new client that has no openid header, for all
threads; `GetLoginParam` decrypts the password (or throws) and looks the local
address up; `InitHCHead` sets the header, to the openid of the login before;
`LoggedIn` or `LoginFails` is the answer. `CallsRecover` therefore has an exception:
a thread whose client is replaced between its header and its request
(`ClientLost`) sends without an openid and logs in once more, and two threads may
do that to each other for ever. A thread to which that does not happen again and
again has its calls succeed again and again. `InitHCHead`'s removal and addition
of the header are one step.

## 9. Runs

| Run | Instance | Shows |
|---|---|---|
| `lock` | 2 conductors, 1 node, 2 tasks, pool of 1, 2 attempts, all faults, fair | one owner; no leaked reservation; tasks end; locks are freed; `NodeLock` is implemented |
| `prov_no_faults` | 1 conductor, 1 node, 2 tasks, pool of 1, all requests, uncaught exceptions in cleanings | nodes are cleaned before use; hooks restore what fits; no work is abandoned but a cleaning, in the two ways that are known; no thread ends with `InvalidState`; the row follows the machine |
| `prov_takeover` | 2 conductors, 1 node, 1 task, crashes and stops at any point, uncaught exceptions in deployments and cleanings, six requests | neither a restart nor another conductor's takeover gives out an unclean node; broken deployments fail with the right target; work is dropped only in the ways that `WorkIsEnded` lists |
| `prov_liveness` | 1 conductor, 2 tasks, pool of 1, ironic-inspector, uncaught exceptions, fair | waiting nodes are failed in the end; late verdicts follow the machine |
| `prov_dead` | 2 conductors, 2 tasks, crashes, fair | refuted, see below |
| `clean_steps` | 4 steps: the agent's 1 (asks for a reboot), 2 (abortable) and 4, the conductor's 3; lost messages, uncaught exceptions, maintenance set and cleared; 2 mismatches | order, aborts, end |
| `clean_abort` | the first 3 steps, no lost messages | refuted, see below |
| `clean_reboot` | the first 3 steps, agents that restart by themselves | refuted, see below |
| `power` | 2 conductors that synchronise, one of which forces and takes requests; 1 retry; 1 change by hand, 1 crash, 1 request | no pending target; forcing obeys the row; record and machine converge while the driver validates |
| `membership` | 2 conductors, 2 faults (crash, stop, late heartbeat), 2 requests | no leaked lock; takeovers check again; ownership settles |
| `esight` | 2 threads in 1 or 2 processes, 2 renewals, 1 fault | passwords stay readable; calls recover unless threads keep replacing each other's client |
| `esight_retry` | the same, no renewal | refuted, see below |

*Bounds.* Everything the lock and the handlers decide concerns one node.
Interference on it needs two tasks, and a pool of 1 is where a spawn is refused:
the second task is then a handler beside the worker that fills the pool.
`prov_takeover` has one task and the periodic checks of two conductors: the task
that a crash cuts off is free to be the other conductor's. Two conductors are
needed for a false suspicion and for a takeover, and are as many as can disagree
about one node. Two attempts (`MaxAttempts`) where retrying is the question, one
elsewhere. With crashes, all requests at once exceed what TLC can do in minutes:
the run takes those that lead through deployment, deletion, both cleanings and
back, and the abort.
`Uncaught` holds the two cleanings in `prov_no_faults`, so that `NoAbandonedWork`
still has to find every deployment ended there; all three jobs in `prov_takeover`
and `prov_liveness`; none in `prov_dead`, whose deployment is to be lost by a broken
lock only.
Four steps give the conductor's own between two of the agent's, and one with
each flag. Two renewals
of the key let the second meet what the first left. `MaxCasts` = 1: see the list
below for what two messages do. Counters are bounded in the guards by constants
named `Max...`, each commented. Symmetry is used in `prov_no_faults` (tasks) and
`prov_takeover` (conductors), which check no liveness.

*Deadlock* is checked in every run: some task can always be created or go on.

*Fairness.*

- Locks (`Fairness`): a thread goes on, since the pool runs green threads to
  completion and driver calls have timeouts; a conductor that has begun to start
  or to stop goes on. Nobody is obliged to ask for a lock or to restart a
  conductor.
- `ProvFairness` adds that time passes, that the periodic checks run and that
  their loops continue (`check_provision_state_interval`); no user, agent or
  message is obliged to come. `WaitsEnd` assumes that users and agents fall
  silent: otherwise each of their heartbeats and requests may take the lock just
  before the timeout does. `TakeoverFairness` adds `_check_deploying_status` and
  the expiry of a dead conductor's heartbeat.
- `CleanSteps`: workers run, agents boot, call and end what they do, timeouts are
  checked. The continue message is strongly fair: the agent sends it again with
  every heartbeat, so that one of infinitely many arrives at an unlocked node.
- `PowerSync`: threads and the periodic task run; a dead conductor is restarted
  (its own locks are cleared by nobody else).
- `Membership`: threads run, cached rings expire, dead conductors' heartbeats
  time out. `Choose` and `TakeOver` are strongly fair: the node is unlocked again
  and again between the periodic checks, and a takeover repeated for ever
  succeeds once. Nobody restarts a conductor.
- `ESight`: weak fairness of each thread; waiting for the mutex ends in having
  it or giving up after 60 s.

### Disagreements found

Each is a run that TLC refutes, with the quotation in `PROJECT.json`.

| Run | What happens |
|---|---|
| `prov_dead` | a broken deployment is skipped if its node is locked just then, and never looked at again |
| `clean_abort` | the flag of a delayed abort makes `clean_step` differ from the step of the agent's answer: the end of the step is never noticed |
| `clean_reboot` | `cleaning_reboot` is popped from a copy that is never saved: an agent that restarts in a later step is taken for one that was asked to, and its step is left out |
| `esight_retry` | the repeated request carries the old openid: the header is set before the loop, and the new client gets the old one during the login |

Met on the way, without a run of their own:

- The reservation tag does not identify its holder as soon as a conductor may
  crash: `init_host` clears reservations when its RPC server is already serving,
  and the tag is the host name (`I/conductor/task_manager.py:268`), so that two
  tasks of a host can hold one node. This is why `lost` and `robbed` exist.
- `del_host` ends the keepalive before its workers have ended
  (`I/conductor/base_manager.py:268`); another conductor may break their locks.
- `continue_node_clean` finds the pool full: the node stays `CLEANING`, unlocked,
  without thread or timeout (`I/conductor/manager.py:883`). This is one of the
  exceptions in `NoAbandonedWork`. The worker that sent the message still fills its
  slot, so a pool of one is always full then.
- An exception that `do_node_deploy` or `_do_node_clean` does not catch
  (`I/conductor/manager.py:2829`, where the configdrive is stored: `ConfigInvalid`
  is documented at 2786; and 916, 955: anything but `InvalidParameterValue` and
  `NodeCleaningFailure`) ends the worker with the node `DEPLOYING` or `CLEANING`,
  unlocked and with no event processed; so does a `deploy` that returns neither
  DEPLOYDONE nor DEPLOYWAIT (2873). The periodic check looks at reserved nodes
  only. A restart of the conductor fails the deployment (`init_host`). Nothing of
  the kind is done for the cleaning; a user can end it by `manage`, because the
  machine has that edge from `CLEANING` for the end of a manual one.
- After a failed cleaning the node is in maintenance; `manage` does not clear it,
  and `provide` begins the next automated cleaning without asking
  (`I/conductor/manager.py:1148`). In CLEANWAIT the heartbeats
  (`I/drivers/modules/agent_base_vendor.py:295`) and the timeout
  (`I/conductor/manager.py:1474`) skip such a node until an operator takes it out.
- A node that has no recorded power state and whose driver does not validate is
  not synchronised and not counted (`I/conductor/manager.py:2940`): it gets
  neither a state nor maintenance, however long that lasts.
- `_fail_if_in_state` does not look at the age of the state again under the lock:
  a node whose agent has just called is failed.
- A node left in `DELETING` by a dead conductor accepts a manual cleaning,
  although `do_node_clean` says that it raises if the node is not manageable: the
  state machine has that edge for the automated cleaning.
- `_check_deploying_status` passes a filter `id` that the database layer does not
  know; `BreakAndFail` therefore reads any nodes together with the one meant.
- Two continue messages on their way (an agent that calls twice before the first
  is handled) run steps at once or leave one out: nothing ties a message to the
  step it is for.
- An agent that restarts by itself, with no step before it that asked for a
  reboot, calls and has no command to report: the node waits as long as it calls.
- An ACTIVE node that a dead conductor has locked is not taken over, since
  `_sync_local_state` excludes reserved nodes: `Settles` is about nodes that are
  free again and again.
- The verdict of ironic-inspector is processed under the upgraded lock without
  another look at the state (`I/drivers/modules/inspector.py:185`). Two conductors
  may ask for it while their rings disagree. If the node has left `INSPECTING` in
  between, and the cleaning that followed was cut by a crash and its lock cleared,
  or a full pool left the node `CLEANING`, the second "done" is the "done" of the
  cleaning: the node becomes `available` without having been cleaned. With
  `UsesInspector = TRUE` and two conductors TLC finds both: with two tasks and a
  crash in 28 states, with three tasks and no fault in 36. The two runs that check
  `AvailableIsClean` have no inspector, and its theorem has the hypothesis.
- The synchronisation may write a reading that is out of date by the time it has
  its lock, so that a right row becomes wrong until the next round.
- `touch_conductor` brings a row online that `del_host` has just taken offline;
  it takes `heartbeat_timeout` to notice.
- With several hash ring replicas (`hash_distribution_replicas` > 1) each of them
  would take an ACTIVE node from the others in every round; the model has one.
- A login replaces the HTTP client of all threads of the process by one that has
  no openid header yet (`Workers/ESSession.cs:747`; the header is set at 462, after
  the decryption and the address lookup). Requests of other threads in between
  are refused, and each refused thread logs in as well, with the same effect on
  the others: TLC finds two threads that go on so for ever, if `ClientLost` is left
  out of `CallsRecover`.
- A thread that starts an eSight session again between the new password and its
  save writes the old one back, which nobody can decrypt any more (`crossed`);
  a process that dies between the new key and the passwords loses them as well.

## 10. Proofs

Every invariant and action property that a passing run checks is also a theorem,
for any sets of hosts, nodes, tasks, processes and threads, any bounds and (unless
said below) any faults. Each module of proofs names an inductive invariant, shows
that `Init` implies it and that every action keeps it, one step or lemma per
action, and derives the properties from it. What is assumed of the constants is
in the modules' named `ASSUME`s, or is a hypothesis of the theorem.

| Module | Theorems (property) | Hypotheses |
|---|---|---|
| `TaskManager_proofs` | `TypeCorrect` (`TypeOK`), `MutualExclusionHolds`, `NoLeakedReservationHolds`, `ImplementsNodeLockHolds` | none |
| | `TagIdentifiesHolderHolds`: what the dbapi's doc takes for granted | `Faults = {}` |
| `Provisioning_proofs` | `ProvisioningKeepsLocks` (`ProvSpec => Spec`), `ProvTypeCorrect`, `TargetFitsStateHolds`, `NoInvalidStateHolds`, `MachineIsFollowedHolds`, `WorkIsEndedHolds` | none |
| | `NoAbandonedWorkHolds` | no faults, finitely many tasks |
| | `AvailableIsCleanHolds` | no inspector; or no faults, threads enough for all (finitely many) tasks, and no uncaught exception in a cleaning |
| `CleanSteps_proofs` | `CleanTypeCorrect` | none |
| | `AbortBetweenStepsHolds` | one continue message on its way |
| | `ImplementsCleanOrderHolds`, `RebootFollowsStepWithoutRestarts` | the same, and no agent that restarts by itself |
| `PowerSync_proofs` | `PowerTypeCorrect`, `NoPendingPowerHolds`, `SyncObeysRowHolds` | none |
| `Membership_proofs` | `MembershipTypeCorrect`, `LockHasItsThreadHolds`, `TakesOverServedHolds` | none |
| `ESight_proofs` | `ESightTypeCorrect`, `PasswordReadableHolds` | none |

Apart from the finiteness of `Task`, the hypotheses are the code's, not the
prover's: for each there is an execution of the code that breaks the property
without it. A tag does not identify its holder
once a conductor restarts; a dead conductor abandons its work; two continue
messages misorder steps; an agent that restarts by itself has its step left out
(run `clean_reboot`); the inspector's verdict ends a cleaning (section 9).

*The lock.* `MutualExclusion` is not inductive: that a free node can be taken
safely rests on its owner having put a tag on it, and that a release does not hit
another task's lock rests on tags of running conductors belonging to live tasks.
`LockInv` is `TypeOK` with three parts: idle tasks are blank and live tasks belong
to conductors that are not down; an owned node is reserved under its owner's host
and by nobody else; a reservation of a conductor that is neither down nor
starting has a live owner. For `TagIdentifiesHolder` it is joined with `Calm`:
every conductor is up and beating, nobody is suspected, nobody has lost a lock.
`Calm` needs mutual exclusion: a release would hit a second holder of its host.
The refinement maps a node's owner to the task that holds its lock and has not
lost it; every step is an `Acquire`, a `Release`, a revocation or a stutter of
`NodeLock`.

*Provisioning.* `ProvSpec => Spec` first: all that is proved of the locks holds
here. Then four invariants, each on top of the one before.

- `TaskInv` relates a task's place, its job, the state of its machine, its target
  and the arguments it keeps for the error handler. It needs no lock: a task
  decides by its copy alone, so that `TargetFitsState` holds even on a node on
  which two threads work. It ties each job to the states its copy may be in
  (`StateOfJob`), and the machine's table has an edge there for every event the
  job may process next (`AsksAccepted`): that is `NoInvalidState`. Only the
  error handler of a timeout asks in vain, and the code allows for it
  (`I/conductor/utils.py:366`).
- `FreshInv` adds that whoever lost a lock has been seen to (`robbed`), and that the
  copy of a task that works on a node equals its row in state and target. That
  is where the lock is needed: nobody else writes the row in between.
- `CalmWork` (no faults) adds that a node in a state in which a thread works is held
  by a task whose job is to end that state, or is one of the two kinds of work that
  may be left (`MayAbandon`); and that the error handler restores no such state. It needs the
  freshness of copies, since an event is accepted or refused by the copy.
  Its part about a single step needs no such hypothesis: `WorkIsEnded` says, for
  all faults, that a job with something to end is gone on with until it is
  ended. It follows from `FreshInv`, action by action (`EndsWell`), and names
  what may cut it off: the conductor's death, a broken lock, a full pool, and an
  exception in one of the jobs of `Uncaught` (`RaisesSettles`), which no other job
  has.
- `CleanInv` adds `DiskInv`: a row that is `available`, or that waits in an automated
  cleaning, is about disks that have been, or are being, cleaned; and so are the
  states that an error handler may restore and the place a cleaning worker has
  reached. The last part is `VerdictsHarmless`: there are no verdicts, or every
  cleaning is in the hands of its task.

The actions fall into three shapes (`Shape`): a step of one task on the row it has
locked (`WriteStep`), a worker that gets its thread, and steps about no row
(`QuietStep`). What a shape keeps is proved once; what an action writes is
proved action by action (`HandleEnds`, `WorkClean` and the others).

*Cleaning steps.* `TypeInv` needs nothing. `StepInv` says that the row, the worker,
the agent and the messages agree on the current step, and that no message is on
its way while a worker is at it. `DoneInv` adds which steps are complete at each
place: all before the worker's, and that a kept step is one the agent refused.

*Power, membership, sessions.* `PowerInv` says that who acts has the lock and what
the row recorded when it took it; `OwnerInv` that the thread that works on the node
is the only one and has the tag of its host, and that the tag of a running host
is the lock of one of its threads; `RefreshInv` that only the holder of the mutex
renews the key, and which key the row has at each of its lines.

Only model-checked: liveness (`TasksEnd`, `LocksAreFreed`, `WaitsEnd`,
`CleaningEnds`, `AbortTakesEffect` and the other temporal properties: fairness and
ENABLED are out of the prover's reach), and the four refuted properties.
`RebootFollowsStep` is both: refuted with agents that restart, proved without.

## 11. Not modelled

- The composition of membership and provisioning: in `Provisioning` a periodic
  task handles any subset of the nodes its filters match, which includes what any
  ring would give it.
- Consoles, RAID, boot devices, ports, vifs, volume targets, sensors; `last_error`
  and notifications, which no decision reads.
- The SCCM plug-in's adding, changing and removing of an eSight, temporary
  sessions, and its deployment and update tasks.
- Huawei's BMC driver and `hwsushy` keep no state between calls: to the conductor
  they are driver calls that return or raise.
- The REST API, other vendors' drivers, the database schema and its migrations.
- The plug-ins for Cacti, Zenoss, OpenNMS and vRealize, which keep hardly any
  state; that for vCenter is left for later.
- `Openstack_Plugin` holds a second copy of the two OpenStack trees; one is
  modelled.
