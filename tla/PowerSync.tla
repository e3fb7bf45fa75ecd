----------------------------- MODULE PowerSync ------------------------------
(* The power state of one node: what the row records, what the machine is, *)
(* the actions that users ask for, and the periodic synchronisation of     *)
(* every conductor that takes the node for its own (iter_nodes maps it by  *)
(* a cached hash ring, so that two of them may).  A synchronisation reads  *)
(* the machine under a shared lock, which excludes nobody, and upgrades to *)
(* the exclusive lock before it acts.  A restart is one step here: what a  *)
(* conductor does to its own new handlers while it starts is in            *)
(* TaskManager.                                                            *)
EXTENDS Naturals, FiniteSets

CONSTANTS Host,           \* conductors
          Mapped,         \* those that the API sends the node's requests to
          MaxRetries,     \* CONF.conductor.power_state_sync_max_retries
          Forcing,        \* those with force_power_state_during_sync
          MaxByHand,      \* bound: changes of the machine by hand
          MaxCrashes,     \* bound: conductors that die
          MaxRequests     \* bound: requests of users

ASSUME PowerAssumption ==
    /\ Host # {} /\ Mapped \subseteq Host /\ Forcing \subseteq Host
    /\ {MaxRetries, MaxByHand, MaxCrashes, MaxRequests} \subseteq Nat

VARIABLES row,            \* the node's row
          machine,        \* the power of the machine: "on" or "off"
          job,            \* what each task does
          count,          \* power_state_sync_count of each conductor
          up,             \* the conductors that run
          spent           \* how much of each bound has been used

vars == <<row, machine, job, count, up, spent>>

\* A loop that synchronises, and a thread for requests.
Task   == (Host \X {"sync"}) \cup (Mapped \X {"request"})
NoTask == <<"no task", "no task">>
HostOf(t) == t[1]
Sync(h)   == <<h, "sync">>

Power  == {"on", "off"}
Wanted == Power \cup {"reboot", "error"}
Stage  == {"idle", "reading", "upgrading", "giving_up",
           "starting", "acting", "saving"}

Row == [power  : Power \cup {"error", "none"},   \* "none": never seen
        target : Power \cup {"none"},            \* target_power_state
        maint  : BOOLEAN,
        waits  : BOOLEAN,                \* in SYNC_EXCLUDED_STATES
        lock   : Task \cup {NoTask}]

TypeOK ==
    /\ row \in Row
    /\ machine \in Power
    /\ job \in [Task -> [stage : Stage,
                         seen  : Power \cup {"error", "none"},
                         want  : Wanted \cup {"none"}]]
    /\ count \in [Host -> 0 .. MaxRetries + 1]
    /\ up \subseteq Host
    /\ spent \in [hand : 0 .. MaxByHand, crash : 0 .. MaxCrashes,
                  request : 0 .. MaxRequests]

IdleJob == [stage |-> "idle", seen |-> "none", want |-> "none"]

Init ==
    /\ row = [power |-> "none", target |-> "none", maint |-> FALSE,
              waits |-> FALSE, lock |-> NoTask]
    /\ machine \in Power
    /\ job = [t \in Task |-> IdleJob]
    /\ count = [h \in Host |-> 0]
    /\ up = Host
    /\ spent = [hand |-> 0, crash |-> 0, request |-> 0]

Free == row.lock = NoTask
At(t, stage) == HostOf(t) \in up /\ job[t].stage = stage
Goto(t, stage) == job' = [job EXCEPT ![t].stage = stage]
End(t) == job' = [job EXCEPT ![t] = IdleJob]
Counts(h, c) == count' = [count EXCEPT ![h] = c]

\* What the row says when the task that has the lock is done with it.
Unlocked(r) == [r EXCEPT !.lock = NoTask]

-----------------------------------------------------------------------------
(* change_node_power_state.                                                *)

Goal(s) == IF s = "reboot" THEN "on" ELSE s

\* The target is saved before the thread is asked for; without a thread
\* power_state_error_handler takes it back.
ChangeNodePowerState(h, s) ==
    /\ h \in up \cap Mapped
    /\ job[<<h, "request">>].stage = "idle"
    /\ Free
    /\ spent.request < MaxRequests
    /\ spent' = [spent EXCEPT !.request = @ + 1]
    /\ row' = [row EXCEPT !.target = Goal(s), !.lock = <<h, "request">>]
    /\ job' = [job EXCEPT ![<<h, "request">>] =
                  [stage |-> "starting", seen |-> row.power, want |-> s]]
    /\ UNCHANGED <<machine, count, up>>

MutNoFreeWorker(t) ==                   \* the target is not taken back
    /\ At(t, "starting") /\ t[2] = "request"
    /\ row' = Unlocked(row)
    /\ End(t)
    /\ UNCHANGED <<machine, count, up, spent>>

\* power_state_error_handler.
NoFreeWorker(t) ==
    /\ At(t, "starting") /\ t[2] = "request"
    /\ row' = Unlocked([row EXCEPT !.power = job[t].seen, !.target = "none"])
    /\ End(t)
    /\ UNCHANGED <<machine, count, up, spent>>

-----------------------------------------------------------------------------
(* node_power_action, for a request or for the synchronisation.            *)

\* The machine cannot be asked: the error is saved and the target cleared.
CannotRead(t) ==
    /\ At(t, "starting")
    /\ row' = Unlocked([row EXCEPT !.target = "none"])
    /\ End(t)
    /\ UNCHANGED <<machine, count, up, spent>>

\* _not_going_to_change.
NotGoingToChange(t) ==
    /\ At(t, "starting")
    /\ job[t].want = machine
    /\ row' = Unlocked([row EXCEPT !.power = machine, !.target = "none"])
    /\ End(t)
    /\ UNCHANGED <<machine, count, up, spent>>

MutSaveTarget(t) ==                     \* a reboot is saved as it was asked
    /\ At(t, "starting")
    /\ job[t].want # machine
    /\ row' = [row EXCEPT !.target = job[t].want]
    /\ job' = [job EXCEPT ![t].stage = "acting", ![t].seen = "none"]
    /\ UNCHANGED <<machine, count, up, spent>>

\* The target is saved unless it is there already; an error that the row has
\* recorded as the power state has no target.
SaveTarget(t) ==
    /\ At(t, "starting")
    /\ job[t].want # machine
    /\ row' = [row EXCEPT !.target = IF job[t].want = "error" THEN "none"
                                     ELSE Goal(job[t].want)]
    /\ job' = [job EXCEPT ![t].stage = "acting", ![t].seen = "none"]
    /\ UNCHANGED <<machine, count, up, spent>>

\* The driver's set_power_state or reboot returns when the machine has got
\* there; or it raises, at once or after the machine has changed, and the
\* target is cleared.
Act(t) ==
    /\ At(t, "acting")
    /\ machine' \in {machine} \cup (Power \cap {Goal(job[t].want)})
    /\ \/ /\ machine' = Goal(job[t].want)
          /\ Goto(t, "saving")
          /\ UNCHANGED row
       \/ /\ row' = Unlocked([row EXCEPT !.target = "none"])
          /\ End(t)
    /\ UNCHANGED <<count, up, spent>>

SaveSuccess(t) ==
    /\ At(t, "saving")
    /\ row' = Unlocked([row EXCEPT !.power = Goal(job[t].want),
                                   !.target = "none"])
    /\ End(t)
    /\ UNCHANGED <<machine, count, up, spent>>

NodePowerAction(t) ==
    \/ CannotRead(t) \/ NotGoingToChange(t) \/ SaveTarget(t) \/ Act(t)
    \/ SaveSuccess(t)

-----------------------------------------------------------------------------
(* _sync_power_states and do_sync_power_state, for one node.               *)

\* The node is looked at under a shared lock and left alone while something
\* else is going on.
SyncPowerStates(h) ==
    /\ h \in up
    /\ job[Sync(h)].stage = "idle"
    /\ ~row.waits /\ ~row.maint /\ row.target = "none" /\ Free
    /\ job' = [job EXCEPT ![Sync(h)] =
                  [stage |-> "reading", seen |-> row.power, want |-> "none"]]
    /\ UNCHANGED <<row, machine, count, up, spent>>

\* A node without a recorded state is not synchronised while its driver does
\* not validate, and that is not counted; what validate does not document ends
\* the loop, until it runs again.
SyncNotValidated(h) ==
    /\ At(Sync(h), "reading")
    /\ job[Sync(h)].seen = "none"
    /\ End(Sync(h))
    /\ Counts(h, 0) \/ UNCHANGED count
    /\ UNCHANGED <<row, machine, up, spent>>

\* The machine is what the row said when it was read.
SyncAgrees(h) ==
    /\ At(Sync(h), "reading")
    /\ job[Sync(h)].seen = machine
    /\ End(Sync(h)) /\ Counts(h, 0)
    /\ UNCHANGED <<row, machine, up, spent>>

\* It is not: what has been read is remembered while the lock is upgraded.
SyncDiffers(h) ==
    /\ At(Sync(h), "reading")
    /\ job[Sync(h)].seen # machine
    /\ job' = [job EXCEPT ![Sync(h)].stage = "upgrading",
                          ![Sync(h)].seen = machine]
    /\ UNCHANGED <<row, machine, count, up, spent>>

\* The driver raises, or answers ERROR.  Too many times in a row: give up.
SyncCannotRead(h) ==
    /\ At(Sync(h), "reading")
    /\ IF count[h] + 1 > MaxRetries
       THEN /\ \E s \in {"error", "none"} :
                  job' = [job EXCEPT ![Sync(h)].stage = "giving_up",
                                     ![Sync(h)].seen = s]
            /\ UNCHANGED count
       ELSE End(Sync(h)) /\ Counts(h, count[h] + 1)
    /\ UNCHANGED <<row, machine, up, spent>>

\* handle_sync_power_state_max_retries_exceeded.  The counter would go on from
\* here, but once above the limit its value makes no difference.
Surrendered(s) == [row EXCEPT !.power = s, !.maint = TRUE]

\* upgrade_lock, then give up without looking at the row again.
SyncGivesUp(h) ==
    /\ At(Sync(h), "giving_up")
    /\ Free
    /\ row' = Surrendered(job[Sync(h)].seen)
    /\ End(Sync(h)) /\ Counts(h, MaxRetries + 1)
    /\ UNCHANGED <<machine, up, spent>>

\* upgrade_lock has failed for long enough: NodeLocked.
SyncFindsLocked(h) ==
    /\ \E stage \in {"upgrading", "giving_up"} : At(Sync(h), stage)
    /\ ~Free
    /\ End(Sync(h))
    /\ UNCHANGED <<row, machine, count, up, spent>>

\* With the exclusive lock and the row read again, nothing is left to do.
SyncSettled(h) ==
    /\ At(Sync(h), "upgrading")
    /\ Free
    /\ row.power = job[Sync(h)].seen \/ row.waits \/ row.maint
    /\ End(Sync(h)) /\ Counts(h, 0)
    /\ UNCHANGED <<row, machine, up, spent>>

MustSync(h) ==
    /\ At(Sync(h), "upgrading")
    /\ Free
    /\ row.power # job[Sync(h)].seen /\ ~row.waits /\ ~row.maint

Record(h, r, c) ==
    /\ row' = r
    /\ End(Sync(h)) /\ Counts(h, c)
    /\ UNCHANGED <<machine, up, spent>>

SyncFirstState(h) ==
    /\ MustSync(h)
    /\ row.power = "none"
    /\ Record(h, [row EXCEPT !.power = job[Sync(h)].seen], 0)

SyncTooOften(h) ==
    /\ MustSync(h)
    /\ row.power # "none"
    /\ count[h] + 1 > MaxRetries
    /\ Record(h, Surrendered(job[Sync(h)].seen), MaxRetries + 1)

MutSyncForces(h) ==                     \* what was read, not what is recorded
    /\ MustSync(h) /\ h \in Forcing
    /\ row.power # "none" /\ count[h] + 1 <= MaxRetries
    /\ row' = [row EXCEPT !.lock = Sync(h)]
    /\ job' = [job EXCEPT ![Sync(h)] = [stage |-> "starting", seen |-> "none",
                                        want |-> job[Sync(h)].seen]]
    /\ Counts(h, count[h] + 1)
    /\ UNCHANGED <<machine, up, spent>>

\* The machine is made to be what the row says.
SyncForces(h) ==
    /\ MustSync(h) /\ h \in Forcing
    /\ row.power # "none" /\ count[h] + 1 <= MaxRetries
    /\ row' = [row EXCEPT !.lock = Sync(h)]
    /\ job' = [job EXCEPT ![Sync(h)] =
                  [stage |-> "starting", seen |-> "none", want |-> row.power]]
    /\ Counts(h, count[h] + 1)
    /\ UNCHANGED <<machine, up, spent>>

\* Or the row to say what the machine was when it was read.
SyncRecords(h) ==
    /\ MustSync(h) /\ h \notin Forcing
    /\ row.power # "none" /\ count[h] + 1 <= MaxRetries
    /\ Record(h, [row EXCEPT !.power = job[Sync(h)].seen], count[h] + 1)

SyncStep(h) ==
    \/ SyncNotValidated(h) \/ SyncAgrees(h) \/ SyncDiffers(h)
    \/ SyncCannotRead(h) \/ SyncGivesUp(h) \/ SyncFindsLocked(h)
    \/ SyncSettled(h) \/ SyncFirstState(h) \/ SyncTooOften(h)
    \/ SyncForces(h) \/ SyncRecords(h)

-----------------------------------------------------------------------------
(* The rest of the world.                                                  *)

\* update_node: maintenance is set or cleared.
SetMaintenance ==
    /\ Free
    /\ row' = [row EXCEPT !.maint = ~@]
    /\ UNCHANGED <<machine, job, count, up, spent>>

\* The node begins or ends to wait for the callback of a ramdisk.
Provision ==
    /\ Free
    /\ row' = [row EXCEPT !.waits = ~@]
    /\ UNCHANGED <<machine, job, count, up, spent>>

\* Somebody presses the button.
ByHand ==
    /\ spent.hand < MaxByHand
    /\ spent' = [spent EXCEPT !.hand = @ + 1]
    /\ machine' = CHOOSE p \in Power : p # machine
    /\ UNCHANGED <<row, job, count, up>>

\* A conductor dies with its threads, its counters and not its locks.
Crash(h) ==
    /\ h \in up
    /\ spent.crash < MaxCrashes
    /\ spent' = [spent EXCEPT !.crash = @ + 1]
    /\ up' = up \ {h}
    /\ job' = [t \in Task |-> IF HostOf(t) = h THEN IdleJob ELSE job[t]]
    /\ Counts(h, 0)
    /\ UNCHANGED <<row, machine>>

MutRestart(h) ==                        \* the locks are cleared first
    /\ h \notin up
    /\ up' = up \cup {h}
    /\ row' = IF HostOf(row.lock) = h THEN Unlocked(row) ELSE row
    /\ UNCHANGED <<machine, job, count, spent>>

\* init_host: clear_node_target_power_state looks for the nodes that this
\* conductor has locked, so it comes before
\* clear_node_reservations_for_conductor.
Restart(h) ==
    /\ h \notin up
    /\ up' = up \cup {h}
    /\ row' = IF HostOf(row.lock) = h
              THEN Unlocked([row EXCEPT !.target = "none"]) ELSE row
    /\ UNCHANGED <<machine, job, count, spent>>

-----------------------------------------------------------------------------
Next ==
    \/ \E h \in Host :
          \/ \E s \in Power \cup {"reboot"} : ChangeNodePowerState(h, s)
          \/ SyncPowerStates(h) \/ SyncStep(h)
          \/ Crash(h) \/ Restart(h)
    \/ \E t \in Task : NodePowerAction(t) \/ NoFreeWorker(t)
    \/ SetMaintenance \/ Provision \/ ByHand

Spec == Init /\ [][Next]_vars

\* Threads run and drivers return, the periodic task runs, and a conductor
\* that has died is started again.
Fairness ==
    \A h \in Host :
       /\ WF_vars(SyncPowerStates(h)) /\ WF_vars(SyncStep(h))
       /\ WF_vars(Restart(h))
       /\ WF_vars(\E t \in Task : HostOf(t) = h /\ NodePowerAction(t))

FairSpec == Spec /\ Fairness

-----------------------------------------------------------------------------
(* Properties.                                                             *)

\* A node that nobody has locked is not said to be on its way to a power
\* state: however an action ends, or with whom it dies, its target goes with
\* the lock.  _sync_power_states would leave such a node alone for ever.
NoPendingPower == Free => row.target = "none"

\* The synchronisation acts on the machine only towards what the row records
\* at that moment, never towards what an earlier copy of it said.
SyncObeysRow ==
    \A h \in Host : job[Sync(h)].stage \in {"starting", "acting"} =>
        /\ row.lock = Sync(h)
        /\ job[Sync(h)].want = row.power

\* An action that somebody has begun comes to its end, done or given up, even
\* if its conductor dies.
ActionsEnd == row.target # "none" ~> row.target = "none"

Agrees == row.power = machine \/ row.maint \/ row.waits

\* The row and the machine come to agree again, or the node is put into
\* maintenance, whatever was done by hand, failed or was asked in between.
\* The code excepts a node of which no state has been recorded and whose
\* driver fails to validate again and again: that is never counted, and the
\* node neither gets a state nor maintenance.
RecordConverges ==
    []<>Agrees \/ []<><<\E h \in Host : SyncNotValidated(h)>>_vars

=============================================================================
