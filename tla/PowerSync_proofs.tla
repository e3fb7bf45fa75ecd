--------------------------- MODULE PowerSync_proofs ---------------------------
(***************************************************************************)
(* Theorems about power control, for any number of conductors, any of them *)
(* mapped or forcing, any retry limit and any number of requests, crashes  *)
(* and changes by hand.  PowerInv is the inductive invariant they rest on. *)
(***************************************************************************)
EXTENDS PowerSync, TLAPS

\* The stages in which a task has the exclusive lock.
Holding == {"starting", "acting", "saving"}

\* Such a task has it, and lives.
HoldersLock ==
    \A t \in Task : job[t].stage \in Holding => row.lock = t /\ HostOf(t) \in up

PowerInv ==
    /\ TypeOK
    /\ HoldersLock
    /\ NoPendingPower
    /\ SyncObeysRow

JobRecord == [stage : Stage,
              seen  : Power \cup {"error", "none"},
              want  : Wanted \cup {"none"}]

Spent == [hand : 0 .. MaxByHand, crash : 0 .. MaxCrashes,
          request : 0 .. MaxRequests]

-----------------------------------------------------------------------------
(* Facts about the definitions.                                            *)

LEMMA TaskFacts ==
    /\ NoTask \notin Task
    /\ \A t \in Task : HostOf(t) \in Host
    /\ \A h \in Host : Sync(h) \in Task /\ HostOf(Sync(h)) = h
    /\ \A h \in Mapped : <<h, "request">> \in Task
    /\ \A g, h \in Host : Sync(g) = Sync(h) => g = h
  BY PowerAssumption DEF NoTask, Task, HostOf, Sync

\* The power state that an action leads to.
LEMMA GoalType ==
    \A s \in Wanted \cup {"none"} : Goal(s) \in Power \cup {"error", "none"}
  BY DEF Goal, Wanted, Power

\* The row's fields, and what they are when the row is unlocked.
LEMMA RowFacts ==
    ASSUME NEW r \in Row
    PROVE  /\ Unlocked(r) \in Row /\ Unlocked(r).lock = NoTask
           /\ Unlocked(r).target = r.target /\ Unlocked(r).power = r.power
           /\ \A t \in Task : [r EXCEPT !.lock = t] \in Row
           /\ \A p \in Power \cup {"error", "none"} :
                 /\ [r EXCEPT !.power = p] \in Row
                 /\ [r EXCEPT !.power = p, !.maint = TRUE] \in Row
                 /\ [r EXCEPT !.power = p, !.target = "none"] \in Row
           /\ [r EXCEPT !.target = "none"] \in Row
  BY DEF Row, Unlocked

LEMMA IdleJobType == IdleJob \in JobRecord /\ IdleJob.stage \notin Holding
  BY DEF IdleJob, JobRecord, Stage, Holding

LEMMA TypeParts ==
    TypeOK <=> /\ row \in Row /\ machine \in Power
               /\ job \in [Task -> JobRecord]
               /\ count \in [Host -> 0 .. MaxRetries + 1]
               /\ up \subseteq Host
               /\ spent \in Spent
  BY DEF TypeOK, JobRecord, Spent

LEMMA TypePartsNext ==
    /\ row' \in Row /\ machine' \in Power
    /\ job' \in [Task -> JobRecord]
    /\ count' \in [Host -> 0 .. MaxRetries + 1]
    /\ up' \subseteq Host
    /\ spent' \in Spent
    => TypeOK'
  BY DEF TypeOK, JobRecord, Spent

\* Initially the invariant holds.
LEMMA InitPowerInv == Init => PowerInv
<1> SUFFICES ASSUME Init PROVE PowerInv
  OBVIOUS
<1> USE PowerAssumption DEF Init
<1>1. TypeOK
  <2>1. row \in Row
    BY DEF Row
  <2>2. spent \in Spent
    BY DEF Spent
  <2>3. job \in [Task -> JobRecord]
    BY IdleJobType
  <2>4. count \in [Host -> 0 .. MaxRetries + 1]
    OBVIOUS
  <2> QED
    BY <2>1, <2>2, <2>3, <2>4, TypeParts
<1>2. HoldersLock /\ SyncObeysRow
  BY IdleJobType, TaskFacts DEF HoldersLock, SyncObeysRow, Holding
<1>3. NoPendingPower
  BY DEF NoPendingPower
<1> QED
  BY <1>1, <1>2, <1>3 DEF PowerInv

-----------------------------------------------------------------------------
(* The types, action by action.                                            *)

LEMMA RequestType ==
    ASSUME TypeOK, NEW h \in Host, NEW s \in Power \cup {"reboot"},
           ChangeNodePowerState(h, s)
    PROVE  TypeOK'
<1> USE TypeParts, TypePartsNext
<1>1. h \in Mapped /\ <<h, "request">> \in Task
  BY TaskFacts DEF ChangeNodePowerState
<1>2. Goal(s) \in Power
  BY DEF Goal, Power
<1>3. row' \in Row
  BY <1>1, <1>2 DEF ChangeNodePowerState, Row
<1>4. row.power \in Power \cup {"error", "none"}
  BY DEF Row
<1>5. [stage |-> "starting", seen |-> row.power, want |-> s] \in JobRecord
  BY <1>4 DEF JobRecord, Stage, Wanted
<1>6. job' \in [Task -> JobRecord]
  BY <1>5 DEF ChangeNodePowerState
<1>7. spent' \in Spent
  BY PowerAssumption DEF ChangeNodePowerState, Spent
<1> QED
  BY <1>3, <1>6, <1>7 DEF ChangeNodePowerState

LEMMA ActionType ==
    ASSUME TypeOK, NEW t \in Task, NodePowerAction(t) \/ NoFreeWorker(t)
    PROVE  TypeOK'
<1> USE TypeParts, TypePartsNext
<1>1. /\ job[t] \in JobRecord /\ job[t].want \in Wanted \cup {"none"}
      /\ job[t].seen \in Power \cup {"error", "none"}
  BY DEF JobRecord
<1>2. Goal(job[t].want) \in Power \cup {"error", "none"}
  BY <1>1, GoalType
<1>3. End(t) => job' \in [Task -> JobRecord]
  BY IdleJobType DEF End
<1>4. CASE CannotRead(t)
  BY <1>3, <1>4, RowFacts DEF CannotRead
<1>5. CASE NotGoingToChange(t)
  BY <1>3, <1>5, RowFacts DEF NotGoingToChange
<1>6. CASE SaveTarget(t)
  <2>1. Goal(job[t].want) \in Power \cup {"none"} \/ job[t].want = "error"
    BY <1>1 DEF Goal, Wanted, Power
  <2>2. row' \in Row
    BY <1>6, <2>1 DEF SaveTarget, Row
  <2>3. [job[t] EXCEPT !.stage = "acting", !.seen = "none"] \in JobRecord
    BY <1>1 DEF JobRecord, Stage
  <2>4. job' \in [Task -> JobRecord]
    BY <1>6, <2>3 DEF SaveTarget
  <2> QED
    BY <1>6, <2>2, <2>4 DEF SaveTarget
<1>7. CASE Act(t)
  <2>1. machine' \in Power
    BY <1>7 DEF Act
  <2>2. [job[t] EXCEPT !.stage = "saving"] \in JobRecord
    BY <1>1 DEF JobRecord, Stage
  <2>3. row' \in Row /\ job' \in [Task -> JobRecord]
    BY <1>3, <1>7, <2>2, RowFacts DEF Act, Goto
  <2> QED
    BY <1>7, <2>1, <2>3 DEF Act
<1>8. CASE SaveSuccess(t)
  BY <1>2, <1>3, <1>8, RowFacts DEF SaveSuccess
<1>9. CASE NoFreeWorker(t)
  BY <1>1, <1>3, <1>9, RowFacts DEF NoFreeWorker
<1> QED
  BY <1>4, <1>5, <1>6, <1>7, <1>8, <1>9 DEF NodePowerAction

LEMMA SyncType ==
    ASSUME TypeOK, NEW h \in Host, SyncPowerStates(h) \/ SyncStep(h)
    PROVE  TypeOK'
<1> USE TypeParts, TypePartsNext
<1>1. Sync(h) \in Task
  BY TaskFacts
<1>2. /\ job[Sync(h)] \in JobRecord
      /\ job[Sync(h)].seen \in Power \cup {"error", "none"}
      /\ row.power \in Power \cup {"error", "none"}
  BY <1>1 DEF JobRecord, Row
<1>3. End(Sync(h)) => job' \in [Task -> JobRecord]
  BY IdleJobType DEF End
<1>4. ASSUME NEW c \in 0 .. MaxRetries + 1, Counts(h, c)
      PROVE  count' \in [Host -> 0 .. MaxRetries + 1]
  BY <1>4 DEF Counts
<1>5. /\ 0 \in 0 .. MaxRetries + 1 /\ MaxRetries + 1 \in 0 .. MaxRetries + 1
      /\ count[h] \in 0 .. MaxRetries + 1
      /\ ~(count[h] + 1 > MaxRetries) => count[h] + 1 \in 0 .. MaxRetries + 1
      /\ count[h] + 1 <= MaxRetries => count[h] + 1 \in 0 .. MaxRetries + 1
  BY PowerAssumption
<1>6. CASE SyncPowerStates(h)
  <2>1. [stage |-> "reading", seen |-> row.power, want |-> "none"] \in JobRecord
    BY <1>2 DEF JobRecord, Stage
  <2>2. job' \in [Task -> JobRecord]
    BY <1>6, <2>1 DEF SyncPowerStates
  <2> QED
    BY <1>6, <2>2 DEF SyncPowerStates
<1>7. CASE SyncNotValidated(h) \/ SyncAgrees(h) \/ SyncSettled(h)
  BY <1>3, <1>4, <1>5, <1>7 DEF SyncNotValidated, SyncAgrees, SyncSettled
<1>8. CASE SyncDiffers(h)
  <2>1. [job[Sync(h)] EXCEPT !.stage = "upgrading", !.seen = machine] \in JobRecord
    BY <1>2 DEF JobRecord, Stage
  <2>2. job' \in [Task -> JobRecord]
    BY <1>8, <2>1 DEF SyncDiffers
  <2> QED
    BY <1>8, <2>2 DEF SyncDiffers
<1>9. CASE SyncCannotRead(h)
  <2>1. \A r \in {"error", "none"} :
           [job[Sync(h)] EXCEPT !.stage = "giving_up", !.seen = r] \in JobRecord
    BY <1>2 DEF JobRecord, Stage
  <2>2. job' \in [Task -> JobRecord]
    BY <1>3, <1>9, <2>1 DEF SyncCannotRead
  <2>3. count' \in [Host -> 0 .. MaxRetries + 1]
    BY <1>4, <1>5, <1>9 DEF SyncCannotRead
  <2> QED
    BY <1>9, <2>2, <2>3 DEF SyncCannotRead
<1>10. CASE SyncGivesUp(h)
  BY <1>2, <1>3, <1>4, <1>5, <1>10, RowFacts DEF SyncGivesUp, Surrendered
<1>11. CASE SyncFindsLocked(h)
  BY <1>3, <1>11 DEF SyncFindsLocked
<1>12. CASE SyncFirstState(h) \/ SyncTooOften(h) \/ SyncRecords(h)
  BY <1>2, <1>3, <1>4, <1>5, <1>12, RowFacts
     DEF SyncFirstState, SyncTooOften, SyncRecords, Surrendered, Record
<1>13. CASE SyncForces(h)
  <2>1. [stage |-> "starting", seen |-> "none", want |-> row.power] \in JobRecord
    BY <1>2, <1>13 DEF JobRecord, Stage, Wanted, SyncForces
  <2>2. job' \in [Task -> JobRecord]
    BY <1>13, <2>1 DEF SyncForces
  <2> QED
    BY <1>1, <1>4, <1>5, <1>13, <2>2, RowFacts DEF SyncForces
<1> QED
  BY <1>6, <1>7, <1>8, <1>9, <1>10, <1>11, <1>12, <1>13 DEF SyncStep

\* Every step keeps the types.
LEMMA TypeStep == TypeOK /\ [Next]_vars => TypeOK'
<1> SUFFICES ASSUME TypeOK, [Next]_vars PROVE TypeOK'
  OBVIOUS
<1> USE TypeParts, TypePartsNext
<1>1. ASSUME NEW h \in Host, Crash(h) PROVE TypeOK'
  <2>1. job' \in [Task -> JobRecord]
    BY <1>1, IdleJobType DEF Crash
  <2>2. count' \in [Host -> 0 .. MaxRetries + 1]
    BY <1>1, PowerAssumption DEF Crash, Counts
  <2>3. spent' \in Spent
    BY <1>1, PowerAssumption DEF Crash, Spent
  <2> QED
    BY <1>1, <2>1, <2>2, <2>3 DEF Crash
<1>2. ASSUME NEW h \in Host, Restart(h) PROVE TypeOK'
  BY <1>2, RowFacts DEF Restart
<1>3. CASE SetMaintenance \/ Provision
  BY <1>3 DEF SetMaintenance, Provision, Row
<1>4. CASE ByHand
  <2>1. \E p \in Power : p # machine
    BY DEF Power
  <2>2. machine' \in Power
    BY <1>4, <2>1 DEF ByHand
  <2>3. spent' \in Spent
    BY <1>4, PowerAssumption DEF ByHand, Spent
  <2> QED
    BY <1>4, <2>2, <2>3 DEF ByHand
<1>5. CASE UNCHANGED vars
  BY <1>5 DEF vars
<1> QED
  BY <1>1, <1>2, <1>3, <1>4, <1>5, RequestType, ActionType, SyncType DEF Next

\* The variables keep their types, whatever the constants are.
THEOREM PowerTypeCorrect == Spec => []TypeOK
<1>1. Init => TypeOK
  BY InitPowerInv DEF PowerInv
<1> QED
  BY <1>1, TypeStep, PTL DEF Spec

-----------------------------------------------------------------------------
(* The kinds of steps, by what they do to the lock.                        *)

\* Nobody acts on a node that is free.
LEMMA FreeIsIdle ==
    HoldersLock /\ Free => \A t \in Task : job[t].stage \notin Holding
  BY TaskFacts DEF HoldersLock, Free

\* A step in which nobody takes or gives up the lock, and which says nothing
\* new of the power and the target of the node.
LEMMA QuietStep ==
    ASSUME PowerInv, TypeOK', UNCHANGED up,
           row'.lock = row.lock, row'.target = row.target, row'.power = row.power,
           \A t \in Task : job'[t].stage \in Holding => job'[t] = job[t]
    PROVE  PowerInv'
<1> USE DEF PowerInv
<1>1. HoldersLock'
  BY DEF HoldersLock
<1>2. NoPendingPower'
  BY DEF NoPendingPower, Free
<1>3. SyncObeysRow'
  BY TaskFacts DEF SyncObeysRow, Holding
<1> QED
  BY <1>1, <1>2, <1>3

\* A step on a node that is free and stays so, by which nobody begins to act.
LEMMA FreeStep ==
    ASSUME PowerInv, TypeOK', Free, row'.lock = NoTask,
           row'.target = row.target,
           \A t \in Task : job'[t].stage \in Holding => job'[t] = job[t]
    PROVE  PowerInv'
<1> USE DEF PowerInv
<1>1. \A t \in Task : job'[t].stage \notin Holding
  BY FreeIsIdle
<1>2. HoldersLock'
  BY <1>1 DEF HoldersLock
<1>3. NoPendingPower'
  BY DEF NoPendingPower, Free
<1>4. SyncObeysRow'
  BY <1>1, TaskFacts DEF SyncObeysRow, Holding
<1> QED
  BY <1>2, <1>3, <1>4

\* A task of a conductor that runs takes the lock to act.
LEMMA LockStep ==
    ASSUME PowerInv, TypeOK', Free, UNCHANGED up,
           NEW t \in Task, HostOf(t) \in up, row'.lock = t,
           job'[t].stage \in Holding,
           \A u \in Task \ {t} : job'[u] = job[u],
           \A h \in Host : t = Sync(h) => job'[t].want = row'.power
    PROVE  PowerInv'
<1> USE DEF PowerInv
<1>1. \A u \in Task : job'[u].stage \in Holding => u = t
  BY FreeIsIdle
<1>2. HoldersLock'
  BY <1>1 DEF HoldersLock
<1>3. NoPendingPower'
  BY TaskFacts DEF NoPendingPower, Free
<1>4. SyncObeysRow'
  BY <1>1, TaskFacts DEF SyncObeysRow, Holding
<1> QED
  BY <1>2, <1>3, <1>4

\* The task that has the lock gives it up, and the target with it.
LEMMA ReleaseStep ==
    ASSUME PowerInv, TypeOK', UNCHANGED up,
           NEW t \in Task, job[t].stage \in Holding,
           row'.lock = NoTask, row'.target = "none", End(t)
    PROVE  PowerInv'
<1> USE DEF PowerInv
<1>1. \A u \in Task \ {t} : job'[u] = job[u]
  BY DEF End, TypeOK
<1>2. job'[t] = IdleJob
  BY DEF End, TypeOK
<1>3. \A u \in Task : job'[u].stage \notin Holding
  BY <1>1, <1>2, IdleJobType DEF HoldersLock
<1>4. HoldersLock'
  BY <1>3 DEF HoldersLock
<1>5. NoPendingPower'
  BY DEF NoPendingPower
<1>6. SyncObeysRow'
  BY <1>3, TaskFacts DEF SyncObeysRow, Holding
<1> QED
  BY <1>4, <1>5, <1>6

\* The task that has the lock goes on with it.
LEMMA HoldStep ==
    ASSUME PowerInv, TypeOK', UNCHANGED up,
           NEW t \in Task, job[t].stage \in {"starting", "acting"},
           row'.lock = row.lock, row'.power = row.power,
           job'[t].stage \in Holding, job'[t].want = job[t].want,
           \A u \in Task \ {t} : job'[u] = job[u]
    PROVE  PowerInv'
<1> USE DEF PowerInv
<1>1. job[t].stage \in Holding
  BY DEF Holding
<1>2. HoldersLock'
  BY <1>1 DEF HoldersLock
<1>3. NoPendingPower'
  BY <1>1, TaskFacts DEF NoPendingPower, Free, HoldersLock
<1>4. SyncObeysRow'
  BY TaskFacts DEF SyncObeysRow
<1> QED
  BY <1>2, <1>3, <1>4

-----------------------------------------------------------------------------
(* The invariant, action by action.                                        *)

LEMMA RequestInv ==
    ASSUME PowerInv, TypeOK', NEW h \in Host, NEW s \in Power \cup {"reboot"},
           ChangeNodePowerState(h, s)
    PROVE  PowerInv'
<1> DEFINE t == <<h, "request">>
<1>1. /\ t \in Task /\ HostOf(t) \in up
      /\ \A g \in Host : t # Sync(g)
  BY TaskFacts DEF ChangeNodePowerState, HostOf, Sync
<1>2. job'[t].stage \in Holding /\ \A u \in Task \ {t} : job'[u] = job[u]
  BY <1>1 DEF ChangeNodePowerState, PowerInv, TypeOK, Holding
<1>3. row'.lock = t
  BY DEF ChangeNodePowerState, PowerInv, TypeOK, Row
<1>4. Free /\ UNCHANGED up
  BY DEF ChangeNodePowerState
<1> QED
  BY <1>1, <1>2, <1>3, <1>4, LockStep

LEMMA ActionInv ==
    ASSUME PowerInv, TypeOK', NEW t \in Task, NodePowerAction(t) \/ NoFreeWorker(t)
    PROVE  PowerInv'
<1>1. row \in Row /\ job \in [Task -> JobRecord]
  BY TypeParts DEF PowerInv
<1>2. CASE CannotRead(t) \/ NotGoingToChange(t) \/ NoFreeWorker(t)
  <2>1. row'.lock = NoTask /\ row'.target = "none"
    BY <1>1, <1>2 DEF CannotRead, NotGoingToChange, NoFreeWorker, Unlocked, Row
  <2>2. job[t].stage \in Holding /\ End(t) /\ UNCHANGED up
    BY <1>2 DEF CannotRead, NotGoingToChange, NoFreeWorker, At, Holding
  <2> QED
    BY <2>1, <2>2, ReleaseStep
<1>3. CASE SaveTarget(t)
  <2>1. row'.lock = row.lock /\ row'.power = row.power
    BY <1>1, <1>3 DEF SaveTarget, Row
  <2>2. /\ job[t].stage \in {"starting", "acting"} /\ job'[t].stage \in Holding
        /\ job'[t].want = job[t].want /\ UNCHANGED up
    BY <1>1, <1>3 DEF SaveTarget, At, Holding, JobRecord
  <2>3. \A u \in Task \ {t} : job'[u] = job[u]
    BY <1>1, <1>3 DEF SaveTarget
  <2> QED
    BY <2>1, <2>2, <2>3, HoldStep
<1>4. CASE Act(t)
  <2>1. job[t].stage = "acting" /\ UNCHANGED up
    BY <1>4 DEF Act, At
  <2>2. CASE Goto(t, "saving") /\ UNCHANGED row
    <3>1. job'[t].stage \in Holding /\ job'[t].want = job[t].want
      BY <1>1, <2>2 DEF Goto, Holding, JobRecord
    <3>2. \A u \in Task \ {t} : job'[u] = job[u]
      BY <1>1, <2>2 DEF Goto
    <3> QED
      BY <2>1, <2>2, <3>1, <3>2, HoldStep
  <2>3. CASE row' = Unlocked([row EXCEPT !.target = "none"]) /\ End(t)
    <3>1. row'.lock = NoTask /\ row'.target = "none"
      BY <1>1, <2>3 DEF Unlocked, Row
    <3>2. job[t].stage \in Holding
      BY <2>1 DEF Holding
    <3> QED
      BY <2>1, <2>3, <3>1, <3>2, ReleaseStep
  <2> QED
    BY <1>4, <2>2, <2>3 DEF Act
<1>5. CASE SaveSuccess(t)
  <2>1. row'.lock = NoTask /\ row'.target = "none"
    BY <1>1, <1>5 DEF SaveSuccess, Unlocked, Row
  <2>2. job[t].stage \in Holding /\ End(t) /\ UNCHANGED up
    BY <1>5 DEF SaveSuccess, At, Holding
  <2> QED
    BY <2>1, <2>2, ReleaseStep
<1> QED
  BY <1>2, <1>3, <1>4, <1>5 DEF NodePowerAction

LEMMA SyncInv ==
    ASSUME PowerInv, TypeOK', NEW h \in Host, SyncPowerStates(h) \/ SyncStep(h)
    PROVE  PowerInv'
<1>1. row \in Row /\ job \in [Task -> JobRecord] /\ Sync(h) \in Task
  BY TypeParts, TaskFacts DEF PowerInv
<1>2. ASSUME End(Sync(h))
      PROVE  \A t \in Task : job'[t].stage \in Holding => job'[t] = job[t]
  BY <1>1, <1>2, IdleJobType DEF End
<1>3. CASE SyncPowerStates(h)
  <2>1. \A t \in Task : job'[t].stage \in Holding => job'[t] = job[t]
    BY <1>1, <1>3 DEF SyncPowerStates, Holding
  <2> QED
    BY <1>3, <2>1, QuietStep DEF SyncPowerStates
<1>4. CASE \/ SyncNotValidated(h) \/ SyncAgrees(h)
           \/ SyncSettled(h) \/ SyncFindsLocked(h)
  BY <1>2, <1>4, QuietStep
     DEF SyncNotValidated, SyncAgrees, SyncSettled, SyncFindsLocked
<1>5. CASE SyncDiffers(h)
  <2>1. \A t \in Task : job'[t].stage \in Holding => job'[t] = job[t]
    BY <1>1, <1>5 DEF SyncDiffers, Holding, JobRecord
  <2> QED
    BY <1>5, <2>1, QuietStep DEF SyncDiffers
<1>6. CASE SyncCannotRead(h)
  <2>1. \A t \in Task : job'[t].stage \in Holding => job'[t] = job[t]
    BY <1>1, <1>2, <1>6 DEF SyncCannotRead, Holding, JobRecord
  <2> QED
    BY <1>6, <2>1, QuietStep DEF SyncCannotRead
<1>7. CASE SyncGivesUp(h) \/ SyncFirstState(h) \/ SyncTooOften(h) \/ SyncRecords(h)
  <2>1. Free /\ row'.lock = NoTask /\ row'.target = row.target
    BY <1>1, <1>7 DEF SyncGivesUp, SyncFirstState, SyncTooOften, SyncRecords,
                      MustSync, Record, Surrendered, Free, Row
  <2>2. End(Sync(h))
    BY <1>7 DEF SyncGivesUp, SyncFirstState, SyncTooOften, SyncRecords, Record
  <2> QED
    BY <1>2, <2>1, <2>2, FreeStep
<1>8. CASE SyncForces(h)
  <2>1. Free /\ HostOf(Sync(h)) \in up /\ UNCHANGED up
    BY <1>8 DEF SyncForces, MustSync, At
  <2>2. row'.lock = Sync(h) /\ row'.power = row.power
    BY <1>1, <1>8 DEF SyncForces, Row
  <2>3. job'[Sync(h)].stage \in Holding /\ job'[Sync(h)].want = row'.power
    BY <1>1, <1>8, <2>2 DEF SyncForces, Holding
  <2>4. \A u \in Task \ {Sync(h)} : job'[u] = job[u]
    BY <1>1, <1>8 DEF SyncForces
  <2> QED
    BY <1>1, <2>1, <2>2, <2>3, <2>4, LockStep
<1> QED
  BY <1>3, <1>4, <1>5, <1>6, <1>7, <1>8 DEF SyncStep

\* Every step of the specification keeps the invariant.
LEMMA PowerInvInductive == PowerInv /\ [Next]_vars => PowerInv'
<1> SUFFICES ASSUME PowerInv, [Next]_vars PROVE PowerInv'
  OBVIOUS
<1>t. TypeOK'
  BY TypeStep DEF PowerInv
<1>p. row \in Row /\ job \in [Task -> JobRecord]
  BY TypeParts DEF PowerInv
<1>1. ASSUME NEW h \in Host, Crash(h) PROVE PowerInv'
  <2>1. \A t \in Task : job'[t].stage \in Holding =>
            job'[t] = job[t] /\ HostOf(t) # h
    BY <1>1, IdleJobType DEF Crash
  <2>2. HoldersLock'
    BY <1>1, <2>1 DEF Crash, HoldersLock, PowerInv
  <2>3. SyncObeysRow'
    BY <1>1, <2>1, TaskFacts DEF Crash, SyncObeysRow, PowerInv, Holding
  <2>4. NoPendingPower'
    BY <1>1 DEF Crash, NoPendingPower, Free, PowerInv
  <2> QED
    BY <1>t, <2>2, <2>3, <2>4 DEF PowerInv
<1>2. ASSUME NEW h \in Host, Restart(h) PROVE PowerInv'
  <2>1. CASE HostOf(row.lock) = h
    <3>1. \A t \in Task : job[t].stage \notin Holding
      BY <1>2, <2>1 DEF Restart, HoldersLock, PowerInv
    <3>2. UNCHANGED job /\ row'.target = "none"
      BY <1>2, <1>p, <2>1 DEF Restart, Unlocked, Row
    <3>3. HoldersLock' /\ SyncObeysRow'
      BY <3>1, <3>2, TaskFacts DEF HoldersLock, SyncObeysRow, Holding
    <3>4. NoPendingPower'
      BY <3>2 DEF NoPendingPower
    <3> QED
      BY <1>t, <3>3, <3>4 DEF PowerInv
  <2>2. CASE HostOf(row.lock) # h
    <3>1. UNCHANGED <<row, job>> /\ up \subseteq up'
      BY <1>2, <2>2 DEF Restart
    <3>2. HoldersLock' /\ SyncObeysRow' /\ NoPendingPower'
      BY <3>1 DEF HoldersLock, SyncObeysRow, NoPendingPower, Free, PowerInv
    <3> QED
      BY <1>t, <3>2 DEF PowerInv
  <2> QED
    BY <2>1, <2>2
<1>3. CASE SetMaintenance \/ Provision
  <2>1. /\ row'.lock = row.lock /\ row'.target = row.target
        /\ row'.power = row.power
    BY <1>3, <1>p DEF SetMaintenance, Provision, Row
  <2>2. UNCHANGED <<job, up>>
    BY <1>3 DEF SetMaintenance, Provision
  <2> QED
    BY <1>t, <2>1, <2>2, QuietStep
<1>4. CASE ByHand \/ UNCHANGED vars
  BY <1>4, <1>t, QuietStep DEF ByHand, vars
<1> QED
  BY <1>t, <1>1, <1>2, <1>3, <1>4, RequestInv, ActionInv, SyncInv DEF Next

LEMMA PowerInvAlways == Spec => []PowerInv
  BY InitPowerInv, PowerInvInductive, PTL DEF Spec

\* A node that nobody has locked is never said to be on its way to a power
\* state, however an action ends or with whom it dies.
THEOREM NoPendingPowerHolds == Spec => []NoPendingPower
  BY PowerInvAlways, PTL DEF PowerInv

\* The synchronisation acts on the machine only with the lock, and only towards
\* what the row records at that moment.
THEOREM SyncObeysRowHolds == Spec => []SyncObeysRow
  BY PowerInvAlways, PTL DEF PowerInv

=============================================================================
