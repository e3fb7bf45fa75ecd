-------------------------- MODULE TaskManager_proofs --------------------------
(***************************************************************************)
(* Theorems about the node lock, for any number of conductors, nodes and   *)
(* tasks, any retry limit, pool size and set of faults.  LockInv is the    *)
(* inductive invariant they rest on.                                       *)
(***************************************************************************)
EXTENDS TaskManager, TLAPS

\* A task that is not idle runs on a live conductor and has a node, unless it
\* is a worker that has given up its exclusive lock early.
LiveTasks ==
    \A t \in Task :
        /\ task[t].pc = "idle" <=> task[t].host = NoHost
        /\ task[t].pc # "idle" => proc[task[t].host] # "down"
        /\ task[t].pc # "idle" =>
              task[t].node \in Node \/ (task[t].pc = "worker" /\ ~task[t].shared)

\* Only a task with an exclusive lock can have lost it.
LostAreHolders == \A t \in lost : \E n \in Node : Holds(t, n)

\* The owner's tag is on the node.
OwnersTag ==
    \A t \in Task, n \in Node : Owns(t, n) => reservation[n] = task[t].host

\* The tag of a conductor that is past its startup belongs to an owner.
TagsOwned ==
    \A n \in Node, h \in Host :
        proc[h] \notin {"down", "starting"} /\ reservation[n] = h =>
            \E t \in TasksOf(h) : Owns(t, n)

LockInv ==
    /\ TypeOK
    /\ LiveTasks
    /\ LostAreHolders
    /\ OwnersTag
    /\ MutualExclusion
    /\ TagsOwned

-----------------------------------------------------------------------------
LEMMA IdleTaskType == IdleTask \in TaskRecord /\ IdleTask.pc = "idle"
                      /\ IdleTask.host = NoHost
  BY TaskManagerAssumption DEF IdleTask, TaskRecord, PC

\* Initially the invariant holds.
LEMMA InitLockInv == Init => LockInv
<1> SUFFICES ASSUME Init PROVE LockInv
  OBVIOUS
<1> USE IdleTaskType, TaskManagerAssumption DEF Init
<1>1. TypeOK
  BY DEF TypeOK, ProcState
<1>2. LiveTasks /\ LostAreHolders
  BY DEF LiveTasks, LostAreHolders
<1>3. \A t \in Task, n \in Node : ~Holds(t, n)
  BY DEF Holds
<1>4. OwnersTag /\ MutualExclusion
  BY <1>3 DEF OwnersTag, MutualExclusion, Owns
<1>5. TagsOwned
  BY DEF TagsOwned
<1> QED
  BY <1>1, <1>2, <1>4, <1>5 DEF LockInv

\* Every step keeps the types.
LEMMA TypeStep == TypeOK /\ [Next]_lockVars => TypeOK'
<1> SUFFICES ASSUME TypeOK, [Next]_lockVars PROVE TypeOK'
  OBVIOUS
<1> USE IdleTaskType, TaskManagerAssumption DEF TypeOK
<1>r. ASSUME NEW t \in Task, ReleaseResources(t)
      PROVE  /\ reservation' \in [Node -> Host \cup {NoHost}]
             /\ lost' \in SUBSET Task
  BY <1>r DEF ReleaseResources, ReleasedBy, LosersOf, HeldUnder
<1>1. ASSUME NEW t \in Task, NEW h \in Host, NEW n \in Node,
             NEW shared \in BOOLEAN, Acquire(t, h, n, shared)
      PROVE  TypeOK'
  BY <1>1 DEF Acquire, TaskRecord, PC
<1>2. ASSUME NEW t \in Task, Upgrade(t) PROVE TypeOK'
  BY <1>2 DEF Upgrade, TaskRecord, PC
<1>3. ASSUME NEW t \in Task, Reserve(t) PROVE TypeOK'
  <2>1. task[t] \in TaskRecord /\ 0 \in 0..(MaxAttempts - 1)
    OBVIOUS
  <2>2. \A pc \in PC : [task[t] EXCEPT !.pc = pc, !.shared = FALSE, !.tries = 0]
                           \in TaskRecord
    BY <2>1 DEF TaskRecord
  <2>3. task' \in [Task -> TaskRecord]
    BY <1>3, <2>2 DEF Reserve, PC
  <2>4. task[t].host \in Host \cup {NoHost}
    BY <2>1 DEF TaskRecord
  <2> QED
    BY <1>3, <2>3, <2>4 DEF Reserve
<1>4. ASSUME NEW t \in Task, ReserveFails(t) PROVE TypeOK'
  <2>1. task[t] \in TaskRecord /\ task[t].tries \in 0..(MaxAttempts - 1)
    BY DEF TaskRecord
  <2>2. ~LastAttempt(t) => task[t].tries + 1 \in 0..(MaxAttempts - 1)
    BY <2>1 DEF LastAttempt
  <2>3. ~LastAttempt(t) =>
          [task[t] EXCEPT !.tries = @ + 1] \in TaskRecord
    BY <2>1, <2>2 DEF TaskRecord
  <2>4. task' \in [Task -> TaskRecord]
    BY <1>4, <2>3 DEF ReserveFails, Finish
  <2> QED
    BY <1>4, <2>4 DEF ReserveFails
<1>5. ASSUME NEW t \in Task, Exit(t) PROVE TypeOK'
  BY <1>5, <1>r DEF Exit, Finish
<1>6. ASSUME NEW t \in Task, Spawn(t) PROVE TypeOK'
  BY <1>6 DEF Spawn, TaskRecord, PC
<1>7. ASSUME NEW t \in Task, SpawnRejected(t) PROVE TypeOK'
  BY <1>7, <1>r DEF SpawnRejected, Finish
<1>8. ASSUME NEW t \in Task, ReleaseEarly(t) PROVE TypeOK'
  BY <1>8, <1>r DEF ReleaseEarly, TaskRecord
<1>9. ASSUME NEW t \in Task, WorkerDone(t) PROVE TypeOK'
  BY <1>9, <1>r DEF WorkerDone, Finish
<1>10. ASSUME NEW h \in Host, Crash(h) PROVE TypeOK'
  BY <1>10 DEF Crash, TasksOf, ProcState
<1>11. ASSUME NEW h \in Host, InitClear(h) PROVE TypeOK'
  BY <1>11 DEF InitClear, ClearedFor, ReleasedBy, TasksOf, ProcState
<1>12. ASSUME NEW h \in Host,
              Start(h) \/ Register(h) \/ BeginStop(h) \/ EndStop(h)
                \/ Keepalive(h) \/ HeartbeatTimeout(h)
       PROVE  TypeOK'
  BY <1>12 DEF Start, Register, BeginStop, EndStop, Keepalive,
               HeartbeatTimeout, ProcState
<1>13. ASSUME NEW h \in Host, NEW S \in SUBSET Node, ScanOffline(h, S)
       PROVE  TypeOK'
  BY <1>13 DEF ScanOffline, Free
<1>14. ASSUME NEW h \in Host, NEW n \in Node, NEW tag \in Host,
              BreakLock(h, n, tag)
       PROVE  TypeOK'
  BY <1>14 DEF BreakLock, ReleasedBy, LosersOf, HeldUnder
<1>15. CASE UNCHANGED lockVars
  BY <1>15 DEF lockVars
<1> QED
  BY <1>1, <1>2, <1>3, <1>4, <1>5, <1>6, <1>7, <1>8, <1>9, <1>10, <1>11,
     <1>12, <1>13, <1>14, <1>15 DEF Next, TaskStep, HostStep

\* The variables keep their types, whatever the constants are.
THEOREM TypeCorrect == Spec => []TypeOK
<1>1. Init => TypeOK
  BY InitLockInv DEF LockInv
<1> QED
  BY <1>1, TypeStep, PTL DEF Spec

-----------------------------------------------------------------------------
\* The parts of the invariant that only look at a task, for a step that
\* changes the record of t alone and keeps proc.
LEMMA LiveTasksStep ==
    ASSUME LockInv, TypeOK', NEW t \in Task, UNCHANGED proc,
           \A u \in Task \ {t} : task'[u] = task[u],
           \/ task'[t].pc = "idle" /\ task'[t].host = NoHost
           \/ /\ task'[t].pc # "idle" /\ task'[t].host \in Host
              /\ proc[task'[t].host] # "down"
              /\ \/ task'[t].node \in Node
                 \/ task'[t].pc = "worker" /\ ~task'[t].shared
    PROVE  LiveTasks'
  BY TaskManagerAssumption DEF LockInv, LiveTasks

\* Steps that neither give nor take an exclusive lock.
LEMMA NoLockChange ==
    ASSUME LockInv, TypeOK', LiveTasks', UNCHANGED <<reservation, lost>>,
           \A u \in Task, n \in Node : Holds(u, n)' <=> Holds(u, n),
           \A u \in Task, n \in Node : Holds(u, n) =>
               task'[u].host = task[u].host,
           \A h \in Host : proc'[h] \notin {"down", "starting"} =>
               proc[h] \notin {"down", "starting"}
    PROVE  LockInv'
<1>1. \A u \in Task, n \in Node : Owns(u, n)' <=> Owns(u, n)
  BY DEF Owns
<1>2. LostAreHolders' /\ OwnersTag' /\ MutualExclusion'
  BY <1>1 DEF LockInv, LostAreHolders, OwnersTag, MutualExclusion, Owns, TypeOK
<1>3. TagsOwned'
  <2> SUFFICES ASSUME NEW n \in Node, NEW h \in Host,
                      proc'[h] \notin {"down", "starting"}, reservation'[n] = h
               PROVE  \E u \in TasksOf(h)' : Owns(u, n)'
    BY DEF TagsOwned
  <2>1. PICK u \in TasksOf(h) : Owns(u, n)
    BY DEF LockInv, TagsOwned
  <2> QED
    BY <1>1, <2>1 DEF TasksOf, Owns
<1> QED
  BY <1>2, <1>3 DEF LockInv

\* Task t stops holding: what release_resources does to the lock.
LEMMA ReleaseStep ==
    ASSUME LockInv, TypeOK', LiveTasks', NEW t \in Task, ReleaseResources(t),
           UNCHANGED proc, \A u \in Task \ {t} : task'[u] = task[u],
           \A n \in Node : ~Holds(t, n)'
    PROVE  LockInv'
<1> USE DEF LockInv
<1>1. \A u \in Task \ {t}, n \in Node : Holds(u, n)' <=> Holds(u, n)
  BY DEF Holds
<1>2. CASE \E n \in Node : Holds(t, n)
  <2>0. PICK n0 \in Node : Holds(t, n0)
    BY <1>2
  <2>h. PICK h0 \in Host : h0 = task[t].host
    BY <2>0, TaskManagerAssumption DEF Holds, LiveTasks, TypeOK, TaskRecord
  <2>1. n0 \in Node /\ n0 = task[t].node /\ Holds(t, n0)
    BY <2>0 DEF Holds
  <2>2. /\ reservation' = [reservation EXCEPT ![n0] = ReleasedBy(n0, h0)]
        /\ lost' = (lost \cup LosersOf(n0, h0, t)) \ {t}
    BY <1>2, <2>h, <2>1 DEF ReleaseResources
  <2>3. LosersOf(n0, h0, t) \subseteq {u \in Task \ {t} : Holds(u, n0)}
    BY DEF LosersOf, HeldUnder
  <2>4. \A u \in Task, n \in Node : Owns(u, n)' => u # t /\ Owns(u, n)
    BY <1>1, <2>2 DEF Owns
  <2>5. \A u \in Task \ {t} : Owns(u, n0)' => reservation[n0] # h0
    <3> SUFFICES ASSUME NEW u \in Task \ {t}, Owns(u, n0)',
                        reservation[n0] = h0
                 PROVE  FALSE
      OBVIOUS
    <3>1. Owns(u, n0) /\ task[u].host = h0
      BY <2>4 DEF OwnersTag
    <3>2. u \in LosersOf(n0, h0, t)
      BY <3>1 DEF LosersOf, HeldUnder, Owns
    <3> QED
      BY <2>2, <3>2 DEF Owns
  <2>6. LostAreHolders'
    <3> SUFFICES ASSUME NEW u \in lost' PROVE \E n \in Node : Holds(u, n)'
      BY DEF LostAreHolders
    <3>1. u \in Task /\ u # t /\ \E n \in Node : Holds(u, n)
      BY <2>0, <2>2, <2>3 DEF LostAreHolders, TypeOK
    <3> QED
      BY <1>1, <3>1
  <2>7. OwnersTag'
    <3> SUFFICES ASSUME NEW u \in Task, NEW n \in Node, Owns(u, n)'
                 PROVE  reservation'[n] = task'[u].host
      BY DEF OwnersTag
    <3>1. u # t /\ reservation[n] = task[u].host /\ task'[u] = task[u]
      BY <2>4 DEF OwnersTag
    <3>2. reservation'[n] = reservation[n]
      BY <2>2, <2>5, <3>1 DEF ReleasedBy, TypeOK
    <3> QED
      BY <3>1, <3>2
  <2>8. MutualExclusion'
    BY <2>4 DEF MutualExclusion
  <2>9. TagsOwned'
    <3> SUFFICES ASSUME NEW n \in Node, NEW h \in Host,
                        proc[h] \notin {"down", "starting"},
                        reservation'[n] = h
                 PROVE  \E u \in TasksOf(h)' : Owns(u, n)'
      BY DEF TagsOwned
    <3>1. reservation[n] = h /\ (n = n0 => h # h0)
      BY <2>1, <2>2, TaskManagerAssumption DEF ReleasedBy, TypeOK
    <3>2. PICK u \in TasksOf(h) : Owns(u, n)
      BY <3>1 DEF TagsOwned
    <3>3. u # t
      BY <2>h, <2>1, <3>1, <3>2 DEF TasksOf, Owns, Holds
    <3>4. u \notin LosersOf(n0, h0, t)
      BY <3>1, <3>2 DEF LosersOf, HeldUnder, Owns, Holds, TasksOf
    <3>5. Owns(u, n)'
      BY <1>1, <2>2, <3>2, <3>3, <3>4 DEF Owns, TasksOf
    <3> QED
      BY <3>2, <3>3, <3>5 DEF TasksOf
  <2> QED
    BY <2>6, <2>7, <2>8, <2>9
<1>3. CASE ~ \E n \in Node : Holds(t, n)
  <2>1. UNCHANGED <<reservation, lost>>
    BY <1>3 DEF ReleaseResources
  <2>2. \A u \in Task, n \in Node : Holds(u, n)' <=> Holds(u, n)
    BY <1>1, <1>3
  <2>3. \A u \in Task, n \in Node :
            Holds(u, n) => task'[u].host = task[u].host
    BY <1>3
  <2> QED
    BY <2>1, <2>2, <2>3, NoLockChange
<1> QED
  BY <1>2, <1>3

\* A step of the database or of another conductor that clears a set of tags
\* and marks exactly the tasks that held under one of them.
LEMMA ClearStep ==
    ASSUME LockInv, TypeOK', LiveTasks', UNCHANGED task,
           NEW B \in SUBSET (Node \X Host),
           reservation' = [n \in Node |->
               IF <<n, reservation[n]>> \in B THEN NoHost ELSE reservation[n]],
           lost' = lost \cup {u \in Task : \E n \in Node :
               /\ Holds(u, n)
               /\ <<n, task[u].host>> \in B
               /\ reservation[n] = task[u].host},
           \A h \in Host :
               proc'[h] \notin {"down", "starting"} =>
                  \/ proc[h] \notin {"down", "starting"}
                  \/ \A n \in Node : reservation'[n] # h
    PROVE  LockInv'
<1> USE DEF LockInv
<1>1. \A u \in Task, n \in Node : Holds(u, n)' <=> Holds(u, n)
  BY DEF Holds
<1>2. \A u \in Task, n \in Node : Owns(u, n)' <=>
          Owns(u, n) /\ <<n, task[u].host>> \notin B
  <2> SUFFICES ASSUME NEW u \in Task, NEW n \in Node, Owns(u, n)
               PROVE  Owns(u, n)' <=> <<n, task[u].host>> \notin B
    BY <1>1 DEF Owns
  <2>1. reservation[n] = task[u].host
    BY DEF OwnersTag
  <2>2. \A m \in Node : Holds(u, m) => m = n
    BY DEF Holds, Owns
  <2>3. u \in lost' <=> <<n, task[u].host>> \in B
    BY <2>1, <2>2 DEF Owns
  <2> QED
    BY <1>1, <2>3 DEF Owns
<1>3. LostAreHolders'
  BY <1>1 DEF LostAreHolders, TypeOK
<1>4. OwnersTag'
  <2> SUFFICES ASSUME NEW u \in Task, NEW n \in Node, Owns(u, n)'
               PROVE  reservation'[n] = task'[u].host
    BY DEF OwnersTag
  <2>1. Owns(u, n) /\ <<n, task[u].host>> \notin B
    BY <1>2
  <2>2. reservation[n] = task[u].host
    BY <2>1 DEF OwnersTag
  <2> QED
    BY <2>1, <2>2
<1>5. MutualExclusion'
  BY <1>2 DEF MutualExclusion
<1>6. TagsOwned'
  <2> SUFFICES ASSUME NEW n \in Node, NEW h \in Host,
                      proc'[h] \notin {"down", "starting"}, reservation'[n] = h
               PROVE  \E u \in TasksOf(h)' : Owns(u, n)'
    BY DEF TagsOwned
  <2>1. reservation[n] = h /\ <<n, h>> \notin B
    BY TaskManagerAssumption
  <2>2. PICK u \in TasksOf(h) : Owns(u, n)
    BY <2>1 DEF TagsOwned
  <2> QED
    BY <1>2, <2>1, <2>2 DEF TasksOf
<1> QED
  BY <1>3, <1>4, <1>5, <1>6

\* Every step of a task keeps the invariant.
LEMMA TaskStepInv ==
    ASSUME LockInv, TypeOK', NEW t \in Task, TaskStep(t)
    PROVE  LockInv'
<1> USE IdleTaskType, TaskManagerAssumption
<1>t. /\ TypeOK /\ LiveTasks
      /\ task[t] \in TaskRecord /\ task'[t] \in TaskRecord
  BY DEF LockInv, TypeOK
<1>live. task[t].pc # "idle" => task[t].host \in Host /\ proc[task[t].host] # "down"
  BY <1>t DEF LiveTasks, TaskRecord
<1>rel. ASSUME ReleaseResources(t), Finish(t), UNCHANGED proc PROVE LockInv'
  <2>1. /\ \A u \in Task \ {t} : task'[u] = task[u]
        /\ task'[t] = IdleTask
    BY <1>t, <1>rel DEF Finish, TypeOK
  <2>2. LiveTasks'
    BY <1>rel, <2>1, LiveTasksStep
  <2>3. \A n \in Node : ~Holds(t, n)'
    BY <2>1 DEF Holds
  <2> QED
    BY <1>rel, <2>1, <2>2, <2>3, ReleaseStep
<1>1. ASSUME NEW h \in Host, NEW n \in Node, NEW shared \in BOOLEAN,
             Acquire(t, h, n, shared)
      PROVE  LockInv'
  <2>1. /\ \A u \in Task \ {t} : task'[u] = task[u]
        /\ task'[t].pc \in {"body", "reserving"} /\ task'[t].host = h
        /\ task'[t].node = n /\ task'[t].shared = shared
        /\ task'[t].pc = "body" <=> shared
        /\ proc[h] # "down" /\ UNCHANGED <<proc, reservation, lost>>
        /\ task[t].pc = "idle"
    BY <1>1, <1>t DEF Acquire, TypeOK, Serving
  <2>2. LiveTasks'
    BY <2>1, LiveTasksStep
  <2>3. \A u \in Task, m \in Node : Holds(u, m)' <=> Holds(u, m)
    BY <2>1 DEF Holds
  <2>4. \A u \in Task, m \in Node :
            Holds(u, m) => task'[u].host = task[u].host
    BY <2>1 DEF Holds
  <2> QED
    BY <2>1, <2>2, <2>3, <2>4, NoLockChange
<1>2. CASE Upgrade(t)
  <2> DEFINE pc == IF task[t].pc = "body" THEN "upgrading"
                                          ELSE "worker_upgrading"
  <2>1. /\ \A u \in Task \ {t} : task'[u] = task[u]
        /\ task'[t] = [task[t] EXCEPT !.pc = pc]
        /\ task[t].pc \in {"body", "worker"} /\ task[t].shared
        /\ UNCHANGED <<proc, reservation, lost>>
    BY <1>2, <1>t DEF Upgrade, TypeOK
  <2>2. /\ task'[t].pc \in {"upgrading", "worker_upgrading"}
        /\ task'[t].host = task[t].host
        /\ task'[t].node = task[t].node /\ task'[t].shared = task[t].shared
    BY <1>t, <2>1 DEF TaskRecord
  <2>3. LiveTasks'
    <3>1. task[t].node \in Node \/ (task[t].pc = "worker" /\ ~task[t].shared)
      BY <1>t, <2>1 DEF LiveTasks
    <3>2. task'[t].host \in Host /\ proc[task'[t].host] # "down"
      BY <1>live, <2>1, <2>2
    <3> QED
      BY <2>1, <2>2, <3>1, <3>2, LiveTasksStep
  <2>4. \A u \in Task, m \in Node : Holds(u, m)' <=> Holds(u, m)
    BY <2>1, <2>2 DEF Holds
  <2>5. \A u \in Task, m \in Node :
            Holds(u, m) => task'[u].host = task[u].host
    BY <2>1, <2>2
  <2> QED
    BY <2>1, <2>3, <2>4, <2>5, NoLockChange
<1>3. CASE Reserve(t)
  <2> DEFINE pc == IF task[t].pc = "worker_upgrading" THEN "worker" ELSE "body"
             new == [task[t] EXCEPT !.pc = pc, !.shared = FALSE, !.tries = 0]
  <2>1. /\ \A u \in Task \ {t} : task'[u] = task[u]
        /\ task'[t] = new
        /\ task[t].pc \in {"reserving", "upgrading", "worker_upgrading"}
        /\ UNCHANGED <<proc, lost>>
    BY <1>3, <1>t DEF Reserve, Reserving, TypeOK
  <2>2. /\ task'[t].pc \in {"body", "worker"} /\ task'[t].host = task[t].host
        /\ task'[t].node = task[t].node /\ task'[t].shared = FALSE
    BY <1>t, <2>1 DEF TaskRecord
  <2>3. LiveTasks'
    <3>1. task[t].node \in Node
      BY <1>t, <2>1 DEF LiveTasks
    <3>2. task'[t].host \in Host /\ proc[task'[t].host] # "down"
      BY <1>live, <2>1, <2>2
    <3> QED
      BY <2>1, <2>2, <3>1, <3>2, LiveTasksStep
  <2>4. PICK n0 \in Node : n0 = task[t].node
    BY <1>t, <2>1 DEF LiveTasks
  <2>5. PICK h0 \in Host : h0 = task[t].host
    BY <1>live, <2>1
  <2>6. /\ reservation[n0] = NoHost
        /\ reservation' = [reservation EXCEPT ![n0] = h0]
    BY <1>3, <2>4, <2>5 DEF Reserve, Free
  <2>7. \A u \in Task : ~Owns(u, n0)
    BY <2>6, <1>t DEF LockInv, OwnersTag, Owns, Holds, LiveTasks, TypeOK,
                      TaskRecord
  <2>8. t \notin lost
    BY <2>1 DEF LockInv, LostAreHolders, Holds
  <2>9. \A u \in Task \ {t}, m \in Node : Owns(u, m)' <=> Owns(u, m)
    BY <2>1 DEF Owns, Holds
  <2>10. \A m \in Node : Owns(t, m)' <=> m = n0
    BY <2>1, <2>2, <2>4, <2>8 DEF Owns, Holds
  <2>11. \A m \in Node : ~Owns(t, m)
    BY <2>1 DEF Owns, Holds
  <2>12. LostAreHolders'
    <3> SUFFICES ASSUME NEW u \in lost' PROVE \E m \in Node : Holds(u, m)'
      BY DEF LostAreHolders
    <3>1. u \in Task \ {t} /\ \E m \in Node : Holds(u, m)
      BY <2>1, <2>8 DEF LockInv, LostAreHolders, TypeOK
    <3> QED
      BY <2>1, <3>1 DEF Holds
  <2>13. OwnersTag'
    <3> SUFFICES ASSUME NEW u \in Task, NEW m \in Node, Owns(u, m)'
                 PROVE  reservation'[m] = task'[u].host
      BY DEF OwnersTag
    <3>1. CASE u = t
      BY <1>t, <2>2, <2>5, <2>6, <2>10, <3>1 DEF TypeOK
    <3>2. CASE u # t
      <4>1. Owns(u, m) /\ m # n0
        BY <2>7, <2>9, <3>2
      <4>2. reservation[m] = task[u].host
        BY <4>1 DEF LockInv, OwnersTag
      <4> QED
        BY <1>t, <2>1, <2>6, <3>2, <4>1, <4>2 DEF TypeOK
    <3> QED
      BY <3>1, <3>2
  <2>14. MutualExclusion'
    <3> SUFFICES ASSUME NEW u \in Task, NEW v \in Task, NEW m \in Node,
                        Owns(u, m)', Owns(v, m)'
                 PROVE  u = v
      BY DEF MutualExclusion
    <3>1. CASE m = n0
      BY <2>7, <2>9, <3>1
    <3>2. CASE m # n0
      BY <2>9, <2>10, <3>2 DEF LockInv, MutualExclusion
    <3> QED
      BY <3>1, <3>2
  <2>15. TagsOwned'
    <3> SUFFICES ASSUME NEW m \in Node, NEW h \in Host,
                        proc[h] \notin {"down", "starting"},
                        reservation'[m] = h
                 PROVE  \E u \in TasksOf(h)' : Owns(u, m)'
      BY <2>1 DEF TagsOwned
    <3>1. CASE m = n0
      <4>1. h = h0
        BY <1>t, <2>6, <3>1 DEF TypeOK
      <4> QED
        BY <2>2, <2>5, <2>10, <3>1, <4>1 DEF TasksOf
    <3>2. CASE m # n0
      <4>1. reservation[m] = h
        BY <1>t, <2>6, <3>2 DEF TypeOK
      <4>2. PICK u \in TasksOf(h) : Owns(u, m)
        BY <4>1 DEF LockInv, TagsOwned
      <4> QED
        BY <2>1, <2>9, <2>11, <4>2 DEF TasksOf
    <3> QED
      BY <3>1, <3>2
  <2> QED
    BY <2>3, <2>12, <2>13, <2>14, <2>15 DEF LockInv
<1>4. CASE ReserveFails(t)
  <2>0. task[t].pc \in {"reserving", "upgrading", "worker_upgrading"}
        /\ UNCHANGED <<proc, reservation, lost>>
    BY <1>4 DEF ReserveFails, Reserving
  <2>1. /\ \A u \in Task \ {t} : task'[u] = task[u]
        /\ \/ task'[t] = IdleTask
           \/ task'[t] = [task[t] EXCEPT !.tries = @ + 1]
    BY <1>4, <1>t DEF ReserveFails, Finish, TypeOK
  <2>2. \/ task'[t].pc = "idle" /\ task'[t].host = NoHost
        \/ /\ task'[t].pc = task[t].pc /\ task'[t].host = task[t].host
           /\ task'[t].node = task[t].node
    BY <1>t, <2>1 DEF TaskRecord
  <2>3. LiveTasks'
    BY <1>t, <1>live, <2>0, <2>1, <2>2, LiveTasksStep DEF LiveTasks
  <2>4. \A u \in Task, m \in Node : Holds(u, m)' <=> Holds(u, m)
    BY <2>0, <2>1, <2>2 DEF Holds
  <2>5. \A u \in Task, m \in Node :
            Holds(u, m) => task'[u].host = task[u].host
    BY <2>0, <2>1 DEF Holds
  <2> QED
    BY <2>0, <2>3, <2>4, <2>5, NoLockChange
<1>5. CASE Exit(t)
  BY <1>5, <1>rel DEF Exit
<1>6. CASE Spawn(t)
  <2>1. /\ \A u \in Task \ {t} : task'[u] = task[u]
        /\ task'[t] = [task[t] EXCEPT !.pc = "worker"]
        /\ task[t].pc = "body"
        /\ UNCHANGED <<proc, reservation, lost>>
    BY <1>6, <1>t DEF Spawn, TypeOK
  <2>2. /\ task'[t].pc = "worker" /\ task'[t].host = task[t].host
        /\ task'[t].node = task[t].node /\ task'[t].shared = task[t].shared
    BY <1>t, <2>1 DEF TaskRecord
  <2>3. LiveTasks'
    <3>1. task[t].node \in Node
      BY <1>t, <2>1 DEF LiveTasks
    <3>2. task'[t].host \in Host /\ proc[task'[t].host] # "down"
      BY <1>live, <2>1, <2>2
    <3> QED
      BY <2>1, <2>2, <3>1, <3>2, LiveTasksStep
  <2>4. \A u \in Task, m \in Node : Holds(u, m)' <=> Holds(u, m)
    BY <2>1, <2>2 DEF Holds
  <2>5. \A u \in Task, m \in Node :
            Holds(u, m) => task'[u].host = task[u].host
    BY <2>1, <2>2
  <2> QED
    BY <2>1, <2>3, <2>4, <2>5, NoLockChange
<1>7. CASE SpawnRejected(t)
  BY <1>7, <1>rel DEF SpawnRejected
<1>8. CASE ReleaseEarly(t)
  <2>1. /\ \A u \in Task \ {t} : task'[u] = task[u]
        /\ task'[t] = [task[t] EXCEPT !.node = NoNode]
        /\ task[t].pc = "worker" /\ ~task[t].shared /\ UNCHANGED proc
        /\ ReleaseResources(t)
    BY <1>8, <1>t DEF ReleaseEarly, TypeOK, Holds
  <2>2. /\ task'[t].pc = "worker" /\ task'[t].host = task[t].host
        /\ task'[t].node = NoNode /\ ~task'[t].shared
    BY <1>t, <2>1 DEF TaskRecord
  <2>3. LiveTasks'
    BY <1>live, <2>1, <2>2, LiveTasksStep
  <2>4. \A n \in Node : ~Holds(t, n)'
    BY <2>2 DEF Holds
  <2> QED
    BY <2>1, <2>3, <2>4, ReleaseStep
<1>9. CASE WorkerDone(t)
  BY <1>9, <1>rel DEF WorkerDone
<1> QED
  BY <1>1, <1>2, <1>3, <1>4, <1>5, <1>6, <1>7, <1>8, <1>9 DEF TaskStep

\* Every step of a conductor keeps the invariant.
LEMMA HostStepInv ==
    ASSUME LockInv, TypeOK', NEW h \in Host, HostStep(h)
    PROVE  LockInv'
<1> USE IdleTaskType, TaskManagerAssumption
<1>t. TypeOK /\ LiveTasks
  BY DEF LockInv
<1>0. ASSUME UNCHANGED <<reservation, task, lost>>,
                \A g \in Host : proc'[g] = "down" =>
                    proc[g] = "down" \/ TasksOf(g) = {},
                \A g \in Host : proc'[g] \notin {"down", "starting"} =>
                    proc[g] \notin {"down", "starting"}
         PROVE  LockInv'
  <2>1. LiveTasks'
    BY <1>t, <1>0 DEF LiveTasks, TasksOf, TypeOK, TaskRecord
  <2>2. \A u \in Task, m \in Node : Holds(u, m)' <=> Holds(u, m)
    BY <1>0 DEF Holds
  <2> QED
    BY <1>0, <2>1, <2>2, NoLockChange
<1>1. CASE Crash(h)
  <2>1. /\ \A u \in Task : task'[u] = IF task[u].host = h THEN IdleTask
                                                         ELSE task[u]
        /\ \A g \in Host : proc'[g] = IF g = h THEN "down" ELSE proc[g]
        /\ lost' = lost \ TasksOf(h) /\ UNCHANGED reservation
    BY <1>1, <1>t DEF Crash, TypeOK
  <2>2. LiveTasks'
    BY <1>t, <2>1 DEF LiveTasks, TypeOK, TaskRecord
  <2>3. \A u \in Task, m \in Node : Owns(u, m)' => Owns(u, m)
    BY <2>1 DEF Owns, Holds, TasksOf
  <2>4. \A u \in Task \ TasksOf(h), m \in Node :
            (Owns(u, m)' <=> Owns(u, m)) /\ (Holds(u, m)' <=> Holds(u, m))
    BY <2>1 DEF Owns, Holds, TasksOf
  <2>5. LostAreHolders'
    BY <1>t, <2>1, <2>4 DEF LockInv, LostAreHolders, TypeOK
  <2>6. \A u \in Task, m \in Node : Owns(u, m)' => task'[u] = task[u]
    BY <2>1 DEF Owns, Holds
  <2>7. OwnersTag' /\ MutualExclusion'
    BY <2>1, <2>3, <2>6 DEF LockInv, OwnersTag, MutualExclusion
  <2>8. TagsOwned'
    <3> SUFFICES ASSUME NEW n \in Node, NEW g \in Host,
                        proc'[g] \notin {"down", "starting"}, reservation'[n] = g
                 PROVE  \E u \in TasksOf(g)' : Owns(u, n)'
      BY DEF TagsOwned
    <3>1. g # h /\ proc[g] \notin {"down", "starting"} /\ reservation[n] = g
      BY <2>1
    <3>2. PICK u \in TasksOf(g) : Owns(u, n)
      BY <3>1 DEF LockInv, TagsOwned
    <3> QED
      BY <2>1, <2>4, <3>1, <3>2 DEF TasksOf
  <2> QED
    BY <2>2, <2>5, <2>7, <2>8 DEF LockInv
<1>2. CASE Start(h)
  BY <1>2, <1>t, <1>0 DEF Start, TypeOK
<1>3. CASE InitClear(h)
  <2> DEFINE B == {<<n, h>> : n \in Node}
  <2>1. /\ B \in SUBSET (Node \X Host)
        /\ \A n \in Node, g \in Host \cup {NoHost} : <<n, g>> \in B <=> g = h
    OBVIOUS
  <2>2. reservation' = [n \in Node |->
            IF <<n, reservation[n]>> \in B THEN NoHost ELSE reservation[n]]
    BY <1>3, <1>t, <2>1 DEF InitClear, ClearedFor, ReleasedBy, TypeOK
  <2>3. lost' = lost \cup {u \in Task : \E n \in Node :
            /\ Holds(u, n)
            /\ <<n, task[u].host>> \in B
            /\ reservation[n] = task[u].host}
    BY <1>3, <1>t, <2>1 DEF InitClear, TasksOf, TypeOK, TaskRecord
  <2>4. LiveTasks' /\ UNCHANGED task
    BY <1>3, <1>t DEF InitClear, LiveTasks, TypeOK, TaskRecord
  <2>5. \A g \in Host : proc'[g] \notin {"down", "starting"} =>
            \/ proc[g] \notin {"down", "starting"}
            \/ \A n \in Node : reservation'[n] # g
    BY <1>3, <1>t, <2>1, <2>2 DEF InitClear, TypeOK
  <2> HIDE DEF B
  <2> QED
    BY <2>1, <2>2, <2>3, <2>4, <2>5, ClearStep
<1>4. CASE Register(h)
  BY <1>4, <1>t, <1>0 DEF Register, TypeOK
<1>5. CASE BeginStop(h)
  BY <1>5, <1>t, <1>0 DEF BeginStop, TypeOK
<1>6. CASE EndStop(h)
  BY <1>6, <1>t, <1>0 DEF EndStop, TypeOK
<1>7. CASE Keepalive(h) \/ HeartbeatTimeout(h)
  BY <1>7, <1>0 DEF Keepalive, HeartbeatTimeout
<1>8. ASSUME NEW S \in SUBSET Node, ScanOffline(h, S) PROVE LockInv'
  BY <1>8, <1>0 DEF ScanOffline
<1>9. ASSUME NEW n0 \in Node, NEW g \in Host, BreakLock(h, n0, g)
      PROVE  LockInv'
  <2> DEFINE B == {<<n0, g>>}
  <2>1. /\ B \in SUBSET (Node \X Host)
        /\ \A n \in Node, f \in Host \cup {NoHost} :
               <<n, f>> \in B <=> n = n0 /\ f = g
    OBVIOUS
  <2>2. reservation' = [n \in Node |->
            IF <<n, reservation[n]>> \in B THEN NoHost ELSE reservation[n]]
    BY <1>9, <1>t, <2>1 DEF BreakLock, ReleasedBy, TypeOK
  <2>3. lost' = lost \cup {u \in Task : \E n \in Node :
            /\ Holds(u, n)
            /\ <<n, task[u].host>> \in B
            /\ reservation[n] = task[u].host}
    BY <1>9, <1>t, <2>1 DEF BreakLock, LosersOf, HeldUnder, TypeOK, TaskRecord
  <2>4. LiveTasks' /\ UNCHANGED <<task, proc>>
    BY <1>9, <1>t DEF BreakLock, LiveTasks
  <2> HIDE DEF B
  <2> QED
    BY <2>1, <2>2, <2>3, <2>4, ClearStep
<1> QED
  BY <1>1, <1>2, <1>3, <1>4, <1>5, <1>6, <1>7, <1>8, <1>9 DEF HostStep

LEMMA LockInvInductive == LockInv /\ [Next]_lockVars => LockInv'
<1> SUFFICES ASSUME LockInv, [Next]_lockVars PROVE LockInv'
  OBVIOUS
<1>1. TypeOK'
  BY TypeStep DEF LockInv
<1>2. ASSUME NEW t \in Task, TaskStep(t) PROVE LockInv'
  BY <1>1, <1>2, TaskStepInv
<1>3. ASSUME NEW h \in Host, HostStep(h) PROVE LockInv'
  BY <1>1, <1>3, HostStepInv
<1>4. CASE UNCHANGED lockVars
  BY <1>4 DEF lockVars, LockInv, TypeOK, LiveTasks, LostAreHolders, OwnersTag,
              MutualExclusion, TagsOwned, Owns, Holds, TasksOf
<1> QED
  BY <1>2, <1>3, <1>4 DEF Next

LEMMA LockInvAlways == Spec => []LockInv
  BY InitLockInv, LockInvInductive, PTL DEF Spec

\* At most one task owns a node, whatever crashes, restarts, late heartbeats
\* and broken locks do.
THEOREM MutualExclusionHolds == Spec => []MutualExclusion
<1>1. LockInv => MutualExclusion
  BY DEF LockInv
<1> QED
  BY <1>1, LockInvAlways, PTL

\* No lock is leaked by a retry, an upgrade, a rejected worker, an exception,
\* an early release or the death of a conductor that has since restarted.
THEOREM NoLeakedReservationHolds == Spec => []NoLeakedReservation
<1>1. LockInv => NoLeakedReservation
  BY DEF LockInv, NoLeakedReservation, OwnersTag, TagsOwned, TasksOf
<1> QED
  BY <1>1, LockInvAlways, PTL

-----------------------------------------------------------------------------
\* Where nothing fails every conductor stays registered and keeps beating, so
\* nobody is suspected and nobody's lock is cleared by another.
Calm ==
    /\ \A h \in Host : proc[h] = "up" /\ fresh[h] /\ suspects[h] = {}
    /\ lost = {}

\* A release takes nothing from anybody else: its tag is its own.
LEMMA CalmRelease ==
    ASSUME LockInv, Calm, NEW t \in Task, ReleaseResources(t)
    PROVE  lost' = {}
<1>1. ASSUME NEW n \in Node, Holds(t, n)
      PROVE  LosersOf(n, task[t].host, t) = {}
  <2>1. \A u \in HeldUnder(n, task[t].host) : Owns(u, n)
    BY DEF HeldUnder, Owns, Calm
  <2>2. Owns(t, n)
    BY <1>1 DEF Owns, Calm
  <2>3. \A u \in HeldUnder(n, task[t].host) : u = t
    BY <2>1, <2>2, <1>1 DEF LockInv, MutualExclusion, HeldUnder
  <2> QED
    BY <2>3 DEF LosersOf
<1>2. CASE \E n \in Node : Holds(t, n)
  <2>1. PICK n \in Node : Holds(t, n)
    BY <1>2
  <2>2. task[t].node = n
    BY <2>1 DEF Holds
  <2> QED
    BY <1>1, <1>2, <2>1, <2>2 DEF ReleaseResources, Calm
<1>3. CASE ~\E n \in Node : Holds(t, n)
  BY <1>3 DEF ReleaseResources, Calm
<1> QED
  BY <1>2, <1>3

\* Without faults a conductor does nothing but keep alive.
LEMMA CalmHostStep ==
    ASSUME Faults = {}, LockInv, Calm, NEW h \in Host, HostStep(h)
    PROVE  Keepalive(h)
<1> USE DEF Calm
<1>1. ~Crash(h) /\ ~BeginStop(h)
  BY DEF Crash, BeginStop
<1>2. ~Start(h) /\ ~InitClear(h) /\ ~Register(h) /\ ~EndStop(h)
  BY DEF Start, InitClear, Register, EndStop
<1>3. ~HeartbeatTimeout(h)
  BY DEF HeartbeatTimeout, Beating
<1>4. \A S \in SUBSET Node : ~ScanOffline(h, S)
  BY DEF ScanOffline, Free, LockInv, TypeOK
<1>5. \A n \in Node, tag \in Host : ~BreakLock(h, n, tag)
  BY DEF BreakLock
<1> QED
  BY <1>1, <1>2, <1>3, <1>4, <1>5 DEF HostStep

\* Without faults no step disturbs the calm.
LEMMA CalmStep ==
    ASSUME Faults = {}, LockInv, Calm, [Next]_lockVars
    PROVE  Calm'
<1> USE DEF Calm
<1>1. ASSUME NEW t \in Task, TaskStep(t) PROVE Calm'
  <2>1. ASSUME NEW h \in Host, NEW n \in Node, NEW shared \in BOOLEAN,
               Acquire(t, h, n, shared)
        PROVE  Calm'
    BY <2>1 DEF Acquire
  <2>2. CASE Upgrade(t) \/ Reserve(t) \/ ReserveFails(t) \/ Spawn(t)
    BY <2>2 DEF Upgrade, Reserve, ReserveFails, Spawn
  <2>3. CASE Exit(t) \/ SpawnRejected(t) \/ ReleaseEarly(t) \/ WorkerDone(t)
    <3>1. lost' = {}
      BY <2>3, CalmRelease DEF Exit, SpawnRejected, ReleaseEarly, WorkerDone
    <3> QED
      BY <2>3, <3>1 DEF Exit, SpawnRejected, ReleaseEarly, WorkerDone
  <2> QED
    BY <1>1, <2>1, <2>2, <2>3 DEF TaskStep
<1>2. ASSUME NEW h \in Host, HostStep(h) PROVE Calm'
  <2>1. Keepalive(h)
    BY <1>2, CalmHostStep
  <2> QED
    BY <2>1 DEF Keepalive, LockInv, TypeOK
<1>3. CASE UNCHANGED lockVars
  BY <1>3 DEF lockVars
<1> QED
  BY <1>1, <1>2, <1>3 DEF Next

\* If no conductor ever dies, stops or is late with its keepalive, the tag of a
\* reservation does identify its holder, as the dbapi's doc says: two tasks of
\* one conductor never hold a node at once.
THEOREM TagIdentifiesHolderHolds ==
    ASSUME Faults = {}
    PROVE  Spec => []TagIdentifiesHolder
<1>1. Init => LockInv /\ Calm
  BY InitLockInv DEF Init, Calm
<1>2. LockInv /\ Calm /\ [Next]_lockVars => LockInv' /\ Calm'
  BY LockInvInductive, CalmStep
<1>3. LockInv /\ Calm => TagIdentifiesHolder
  BY DEF LockInv, Calm, MutualExclusion, TagIdentifiesHolder, HeldUnder, Owns
<1> QED
  BY <1>1, <1>2, <1>3, PTL DEF Spec

-----------------------------------------------------------------------------
(* The abstract lock.  A step changes the owners of the nodes in one of    *)
(* three ways: a task becomes the owner of a node that nobody owns, one    *)
(* node loses its owner, or, where something can fail, several do.         *)

OwnerStep == [Lock!Next]_([n \in Node |-> OwnerOf(n)])

\* OwnerOf is the owner, if there is one.
LEMMA OwnerOfIsOwner ==
    ASSUME MutualExclusion, NEW n \in Node
    PROVE  /\ \A t \in Task : OwnerOf(n) = t <=> Owns(t, n)
           /\ OwnerOf(n) = NoTask <=> \A t \in Task : ~Owns(t, n)
           /\ OwnerOf(n) \in Task \cup {NoTask}
<1>1. CASE \E t \in Task : Owns(t, n)
  <2>1. OwnerOf(n) \in Task /\ Owns(OwnerOf(n), n)
    BY <1>1 DEF OwnerOf
  <2> QED
    BY <1>1, <2>1, TaskManagerAssumption DEF MutualExclusion
<1>2. CASE ~\E t \in Task : Owns(t, n)
  BY <1>2, TaskManagerAssumption DEF OwnerOf
<1> QED
  BY <1>1, <1>2

\* The same, after a step.
LEMMA OwnerOfIsOwnerNext ==
    ASSUME MutualExclusion', NEW n \in Node
    PROVE  /\ \A t \in Task : OwnerOf(n)' = t <=> Owns(t, n)'
           /\ OwnerOf(n)' = NoTask <=> \A t \in Task : ~Owns(t, n)'
           /\ OwnerOf(n)' \in Task \cup {NoTask}
<1>1. CASE \E t \in Task : Owns(t, n)'
  <2>1. OwnerOf(n)' \in Task /\ \E t \in Task : t = OwnerOf(n)' /\ Owns(t, n)'
    BY <1>1 DEF OwnerOf
  <2> QED
    BY <1>1, <2>1, TaskManagerAssumption DEF MutualExclusion
<1>2. CASE ~\E t \in Task : Owns(t, n)'
  BY <1>2, TaskManagerAssumption DEF OwnerOf
<1> QED
  BY <1>1, <1>2

\* Nobody becomes an owner: nothing changes, one owner is gone, or something
\* may fail.
LEMMA OwnersLeave ==
    ASSUME MutualExclusion, MutualExclusion',
           \A u \in Task, n \in Node : Owns(u, n)' => Owns(u, n),
           \/ Faults # {}
           \/ \E m \in Node : \A n \in Node \ {m}, u \in Task :
                  Owns(u, n) => Owns(u, n)'
    PROVE  OwnerStep
<1> DEFINE owner == [n \in Node |-> OwnerOf(n)]
<1>1. \A n \in Node : OwnerOf(n)' \in {OwnerOf(n), NoTask}
  BY OwnerOfIsOwner, OwnerOfIsOwnerNext
<1>2. CASE Faults # {}
  <2> DEFINE S == {n \in Node : OwnerOf(n)' = NoTask}
  <2>1. owner' = [n \in Node |-> IF n \in S THEN NoTask ELSE owner[n]]
    BY <1>1
  <2>2. Lock!Revoke(S)
    BY <1>2, <2>1 DEF Lock!Revoke
  <2> QED
    BY <2>2 DEF OwnerStep, Lock!Next
<1>3. ASSUME NEW m \in Node,
             \A n \in Node \ {m}, u \in Task : Owns(u, n) => Owns(u, n)'
      PROVE  OwnerStep
  <2>1. \A n \in Node \ {m} : OwnerOf(n)' = OwnerOf(n)
    BY <1>3, OwnerOfIsOwner, OwnerOfIsOwnerNext
  <2>2. CASE OwnerOf(m)' = OwnerOf(m)
    <3>1. owner' = owner
      BY <2>1, <2>2
    <3> QED
      BY <3>1 DEF OwnerStep
  <2>3. CASE OwnerOf(m)' = NoTask /\ OwnerOf(m) # NoTask
    <3>1. OwnerOf(m) \in Task
      BY <2>3, OwnerOfIsOwner
    <3>a. \A n \in Node : OwnerOf(n)' = IF n = m THEN NoTask ELSE OwnerOf(n)
      BY <2>1, <2>3
    <3>2. owner' = [owner EXCEPT ![m] = NoTask] /\ owner[m] = OwnerOf(m)
      BY <3>a
    <3>3. Lock!Release(m, OwnerOf(m))
      BY <3>2 DEF Lock!Release
    <3> QED
      BY <3>1, <3>3 DEF OwnerStep, Lock!Next
  <2> QED
    BY <1>1, <2>2, <2>3
<1> QED
  BY <1>2, <1>3

\* The owners are the same.
LEMMA SameOwners ==
    ASSUME MutualExclusion, MutualExclusion',
           \A u \in Task, n \in Node : Owns(u, n)' <=> Owns(u, n)
    PROVE  OwnerStep
<1>1. \A n \in Node : OwnerOf(n)' = OwnerOf(n)
  BY OwnerOfIsOwner, OwnerOfIsOwnerNext
<1> QED
  BY <1>1 DEF OwnerStep

\* A task takes a node that nobody owns.
LEMMA OwnerComes ==
    ASSUME MutualExclusion, MutualExclusion', NEW t \in Task, NEW m \in Node,
           \A u \in Task : ~Owns(u, m), Owns(t, m)',
           \A n \in Node \ {m}, u \in Task : Owns(u, n)' <=> Owns(u, n)
    PROVE  OwnerStep
<1> DEFINE owner == [n \in Node |-> OwnerOf(n)]
<1>1. \A n \in Node \ {m} : OwnerOf(n)' = OwnerOf(n)
  BY OwnerOfIsOwner, OwnerOfIsOwnerNext
<1>2. OwnerOf(m) = NoTask /\ OwnerOf(m)' = t
  BY OwnerOfIsOwner, OwnerOfIsOwnerNext
<1>3. owner[m] = NoTask /\ owner' = [owner EXCEPT ![m] = t]
  BY <1>1, <1>2
<1>4. Lock!Acquire(m, t)
  BY <1>3 DEF Lock!Acquire
<1> QED
  BY <1>4 DEF OwnerStep, Lock!Next

\* A release takes the owner of the task's node, and no other.
LEMMA ReleaseOwners ==
    ASSUME LockInv, LockInv', NEW t \in Task, ReleaseResources(t),
           \A u \in Task \ {t} : task'[u] = task[u],
           \A n \in Node : ~Holds(t, n)'
    PROVE  OwnerStep
<1>1. \A u \in Task \ {t}, n \in Node : Holds(u, n)' <=> Holds(u, n)
  BY DEF Holds
<1>2. CASE \E n \in Node : Holds(t, n)
  <2>1. PICK m \in Node : Holds(t, m)
    BY <1>2
  <2>2. task[t].node = m
    BY <2>1 DEF Holds
  <2>3. lost' = (lost \cup LosersOf(m, task[t].host, t)) \ {t}
    BY <1>2, <2>2 DEF ReleaseResources
  <2>4. \A u \in Task, n \in Node : Owns(u, n)' => Owns(u, n)
    BY <1>1, <2>3 DEF Owns
  <2>5. \A u \in LosersOf(m, task[t].host, t) : Holds(u, m)
    BY DEF LosersOf, HeldUnder
  <2>6. \A n \in Node \ {m}, u \in Task : Owns(u, n) => Owns(u, n)'
    BY <1>1, <2>1, <2>3, <2>5 DEF Owns, Holds
  <2> QED
    BY <2>4, <2>6, OwnersLeave DEF LockInv
<1>3. CASE ~\E n \in Node : Holds(t, n)
  <2>1. \A u \in Task, n \in Node : Holds(u, n)' <=> Holds(u, n)
    BY <1>1, <1>3
  <2>2. UNCHANGED lost
    BY <1>3 DEF ReleaseResources
  <2>3. \A u \in Task, n \in Node : Owns(u, n)' <=> Owns(u, n)
    BY <2>1, <2>2 DEF Owns
  <2> QED
    BY <2>3, SameOwners DEF LockInv
<1> QED
  BY <1>2, <1>3

LEMMA TaskStepOwner ==
    ASSUME LockInv, LockInv', NEW t \in Task, TaskStep(t)
    PROVE  OwnerStep
<1>t. /\ TypeOK /\ LiveTasks /\ task[t] \in TaskRecord
      /\ MutualExclusion /\ MutualExclusion'
  BY DEF LockInv, TypeOK
<1>same. ASSUME UNCHANGED lost, \A u \in Task \ {t} : task'[u] = task[u],
                \A n \in Node : Holds(t, n)' <=> Holds(t, n)
         PROVE  OwnerStep
  <2>1. \A u \in Task, n \in Node : Owns(u, n)' <=> Owns(u, n)
    BY <1>same DEF Owns, Holds
  <2> QED
    BY <1>t, <2>1, SameOwners
<1>rel. ASSUME ReleaseResources(t), Finish(t) PROVE OwnerStep
  <2>1. /\ \A u \in Task \ {t} : task'[u] = task[u]
        /\ task'[t] = IdleTask
    BY <1>t, <1>rel DEF Finish, TypeOK
  <2>2. \A n \in Node : ~Holds(t, n)'
    BY <2>1, IdleTaskType DEF Holds
  <2> QED
    BY <1>rel, <2>1, <2>2, ReleaseOwners
<1>1. ASSUME NEW h \in Host, NEW n \in Node, NEW shared \in BOOLEAN,
             Acquire(t, h, n, shared)
      PROVE  OwnerStep
  <2>1. /\ \A u \in Task \ {t} : task'[u] = task[u]
        /\ task'[t].pc = "body" <=> shared
        /\ task'[t].pc \in {"body", "reserving"} /\ task'[t].shared = shared
        /\ UNCHANGED lost /\ task[t].pc = "idle"
    BY <1>1, <1>t DEF Acquire, TypeOK
  <2>2. \A m \in Node : Holds(t, m)' <=> Holds(t, m)
    BY <2>1 DEF Holds
  <2> QED
    BY <1>same, <2>1, <2>2
<1>2. CASE Upgrade(t)
  <2> DEFINE pc == IF task[t].pc = "body" THEN "upgrading"
                                          ELSE "worker_upgrading"
  <2>1. /\ \A u \in Task \ {t} : task'[u] = task[u]
        /\ task'[t] = [task[t] EXCEPT !.pc = pc]
        /\ task[t].shared /\ UNCHANGED lost
    BY <1>2, <1>t DEF Upgrade, TypeOK
  <2>2. task'[t].pc \in {"upgrading", "worker_upgrading"}
    BY <1>t, <2>1 DEF TaskRecord
  <2>3. \A m \in Node : Holds(t, m)' <=> Holds(t, m)
    BY <2>1, <2>2 DEF Holds
  <2> QED
    BY <1>same, <2>1, <2>3
<1>3. CASE Reserve(t)
  <2> DEFINE pc == IF task[t].pc = "worker_upgrading" THEN "worker" ELSE "body"
             new == [task[t] EXCEPT !.pc = pc, !.shared = FALSE, !.tries = 0]
  <2>1. /\ \A u \in Task \ {t} : task'[u] = task[u]
        /\ task'[t] = new /\ UNCHANGED lost
        /\ task[t].pc \in {"reserving", "upgrading", "worker_upgrading"}
    BY <1>3, <1>t DEF Reserve, Reserving, TypeOK
  <2>2. /\ task'[t].pc \in {"body", "worker"}
        /\ task'[t].node = task[t].node /\ task'[t].shared = FALSE
    BY <1>t, <2>1 DEF TaskRecord
  <2>3. PICK m \in Node : m = task[t].node
    BY <1>t, <2>1 DEF LiveTasks
  <2>4. t \notin lost
    BY <2>1 DEF LockInv, LostAreHolders, Holds
  <2>5. \A u \in Task : ~Owns(u, m)
    <3>1. reservation[m] = NoHost
      BY <1>3, <2>3 DEF Reserve, Free
    <3> QED
      BY <1>t, <3>1, TaskManagerAssumption
         DEF LockInv, OwnersTag, Owns, Holds, LiveTasks, TypeOK, TaskRecord
  <2>6. Owns(t, m)'
    BY <2>1, <2>2, <2>3, <2>4 DEF Owns, Holds
  <2>7. \A n \in Node \ {m}, u \in Task : Owns(u, n)' <=> Owns(u, n)
    BY <2>1, <2>2, <2>3 DEF Owns, Holds
  <2> QED
    BY <1>t, <2>5, <2>6, <2>7, OwnerComes
<1>4. CASE ReserveFails(t)
  <2>1. /\ \A u \in Task \ {t} : task'[u] = task[u]
        /\ \/ task'[t] = IdleTask
           \/ task'[t] = [task[t] EXCEPT !.tries = @ + 1]
        /\ task[t].pc \in {"reserving", "upgrading", "worker_upgrading"}
        /\ UNCHANGED lost
    BY <1>4, <1>t DEF ReserveFails, Reserving, Finish, TypeOK
  <2>2. task'[t].pc \in {"idle", task[t].pc}
    BY <1>t, <2>1, IdleTaskType DEF TaskRecord
  <2>3. \A m \in Node : Holds(t, m)' <=> Holds(t, m)
    BY <2>1, <2>2 DEF Holds
  <2> QED
    BY <1>same, <2>1, <2>3
<1>5. CASE Exit(t)
  BY <1>5, <1>rel DEF Exit
<1>6. CASE Spawn(t)
  <2>1. /\ \A u \in Task \ {t} : task'[u] = task[u]
        /\ task'[t] = [task[t] EXCEPT !.pc = "worker"]
        /\ task[t].pc = "body" /\ UNCHANGED lost
    BY <1>6, <1>t DEF Spawn, TypeOK
  <2>2. /\ task'[t].pc = "worker" /\ task'[t].node = task[t].node
        /\ task'[t].shared = task[t].shared
    BY <1>t, <2>1 DEF TaskRecord
  <2>3. \A m \in Node : Holds(t, m)' <=> Holds(t, m)
    BY <2>1, <2>2 DEF Holds
  <2> QED
    BY <1>same, <2>1, <2>3
<1>7. CASE SpawnRejected(t)
  BY <1>7, <1>rel DEF SpawnRejected
<1>8. CASE ReleaseEarly(t)
  <2>1. /\ \A u \in Task \ {t} : task'[u] = task[u]
        /\ task'[t] = [task[t] EXCEPT !.node = NoNode]
        /\ ReleaseResources(t)
    BY <1>8, <1>t DEF ReleaseEarly, TypeOK
  <2>2. task'[t].node = NoNode
    BY <1>t, <2>1 DEF TaskRecord
  <2>3. \A n \in Node : ~Holds(t, n)'
    BY <2>2, TaskManagerAssumption DEF Holds
  <2> QED
    BY <2>1, <2>3, ReleaseOwners
<1>9. CASE WorkerDone(t)
  BY <1>9, <1>rel DEF WorkerDone
<1> QED
  BY <1>1, <1>2, <1>3, <1>4, <1>5, <1>6, <1>7, <1>8, <1>9 DEF TaskStep

LEMMA HostStepOwner ==
    ASSUME LockInv, LockInv', Faults = {} => Calm, NEW h \in Host, HostStep(h)
    PROVE  OwnerStep
<1>t. TypeOK /\ MutualExclusion /\ MutualExclusion'
  BY DEF LockInv
<1>1. \A u \in Task, n \in Node : Owns(u, n)' => Owns(u, n)
  <2>1. ASSUME UNCHANGED task, lost \subseteq lost'
        PROVE  \A u \in Task, n \in Node : Owns(u, n)' => Owns(u, n)
    BY <2>1 DEF Owns, Holds
  <2>2. CASE Crash(h)
    <3>1. \A u \in TasksOf(h) : task'[u].pc = "idle"
      BY <2>2, IdleTaskType DEF Crash, TasksOf
    <3>2. \A u \in Task \ TasksOf(h) : task'[u] = task[u]
      BY <2>2 DEF Crash, TasksOf
    <3>3. lost' = lost \ TasksOf(h)
      BY <2>2 DEF Crash
    <3> QED
      BY <3>1, <3>2, <3>3 DEF Owns, Holds
  <2>3. CASE Start(h) \/ InitClear(h) \/ Register(h) \/ BeginStop(h)
    BY <2>1, <2>3 DEF Start, InitClear, Register, BeginStop
  <2>4. CASE EndStop(h) \/ Keepalive(h) \/ HeartbeatTimeout(h)
    BY <2>1, <2>4 DEF EndStop, Keepalive, HeartbeatTimeout
  <2>5. CASE \E S \in SUBSET Node : ScanOffline(h, S)
    BY <2>1, <2>5 DEF ScanOffline
  <2>6. CASE \E n \in Node, tag \in Host : BreakLock(h, n, tag)
    BY <2>1, <2>6 DEF BreakLock
  <2> QED
    BY <2>2, <2>3, <2>4, <2>5, <2>6 DEF HostStep
<1>2. CASE Faults # {}
  BY <1>t, <1>1, <1>2, OwnersLeave
<1>3. CASE Faults = {}
  <2>1. Keepalive(h)
    BY <1>3, CalmHostStep
  <2>2. \A u \in Task, n \in Node : Owns(u, n)' <=> Owns(u, n)
    BY <2>1 DEF Keepalive, Owns, Holds
  <2> QED
    BY <1>t, <2>2, SameOwners
<1> QED
  BY <1>2, <1>3

\* The conductors implement the abstract lock, for any number of them, of
\* nodes and of tasks, and any faults: a node changes owner only through
\* nobody, and only where something can fail does anybody but its owner, or a
\* task with its tag, give it up.
THEOREM ImplementsNodeLockHolds == Spec => ImplementsNodeLock
<1> DEFINE Inv == LockInv /\ (Faults = {} => Calm)
<1>1. Init => Inv
  BY InitLockInv DEF Init, Calm
<1>2. Inv /\ [Next]_lockVars => Inv'
  BY LockInvInductive, CalmStep
<1>3. Init => Lock!Init
  <2> SUFFICES ASSUME Init PROVE Lock!Init
    OBVIOUS
  <2>1. \A t \in Task, n \in Node : ~Owns(t, n)
    BY DEF Init, Owns, Holds, IdleTask
  <2>2. \A n \in Node : OwnerOf(n) = NoTask
    BY <2>1 DEF OwnerOf
  <2> QED
    BY <2>2 DEF Lock!Init
<1>4. Inv /\ Inv' /\ [Next]_lockVars => OwnerStep
  <2> SUFFICES ASSUME Inv, Inv', [Next]_lockVars PROVE OwnerStep
    OBVIOUS
  <2>1. ASSUME NEW t \in Task, TaskStep(t) PROVE OwnerStep
    BY <2>1, TaskStepOwner
  <2>2. ASSUME NEW h \in Host, HostStep(h) PROVE OwnerStep
    BY <2>2, HostStepOwner
  <2>3. CASE UNCHANGED lockVars
    <3>1. \A u \in Task, n \in Node : Owns(u, n)' <=> Owns(u, n)
      BY <2>3 DEF lockVars, Owns, Holds
    <3> QED
      BY <3>1, SameOwners DEF LockInv
  <2> QED
    BY <2>1, <2>2, <2>3 DEF Next
<1> QED
  BY <1>1, <1>2, <1>3, <1>4, PTL
     DEF Spec, ImplementsNodeLock, Lock!Spec, OwnerStep
=============================================================================
