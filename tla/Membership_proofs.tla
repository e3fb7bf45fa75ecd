--------------------------- MODULE Membership_proofs ---------------------------
(***************************************************************************)
(* Theorems about the membership of conductors and the takeover of a node, *)
(* for any number of conductors, faults and requests.  OwnerInv is the     *)
(* inductive invariant they rest on.                                       *)
(***************************************************************************)
EXTENDS Membership, FiniteSetTheorems, TLAPS

\* The threads of a process that is down are gone: only a message that waits
\* in its queue is left of them.
DownIsIdle ==
    \A t \in Task : conductor[t[1]].proc = "down" => job[t] \in {"idle", "sent"}

\* The thread that works on the node has its lock, and is the only one.
OneWorks ==
    /\ \A t \in Working : node.lock = t[1]
    /\ \A t, u \in Working : t = u

\* The lock of a host that runs is the lock of one of its threads.
LockIsHeld ==
    ~Free => Working # {} \/ conductor[node.lock].proc = "down"

OwnerInv ==
    /\ TypeOK
    /\ DownIsIdle
    /\ OneWorks
    /\ LockIsHeld
    /\ TakesOverServed

-----------------------------------------------------------------------------
(* Facts about the definitions.                                            *)

\* No host is NoHost, and the threads of the hosts are tasks.
LEMMA HostFacts ==
    /\ NoHost \notin Host
    /\ \A h \in Host : /\ Sync(h) \in Task /\ Handler(h) \in Task
                       /\ Sync(h)[1] = h /\ Handler(h)[1] = h
                       /\ Sync(h) # Handler(h)
    /\ \A t \in Task : t[1] \in Host /\ (t = Sync(t[1]) \/ t = Handler(t[1]))
  BY MembershipAssumption DEF NoHost, Sync, Handler, Task

\* What a set of which any two members are equal has for a cardinality.
LEMMA AtMostOne ==
    ASSUME NEW S, \A x, y \in S : x = y
    PROVE  IsFiniteSet(S) /\ Cardinality(S) <= 1
<1>1. CASE S = {}
  BY <1>1, FS_EmptySet
<1>2. CASE S # {}
  <2>1. PICK x \in S : TRUE
    BY <1>2
  <2>2. S = {x}
    BY <2>1
  <2>3. IsFiniteSet(S) /\ Cardinality(S) = 1
    BY <2>2, FS_Singleton, Zenon
  <2> QED
    BY <2>3
<1> QED
  BY <1>1, <1>2

\* Initially the invariant holds.
LEMMA InitOwnerInv == Init => OwnerInv
<1> SUFFICES ASSUME Init PROVE OwnerInv
  OBVIOUS
<1> USE HostFacts, MembershipAssumption DEF Init
<1>1. TypeOK
  BY DEF TypeOK, Conductor, NoRing
<1>2. Working = {}
  BY DEF Working
<1>3. DownIsIdle /\ OneWorks /\ LockIsHeld
  BY <1>2 DEF DownIsIdle, OneWorks, LockIsHeld, Free
<1>4. TakesOverServed
  BY DEF TakesOverServed
<1> QED
  BY <1>1, <1>3, <1>4 DEF OwnerInv

\* The host that the ring maps a node to is one of those that it knows.
LEMMA LoadsType ==
    ASSUME TypeOK, NEW h \in Host, Loads(h)
    PROVE  ring' \in [Host -> [valid : BOOLEAN, hosts : SUBSET Host]]
<1>1. Seen(h) \in SUBSET Host
  BY DEF Seen, Active, TypeOK
<1> QED
  BY <1>1 DEF Loads, TypeOK

\* A row of a conductor in which some fields are set is one again.
LEMMA RowType ==
    ASSUME NEW c \in Conductor, NEW touching \in BOOLEAN
    PROVE  /\ [c EXCEPT !.touching = touching] \in Conductor
           /\ [c EXCEPT !.touching = FALSE, !.online = TRUE, !.fresh = TRUE]
                  \in Conductor
           /\ [c EXCEPT !.fresh = FALSE] \in Conductor
           /\ [c EXCEPT !.proc = "down", !.touching = FALSE] \in Conductor
           /\ [c EXCEPT !.proc = "down"] \in Conductor
           /\ [c EXCEPT !.proc = "stopping", !.online = FALSE] \in Conductor
  BY DEF Conductor

\* The stages that a thread goes through are those of its kind.
JobOK == /\ job \in [Task -> {"idle", "chosen", "taking", "sent", "working"}]
         /\ \A h \in Host : /\ job[Sync(h)] \notin {"sent", "working"}
                            /\ job[Handler(h)] \notin {"chosen", "taking"}

LEMMA JobStays == JobOK /\ UNCHANGED job => JobOK'
  BY DEF JobOK

LEMMA SyncGoes ==
    ASSUME JobOK, NEW h \in Host, NEW s \in {"idle", "chosen", "taking"},
           Goto(Sync(h), s)
    PROVE  JobOK'
<1>1. \A g \in Host : Handler(g) # Sync(h)
  BY DEF Sync, Handler
<1> QED
  BY <1>1, HostFacts DEF JobOK, Goto

LEMMA HandlerGoes ==
    ASSUME JobOK, NEW h \in Host, NEW s \in {"idle", "sent", "working"},
           Goto(Handler(h), s)
    PROVE  JobOK'
<1>1. \A g \in Host : Sync(g) # Handler(h)
  BY DEF Sync, Handler
<1> QED
  BY <1>1, HostFacts DEF JobOK, Goto

\* A node's row that is locked, unlocked or taken over is one again.
NodeRow == [active : BOOLEAN, maint : BOOLEAN,
            affinity : Host \cup {NoHost}, lock : Host \cup {NoHost}]

LEMMA NodeType ==
    ASSUME node \in NodeRow, NEW h \in Host, NEW a \in BOOLEAN
    PROVE  /\ [node EXCEPT !.lock = h] \in NodeRow
           /\ [node EXCEPT !.lock = h, !.active = a] \in NodeRow
           /\ [node EXCEPT !.maint = ~@] \in NodeRow
           /\ Unlocked(node) \in NodeRow
           /\ Unlocked([node EXCEPT !.affinity = h]) \in NodeRow
           /\ Unlocked([node EXCEPT !.active = TRUE, !.affinity = h]) \in NodeRow
  BY DEF NodeRow, Unlocked

\* The type invariant in these terms.
LEMMA TypeParts ==
    TypeOK <=> /\ conductor \in [Host -> Conductor]
               /\ ring \in [Host -> [valid : BOOLEAN, hosts : SUBSET Host]]
               /\ node \in NodeRow
               /\ JobOK
               /\ faults \in 0 .. MaxFaults /\ requests \in 0 .. MaxRequests
  BY DEF TypeOK, NodeRow, JobOK

\* Every step keeps the types.
LEMMA TypeStep == TypeOK /\ [Next]_vars => TypeOK'
<1> SUFFICES ASSUME TypeOK, [Next]_vars PROVE TypeOK'
  OBVIOUS
<1> DEFINE CondOK == conductor \in [Host -> Conductor]
           RingOK == ring \in [Host -> [valid : BOOLEAN, hosts : SUBSET Host]]
           NodeOK == node \in NodeRow
           UsedOK == faults \in 0 .. MaxFaults /\ requests \in 0 .. MaxRequests
<1>p. CondOK /\ RingOK /\ NodeOK /\ JobOK /\ UsedOK
  BY TypeParts
<1>q. CondOK' /\ RingOK' /\ NodeOK' /\ JobOK' /\ UsedOK' => TypeOK'
  BY DEF TypeOK, NodeRow, JobOK
<1>u. UNCHANGED job => JobOK'
  BY <1>p, JobStays
<1>1. ASSUME NEW h \in Host, RingExpires(h) PROVE TypeOK'
  <2> DEFINE row == [ring[h] EXCEPT !.valid = FALSE]
  <2>1. /\ ring' = [ring EXCEPT ![h] = row]
        /\ UNCHANGED <<conductor, node, job, faults, requests>>
    BY <1>1 DEF RingExpires
  <2>2. row \in [valid : BOOLEAN, hosts : SUBSET Host]
    <3>1. ring[h] \in [valid : BOOLEAN, hosts : SUBSET Host]
      BY <1>p, Zenon
    <3> QED
      BY <3>1
  <2> HIDE DEF row
  <2>3. RingOK'
    BY <1>p, <2>1, <2>2
  <2>4. CondOK' /\ NodeOK' /\ JobOK' /\ UsedOK'
    BY <1>p, <1>u, <2>1
  <2> QED
    BY <1>q, <2>3, <2>4
<1>2. ASSUME NEW h \in Host, Choose(h) PROVE TypeOK'
  <2>1. RingOK' /\ JobOK'
    BY <1>2, <1>p, <1>u, LoadsType, SyncGoes DEF Choose
  <2> QED
    BY <1>2, <1>p, <1>q, <2>1 DEF Choose
<1>3. ASSUME NEW h \in Host, LockChosen(h) PROVE TypeOK'
  <2>1. NodeOK' /\ JobOK'
    BY <1>3, <1>p, NodeType, SyncGoes DEF LockChosen
  <2> QED
    BY <1>3, <1>p, <1>q, <2>1 DEF LockChosen
<1>4. ASSUME NEW h \in Host, TakeOver(h) \/ TakeOverFails(h) PROVE TypeOK'
  <2>1. NodeOK' /\ JobOK'
    BY <1>4, <1>p, NodeType, SyncGoes DEF TakeOver, TakeOverFails
  <2> QED
    BY <1>4, <1>p, <1>q, <2>1 DEF TakeOver, TakeOverFails
<1>5. ASSUME NEW h \in Host, Receive(h) PROVE TypeOK'
  <2>1. node.active \in BOOLEAN
    BY <1>p DEF NodeRow
  <2>2. NodeOK' /\ JobOK'
    BY <1>5, <1>p, <2>1, NodeType, HandlerGoes DEF Receive
  <2> QED
    BY <1>5, <1>p, <1>q, <2>2 DEF Receive
<1>6. ASSUME NEW h \in Host, WorkEnds(h) PROVE TypeOK'
  <2>1. NodeOK' /\ JobOK'
    BY <1>6, <1>p, NodeType, HandlerGoes DEF WorkEnds
  <2> QED
    BY <1>6, <1>p, <1>q, <2>1 DEF WorkEnds
<1>7. ASSUME NEW h \in Host, BeginTouch(h) \/ Touch(h) PROVE TypeOK'
  <2>1. CondOK'
    <3>1. CASE BeginTouch(h)
      BY <3>1, <1>p, RowType DEF BeginTouch
    <3>2. CASE Touch(h)
      <4> DEFINE c == [conductor[h] EXCEPT !.touching = FALSE, !.online = TRUE,
                                           !.fresh = TRUE]
      <4>1. conductor' = [conductor EXCEPT ![h] = c]
        BY <3>2, <1>p DEF Touch
      <4>2. c \in Conductor
        BY <1>p, RowType
      <4> QED
        BY <1>p, <4>1, <4>2
    <3> QED
      BY <1>7, <3>1, <3>2
  <2> QED
    BY <1>7, <1>p, <1>q, <1>u, <2>1 DEF BeginTouch, Touch
<1>8. ASSUME NEW h \in Host, HeartbeatTimeout(h) PROVE TypeOK'
  <2>1. CondOK'
    BY <1>8, <1>p, RowType DEF HeartbeatTimeout
  <2>2. UsedOK'
    BY <1>8, <1>p, MembershipAssumption DEF HeartbeatTimeout, Fault
  <2> QED
    BY <1>8, <1>p, <1>q, <1>u, <2>1, <2>2 DEF HeartbeatTimeout
<1>9. ASSUME NEW h \in Host, Crash(h) PROVE TypeOK'
  <2>1. CondOK'
    BY <1>9, <1>p, RowType DEF Crash
  <2>2. RingOK'
    BY <1>9, <1>p DEF Crash, NoRing
  <2>3. JobOK'
    BY <1>9, <1>p, HostFacts DEF Crash, JobOK
  <2>4. UsedOK'
    BY <1>9, <1>p, MembershipAssumption DEF Crash, Fault
  <2> QED
    BY <1>9, <1>p, <1>q, <2>1, <2>2, <2>3, <2>4 DEF Crash
<1>10. ASSUME NEW h \in Host, Restart(h) PROVE TypeOK'
  <2>1. CondOK'
    BY <1>10, <1>p DEF Restart, Conductor
  <2>2. NodeOK'
    BY <1>10, <1>p, NodeType DEF Restart
  <2> QED
    BY <1>10, <1>p, <1>q, <1>u, <2>1, <2>2 DEF Restart
<1>11. ASSUME NEW h \in Host, BeginStop(h) PROVE TypeOK'
  <2>1. CondOK'
    BY <1>11, <1>p, RowType DEF BeginStop
  <2>2. PICK s \in {"idle", "chosen", "taking"} : Goto(Sync(h), s)
    BY <1>11, <1>p, HostFacts DEF BeginStop, Goto, JobOK
  <2>3. JobOK'
    BY <1>p, <2>2, SyncGoes
  <2>4. UsedOK'
    BY <1>11, <1>p, MembershipAssumption DEF BeginStop, Fault
  <2> QED
    BY <1>11, <1>p, <1>q, <2>1, <2>3, <2>4 DEF BeginStop
<1>12. ASSUME NEW h \in Host, EndStop(h) PROVE TypeOK'
  <2>1. CondOK'
    BY <1>12, <1>p, RowType DEF EndStop
  <2>2. RingOK'
    BY <1>12, <1>p DEF EndStop, NoRing
  <2> QED
    BY <1>12, <1>p, <1>q, <1>u, <2>1, <2>2 DEF EndStop
<1>13. CASE Send
  <2>1. JobOK'
    BY <1>13, <1>p, HandlerGoes DEF Send
  <2>2. UsedOK'
    BY <1>13, <1>p, MembershipAssumption DEF Send
  <2> QED
    BY <1>13, <1>p, <1>q, <2>1, <2>2 DEF Send
<1>14. CASE SetMaintenance
  <2>1. NodeOK'
    BY <1>14, <1>p, NodeType, MembershipAssumption DEF SetMaintenance
  <2> QED
    BY <1>14, <1>p, <1>q, <1>u, <2>1 DEF SetMaintenance
<1>15. CASE UNCHANGED vars
  BY <1>15, <1>p, <1>q, <1>u DEF vars
<1> QED
  BY <1>1, <1>2, <1>3, <1>4, <1>5, <1>6, <1>7, <1>8, <1>9, <1>10, <1>11,
     <1>12, <1>13, <1>14, <1>15 DEF Next

\* The variables keep their types, whatever the constants are.
THEOREM MembershipTypeCorrect == Spec => []TypeOK
<1>1. Init => TypeOK
  BY InitOwnerInv DEF OwnerInv
<1> QED
  BY <1>1, TypeStep, PTL DEF Spec

-----------------------------------------------------------------------------
(* The kinds of steps, by what they do to the lock.                        *)

\* Nobody works on a node that is free.
LEMMA FreeIsIdle == TypeOK /\ OneWorks /\ Free => Working = {}
  BY HostFacts DEF OneWorks, Free, Working

\* A step that leaves the node and the processes as they are, and in which at
\* most one thread that does not have the lock goes on without it.
LEMMA QuietStep ==
    ASSUME OwnerInv, TypeOK', UNCHANGED node,
           \A g \in Host : conductor'[g].proc = conductor[g].proc,
           \/ UNCHANGED job
           \/ \E t \in Task, s \in {"idle", "chosen", "sent"} :
                 /\ job[t] \in {"idle", "chosen", "sent"}
                 /\ job' = [job EXCEPT ![t] = s]
                 /\ s = "chosen" => conductor[t[1]].proc # "down"
    PROVE  OwnerInv'
<1>t. /\ job \in [Task -> {"idle", "chosen", "taking", "sent", "working"}]
      /\ node.lock \in Host \cup {NoHost}
  BY DEF OwnerInv, TypeOK
<1>j. ASSUME NEW t \in Task
      PROVE  \/ job'[t] = job[t]
             \/ /\ job[t] \in {"idle", "chosen", "sent"}
                /\ job'[t] \in {"idle", "chosen", "sent"}
                /\ job'[t] = "chosen" => conductor[t[1]].proc # "down"
  BY <1>t
<1>1. Working' = Working
  BY <1>j DEF Working
<1>2. DownIsIdle'
  <2> SUFFICES ASSUME NEW t \in Task, conductor'[t[1]].proc = "down"
               PROVE  job'[t] \in {"idle", "sent"}
    BY DEF DownIsIdle
  <2>1. conductor[t[1]].proc = "down"
    BY HostFacts
  <2>2. job[t] \in {"idle", "sent"}
    BY <2>1 DEF OwnerInv, DownIsIdle
  <2> QED
    BY <1>j, <2>1, <2>2
<1>3. OneWorks'
  BY <1>1 DEF OwnerInv, OneWorks
<1>4. LockIsHeld'
  BY <1>1, <1>t, HostFacts DEF OwnerInv, LockIsHeld, Free
<1>5. \A h \in Host : job'[Sync(h)] = "taking" => job[Sync(h)] = "taking"
  BY <1>j, HostFacts
<1>6. TakesOverServed'
  BY <1>5 DEF OwnerInv, TakesOverServed
<1> QED
  BY <1>2, <1>3, <1>4, <1>6 DEF OwnerInv

\* A thread of a process that runs takes the lock.
LEMMA LockStep ==
    ASSUME OwnerInv, TypeOK', Free, UNCHANGED conductor,
           NEW t \in Task, NEW s \in {"taking", "working"},
           conductor[t[1]].proc # "down",
           job' = [job EXCEPT ![t] = s],
           node'.lock = t[1],
           s = "taking" => node'.active /\ ~node'.maint /\ node'.affinity # t[1]
    PROVE  OwnerInv'
<1> USE HostFacts DEF OwnerInv
<1>1. Working = {}
  BY FreeIsIdle
<1>2. job \in [Task -> {"idle", "chosen", "taking", "sent", "working"}]
  BY DEF TypeOK
<1>3. Working' = {t}
  BY <1>1, <1>2 DEF Working
<1>4. DownIsIdle'
  BY <1>2 DEF DownIsIdle
<1>5. OneWorks' /\ LockIsHeld'
  BY <1>3 DEF OneWorks, LockIsHeld, Free
<1>6. \A h \in Host : job'[Sync(h)] = "taking" => Sync(h) = t /\ s = "taking"
  BY <1>1, <1>2 DEF Working
<1>7. TakesOverServed'
  BY <1>6 DEF TakesOverServed
<1> QED
  BY <1>4, <1>5, <1>7

\* The thread that has the lock gives it up and is done.
LEMMA UnlockStep ==
    ASSUME OwnerInv, TypeOK', UNCHANGED conductor,
           NEW t \in Working,
           job' = [job EXCEPT ![t] = "idle"],
           node'.lock = NoHost
    PROVE  OwnerInv'
<1> USE HostFacts DEF OwnerInv
<1>1. t \in Task
  BY DEF Working
<1>2. job \in [Task -> {"idle", "chosen", "taking", "sent", "working"}]
  BY DEF TypeOK
<1>3. Working' = {}
  BY <1>1, <1>2 DEF Working, OneWorks
<1>4. DownIsIdle'
  BY <1>1, <1>2 DEF DownIsIdle
<1>5. OneWorks' /\ LockIsHeld'
  BY <1>3 DEF OneWorks, LockIsHeld, Free
<1>6. TakesOverServed'
  BY <1>3 DEF TakesOverServed, Working
<1> QED
  BY <1>4, <1>5, <1>6

\* Every step of the specification keeps the invariant.
LEMMA OwnerInvInductive == OwnerInv /\ [Next]_vars => OwnerInv'
<1> SUFFICES ASSUME OwnerInv, [Next]_vars PROVE OwnerInv'
  OBVIOUS
<1>t. TypeOK /\ TypeOK'
  BY TypeStep DEF OwnerInv
<1>j. job \in [Task -> {"idle", "chosen", "taking", "sent", "working"}]
  BY <1>t DEF TypeOK
<1>c. /\ conductor \in [Host -> Conductor]
      /\ \A h \in Host : h \in Up => conductor[h].proc = "up"
  BY <1>t DEF TypeOK, Up
<1>n. node \in NodeRow
  BY <1>t, TypeParts
<1>1. ASSUME NEW h \in Host, RingExpires(h) PROVE OwnerInv'
  BY <1>1, <1>t, QuietStep DEF RingExpires
<1>2. ASSUME NEW h \in Host, Choose(h) PROVE OwnerInv'
  <2>1. conductor[Sync(h)[1]].proc # "down"
    BY <1>2, <1>c, HostFacts DEF Choose
  <2>2. UNCHANGED job \/ job' = [job EXCEPT ![Sync(h)] = "chosen"]
    BY <1>2 DEF Choose, Goto
  <2> QED
    BY <1>2, <1>t, <2>1, <2>2, HostFacts, QuietStep DEF Choose
<1>3. ASSUME NEW h \in Host, LockChosen(h) PROVE OwnerInv'
  <2>1. CASE job' = [job EXCEPT ![Sync(h)] = "idle"] /\ UNCHANGED node
    BY <1>3, <1>t, <2>1, HostFacts, QuietStep DEF LockChosen
  <2>2. CASE /\ Free /\ node.active /\ ~node.maint /\ node.affinity # h
             /\ node' = [node EXCEPT !.lock = h]
             /\ job' = [job EXCEPT ![Sync(h)] = "taking"]
    <3>1. conductor[Sync(h)[1]].proc # "down"
      BY <1>3, HostFacts DEF LockChosen, OwnerInv, DownIsIdle
    <3>2. /\ node'.lock = Sync(h)[1] /\ node'.active /\ ~node'.maint
          /\ node'.affinity # Sync(h)[1]
      BY <2>2, <1>n, HostFacts DEF NodeRow
    <3>3. UNCHANGED conductor
      BY <1>3 DEF LockChosen
    <3> QED
      BY <1>t, <2>2, <3>1, <3>2, <3>3, HostFacts, LockStep
  <2> QED
    BY <1>3, <2>1, <2>2 DEF LockChosen, Goto
<1>4. ASSUME NEW h \in Host, TakeOver(h) \/ TakeOverFails(h) PROVE OwnerInv'
  <2>1. /\ Sync(h) \in Working /\ UNCHANGED conductor
        /\ job' = [job EXCEPT ![Sync(h)] = "idle"]
    BY <1>4, HostFacts DEF TakeOver, TakeOverFails, Working, Goto
  <2>2. node'.lock = NoHost
    BY <1>4, <1>n DEF TakeOver, TakeOverFails, Unlocked, NodeRow
  <2> QED
    BY <1>t, <2>1, <2>2, UnlockStep
<1>5. ASSUME NEW h \in Host, Receive(h) PROVE OwnerInv'
  <2>1. CASE job' = [job EXCEPT ![Handler(h)] = "idle"] /\ UNCHANGED node
    BY <1>5, <1>t, <2>1, HostFacts, QuietStep DEF Receive
  <2>2. CASE /\ Free
             /\ \E active \in {node.active, FALSE} :
                   node' = [node EXCEPT !.lock = h, !.active = active]
             /\ job' = [job EXCEPT ![Handler(h)] = "working"]
    <3>1. conductor[Handler(h)[1]].proc # "down"
      BY <1>5, <1>c, HostFacts DEF Receive
    <3>2. node'.lock = Handler(h)[1]
      BY <2>2, <1>n, HostFacts DEF NodeRow
    <3>3. UNCHANGED conductor
      BY <1>5 DEF Receive
    <3> QED
      BY <1>t, <2>2, <3>1, <3>2, <3>3, HostFacts, LockStep
  <2> QED
    BY <1>5, <2>1, <2>2 DEF Receive, Goto
<1>6. ASSUME NEW h \in Host, WorkEnds(h) PROVE OwnerInv'
  <2>1. /\ Handler(h) \in Working /\ UNCHANGED conductor
        /\ job' = [job EXCEPT ![Handler(h)] = "idle"]
    BY <1>6, HostFacts DEF WorkEnds, Working, Goto
  <2>2. node'.lock = NoHost
    BY <1>6, <1>n DEF WorkEnds, Unlocked, NodeRow
  <2> QED
    BY <1>t, <2>1, <2>2, UnlockStep
<1>7. ASSUME NEW h \in Host, BeginTouch(h) \/ Touch(h) \/ HeartbeatTimeout(h)
      PROVE  OwnerInv'
  <2>1. \A g \in Host : conductor'[g].proc = conductor[g].proc
    BY <1>7, <1>c DEF BeginTouch, Touch, HeartbeatTimeout, Conductor
  <2>2. UNCHANGED <<node, job>>
    BY <1>7 DEF BeginTouch, Touch, HeartbeatTimeout
  <2> QED
    BY <1>t, <2>1, <2>2, QuietStep
<1>8. ASSUME NEW h \in Host, Crash(h) PROVE OwnerInv'
  <2>1. Working' = {t \in Working : t[1] # h}
    BY <1>8, <1>j DEF Crash, Working
  <2>2. /\ conductor'[h].proc = "down"
        /\ \A g \in Host : g # h => conductor'[g].proc = conductor[g].proc
    BY <1>8, <1>c DEF Crash, Conductor
  <2>3. DownIsIdle'
    BY <1>8, <1>j, <2>2, HostFacts DEF Crash, DownIsIdle, OwnerInv
  <2>4. OneWorks'
    BY <1>8, <2>1 DEF Crash, OneWorks, OwnerInv
  <2>5. node.lock \in Host \cup {NoHost}
    BY <1>n DEF NodeRow
  <2>6. LockIsHeld'
    BY <1>8, <2>1, <2>2, <2>5 DEF Crash, LockIsHeld, OneWorks, OwnerInv, Free
  <2>7. \A g \in Host : job'[Sync(g)] = "taking" => job[Sync(g)] = "taking"
    BY <1>8, <1>j, HostFacts DEF Crash
  <2>8. TakesOverServed'
    BY <1>8, <2>7 DEF Crash, TakesOverServed, OwnerInv
  <2> QED
    BY <1>t, <2>3, <2>4, <2>6, <2>8 DEF OwnerInv
<1>9. ASSUME NEW h \in Host, Restart(h) PROVE OwnerInv'
  <2>1. /\ conductor'[h].proc = "up" /\ conductor[h].proc = "down"
        /\ \A g \in Host : g # h => conductor'[g].proc = conductor[g].proc
        /\ UNCHANGED job
    BY <1>9, <1>c DEF Restart
  <2>2. Working' = Working /\ \A t \in Working : t[1] # h
    BY <2>1, <1>j DEF Working, OwnerInv, DownIsIdle
  <2>3. DownIsIdle'
    BY <2>1, HostFacts DEF DownIsIdle, OwnerInv
  <2>4. CASE node.lock = h
    <3>1. Working = {} /\ node'.lock = NoHost
      BY <1>9, <1>n, <2>2, <2>4 DEF Restart, OneWorks, OwnerInv, Unlocked, NodeRow
    <3>2. OneWorks' /\ LockIsHeld'
      BY <2>2, <3>1 DEF OneWorks, LockIsHeld, Free
    <3>3. TakesOverServed'
      BY <2>1, <3>1, HostFacts DEF TakesOverServed, Working
    <3> QED
      BY <1>t, <2>3, <3>2, <3>3 DEF OwnerInv
  <2>5. CASE node.lock # h
    <3>1. UNCHANGED node
      BY <1>9, <2>5 DEF Restart
    <3>2. node.lock \in Host \cup {NoHost}
      BY <1>n DEF NodeRow
    <3>3. OneWorks' /\ LockIsHeld'
      BY <2>1, <2>2, <2>5, <3>1, <3>2
         DEF OneWorks, LockIsHeld, Free, OwnerInv
    <3>4. TakesOverServed'
      BY <2>1, <3>1 DEF TakesOverServed, OwnerInv
    <3> QED
      BY <1>t, <2>3, <3>3, <3>4 DEF OwnerInv
  <2> QED
    BY <2>4, <2>5
<1>10. ASSUME NEW h \in Host, BeginStop(h) PROVE OwnerInv'
  <2>1. /\ conductor'[h].proc = "stopping" /\ conductor[h].proc = "up"
        /\ \A g \in Host : g # h => conductor'[g].proc = conductor[g].proc
        /\ UNCHANGED node
    BY <1>10, <1>c DEF BeginStop, Conductor
  <2>2. \A t \in Task :
           job'[t] = job[t] \/ (job[t] = "chosen" /\ job'[t] = "idle")
    BY <1>10, <1>j DEF BeginStop
  <2>3. Working' = Working
    BY <2>2 DEF Working
  <2>4. DownIsIdle'
    BY <2>1, <2>2, HostFacts DEF DownIsIdle, OwnerInv
  <2>5. node.lock \in Host \cup {NoHost}
    BY <1>n DEF NodeRow
  <2>6. OneWorks' /\ LockIsHeld'
    BY <2>1, <2>3, <2>5 DEF OneWorks, LockIsHeld, Free, OwnerInv
  <2>7. \A g \in Host : job'[Sync(g)] = "taking" => job[Sync(g)] = "taking"
    BY <2>2, HostFacts
  <2>8. TakesOverServed'
    BY <2>1, <2>7 DEF TakesOverServed, OwnerInv
  <2> QED
    BY <1>t, <2>4, <2>6, <2>8 DEF OwnerInv
<1>11. ASSUME NEW h \in Host, EndStop(h) PROVE OwnerInv'
  <2>1. /\ conductor'[h].proc = "down"
        /\ \A g \in Host : g # h => conductor'[g].proc = conductor[g].proc
        /\ UNCHANGED <<node, job>>
    BY <1>11, <1>c DEF EndStop, Conductor
  <2>2. job[Sync(h)] = "idle" /\ job[Handler(h)] \in {"idle", "sent"}
    BY <1>11, <1>t, <1>j, HostFacts DEF EndStop, TypeOK
  <2>3. DownIsIdle'
    BY <2>1, <2>2, HostFacts DEF DownIsIdle, OwnerInv
  <2>4. Working' = Working
    BY <2>1 DEF Working
  <2>5. node.lock \in Host \cup {NoHost}
    BY <1>n DEF NodeRow
  <2>6. OneWorks' /\ LockIsHeld'
    BY <2>1, <2>4, <2>5 DEF OneWorks, LockIsHeld, Free, OwnerInv
  <2>7. TakesOverServed'
    BY <2>1 DEF TakesOverServed, OwnerInv
  <2> QED
    BY <1>t, <2>3, <2>6, <2>7 DEF OwnerInv
<1>12. CASE Send
  <2>1. PICK h \in Host : /\ job[Handler(h)] = "idle"
                          /\ job' = [job EXCEPT ![Handler(h)] = "sent"]
    BY <1>12 DEF Send, Goto
  <2>2. UNCHANGED <<conductor, node>>
    BY <1>12 DEF Send
  <2> QED
    BY <1>t, <2>1, <2>2, HostFacts, QuietStep
<1>13. CASE SetMaintenance
  <2>1. /\ Free /\ node'.lock = node.lock /\ UNCHANGED <<conductor, job>>
    BY <1>13, <1>n DEF SetMaintenance, NodeRow
  <2>2. Working = {} /\ Working' = {}
    BY <1>t, <2>1, FreeIsIdle DEF OwnerInv, Working
  <2>3. DownIsIdle' /\ OneWorks' /\ LockIsHeld'
    BY <2>1, <2>2 DEF DownIsIdle, OneWorks, LockIsHeld, Free, OwnerInv
  <2>4. TakesOverServed'
    BY <2>1, <2>2, HostFacts DEF TakesOverServed, Working
  <2> QED
    BY <1>t, <2>3, <2>4 DEF OwnerInv
<1>14. CASE UNCHANGED vars
  BY <1>14, <1>t, QuietStep DEF vars
<1> QED
  BY <1>1, <1>2, <1>3, <1>4, <1>5, <1>6, <1>7, <1>8, <1>9, <1>10, <1>11,
     <1>12, <1>13, <1>14 DEF Next

LEMMA OwnerInvAlways == Spec => []OwnerInv
  BY InitOwnerInv, OwnerInvInductive, PTL DEF Spec

\* The lock of the node belongs to one thread of the host whose tag it has, or
\* to a host that is down, however many conductors there are and whatever dies,
\* stops or is routed elsewhere.
THEOREM LockHasItsThreadHolds == Spec => []LockHasItsThread
<1>1. OwnerInv => LockHasItsThread
  BY AtMostOne DEF OwnerInv, OneWorks, LockIsHeld, LockHasItsThread
<1> QED
  BY <1>1, OwnerInvAlways, PTL

\* From the lock to the new affinity, a takeover is of an ACTIVE node out of
\* maintenance that another conductor has served.
THEOREM TakesOverServedHolds == Spec => []TakesOverServed
  BY OwnerInvAlways, PTL DEF OwnerInv

=============================================================================
