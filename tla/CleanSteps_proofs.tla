--------------------------- MODULE CleanSteps_proofs ---------------------------
(***************************************************************************)
(* Theorems about the bookkeeping of clean steps, for any number of steps, *)
(* of any kinds, and any number of version mismatches.  TypeInv holds      *)
(* whatever happens.  StepInv says that the row, the worker, the agent and *)
(* the messages agree about the current step; it needs that no second      *)
(* message is on its way while the first is handled.  DoneInv adds what    *)
(* has been completed; it needs that no agent restarts by itself.          *)
(***************************************************************************)
EXTENDS CleanSteps, TLAPS

\* An agent's commands are for steps of its own.
Commands ==
    agent.cmd \in {"running", "succeeded", "failed", "mismatch"} =>
        agent.at \in InBand

\* The worker is about a step, or about the end of the steps.
WorkersStep ==
    /\ work.stage = "next" => work.at # 0
    /\ work.stage = "execute" => work.at \in Step

TypeInv == TypeOK /\ Commands /\ WorkersStep

\* A worker that prepares, runs steps or tears down has a node in CLEANING.
\* While it runs steps, the agent is not running any and is not answered.
WorkersRow ==
    /\ work.stage \in {"prepare", "next", "execute", "teardown"} =>
          node.prov = "cleaning"
    /\ work.stage \in {"prepare", "teardown"} => node.step = 0
    /\ work.stage = "execute" => node.step = work.at /\ node.index = work.at
    /\ work.stage \in {"next", "execute"} =>
          agent.cmd # "running" /\ (casts = 0 \/ InBand = {})
    /\ work.stage = "abort" => node.prov = "cleanfail"

\* Without a worker, a node is not in CLEANING, unless something was raised
\* that is not caught, and a step is current only while the node waits for it.
IdleRow ==
    Idle => /\ node.prov = "cleaning" => "uncaught" \in Faults
            /\ node.step # 0 => node.prov = "cleanwait" /\ node.index = node.step

\* A node that waits: its agent has no command before the first step; then the
\* command is for the current step, and nobody has been told that it has ended
\* before it has.
WaitingRow ==
    Idle /\ node.prov = "cleanwait" =>
        /\ node.step = 0 => agent.cmd \in {"booting", "none", "query"}
        /\ agent.cmd # "off"
        /\ agent.cmd \in {"running", "succeeded", "failed", "mismatch"} =>
              agent.at = node.step
        /\ agent.cmd \in {"running", "failed", "mismatch"} => casts = 0

StepInv == TypeInv /\ WorkersRow /\ IdleRow /\ WaitingRow

\* What has been completed when a worker is at a step, or at the end.
WorkersDone ==
    /\ work.stage = "prepare" => done = {}
    /\ work.stage \in {"next", "execute"} => done = 1 .. (work.at - 1)
    /\ work.stage \in {"next", "execute"} => node.skip \/ InBand = {}
    /\ work.stage = "teardown" => done = Step

\* What has been completed when the node waits.  The current step is kept only
\* when the agent has refused it.
WaitingDone ==
    Idle /\ node.prov = "cleanwait" =>
        /\ node.step = 0 => done = {}
        /\ node.step # 0 =>
              /\ agent.cmd = "query" <=> ~node.skip
              /\ done = IF agent.cmd \in {"succeeded", "booting", "none"}
                        THEN 1 .. node.step ELSE 1 .. (node.step - 1)

\* A cleaning has not ended well before it has ended.
NotEndedYet == Cleaning => ~ended

DoneInv == StepInv /\ WorkersDone /\ WaitingDone /\ NotEndedYet

-----------------------------------------------------------------------------
(* Types.                                                                  *)

WorkRecord == [stage : Stage, at : 0 .. NoStep]
AgentRecord == [cmd : Command, at : 0 .. StepCount]

LEMMA TypeParts ==
    TypeOK <=> /\ node \in Row /\ work \in WorkRecord /\ agent \in AgentRecord
               /\ casts \in 0 .. MaxCasts /\ mismatches \in 0 .. MaxMismatches
               /\ done \subseteq Step /\ ended \in BOOLEAN
  BY DEF TypeOK, WorkRecord, AgentRecord

LEMMA TypePartsNext ==
    /\ node' \in Row /\ work' \in WorkRecord /\ agent' \in AgentRecord
    /\ casts' \in 0 .. MaxCasts /\ mismatches' \in 0 .. MaxMismatches
    /\ done' \subseteq Step /\ ended' \in BOOLEAN
    => TypeOK'
  BY DEF TypeOK, WorkRecord, AgentRecord

\* The numbers of steps.
LEMMA StepFacts ==
    /\ StepCount \in Nat /\ NoStep \in 0 .. NoStep /\ NoStep \notin Step
    /\ 1 \in Step /\ 0 \notin Step
    /\ \A k \in Step : /\ k \in Nat /\ k # 0 /\ k \in 0 .. StepCount
                       /\ k \in 0 .. NoStep /\ k + 1 \in 0 .. NoStep
                       /\ k + 1 # 0
    /\ \A k \in 0 .. NoStep : k # 0 /\ k # NoStep => k \in Step
    /\ \A k \in 0 .. StepCount : k # 0 => k \in Step
    /\ InBand \subseteq Step /\ Reboots \subseteq InBand
  BY CleanAssumption DEF Step, NoStep

\* A row that forgets its steps, and one that has failed, is a row.
LEMMA ForgettingType ==
    ASSUME NEW n \in Row
    PROVE  /\ Forgetting(n) \in Row /\ Failed(n) \in Row
           /\ Forgetting(n).step = 0 /\ Failed(n).step = 0
           /\ Forgetting(n).prov = n.prov /\ Failed(n).prov = "cleanfail"
           /\ Forgetting(n).skip = n.skip
           /\ Forgetting(n).manual = n.manual
<1>1. 0 \in 0 .. StepCount
  BY CleanAssumption
<1>2. /\ Forgetting(n) \in Row /\ Forgetting(n).step = 0
      /\ Forgetting(n).prov = n.prov /\ Forgetting(n).skip = n.skip
      /\ Forgetting(n).manual = n.manual
  BY <1>1 DEF Forgetting, Row
<1>3. /\ Failed(n) \in Row /\ Failed(n).step = 0
      /\ Failed(n).prov = "cleanfail"
  BY <1>2 DEF Failed, Row
<1> QED
  BY <1>2, <1>3

\* The step that continue_node_clean goes on with.
LEMMA NextStepType == TypeOK => NextStep \in 0 .. NoStep /\ NextStep # 0
  BY CleanAssumption DEF TypeOK, Row, NextStep, NoStep

\* What the worker and the agent turn to.
LEMMA TurnType ==
    /\ \A stage \in Stage : [stage |-> stage, at |-> 0] \in WorkRecord
    /\ \A cmd \in Command : [cmd |-> cmd, at |-> 0] \in AgentRecord
  BY CleanAssumption DEF WorkRecord, AgentRecord, NoStep

\* An operator changes nothing of a cleaning.
LEMMA UpdateKeeps ==
    ASSUME node \in Row, UpdateNode
    PROVE  /\ node' \in Row /\ node'.prov = node.prov
           /\ node'.step = node.step /\ node'.index = node.index
           /\ node'.skip = node.skip
  BY DEF UpdateNode, Row

\* Initially the invariants hold.
LEMMA InitInv == Init => DoneInv
<1> SUFFICES ASSUME Init PROVE DoneInv
  OBVIOUS
<1> USE DEF Init
<1>1. TypeOK
  <2>1. node \in Row
    BY StepFacts DEF Row
  <2>2. work \in WorkRecord /\ agent \in AgentRecord
    BY TurnType DEF Stage, Command
  <2>3. casts \in 0 .. MaxCasts /\ mismatches \in 0 .. MaxMismatches
    BY CleanAssumption
  <2>4. done \subseteq Step /\ ended \in BOOLEAN
    OBVIOUS
  <2> QED
    BY <2>1, <2>2, <2>3, <2>4, TypeParts
<1>2. Commands /\ WorkersStep
  BY DEF Commands, WorkersStep
<1>3. WorkersRow /\ IdleRow /\ WaitingRow
  BY DEF WorkersRow, IdleRow, WaitingRow
<1>4. WorkersDone /\ WaitingDone /\ NotEndedYet
  BY DEF WorkersDone, WaitingDone, NotEndedYet, Cleaning
<1> QED
  BY <1>1, <1>2, <1>3, <1>4 DEF DoneInv, StepInv, TypeInv

\* Users' requests, and the messages.
LEMMA RequestType ==
    ASSUME TypeInv,
           \/ \E manual \in BOOLEAN : DoNodeClean(manual)
           \/ Manage \/ UpdateNode \/ Abort \/ ContinueNodeClean \/ LoseCast
    PROVE  TypeInv'
<1> USE TypeParts, TypePartsNext DEF TypeInv
<1>1. ASSUME NEW manual \in BOOLEAN, DoNodeClean(manual) PROVE TypeInv'
  <2>1. node' \in Row
    BY <1>1 DEF DoNodeClean, Row
  <2>2. work' \in WorkRecord /\ WorkersStep'
    BY <1>1, TurnType DEF DoNodeClean, Turn, Stage, WorkersStep
  <2>3. 0 \in 0 .. MaxMismatches
    BY CleanAssumption
  <2> QED
    BY <1>1, <2>1, <2>2, <2>3 DEF DoNodeClean, Commands
<1>2. CASE Manage
  <2>1. node' \in Row
    BY <1>2 DEF Manage, Row
  <2> QED
    BY <1>2, <2>1 DEF Manage, Commands, WorkersStep
<1>3. CASE Abort
  <2>1. node' \in Row
    BY <1>3 DEF Abort, Row
  <2>2. work' \in WorkRecord /\ WorkersStep'
    BY <1>3, TurnType DEF Abort, Turn, Stage, WorkersStep
  <2>3. UNCHANGED <<agent, casts, mismatches, done, ended>>
    BY <1>3 DEF Abort
  <2> QED
    BY <2>1, <2>2, <2>3 DEF Commands
<1>4. CASE ContinueNodeClean
  <2>1. node' \in Row
    <3>1. \A prov \in {"cleanfail", "cleaning"} :
              [node EXCEPT !.skip = TRUE, !.prov = prov] \in Row
      BY DEF Row
    <3> QED
      BY <1>4, <3>1 DEF ContinueNodeClean
  <2>2. work' \in WorkRecord /\ WorkersStep'
    BY <1>4, TurnType, NextStepType
       DEF ContinueNodeClean, Turn, Stage, WorkersStep, WorkRecord
  <2>3. casts' \in 0 .. MaxCasts
    BY <1>4, CleanAssumption DEF ContinueNodeClean
  <2> QED
    BY <1>4, <2>1, <2>2, <2>3 DEF ContinueNodeClean, Commands
<1>5. CASE LoseCast
  <2>1. casts' \in 0 .. MaxCasts
    BY <1>5, CleanAssumption DEF LoseCast
  <2> QED
    BY <1>5, <2>1 DEF LoseCast, Commands, WorkersStep
<1>6. CASE UpdateNode
  BY <1>6, UpdateKeeps DEF UpdateNode, Commands, WorkersStep
<1> QED
  BY <1>1, <1>2, <1>3, <1>4, <1>5, <1>6

\* The worker.
LEMMA WorkerType == ASSUME TypeInv, Worker PROVE TypeInv'
<1> USE TypeParts, TypePartsNext DEF TypeInv
<1>1. CASE Prepare
  <2>1. node' \in Row
    BY <1>1, ForgettingType DEF Prepare, Row
  <2>2. work' \in WorkRecord /\ WorkersStep'
    BY <1>1, TurnType, StepFacts DEF Prepare, Turn, Stage, WorkersStep, WorkRecord
  <2>3. agent' \in AgentRecord /\ Commands'
    BY <1>1, TurnType DEF Prepare, Last, Command, Commands
  <2> QED
    BY <1>1, <2>1, <2>2, <2>3 DEF Prepare
<1>2. CASE SaveStep
  <2>1. work.at \in 0 .. NoStep /\ work.at # 0
    BY <1>2 DEF SaveStep, WorkersStep, WorkRecord
  <2>2. work.at # NoStep => work.at \in Step /\ work.at \in 0 .. StepCount
    BY <2>1, StepFacts
  <2>3. node' \in Row
    <3>1. CASE work.at = NoStep
      BY <1>2, <3>1, ForgettingType DEF SaveStep
    <3>2. CASE work.at # NoStep
      <4>1. [node EXCEPT !.step = work.at, !.index = work.at, !.abort = FALSE]
                \in Row
        BY <2>2, <3>2 DEF Row
      <4> QED
        BY <1>2, <3>2, <4>1 DEF SaveStep
    <3> QED
      BY <3>1, <3>2
  <2>4. work' \in WorkRecord /\ WorkersStep'
    BY <1>2, <2>2, TurnType DEF SaveStep, Turn, Stage, WorkersStep, WorkRecord
  <2> QED
    BY <1>2, <2>3, <2>4 DEF SaveStep, Commands
<1>3. CASE RunStep
  <2>1. work.at \in Step
    BY <1>3 DEF RunStep, WorkersStep
  <2>2. work' \in WorkRecord /\ WorkersStep'
    BY <1>3, <2>1, StepFacts DEF RunStep, Stage, WorkersStep, WorkRecord
  <2> QED
    BY <1>3, <2>1, <2>2 DEF RunStep, Commands
<1>4. CASE SendStep
  <2>1. node' \in Row
    BY <1>4 DEF SendStep, Row
  <2>2. work' \in WorkRecord /\ WorkersStep'
    BY <1>4, TurnType DEF SendStep, Turn, Stage, WorkersStep
  <2>3. agent' \in AgentRecord /\ Commands'
    BY <1>4, StepFacts DEF SendStep, Command, Commands, AgentRecord
  <2> QED
    BY <1>4, <2>1, <2>2, <2>3 DEF SendStep
<1>5. CASE StepRaises
  <2>1. work' \in WorkRecord /\ WorkersStep'
    BY <1>5, TurnType DEF StepRaises, Turn, Stage, WorkersStep
  <2> QED
    BY <1>5, <2>1 DEF StepRaises, Commands
<1>6. CASE TearDownCleaning
  <2>1. node' \in Row
    BY <1>6 DEF TearDownCleaning, Row
  <2>2. work' \in WorkRecord /\ WorkersStep'
    BY <1>6, TurnType DEF TearDownCleaning, Turn, Stage, WorkersStep
  <2>3. agent' \in AgentRecord /\ Commands'
    BY <1>6, TurnType DEF TearDownCleaning, Last, Command, Commands
  <2> QED
    BY <1>6, <2>1, <2>2, <2>3 DEF TearDownCleaning
<1>7. CASE CleaningErrorHandler
  <2>1. work' \in WorkRecord /\ WorkersStep'
    BY <1>7, TurnType DEF CleaningErrorHandler, Turn, Stage, WorkersStep
  <2>2. agent' \in AgentRecord /\ Commands'
    BY <1>7, TurnType DEF CleaningErrorHandler, Last, Command, Commands
  <2> QED
    BY <1>7, <2>1, <2>2, ForgettingType DEF CleaningErrorHandler
<1>8. CASE DoNodeCleanAbort
  <2>1. node' \in Row
    <3>1. node' = [node EXCEPT !.step = 0, !.abort = FALSE] => node' \in Row
      <4>1. node \in Row /\ 0 \in 0 .. StepCount
        BY CleanAssumption
      <4> QED
        BY <4>1 DEF Row
    <3>2. node' = Failed(node) => node' \in Row
      BY ForgettingType
    <3> QED
      BY <1>8, <3>1, <3>2 DEF DoNodeCleanAbort
  <2>2. work' \in WorkRecord /\ WorkersStep'
    BY <1>8, TurnType DEF DoNodeCleanAbort, Turn, Stage, WorkersStep
  <2>3. agent' \in AgentRecord /\ Commands'
    BY <1>8, TurnType DEF DoNodeCleanAbort, Last, Command, Commands
  <2> QED
    BY <1>8, <2>1, <2>2, <2>3 DEF DoNodeCleanAbort
<1> QED
  BY <1>1, <1>2, <1>3, <1>4, <1>5, <1>6, <1>7, <1>8 DEF Worker

\* Heartbeats, the machine and the timeouts.
LEMMA AgentType ==
    ASSUME TypeInv,
           Heartbeat \/ HeartbeatFails \/ CleanwaitTimeout \/ Boot \/ AgentEnds
    PROVE  TypeInv'
<1> USE TypeParts, TypePartsNext DEF TypeInv
<1>c. Cast => casts' \in 0 .. MaxCasts
  BY CleanAssumption DEF Cast
<1>1. CASE FirstHeartbeat
  <2>1. agent' \in AgentRecord /\ Commands'
    BY <1>1, TurnType DEF FirstHeartbeat, Last, Command, Commands
  <2> QED
    BY <1>1, <1>c, <2>1, ForgettingType DEF FirstHeartbeat, WorkersStep
<1>2. CASE AfterReboot \/ StepSucceeded
  BY <1>2, <1>c DEF AfterReboot, StepSucceeded, Commands, WorkersStep
<1>3. CASE StepSucceededReboot
  <2>1. agent' \in AgentRecord /\ Commands'
    BY <1>3, TurnType DEF StepSucceededReboot, Last, Command, Commands
  <2>2. node' \in Row
    BY <1>3 DEF StepSucceededReboot, Row
  <2> QED
    BY <1>3, <2>1, <2>2 DEF StepSucceededReboot, WorkersStep
<1>4. CASE VersionMismatch
  <2>1. agent' \in AgentRecord /\ Commands'
    BY <1>4, TurnType DEF VersionMismatch, Last, Command, Commands
  <2>2. node' \in Row
    <3>1. [node EXCEPT !.skip = FALSE] \in Row
      BY DEF Row
    <3> QED
      BY <1>4, <3>1, ForgettingType DEF VersionMismatch
  <2>3. done' \subseteq Step
    BY <1>4 DEF VersionMismatch
  <2> QED
    BY <1>4, <1>c, <2>1, <2>2, <2>3 DEF VersionMismatch, WorkersStep
<1>5. CASE StepFailed \/ HeartbeatRaises
  <2>1. work' \in WorkRecord /\ WorkersStep'
    BY <1>5, TurnType DEF StepFailed, HeartbeatRaises, Turn, Stage, WorkersStep
  <2> QED
    BY <1>5, <2>1 DEF StepFailed, HeartbeatRaises, Commands
<1>6. CASE CleanwaitTimeout
  <2>1. work' \in WorkRecord /\ WorkersStep'
    BY <1>6, TurnType DEF CleanwaitTimeout, Turn, Stage, WorkersStep
  <2>2. node' \in Row
    BY <1>6 DEF CleanwaitTimeout, Row
  <2> QED
    BY <1>6, <2>1, <2>2 DEF CleanwaitTimeout, Commands
<1>7. CASE Boot
  <2>1. agent' \in AgentRecord /\ Commands'
    BY <1>7, TurnType DEF Boot, Last, Command, Commands
  <2> QED
    BY <1>7, <2>1 DEF Boot, WorkersStep
<1>8. CASE AgentEnds
  <2>1. agent.at \in Step
    BY <1>8, StepFacts DEF AgentEnds, Commands
  <2>2. agent' \in AgentRecord /\ Commands'
    BY <1>8, TurnType DEF AgentEnds, Last, Command, Commands, AgentRecord
  <2>3. mismatches' \in 0 .. MaxMismatches /\ done' \subseteq Step
    BY <1>8, <2>1, CleanAssumption DEF AgentEnds
  <2> QED
    BY <1>8, <2>2, <2>3 DEF AgentEnds, WorkersStep
<1> QED
  BY <1>1, <1>2, <1>3, <1>4, <1>5, <1>6, <1>7, <1>8
     DEF Heartbeat, HeartbeatFails, Progress

LEMMA TypeInvInductive == TypeInv /\ [Next]_vars => TypeInv'
<1>1. TypeInv /\ UNCHANGED vars => TypeInv'
  BY DEF vars, TypeInv, TypeOK, Commands, WorkersStep
<1> QED
  BY <1>1, RequestType, WorkerType, AgentType DEF Next

LEMMA TypeInvAlways == Spec => []TypeInv
<1>1. Init => TypeInv
  BY InitInv DEF DoneInv, StepInv
<1> QED
  BY <1>1, TypeInvInductive, PTL DEF Spec

\* The variables keep their types, whatever the constants are: no index leaves
\* the list of steps.
THEOREM CleanTypeCorrect == Spec => []TypeOK
  BY TypeInvAlways, PTL DEF TypeInv

-----------------------------------------------------------------------------
(* The current step.                                                       *)

\* With one message at a time, one that is handled was the only one.
LEMMA LastCast == ASSUME TypeInv, MaxCasts = 1, casts > 0 PROVE casts - 1 = 0
  BY DEF TypeInv, TypeOK

LEMMA RequestStep ==
    ASSUME StepInv, MaxCasts = 1,
           \/ \E manual \in BOOLEAN : DoNodeClean(manual)
           \/ Manage \/ UpdateNode \/ Abort \/ ContinueNodeClean \/ LoseCast
    PROVE  WorkersRow' /\ IdleRow' /\ WaitingRow'
<1> USE DEF WorkersRow, IdleRow, WaitingRow, Idle
<1>t. node \in Row /\ WorkersRow /\ IdleRow /\ WaitingRow
  BY TypeParts DEF StepInv, TypeInv
<1>1. ASSUME NEW manual \in BOOLEAN, DoNodeClean(manual)
      PROVE  WorkersRow' /\ IdleRow' /\ WaitingRow'
  BY <1>1, <1>t DEF DoNodeClean, Turn, Row
<1>2. CASE Manage
  BY <1>2, <1>t DEF Manage, Row
<1>3. CASE Abort
  BY <1>3, <1>t DEF Abort, Turn, Row
<1>4. CASE ContinueNodeClean
  <2>1. casts' = 0 /\ casts # 0
    BY <1>4, LastCast DEF ContinueNodeClean, StepInv
  <2>2. CASE UNCHANGED <<node, work>>
    BY <1>4, <1>t, <2>1, <2>2 DEF ContinueNodeClean
  <2>3. CASE work'.stage = "abort" /\ node'.prov = "cleanfail"
    BY <1>4, <2>3 DEF ContinueNodeClean
  <2>4. CASE work'.stage = "next" /\ node'.prov = "cleaning" /\ node.prov = "cleanwait"
    BY <1>4, <1>t, <2>1, <2>4 DEF ContinueNodeClean
  <2>5. /\ [node EXCEPT !.skip = TRUE, !.prov = "cleanfail"].prov = "cleanfail"
        /\ [node EXCEPT !.skip = TRUE, !.prov = "cleaning"].prov = "cleaning"
    BY <1>t DEF Row
  <2>6. \/ UNCHANGED <<node, work>>
        \/ work'.stage = "abort" /\ node'.prov = "cleanfail"
        \/ /\ work'.stage = "next" /\ node'.prov = "cleaning"
           /\ node.prov = "cleanwait"
    <3>1. CASE node.prov # "cleanwait"
      BY <1>4, <3>1 DEF ContinueNodeClean
    <3>2. CASE node.prov = "cleanwait" /\ node.abort /\ NextStep # NoStep
      <4>1. /\ node' = [node EXCEPT !.skip = TRUE, !.prov = "cleanfail"]
            /\ work' = [stage |-> "abort", at |-> 0]
        BY <1>4, <3>2, Zenon DEF ContinueNodeClean, Turn
      <4> QED
        BY <2>5, <4>1
    <3>3. CASE node.prov = "cleanwait" /\ ~(node.abort /\ NextStep # NoStep)
      <4>1. /\ node' = [node EXCEPT !.skip = TRUE, !.prov = "cleaning"]
            /\ work' = [stage |-> "next", at |-> NextStep]
        BY <1>4, <3>3, Zenon DEF ContinueNodeClean
      <4> QED
        BY <2>5, <3>3, <4>1
    <3> QED
      BY <3>1, <3>2, <3>3
  <2> QED
    BY <2>2, <2>3, <2>4, <2>6
<1>5. CASE LoseCast
  <2>1. casts' = 0
    BY <1>5, LastCast DEF LoseCast, StepInv
  <2> QED
    BY <1>5, <1>t, <2>1 DEF LoseCast
<1>6. CASE UpdateNode
  BY <1>6, <1>t, UpdateKeeps DEF UpdateNode
<1> QED
  BY <1>1, <1>2, <1>3, <1>4, <1>5, <1>6

LEMMA WorkerStep ==
    ASSUME StepInv, Worker
    PROVE  WorkersRow' /\ IdleRow' /\ WaitingRow'
<1> USE DEF WorkersRow, IdleRow, WaitingRow, Idle
<1>t. /\ node \in Row /\ WorkersRow /\ IdleRow /\ WaitingRow
      /\ Commands /\ WorkersStep
  BY TypeParts DEF StepInv, TypeInv
<1>1. CASE Prepare
  <2>1. InBand = {} => agent.cmd # "running"
    BY <1>t DEF Commands
  <2> QED
    BY <1>1, <1>t, <2>1, ForgettingType DEF Prepare, Turn, Last, Row
<1>2. CASE SaveStep
  <2>1. CASE work.at = NoStep
    BY <1>2, <1>t, <2>1, ForgettingType DEF SaveStep, Turn
  <2>2. CASE work.at # NoStep
    <3>1. /\ node'.step = work.at /\ node'.index = work.at
          /\ node'.prov = "cleaning"
      BY <1>2, <1>t, <2>2 DEF SaveStep, Row
    <3>2. work'.stage = "execute" /\ work'.at = work.at
      BY <1>2, <2>2, TypeParts DEF SaveStep, WorkRecord, StepInv, TypeInv
    <3> QED
      BY <1>2, <1>t, <3>1, <3>2 DEF SaveStep
  <2> QED
    BY <2>1, <2>2
<1>3. CASE RunStep
  BY <1>3, <1>t DEF RunStep
<1>4. CASE SendStep
  <2>1. node'.prov = "cleanwait" /\ node'.step = work.at /\ node'.index = work.at
    BY <1>4, <1>t DEF SendStep, Row
  <2>2. work.at # 0 /\ casts' = 0
    BY <1>4, <1>t, StepFacts DEF SendStep, WorkersStep
  <2> QED
    BY <1>4, <2>1, <2>2 DEF SendStep, Turn
<1>5. CASE StepRaises
  BY <1>5, <1>t DEF StepRaises, Turn
<1>6. CASE TearDownCleaning
  <2>1. CASE /\ work'.stage = "idle"
             /\ node' = [node EXCEPT !.prov = IF node.manual THEN "manageable"
                                             ELSE "available",
                                   !.manual = FALSE]
    <3>1. node'.step = 0 /\ node'.prov \in {"manageable", "available"}
      BY <1>6, <1>t, <2>1 DEF TearDownCleaning, Row
    <3> QED
      BY <2>1, <3>1
  <2>2. CASE work'.stage = "fail"
    BY <2>2
  <2> QED
    BY <1>6, <2>1, <2>2 DEF TearDownCleaning, Turn
<1>7. CASE CleaningErrorHandler
  BY <1>7, <1>t, ForgettingType DEF CleaningErrorHandler, Turn, Last
<1>8. CASE DoNodeCleanAbort
  BY <1>8, <1>t, ForgettingType DEF DoNodeCleanAbort, Turn, Last, Row
<1> QED
  BY <1>1, <1>2, <1>3, <1>4, <1>5, <1>6, <1>7, <1>8 DEF Worker

LEMMA AgentStep ==
    ASSUME StepInv,
           Heartbeat \/ HeartbeatFails \/ CleanwaitTimeout \/ Boot \/ AgentEnds
    PROVE  WorkersRow' /\ IdleRow' /\ WaitingRow'
<1> USE DEF WorkersRow, IdleRow, WaitingRow, Idle
<1>t. /\ node \in Row /\ agent \in AgentRecord
      /\ WorkersRow /\ IdleRow /\ WaitingRow
  BY TypeParts DEF StepInv, TypeInv
<1>1. CASE Calls /\ FirstHeartbeat
  BY <1>1, <1>t, ForgettingType DEF FirstHeartbeat, Calls, Last
<1>2. CASE Calls /\ (AfterReboot \/ StepSucceeded)
  BY <1>2, <1>t DEF AfterReboot, StepSucceeded, Answered, Calls
<1>3. CASE Calls /\ StepSucceededReboot
  <2>1. /\ node'.prov = "cleanwait" /\ node'.step = node.step
        /\ node'.index = node.index /\ node.step # 0
    BY <1>3, <1>t, StepFacts DEF StepSucceededReboot, Calls, Row
  <2> QED
    BY <1>3, <1>t, <2>1 DEF StepSucceededReboot, Calls, Last
<1>4. CASE Calls /\ VersionMismatch
  BY <1>4, <1>t, ForgettingType DEF VersionMismatch, Calls, Last, Row
<1>5. CASE Calls /\ (StepFailed \/ HeartbeatRaises)
  BY <1>5, <1>t DEF StepFailed, HeartbeatRaises, Calls, Turn
<1>6. CASE CleanwaitTimeout
  BY <1>6, <1>t DEF CleanwaitTimeout, Turn
<1>7. CASE Boot
  BY <1>7, <1>t DEF Boot, Last
<1>8. CASE AgentEnds
  BY <1>8, <1>t DEF AgentEnds, Last, AgentRecord
<1> QED
  BY <1>1, <1>2, <1>3, <1>4, <1>5, <1>6, <1>7, <1>8
     DEF Heartbeat, HeartbeatFails, Progress

LEMMA StepInvInductive ==
    ASSUME MaxCasts = 1
    PROVE  StepInv /\ [Next]_vars => StepInv'
<1>1. StepInv /\ UNCHANGED vars => WorkersRow' /\ IdleRow' /\ WaitingRow'
  BY DEF vars, StepInv, WorkersRow, IdleRow, WaitingRow, Idle
<1> QED
  BY <1>1, TypeInvInductive, RequestStep, WorkerStep, AgentStep DEF Next, StepInv

LEMMA StepInvAlways == ASSUME MaxCasts = 1 PROVE Spec => []StepInv
<1>1. Init => StepInv
  BY InitInv DEF DoneInv
<1> QED
  BY <1>1, StepInvInductive, PTL DEF Spec

\* A step that may not be interrupted is never cut by an abort, if no second
\* message is on its way while the first is handled - whatever agents do,
\* restarts included.
THEOREM AbortBetweenStepsHolds ==
    ASSUME MaxCasts = 1
    PROVE  Spec => AbortBetweenSteps
<1> DEFINE P == work.stage # "abort" /\ work'.stage = "abort"
                   /\ agent.cmd = "running" => agent.at \in Abortable
<1>1. StepInv /\ [Next]_vars => [P]_vars
  <2> SUFFICES ASSUME StepInv, Next, work.stage # "abort", work'.stage = "abort",
                      agent.cmd = "running"
               PROVE  agent.at \in Abortable
    OBVIOUS
  <2>1. Abort \/ ContinueNodeClean
    <3>1. \A manual \in BOOLEAN : ~DoNodeClean(manual)
      BY DEF DoNodeClean, Turn
    <3>2. ~Manage /\ ~UpdateNode /\ ~LoseCast
      BY DEF Manage, UpdateNode, LoseCast
    <3>3. ~Prepare /\ ~RunStep /\ ~SendStep /\ ~StepRaises
      BY DEF Prepare, RunStep, SendStep, StepRaises, Turn
    <3>4. ~SaveStep
      BY TypeParts DEF SaveStep, Turn, WorkRecord, StepInv, TypeInv
    <3>5. ~TearDownCleaning /\ ~CleaningErrorHandler /\ ~DoNodeCleanAbort
      BY DEF TearDownCleaning, CleaningErrorHandler, DoNodeCleanAbort, Turn
    <3>6. ~Heartbeat
      BY DEF Heartbeat, Progress, FirstHeartbeat, AfterReboot, StepSucceeded,
             StepSucceededReboot, VersionMismatch, StepFailed, Turn
    <3>7. ~HeartbeatFails /\ ~CleanwaitTimeout /\ ~Boot /\ ~AgentEnds
      BY DEF HeartbeatFails, HeartbeatRaises, CleanwaitTimeout, Boot, AgentEnds, Turn
    <3> QED
      BY <3>1, <3>2, <3>3, <3>4, <3>5, <3>6, <3>7 DEF Next, Worker
  <2>2. Idle /\ node.prov = "cleanwait"
    BY <2>1 DEF Abort, ContinueNodeClean, Idle
  <2>3. node.step # 0 /\ agent.at = node.step /\ casts = 0
    BY <2>2 DEF StepInv, WaitingRow
  <2>4. Abort /\ ~(casts > 0)
    BY <2>1, <2>3 DEF ContinueNodeClean
  <2>5. node.step \in Step
    BY <2>3, StepFacts, TypeParts DEF StepInv, TypeInv, Row
  <2> QED
    BY <2>3, <2>4, <2>5 DEF Abort, Idle
<1> QED
  BY <1>1, StepInvAlways, PTL DEF Spec, AbortBetweenSteps

-----------------------------------------------------------------------------
(* What has been completed.                                                *)

\* Sets of the first steps.
LEMMA FirstSteps ==
    /\ 1 .. 0 = {} /\ 1 .. (NoStep - 1) = Step
    /\ \A k \in Step : /\ (k + 1) - 1 = k
                       /\ 1 .. (k - 1) \cup {k} = 1 .. k
  BY CleanAssumption DEF Step, NoStep

\* What continue_node_clean goes on with is the step after those completed.
LEMMA NextStepDone ==
    ASSUME DoneInv, Idle, node.prov = "cleanwait", casts > 0
    PROVE  done = 1 .. (NextStep - 1)
<1>t. /\ node \in Row /\ agent \in AgentRecord
      /\ IdleRow /\ WaitingRow /\ WaitingDone
  BY TypeParts DEF DoneInv, StepInv, TypeInv
<1>1. CASE node.step = 0
  BY <1>1, <1>t, FirstSteps DEF NextStep, WaitingDone
<1>2. CASE node.step # 0
  <2>1. node.step \in Step /\ node.index = node.step
    BY <1>2, <1>t, StepFacts DEF Row, IdleRow
  <2>2. NextStep = IF node.skip THEN node.step + 1 ELSE node.step
    BY <1>2, <2>1 DEF NextStep
  <2>3. agent.cmd \in {"booting", "none", "query", "succeeded"}
    BY <1>t DEF WaitingRow, AgentRecord, Command
  <2>4. CASE agent.cmd = "query"
    BY <1>2, <1>t, <2>2, <2>4 DEF WaitingDone
  <2>5. CASE agent.cmd # "query"
    <3>1. node.skip /\ done = 1 .. node.step
      BY <1>2, <1>t, <2>3, <2>5 DEF WaitingDone
    <3> QED
      BY <2>1, <2>2, <3>1, FirstSteps
  <2> QED
    BY <2>4, <2>5
<1> QED
  BY <1>1, <1>2

LEMMA RequestDone ==
    ASSUME DoneInv,
           \/ \E manual \in BOOLEAN : DoNodeClean(manual)
           \/ Manage \/ UpdateNode \/ Abort \/ ContinueNodeClean \/ LoseCast
    PROVE  WorkersDone' /\ WaitingDone' /\ NotEndedYet'
<1> USE DEF WorkersDone, WaitingDone, NotEndedYet, Idle, Cleaning
<1>t. node \in Row /\ WorkersDone /\ WaitingDone /\ NotEndedYet
  BY TypeParts DEF DoneInv, StepInv, TypeInv
<1>1. ASSUME NEW manual \in BOOLEAN, DoNodeClean(manual)
      PROVE  WorkersDone' /\ WaitingDone' /\ NotEndedYet'
  BY <1>1, <1>t DEF DoNodeClean, Turn
<1>2. CASE Manage
  BY <1>2, <1>t DEF Manage, Row
<1>3. CASE Abort
  <2>1. CASE node' = [node EXCEPT !.abort = TRUE] /\ UNCHANGED work
    <3>1. /\ node'.prov = node.prov /\ node'.step = node.step
          /\ node'.skip = node.skip
      BY <1>t, <2>1 DEF Row
    <3> QED
      BY <1>3, <1>t, <2>1, <3>1 DEF Abort
  <2>2. CASE node' = [node EXCEPT !.prov = "cleanfail"] /\ Turn("abort")
    BY <1>3, <1>t, <2>2 DEF Abort, Turn, Row
  <2> QED
    BY <1>3, <2>1, <2>2 DEF Abort
<1>4. CASE ContinueNodeClean
  <2>1. CASE node.prov # "cleanwait"
    BY <1>4, <1>t, <2>1 DEF ContinueNodeClean
  <2>2. CASE node.prov = "cleanwait" /\ node.abort /\ NextStep # NoStep
    <3>1. /\ node' = [node EXCEPT !.skip = TRUE, !.prov = "cleanfail"]
          /\ work' = [stage |-> "abort", at |-> 0]
      BY <1>4, <2>2, Zenon DEF ContinueNodeClean, Turn
    <3>2. node'.prov = "cleanfail"
      BY <1>t, <3>1 DEF Row
    <3> QED
      BY <3>1, <3>2
  <2>3. CASE node.prov = "cleanwait" /\ ~(node.abort /\ NextStep # NoStep)
    <3>1. /\ node' = [node EXCEPT !.skip = TRUE, !.prov = "cleaning"]
          /\ work' = [stage |-> "next", at |-> NextStep]
      BY <1>4, <2>3, Zenon DEF ContinueNodeClean
    <3>2. node'.prov = "cleaning" /\ node'.skip
      BY <1>t, <3>1 DEF Row
    <3>3. done = 1 .. (NextStep - 1)
      BY <1>4, <2>3, NextStepDone DEF ContinueNodeClean
    <3>4. UNCHANGED <<done, ended>> /\ ~ended
      BY <1>4, <1>t, <2>3 DEF ContinueNodeClean
    <3> QED
      BY <3>1, <3>2, <3>3, <3>4
  <2> QED
    BY <2>1, <2>2, <2>3
<1>5. CASE LoseCast
  BY <1>5, <1>t DEF LoseCast
<1>6. CASE UpdateNode
  BY <1>6, <1>t, UpdateKeeps DEF UpdateNode
<1> QED
  BY <1>1, <1>2, <1>3, <1>4, <1>5, <1>6

LEMMA WorkerDone ==
    ASSUME DoneInv, Worker
    PROVE  WorkersDone' /\ WaitingDone' /\ NotEndedYet'
<1> USE DEF WorkersDone, WaitingDone, NotEndedYet, Idle, Cleaning
<1>t. /\ node \in Row /\ work \in WorkRecord /\ WorkersStep /\ WorkersRow
      /\ WorkersDone /\ WaitingDone /\ NotEndedYet
  BY TypeParts DEF DoneInv, StepInv, TypeInv
<1>1. CASE Prepare
  <2>1. node.prov = "cleaning" /\ node.step = 0 /\ done = {} /\ ~ended
    BY <1>1, <1>t DEF Prepare, WorkersRow
  <2>2. UNCHANGED <<done, ended>>
    BY <1>1 DEF Prepare
  <2>3. CASE node' = [node EXCEPT !.prov = "cleanwait"] /\ Turn("idle")
    <3>1. node'.prov = "cleanwait" /\ node'.step = 0
      BY <1>t, <2>1, <2>3 DEF Row
    <3> QED
      BY <2>1, <2>2, <2>3, <3>1 DEF Turn
  <2>4. CASE /\ InBand = {} /\ node' = Forgetting(node)
             /\ work' = [stage |-> "next", at |-> 1]
    BY <1>t, <2>1, <2>2, <2>4, ForgettingType, FirstSteps
  <2>5. CASE (Turn("error") \/ Turn("idle")) /\ UNCHANGED <<node, agent>>
    BY <2>1, <2>2, <2>5, <1>1, <1>t DEF Turn, Prepare
  <2> QED
    BY <1>1, <2>3, <2>4, <2>5 DEF Prepare
<1>2. CASE SaveStep
  <2>1. /\ node.prov = "cleaning" /\ ~ended /\ done = 1 .. (work.at - 1)
        /\ node.skip \/ InBand = {}
    BY <1>2, <1>t DEF SaveStep, WorkersRow
  <2>2. UNCHANGED <<done, ended>>
    BY <1>2 DEF SaveStep
  <2>3. CASE work.at = NoStep
    BY <1>2, <1>t, <2>1, <2>2, <2>3, ForgettingType, FirstSteps
       DEF SaveStep, Turn
  <2>4. CASE work.at # NoStep
    <3>1. node'.prov = "cleaning" /\ node'.skip = node.skip
      BY <1>2, <1>t, <2>1, <2>4 DEF SaveStep, Row
    <3>2. work'.stage = "execute" /\ work'.at = work.at
      BY <1>2, <1>t, <2>4 DEF SaveStep, WorkRecord
    <3> QED
      BY <2>1, <2>2, <3>1, <3>2
  <2> QED
    BY <2>3, <2>4
<1>3. CASE RunStep
  <2>1. work.at \in Step
    BY <1>3, <1>t DEF RunStep, WorkersStep
  <2>2. done' = 1 .. work.at
    BY <1>3, <1>t, <2>1, FirstSteps DEF RunStep
  <2>3. work'.stage = "next" /\ work'.at - 1 = work.at
    BY <1>3, <2>1, FirstSteps DEF RunStep
  <2> QED
    BY <1>3, <1>t, <2>2, <2>3 DEF RunStep
<1>4. CASE SendStep
  <2>1. /\ node'.prov = "cleanwait" /\ node'.step = work.at
        /\ node'.skip = node.skip
    BY <1>4, <1>t DEF SendStep, Row, WorkersRow
  <2>2. /\ node.skip /\ done = 1 .. (work.at - 1) /\ ~ended
        /\ work.at # 0
    BY <1>4, <1>t, StepFacts DEF SendStep, WorkersRow, WorkersStep
  <2> QED
    BY <1>4, <2>1, <2>2 DEF SendStep, Turn
<1>5. CASE StepRaises
  BY <1>5, <1>t DEF StepRaises, Turn
<1>6. CASE TearDownCleaning
  <2>1. CASE /\ work'.stage = "idle"
             /\ node' = [node EXCEPT !.prov = IF node.manual THEN "manageable"
                                             ELSE "available",
                                   !.manual = FALSE]
    <3>1. node'.prov \in {"manageable", "available"}
      BY <1>t, <2>1 DEF Row
    <3> QED
      BY <2>1, <3>1
  <2>2. CASE work'.stage = "fail" /\ UNCHANGED <<node, ended>>
    BY <1>t, <2>2
  <2> QED
    BY <1>6, <2>1, <2>2 DEF TearDownCleaning, Turn
<1>7. CASE CleaningErrorHandler
  BY <1>7, <1>t, ForgettingType DEF CleaningErrorHandler, Turn
<1>8. CASE DoNodeCleanAbort
  <2>1. node'.prov = "cleanfail"
    BY <1>8, <1>t, ForgettingType DEF DoNodeCleanAbort, Row, WorkersRow
  <2> QED
    BY <1>8, <2>1 DEF DoNodeCleanAbort, Turn
<1> QED
  BY <1>1, <1>2, <1>3, <1>4, <1>5, <1>6, <1>7, <1>8 DEF Worker

LEMMA AgentDone ==
    ASSUME DoneInv, "restart" \notin Faults,
           Heartbeat \/ HeartbeatFails \/ CleanwaitTimeout \/ Boot \/ AgentEnds
    PROVE  WorkersDone' /\ WaitingDone' /\ NotEndedYet'
<1> USE DEF WorkersDone, WaitingDone, NotEndedYet, Idle, Cleaning
<1>t. /\ node \in Row /\ agent \in AgentRecord
      /\ WorkersRow /\ WaitingRow /\ WorkersDone /\ WaitingDone /\ NotEndedYet
  BY TypeParts DEF DoneInv, StepInv, TypeInv
<1>1. CASE Calls /\ FirstHeartbeat
  BY <1>1, <1>t, ForgettingType DEF FirstHeartbeat, Calls
<1>2. CASE Calls /\ (AfterReboot \/ StepSucceeded)
  BY <1>2, <1>t DEF AfterReboot, StepSucceeded, Calls
<1>3. CASE Calls /\ StepSucceededReboot
  <2>1. /\ node'.prov = "cleanwait" /\ node'.step = node.step
        /\ node'.skip = node.skip /\ node.step # 0
    BY <1>3, <1>t, StepFacts DEF StepSucceededReboot, Calls, Row
  <2> QED
    BY <1>3, <1>t, <2>1 DEF StepSucceededReboot, Answered, Calls, Last
<1>4. CASE Calls /\ VersionMismatch
  <2>1. node.prov = "cleanwait" /\ node.step # 0 /\ Idle /\ ~ended
    BY <1>4, <1>t DEF Calls, VersionMismatch
  <2>2. agent'.cmd = "query" /\ UNCHANGED <<work, ended>>
    BY <1>4 DEF VersionMismatch, Last
  <2>3. CASE node' = [node EXCEPT !.skip = FALSE] /\ UNCHANGED done
    <3>1. ~node'.skip /\ node'.step = node.step /\ node'.prov = "cleanwait"
      BY <1>t, <2>1, <2>3 DEF Row
    <3>2. done = 1 .. (node.step - 1)
      BY <1>4, <1>t, <2>1 DEF VersionMismatch
    <3> QED
      BY <2>1, <2>2, <2>3, <3>1, <3>2
  <2>4. CASE node' = Forgetting(node) /\ done' = {}
    BY <1>t, <2>1, <2>2, <2>4, ForgettingType
  <2> QED
    BY <1>4, <2>3, <2>4 DEF VersionMismatch
<1>5. CASE Calls /\ (StepFailed \/ HeartbeatRaises)
  BY <1>5, <1>t DEF StepFailed, HeartbeatRaises, Turn
<1>6. CASE CleanwaitTimeout
  BY <1>6, <1>t DEF CleanwaitTimeout, Turn, Row
<1>7. CASE Boot
  BY <1>7, <1>t DEF Boot, Last
<1>8. CASE AgentEnds
  <2>1. UNCHANGED <<node, work, ended>> /\ agent.cmd = "running"
    BY <1>8 DEF AgentEnds
  <2>2. agent'.cmd \in {"succeeded", "failed", "mismatch"}
    BY <1>8, <1>t DEF AgentEnds, AgentRecord
  <2>3. CASE done' = done /\ agent'.cmd \in {"failed", "mismatch"}
    BY <1>t, <2>1, <2>3
  <2>4. CASE /\ agent'.cmd = "succeeded"
             /\ done' = IF Counting THEN done \cup {agent.at} ELSE done
    <3>1. CASE Counting
      <4>1. node.step # 0 /\ work.stage \notin {"prepare", "next", "execute", "teardown"}
        BY <1>t, <2>1, <3>1 DEF Counting, WorkersRow
      <4>2. CASE Idle /\ node.prov = "cleanwait"
        <5>1. agent.at = node.step /\ done = 1 .. (node.step - 1) /\ node.skip
          BY <1>t, <2>1, <4>1, <4>2 DEF WaitingRow
        <5>2. node.step \in Step
          BY <1>t, <4>1, StepFacts DEF Row
        <5>3. done' = 1 .. node.step
          BY <2>4, <3>1, <5>1, <5>2, FirstSteps
        <5> QED
          BY <1>t, <2>1, <2>4, <4>1, <5>1, <5>3
      <4>3. CASE ~(Idle /\ node.prov = "cleanwait")
        BY <1>t, <2>1, <4>1, <4>3
      <4> QED
        BY <4>2, <4>3
    <3>2. CASE ~Counting
      BY <1>t, <2>1, <2>4, <3>2 DEF Counting
    <3> QED
      BY <3>1, <3>2
  <2> QED
    BY <1>8, <1>t, <2>3, <2>4 DEF AgentEnds, AgentRecord
<1> QED
  BY <1>1, <1>2, <1>3, <1>4, <1>5, <1>6, <1>7, <1>8
     DEF Heartbeat, HeartbeatFails, Progress

LEMMA DoneInvInductive ==
    ASSUME MaxCasts = 1, "restart" \notin Faults
    PROVE  DoneInv /\ [Next]_vars => DoneInv'
<1>1. DoneInv /\ UNCHANGED vars => WorkersDone' /\ WaitingDone' /\ NotEndedYet'
  BY DEF vars, DoneInv, WorkersDone, WaitingDone, NotEndedYet, Idle, Cleaning
<1> QED
  BY <1>1, StepInvInductive, RequestDone, WorkerDone, AgentDone DEF Next, DoneInv

LEMMA DoneInvAlways ==
    ASSUME MaxCasts = 1, "restart" \notin Faults
    PROVE  Spec => []DoneInv
  BY InitInv, DoneInvInductive, PTL DEF Spec

-----------------------------------------------------------------------------
(* The order that CleanOrder promises.                                     *)

\* What Order maps phase and running to.
Phase == IF Cleaning THEN "cleaning" ELSE IF ended THEN "cleaned" ELSE "rest"

Running == IF Counting /\ agent.cmd = "running" THEN agent.at
           ELSE IF work.stage = "execute" /\ work.at \notin InBand
           THEN work.at ELSE 0

OrderStep == Order!Next \/ UNCHANGED Order!vars

\* When a step of CleanOrder is taken.
LEMMA OrderSteps ==
    /\ UNCHANGED <<Phase, Running, done>> => OrderStep
    /\ Phase' = "cleaning" /\ Running' = 0 /\ done' = {} => OrderStep
    /\ \A k \in Step :
          /\ Phase = "cleaning" /\ Running = 0 /\ done = 1 .. (k - 1)
          /\ Running' = k /\ UNCHANGED <<Phase, done>>
          => OrderStep
    /\ Running # 0 /\ Running' = 0 /\ done' = done \cup {Running} /\ Phase' = Phase
          => OrderStep
    /\ Running' = 0 /\ UNCHANGED <<Phase, done>> => OrderStep
    /\ Phase' = "rest" /\ Running' = 0 /\ done' = done => OrderStep
    /\ /\ Phase = "cleaning" /\ Running = 0 /\ done = Step
       /\ Phase' = "cleaned" /\ UNCHANGED <<Running, done>>
       => OrderStep
<1> USE DEF OrderStep, Order!Next, Phase, Running
<1>1. UNCHANGED <<Phase, Running, done>> => OrderStep
  BY DEF Order!vars
<1>2. Phase' = "cleaning" /\ Running' = 0 /\ done' = {} => OrderStep
  BY DEF Order!Start
<1>3. ASSUME NEW k \in Step,
             Phase = "cleaning", Running = 0, done = 1 .. (k - 1),
             Running' = k, UNCHANGED <<Phase, done>>
      PROVE  OrderStep
  <2>1. k \notin done /\ k \in Order!Step
    BY <1>3, CleanAssumption DEF Step, Order!Step
  <2> QED
    BY <1>3, <2>1 DEF Order!Begin
<1>4. Running # 0 /\ Running' = 0 /\ done' = done \cup {Running} /\ Phase' = Phase
         => OrderStep
  BY DEF Order!Complete
<1>5. Running' = 0 /\ UNCHANGED <<Phase, done>> => OrderStep
  BY DEF Order!Interrupt
<1>6. Phase' = "rest" /\ Running' = 0 /\ done' = done => OrderStep
  BY DEF Order!GiveUp
<1>7. ASSUME Phase = "cleaning", Running = 0, done = Step,
             Phase' = "cleaned", UNCHANGED <<Running, done>>
      PROVE  OrderStep
  <2>1. Order!Step = Step
    BY DEF Step, Order!Step
  <2> QED
    BY <1>7, <2>1 DEF Order!Finish
<1> HIDE DEF OrderStep, Phase, Running
<1> QED
  BY <1>1, <1>2, <1>3, <1>4, <1>5, <1>6, <1>7

LEMMA RequestOrder ==
    ASSUME DoneInv,
           \/ \E manual \in BOOLEAN : DoNodeClean(manual)
           \/ Manage \/ UpdateNode \/ Abort \/ ContinueNodeClean \/ LoseCast
    PROVE  OrderStep
<1> USE DEF Phase, Running, Counting, Cleaning, Idle
<1>t. /\ node \in Row /\ IdleRow /\ WaitingRow /\ NotEndedYet
  BY TypeParts DEF DoneInv, StepInv, TypeInv
<1>1. ASSUME NEW manual \in BOOLEAN, DoNodeClean(manual) PROVE OrderStep
  <2>1. node'.prov = "cleaning" /\ node'.step = 0
    BY <1>1, <1>t DEF DoNodeClean, Row, IdleRow
  <2>2. Phase' = "cleaning" /\ Running' = 0 /\ done' = {}
    BY <1>1, <2>1 DEF DoNodeClean, Turn
  <2> QED
    BY <2>2, OrderSteps
<1>2. CASE Manage
  <2>1. node'.prov = "manageable"
    BY <1>2, <1>t DEF Manage, Row
  <2>2. Phase' = "rest" /\ Running' = 0 /\ done' = done
    BY <1>2, <2>1 DEF Manage
  <2> QED
    BY <2>2, OrderSteps
<1>3. CASE Abort
  <2>1. CASE node' = [node EXCEPT !.abort = TRUE] /\ UNCHANGED work
    <3>1. node'.prov = node.prov /\ node'.step = node.step
      BY <1>t, <2>1 DEF Row
    <3>2. UNCHANGED <<Phase, Running, done>>
      BY <1>3, <2>1, <3>1 DEF Abort
    <3> QED
      BY <3>2, OrderSteps
  <2>2. CASE node' = [node EXCEPT !.prov = "cleanfail"] /\ Turn("abort")
    <3>1. node'.prov = "cleanfail" /\ ~ended
      BY <1>3, <1>t, <2>2 DEF Row, Abort, NotEndedYet
    <3>2. Phase' = "rest" /\ Running' = 0 /\ done' = done
      BY <1>3, <2>2, <3>1 DEF Abort, Turn
    <3> QED
      BY <3>2, OrderSteps
  <2> QED
    BY <1>3, <2>1, <2>2 DEF Abort
<1>4. CASE ContinueNodeClean
  <2>0. UNCHANGED <<agent, done, ended>> /\ Idle
    BY <1>4 DEF ContinueNodeClean
  <2>1. CASE node.prov # "cleanwait"
    <3>1. UNCHANGED <<Phase, Running, done>>
      BY <1>4, <2>0, <2>1 DEF ContinueNodeClean
    <3> QED
      BY <3>1, OrderSteps
  <2>2. CASE node.prov = "cleanwait" /\ node.abort /\ NextStep # NoStep
    <3>1. /\ node' = [node EXCEPT !.skip = TRUE, !.prov = "cleanfail"]
          /\ work' = [stage |-> "abort", at |-> 0]
      BY <1>4, <2>2, Zenon DEF ContinueNodeClean, Turn
    <3>2. node'.prov = "cleanfail" /\ ~ended
      BY <1>t, <2>2, <3>1 DEF Row, NotEndedYet
    <3>3. Phase' = "rest" /\ Running' = 0 /\ done' = done
      BY <2>0, <3>1, <3>2
    <3> QED
      BY <3>3, OrderSteps
  <2>3. CASE node.prov = "cleanwait" /\ ~(node.abort /\ NextStep # NoStep)
    <3>1. /\ node' = [node EXCEPT !.skip = TRUE, !.prov = "cleaning"]
          /\ work' = [stage |-> "next", at |-> NextStep]
      BY <1>4, <2>3, Zenon DEF ContinueNodeClean
    <3>2. node'.prov = "cleaning" /\ node'.step = node.step
      BY <1>t, <3>1 DEF Row
    <3>3. agent.cmd # "running"
      BY <1>4, <1>t, <2>3 DEF ContinueNodeClean, WaitingRow
    <3>4. UNCHANGED <<Phase, Running, done>>
      BY <2>0, <2>3, <3>1, <3>2, <3>3
    <3> QED
      BY <3>4, OrderSteps
  <2> QED
    BY <2>1, <2>2, <2>3
<1>5. CASE LoseCast
  <2>1. UNCHANGED <<Phase, Running, done>>
    BY <1>5 DEF LoseCast
  <2> QED
    BY <2>1, OrderSteps
<1>6. CASE UpdateNode
  <2>1. UNCHANGED <<Phase, Running, done>>
    BY <1>6, <1>t, UpdateKeeps DEF UpdateNode
  <2> QED
    BY <2>1, OrderSteps
<1> QED
  BY <1>1, <1>2, <1>3, <1>4, <1>5, <1>6

LEMMA WorkerOrder == ASSUME DoneInv, Worker PROVE OrderStep
<1> USE DEF Phase, Running, Counting, Cleaning
<1>t. /\ node \in Row /\ work \in WorkRecord /\ WorkersStep /\ WorkersRow
      /\ WorkersDone /\ NotEndedYet
  BY TypeParts DEF DoneInv, StepInv, TypeInv
<1>1. CASE Prepare
  <2>1. node.prov = "cleaning" /\ node.step = 0
    BY <1>1, <1>t DEF Prepare, WorkersRow
  <2>2. /\ node'.prov \in {"cleaning", "cleanwait"} /\ node'.step = 0
        /\ work'.stage \in {"idle", "next", "error"}
    BY <1>1, <1>t, <2>1, ForgettingType DEF Prepare, Turn, Row
  <2>3. UNCHANGED <<Phase, Running, done>>
    BY <1>1, <2>1, <2>2 DEF Prepare
  <2> QED
    BY <2>3, OrderSteps
<1>2. CASE SaveStep
  <2>1. /\ node.prov = "cleaning" /\ agent.cmd # "running"
        /\ done = 1 .. (work.at - 1) /\ work.stage = "next"
    BY <1>2, <1>t DEF SaveStep, WorkersRow, WorkersDone
  <2>2. Running = 0 /\ UNCHANGED <<agent, done, ended>>
    BY <1>2, <2>1 DEF SaveStep
  <2>3. CASE work.at = NoStep
    <3>1. node'.prov = "cleaning" /\ work'.stage = "teardown"
      BY <1>2, <1>t, <2>1, <2>3, ForgettingType DEF SaveStep, Turn
    <3>2. UNCHANGED <<Phase, Running, done>>
      BY <2>1, <2>2, <3>1
    <3> QED
      BY <3>2, OrderSteps
  <2>4. CASE work.at # NoStep
    <3>1. node'.prov = "cleaning"
      BY <1>2, <1>t, <2>1, <2>4 DEF SaveStep, Row
    <3>2. work'.stage = "execute" /\ work'.at = work.at
      BY <1>2, <1>t, <2>4 DEF SaveStep, WorkRecord
    <3>3. work.at \in Step
      BY <1>t, <2>1, <2>4, StepFacts DEF WorkersStep, WorkRecord
    <3>4. Phase = "cleaning" /\ UNCHANGED <<Phase, done>>
      BY <2>1, <2>2, <3>1
    <3>5. CASE work.at \in InBand
      <4>1. Running' = Running
        BY <2>1, <2>2, <3>2, <3>5
      <4> QED
        BY <3>4, <4>1, OrderSteps
    <3>6. CASE work.at \notin InBand
      <4>1. Running' = work.at
        BY <2>1, <2>2, <3>2, <3>6
      <4> QED
        BY <2>1, <2>2, <3>3, <3>4, <4>1, OrderSteps
    <3> QED
      BY <3>5, <3>6
  <2> QED
    BY <2>3, <2>4
<1>3. CASE RunStep
  <2>1. agent.cmd # "running" /\ work.at \in Step
    BY <1>3, <1>t DEF RunStep, WorkersRow, WorkersStep
  <2>2. Running = work.at /\ Running' = 0 /\ work.at # 0
    BY <1>3, <2>1, StepFacts DEF RunStep
  <2>3. done' = done \cup {Running} /\ Phase' = Phase
    BY <1>3, <2>2 DEF RunStep
  <2> QED
    BY <2>2, <2>3, OrderSteps
<1>4. CASE SendStep
  <2>1. /\ node.prov = "cleaning" /\ agent.cmd # "running"
        /\ done = 1 .. (work.at - 1) /\ work.at \in Step
    BY <1>4, <1>t DEF SendStep, WorkersRow, WorkersDone, WorkersStep
  <2>2. node'.prov = "cleanwait" /\ node'.step = work.at /\ work.at # 0
    BY <1>4, <1>t, <2>1, StepFacts DEF SendStep, Row, WorkersRow
  <2>3. Phase = "cleaning" /\ Running = 0
    BY <1>4, <2>1 DEF SendStep
  <2>4. Running' = work.at /\ UNCHANGED <<Phase, done>>
    BY <1>4, <2>1, <2>2 DEF SendStep, Turn
  <2> QED
    BY <2>1, <2>3, <2>4, OrderSteps
<1>5. CASE StepRaises
  <2>1. agent.cmd # "running"
    BY <1>5, <1>t DEF StepRaises, WorkersRow
  <2>2. Running' = 0 /\ UNCHANGED <<Phase, done>>
    BY <1>5, <2>1 DEF StepRaises, Turn
  <2> QED
    BY <2>2, OrderSteps
<1>6. CASE TearDownCleaning
  <2>1. /\ node.prov = "cleaning" /\ node.step = 0 /\ done = Step
        /\ Phase = "cleaning" /\ Running = 0
    BY <1>6, <1>t DEF TearDownCleaning, WorkersRow, WorkersDone
  <2>2. CASE /\ node' = [node EXCEPT !.prov = IF node.manual THEN "manageable"
                                             ELSE "available",
                                   !.manual = FALSE]
             /\ ended' = TRUE /\ Turn("idle")
    <3>1. node'.prov \in {"manageable", "available"}
      BY <1>t, <2>2 DEF Row
    <3>2. Phase' = "cleaned" /\ Running' = 0
      BY <2>2, <3>1 DEF Turn
    <3>3. done' = done
      BY <1>6 DEF TearDownCleaning
    <3> QED
      BY <2>1, <3>2, <3>3, OrderSteps
  <2>3. CASE Turn("fail") /\ UNCHANGED <<node, agent, ended>>
    <3>1. UNCHANGED <<Phase, Running, done>>
      BY <1>6, <2>1, <2>3 DEF Turn, TearDownCleaning
    <3> QED
      BY <3>1, OrderSteps
  <2> QED
    BY <1>6, <2>2, <2>3 DEF TearDownCleaning
<1>7. CASE CleaningErrorHandler
  <2>1. node'.prov = "cleanfail" /\ UNCHANGED <<done, ended>>
    BY <1>7, <1>t, ForgettingType DEF CleaningErrorHandler
  <2>2. Running' = 0
    BY <1>7, <2>1 DEF CleaningErrorHandler, Turn
  <2>3. CASE Cleaning
    <3>1. Phase' = "rest"
      BY <1>t, <2>1, <2>3 DEF NotEndedYet
    <3> QED
      BY <2>1, <2>2, <3>1, OrderSteps
  <2>4. CASE ~Cleaning
    <3>1. Phase' = Phase
      BY <2>1, <2>4
    <3> QED
      BY <2>1, <2>2, <3>1, OrderSteps
  <2> QED
    BY <2>3, <2>4
<1>8. CASE DoNodeCleanAbort
  <2>1. node.prov = "cleanfail"
    BY <1>8, <1>t DEF DoNodeCleanAbort, WorkersRow
  <2>2. node'.prov = "cleanfail"
    BY <1>8, <1>t, <2>1, ForgettingType DEF DoNodeCleanAbort, Row
  <2>3. UNCHANGED <<Phase, Running, done>>
    BY <1>8, <2>1, <2>2 DEF DoNodeCleanAbort, Turn
  <2> QED
    BY <2>3, OrderSteps
<1> QED
  BY <1>1, <1>2, <1>3, <1>4, <1>5, <1>6, <1>7, <1>8 DEF Worker

LEMMA AgentOrder ==
    ASSUME DoneInv,
           Heartbeat \/ HeartbeatFails \/ CleanwaitTimeout \/ Boot \/ AgentEnds
    PROVE  OrderStep
<1> USE DEF Phase, Running, Counting, Cleaning
<1>t. /\ node \in Row /\ agent \in AgentRecord /\ Commands
      /\ WorkersRow /\ NotEndedYet
  BY TypeParts DEF DoneInv, StepInv, TypeInv
<1>1. CASE Calls /\ FirstHeartbeat
  <2>1. node'.prov = node.prov /\ node.step = 0 /\ node'.step = 0
    BY <1>1, <1>t, ForgettingType DEF FirstHeartbeat
  <2>2. UNCHANGED <<Phase, Running, done>>
    BY <1>1, <2>1 DEF FirstHeartbeat
  <2> QED
    BY <2>2, OrderSteps
<1>2. CASE Calls /\ (AfterReboot \/ StepSucceeded)
  <2>1. UNCHANGED <<Phase, Running, done>>
    BY <1>2 DEF AfterReboot, StepSucceeded
  <2> QED
    BY <2>1, OrderSteps
<1>3. CASE Calls /\ StepSucceededReboot
  <2>1. node'.prov = node.prov /\ node'.step = node.step
    BY <1>3, <1>t DEF StepSucceededReboot, Row
  <2>2. UNCHANGED <<Phase, Running, done>>
    BY <1>3, <2>1 DEF StepSucceededReboot, Answered, Last
  <2> QED
    BY <2>2, OrderSteps
<1>4. CASE Calls /\ VersionMismatch
  <2>1. /\ node.prov = "cleanwait" /\ work.stage = "idle"
        /\ agent.cmd = "mismatch" /\ agent'.cmd = "query"
        /\ UNCHANGED <<work, ended>>
    BY <1>4 DEF Calls, VersionMismatch, Last, Idle
  <2>2. CASE node' = [node EXCEPT !.skip = FALSE] /\ UNCHANGED done
    <3>1. node'.prov = node.prov
      BY <1>t, <2>2 DEF Row
    <3>2. UNCHANGED <<Phase, Running, done>>
      BY <2>1, <2>2, <3>1
    <3> QED
      BY <3>2, OrderSteps
  <2>3. CASE node' = Forgetting(node) /\ done' = {}
    <3>1. Phase' = "cleaning" /\ Running' = 0
      BY <1>t, <2>1, <2>3, ForgettingType
    <3> QED
      BY <2>3, <3>1, OrderSteps
  <2> QED
    BY <1>4, <2>2, <2>3 DEF VersionMismatch
<1>5. CASE Calls /\ (StepFailed \/ HeartbeatRaises)
  <2>1. UNCHANGED <<Phase, Running, done>>
    BY <1>5 DEF StepFailed, HeartbeatRaises, Calls, Idle, Turn
  <2> QED
    BY <2>1, OrderSteps
<1>6. CASE CleanwaitTimeout
  <2>1. node'.prov = "cleanfail" /\ ~ended
    BY <1>6, <1>t DEF CleanwaitTimeout, Row, NotEndedYet
  <2>2. Phase' = "rest" /\ Running' = 0 /\ done' = done
    BY <1>6, <2>1 DEF CleanwaitTimeout, Turn
  <2> QED
    BY <2>2, OrderSteps
<1>7. CASE Boot
  <2>1. UNCHANGED <<Phase, Running, done>>
    BY <1>7 DEF Boot, Last
  <2> QED
    BY <2>1, OrderSteps
<1>8. CASE AgentEnds
  <2>1. UNCHANGED <<node, work, ended>> /\ agent.cmd = "running"
    BY <1>8 DEF AgentEnds
  <2>2. work.stage # "execute" /\ agent.at # 0
    BY <1>t, <2>1, StepFacts DEF WorkersRow, Commands
  <2>3. agent'.cmd # "running"
    BY <1>8, <1>t DEF AgentEnds, AgentRecord, Last
  <2>4. Running' = 0 /\ Phase' = Phase
    BY <2>1, <2>2, <2>3
  <2>5. CASE done' = done
    BY <2>4, <2>5, OrderSteps
  <2>6. CASE Counting /\ done' = done \cup {agent.at}
    <3>1. Running = agent.at
      BY <2>1, <2>6
    <3> QED
      BY <2>2, <2>4, <2>6, <3>1, OrderSteps
  <2> QED
    BY <1>8, <2>5, <2>6 DEF AgentEnds
<1> QED
  BY <1>1, <1>2, <1>3, <1>4, <1>5, <1>6, <1>7, <1>8
     DEF Heartbeat, HeartbeatFails, Progress

\* Whatever the steps are, and however requests, heartbeats, timeouts, failures
\* and lost messages fall between them: the steps of a cleaning are run one at
\* a time and in their order, none twice, and it ends well only when all are
\* complete.  Two messages on their way at once, or an agent that restarts by
\* itself, break this in the code.
THEOREM ImplementsCleanOrderHolds ==
    ASSUME MaxCasts = 1, "restart" \notin Faults
    PROVE  Spec => ImplementsCleanOrder
<1>1. Init => Order!Init
  BY DEF Init, Order!Init, Counting, Cleaning
<1>2. DoneInv /\ [Next]_vars => [Order!Next]_(Order!vars)
  <2>1. DoneInv /\ UNCHANGED vars => UNCHANGED Order!vars
    BY DEF vars, Order!vars, Counting, Cleaning
  <2> QED
    BY <2>1, RequestOrder, WorkerOrder, AgentOrder DEF Next, OrderStep
<1> QED
  BY <1>1, <1>2, DoneInvAlways, PTL DEF Spec, ImplementsCleanOrder, Order!Spec

\* The first heartbeat without commands after a step that asked for a reboot
\* resumes the cleaning only when that step is complete, provided that agents
\* restart by nothing but these reboots.
THEOREM RebootFollowsStepWithoutRestarts ==
    ASSUME MaxCasts = 1, "restart" \notin Faults
    PROVE  Spec => RebootFollowsStep
<1>1. DoneInv /\ [Next]_vars => [AfterReboot => node.step \in done]_vars
  <2> SUFFICES ASSUME DoneInv, Next, AfterReboot
               PROVE  node.step \in done
    OBVIOUS
  <2>1. casts \in Nat /\ casts' = casts + 1
    BY TypeParts, CleanAssumption DEF DoneInv, StepInv, TypeInv, AfterReboot, Cast
  <2>2. casts' # casts /\ casts' # casts - 1
    BY <2>1
  <2>3. Heartbeat
    <3>1. \A manual \in BOOLEAN : ~DoNodeClean(manual)
      BY <2>2 DEF DoNodeClean
    <3>2. ~Manage /\ ~UpdateNode /\ ~Abort /\ ~ContinueNodeClean /\ ~LoseCast
      BY <2>2 DEF Manage, UpdateNode, Abort, ContinueNodeClean, LoseCast
    <3>3. ~Worker
      BY <2>2 DEF Worker, Prepare, SaveStep, RunStep, SendStep, StepRaises,
                  TearDownCleaning, CleaningErrorHandler, DoNodeCleanAbort
    <3>4. ~HeartbeatFails /\ ~CleanwaitTimeout /\ ~Boot /\ ~AgentEnds
      BY <2>2 DEF HeartbeatFails, HeartbeatRaises, CleanwaitTimeout, Boot, AgentEnds
    <3> QED
      BY <3>1, <3>2, <3>3, <3>4 DEF Next
  <2>4. Idle /\ node.prov = "cleanwait"
    BY <2>3 DEF Heartbeat, Calls
  <2>5. agent.cmd = "none" /\ node.step # 0
    BY DEF AfterReboot
  <2>6. done = 1 .. node.step
    BY <2>4, <2>5 DEF DoneInv, WaitingDone
  <2>7. node.step \in Step
    BY <2>5, StepFacts, TypeParts DEF DoneInv, StepInv, TypeInv, Row
  <2> QED
    BY <2>6, <2>7, CleanAssumption DEF Step
<1> QED
  BY <1>1, DoneInvAlways, PTL DEF Spec, RebootFollowsStep

=============================================================================
