----------------------------- MODULE CleanSteps -----------------------------
(* The clean steps of one node: what the conductor keeps of them in the    *)
(* node's row (clean_step, driver_internal_info), the worker that runs     *)
(* them, the agent in the ramdisk that runs some of them by itself, and    *)
(* the heartbeats and continue_node_clean messages that tie the three      *)
(* together.  How requests, locks and full pools interleave is the subject *)
(* of Provisioning: here every handler is one step, taken while no worker  *)
(* has the node's lock.  Indexes count from 1, and 0 stands for None.      *)
EXTENDS Naturals, FiniteSets

CONSTANTS StepCount,      \* the length of driver_internal_info['clean_steps']
          InBand,         \* the steps that the agent runs
          Abortable,      \* the steps with 'abortable'
          Reboots,        \* the steps with 'reboot_requested'
          MaxCasts,       \* bound: continue_node_clean messages on their way
          MaxMismatches,  \* bound: version mismatches in one cleaning
          Faults          \* "lost" messages, "restart" of the agent,
                          \* "uncaught" exceptions of what a cleaning begins by

ASSUME CleanAssumption ==
    /\ StepCount \in Nat \ {0}
    /\ InBand \subseteq 1 .. StepCount
    /\ Abortable \subseteq 1 .. StepCount
    /\ Reboots \subseteq InBand
    /\ MaxCasts \in Nat \ {0} /\ MaxMismatches \in Nat
    /\ Faults \subseteq {"lost", "restart", "uncaught"}

VARIABLES node,           \* the node's row
          work,           \* the worker that has the node's lock, if any
          agent,          \* the machine: its agent's last command
          casts,          \* how many continue_node_clean are on their way
          mismatches,     \* version mismatches since the cleaning began
          done,           \* history: the steps completed since it began
          ended           \* history: it has ended, and well

vars == <<node, work, agent, casts, mismatches, done, ended>>

Step   == 1 .. StepCount
NoStep == StepCount + 1                 \* no step is left to do

Row == [prov     : {"manageable", "available", "cleaning", "cleanwait",
                    "cleanfail"},
        manual   : BOOLEAN,             \* the target is MANAGEABLE
        step     : 0 .. StepCount,      \* clean_step
        abort    : BOOLEAN,             \* clean_step['abort_after']
        index    : 0 .. StepCount,      \* clean_step_index
        skip     : BOOLEAN,             \* skip_current_clean_step
        rebooted : BOOLEAN,             \* cleaning_reboot
        maint    : BOOLEAN]

Stage == {"idle", "prepare", "next", "execute", "teardown", "abort",
          "error", "fail"}

Command == {"off", "booting", "none", "query",
            "running", "succeeded", "failed", "mismatch"}

TypeOK ==
    /\ node \in Row
    /\ work \in [stage : Stage, at : 0 .. NoStep]
    /\ agent \in [cmd : Command, at : 0 .. StepCount]
    /\ casts \in 0 .. MaxCasts
    /\ mismatches \in 0 .. MaxMismatches
    /\ done \subseteq Step /\ ended \in BOOLEAN

Init ==
    /\ node = [prov |-> "manageable", manual |-> FALSE, step |-> 0,
               abort |-> FALSE, index |-> 0, skip |-> TRUE,
               rebooted |-> FALSE, maint |-> FALSE]
    /\ work = [stage |-> "idle", at |-> 0]
    /\ agent = [cmd |-> "off", at |-> 0]
    /\ casts = 0 /\ mismatches = 0 /\ done = {} /\ ended = FALSE

Idle == work.stage = "idle"
Turn(stage) == work' = [stage |-> stage, at |-> 0]
Last(cmd) == agent' = [cmd |-> cmd, at |-> 0]
Alive == agent.cmd \notin {"off", "booting"}

Cleaning == node.prov \in {"cleaning", "cleanwait"}

\* What the machine completes counts for a cleaning that has begun its steps:
\* a command left over from an earlier one does not.
Counting == Cleaning /\ node.step # 0

\* The row when all that is known of the steps is forgotten.
Forgetting(n) ==
    [n EXCEPT !.step = 0, !.abort = FALSE, !.index = 0]

-----------------------------------------------------------------------------
(* The requests of users.                                                  *)

\* do_node_clean, and the 'provide' of do_provisioning_action, which does not
\* ask whether the node is in maintenance.
DoNodeClean(manual) ==
    /\ Idle
    /\ node.prov = "manageable"
    /\ manual => ~node.maint
    /\ node' = [node EXCEPT !.prov = "cleaning", !.manual = manual]
    /\ Turn("prepare")
    /\ mismatches' = 0 /\ done' = {} /\ ended' = FALSE
    /\ UNCHANGED <<agent, casts>>

\* A user takes the node back, also from a cleaning that nobody works on any
\* more: the machine has that edge for the end of a manual cleaning.  The
\* maintenance that a failed cleaning has set stays.
Manage ==
    /\ Idle
    /\ node.prov \in {"available", "cleanfail", "cleaning"}
    /\ node' = [node EXCEPT !.prov = "manageable", !.manual = FALSE]
    /\ ended' = FALSE
    /\ UNCHANGED <<work, agent, casts, mismatches, done>>

\* update_node: an operator puts the node into maintenance, or takes it out.
UpdateNode ==
    /\ Idle
    /\ node' = [node EXCEPT !.maint = ~@]
    /\ UNCHANGED <<work, agent, casts, mismatches, done, ended>>

MutAbort ==                             \* the step is not asked
    /\ Idle
    /\ node.prov = "cleanwait"
    /\ node' = [node EXCEPT !.prov = "cleanfail"] /\ Turn("abort")
    /\ UNCHANGED <<agent, casts, mismatches, done, ended>>

\* The 'abort' of do_provisioning_action: at once between steps and in an
\* abortable step; otherwise the step is flagged.
Abort ==
    /\ Idle
    /\ node.prov = "cleanwait"
    /\ \/ /\ node.step \in Step \ Abortable
          /\ node' = [node EXCEPT !.abort = TRUE]
          /\ UNCHANGED work
       \/ /\ node.step \notin Step \ Abortable
          /\ node' = [node EXCEPT !.prov = "cleanfail"]
          /\ Turn("abort")
    /\ UNCHANGED <<agent, casts, mismatches, done, ended>>

-----------------------------------------------------------------------------
(* continue_node_clean.                                                    *)

MutNextStep ==                          \* the flag is not looked at
    IF node.step = 0 THEN 1 ELSE node.index + 1

\* _get_node_next_clean_steps.
NextStep ==
    IF node.step = 0 THEN 1
    ELSE IF node.index = 0 THEN NoStep
    ELSE IF node.skip THEN node.index + 1 ELSE node.index

\* The flag that keeps the current step is used up; then the cleaning goes on
\* or, if it was flagged and steps are left, is aborted.
ContinueNodeClean ==
    /\ Idle
    /\ casts > 0
    /\ casts' = casts - 1
    /\ IF node.prov # "cleanwait" THEN UNCHANGED <<node, work>>
       ELSE IF node.abort /\ NextStep # NoStep
            THEN /\ node' = [node EXCEPT !.skip = TRUE, !.prov = "cleanfail"]
                 /\ Turn("abort")
            ELSE /\ node' = [node EXCEPT !.skip = TRUE, !.prov = "cleaning"]
                 /\ work' = [stage |-> "next", at |-> NextStep]
    /\ UNCHANGED <<agent, mismatches, done, ended>>

\* The message is lost, or finds the node locked for too long.
LoseCast ==
    /\ casts > 0
    /\ "lost" \in Faults \/ ~Idle
    /\ casts' = casts - 1
    /\ UNCHANGED <<node, work, agent, mismatches, done, ended>>

-----------------------------------------------------------------------------
(* The worker, which has the exclusive lock.                               *)

\* _do_node_clean: the ramdisk is booted, and the node waits for it; or no
\* ramdisk is needed and the steps are begun at once; or something raises
\* what is caught, or what is not: then the node stays as it is, unlocked.
Prepare ==
    /\ work.stage = "prepare"
    /\ \/ /\ node' = [node EXCEPT !.prov = "cleanwait"]
          /\ Last("booting")
          /\ Turn("idle")
       \/ /\ InBand = {}
          /\ node' = Forgetting(node)
          /\ work' = [stage |-> "next", at |-> 1]
          /\ UNCHANGED agent
       \/ /\ Turn("error") \/ ("uncaught" \in Faults /\ Turn("idle"))
          /\ UNCHANGED <<node, agent>>
    /\ UNCHANGED <<casts, mismatches, done, ended>>

MutSaveStep ==                          \* one too many
    /\ work.stage = "next"
    /\ IF work.at > NoStep
       THEN node' = Forgetting(node) /\ Turn("teardown")
       ELSE /\ node' = [node EXCEPT !.step = work.at, !.index = work.at,
                                    !.abort = FALSE]
            /\ work' = [work EXCEPT !.stage = "execute"]
    /\ UNCHANGED <<agent, casts, mismatches, done, ended>>

\* _do_next_clean_step saves which step it is about to begin, or that none is
\* left.
SaveStep ==
    /\ work.stage = "next"
    /\ IF work.at = NoStep
       THEN node' = Forgetting(node) /\ Turn("teardown")
       ELSE /\ node' = [node EXCEPT !.step = work.at, !.index = work.at,
                                    !.abort = FALSE]
            /\ work' = [work EXCEPT !.stage = "execute"]
    /\ UNCHANGED <<agent, casts, mismatches, done, ended>>

\* execute_clean_step: a step of the conductor's own is done when it returns.
RunStep ==
    /\ work.stage = "execute"
    /\ work.at \notin InBand
    /\ work' = [stage |-> "next", at |-> work.at + 1]
    /\ done' = done \cup {work.at}
    /\ UNCHANGED <<node, agent, casts, mismatches, ended>>

\* agent_execute_clean_step: the agent takes the command if it has no other.
SendStep ==
    /\ work.stage = "execute"
    /\ work.at \in InBand
    /\ Alive /\ agent.cmd # "running"
    /\ agent' = [cmd |-> "running", at |-> work.at]
    /\ node' = [node EXCEPT !.prov = "cleanwait"]
    /\ Turn("idle")
    /\ UNCHANGED <<casts, mismatches, done, ended>>

\* The step raises, or the agent cannot be reached or returns no status.
StepRaises ==
    /\ work.stage = "execute"
    /\ Turn("error")
    /\ UNCHANGED <<node, agent, casts, mismatches, done, ended>>

\* tear_down_cleaning after the last step.
TearDownCleaning ==
    /\ work.stage = "teardown"
    /\ \/ /\ node' = [node EXCEPT !.prov = IF node.manual THEN "manageable"
                                           ELSE "available",
                                  !.manual = FALSE]
          /\ ended' = TRUE
          /\ Last("off")
          /\ Turn("idle")
       \/ /\ Turn("fail")
          /\ UNCHANGED <<node, agent, ended>>
    /\ UNCHANGED <<casts, mismatches, done>>

\* The row after cleaning_error_handler; the flag that keeps the current step
\* stays.
Failed(n) ==
    [Forgetting(n) EXCEPT !.rebooted = FALSE, !.maint = TRUE,
                          !.prov = "cleanfail"]

\* cleaning_error_handler, with tear_down_cleaning, which may raise, or not.
CleaningErrorHandler ==
    /\ work.stage \in {"error", "fail"}
    /\ node' = Failed(node)
    /\ \/ UNCHANGED agent
       \/ work.stage = "error" /\ Last("off")
    /\ Turn("idle")
    /\ UNCHANGED <<casts, mismatches, done, ended>>

\* _do_node_clean_abort: the index stays.
DoNodeCleanAbort ==
    /\ work.stage = "abort"
    /\ \/ /\ node' = [node EXCEPT !.step = 0, !.abort = FALSE]
          /\ Last("off")
       \/ /\ node' = Failed(node)
          /\ UNCHANGED agent
    /\ Turn("idle")
    /\ UNCHANGED <<casts, mismatches, done, ended>>

-----------------------------------------------------------------------------
(* HeartbeatMixin.heartbeat and continue_cleaning, in CLEANWAIT.           *)

\* _notify_conductor_resume_clean.
Cast == casts < MaxCasts /\ casts' = casts + 1

\* The node has booted: refresh_clean_steps asks the agent for its steps and
\* set_node_cleaning_steps begins with the first.
FirstHeartbeat ==
    /\ node.step = 0
    /\ agent.cmd # "running"
    /\ Last("query")
    /\ node' = Forgetting(node)
    /\ Cast
    /\ UNCHANGED <<work, mismatches, done, ended>>

\* No commands, but a step has asked for a reboot: this is taken for the first
\* heartbeat after it.  The flag is popped from a copy and never saved.
AfterReboot ==
    /\ agent.cmd = "none"
    /\ node.step # 0 /\ node.rebooted
    /\ Cast
    /\ UNCHANGED <<node, work, agent, mismatches, done, ended>>

\* _get_completed_cleaning_command: an older step's success is not an answer.
\* The steps are compared whole, flag and all.
Answered == agent.cmd = "succeeded" /\ agent.at = node.step /\ ~node.abort

MutStepSucceededReboot ==               \* the reboot is not remembered
    /\ node.step \in Reboots /\ Answered
    /\ Last("booting")
    /\ UNCHANGED <<node, work, casts, mismatches, done, ended>>

\* _cleaning_reboot.
StepSucceededReboot ==
    /\ node.step \in Reboots /\ Answered
    /\ Last("booting")
    /\ node' = [node EXCEPT !.rebooted = TRUE]
    /\ UNCHANGED <<work, casts, mismatches, done, ended>>

StepSucceeded ==
    /\ node.step \in Step \ Reboots /\ Answered
    /\ Cast
    /\ UNCHANGED <<node, work, agent, mismatches, done, ended>>

\* CLEAN_VERSION_MISMATCH: the steps are asked for again; a manual cleaning
\* repeats the current step, an automated one begins anew.
VersionMismatch ==
    /\ node.step # 0 /\ agent.cmd = "mismatch"
    /\ Last("query")
    /\ IF node.manual
       THEN node' = [node EXCEPT !.skip = FALSE] /\ UNCHANGED done
       ELSE node' = Forgetting(node) /\ done' = {}
    /\ Cast
    /\ UNCHANGED <<work, mismatches, ended>>

\* The agent says that the step has failed.
StepFailed ==
    /\ node.step # 0 /\ agent.cmd = "failed"
    /\ Turn("error")
    /\ UNCHANGED <<node, agent, casts, mismatches, done, ended>>

\* Anything the heartbeat calls raises: the agent, a hook, the reboot.
HeartbeatRaises ==
    /\ Turn("error")
    /\ UNCHANGED <<node, agent, casts, mismatches, done, ended>>

\* Every case in which the heartbeat does something but touch the node.
Progress ==
    \/ FirstHeartbeat \/ AfterReboot \/ StepSucceeded \/ StepSucceededReboot
    \/ VersionMismatch \/ StepFailed

Calls == Idle /\ node.prov = "cleanwait" /\ ~node.maint /\ Alive

Heartbeat == Calls /\ Progress
HeartbeatFails == Calls /\ HeartbeatRaises

-----------------------------------------------------------------------------
(* The machine and its agent.                                              *)

Boot ==
    /\ agent.cmd = "booting"
    /\ Last("none")
    /\ UNCHANGED <<node, work, casts, mismatches, done, ended>>

\* The agent is done with a step; it may refuse it, too, because the versions
\* of its hardware managers have changed; or the machine restarts by itself
\* and its commands are forgotten.
AgentEnds ==
    /\ agent.cmd = "running"
    /\ \/ /\ agent' = [agent EXCEPT !.cmd = "succeeded"]
          /\ done' = IF Counting THEN done \cup {agent.at} ELSE done
          /\ UNCHANGED mismatches
       \/ /\ agent' = [agent EXCEPT !.cmd = "failed"]
          /\ UNCHANGED <<done, mismatches>>
       \/ /\ mismatches < MaxMismatches
          /\ mismatches' = mismatches + 1
          /\ agent' = [agent EXCEPT !.cmd = "mismatch"]
          /\ UNCHANGED done
       \/ /\ "restart" \in Faults
          /\ Last("booting")
          /\ UNCHANGED <<done, mismatches>>
    /\ UNCHANGED <<node, work, casts, ended>>

\* _check_cleanwait_timeouts: only a machine whose agent does not call gets
\* late, since every heartbeat touches the node.
CleanwaitTimeout ==
    /\ Idle
    /\ node.prov = "cleanwait" /\ ~node.maint
    /\ ~Alive
    /\ node' = [node EXCEPT !.prov = "cleanfail"]
    /\ Turn("error")
    /\ UNCHANGED <<agent, casts, mismatches, done, ended>>

-----------------------------------------------------------------------------
Worker ==
    \/ Prepare \/ SaveStep \/ RunStep \/ SendStep \/ StepRaises
    \/ TearDownCleaning \/ CleaningErrorHandler \/ DoNodeCleanAbort

Next ==
    \/ \E manual \in BOOLEAN : DoNodeClean(manual)
    \/ Manage \/ UpdateNode \/ Abort
    \/ ContinueNodeClean \/ LoseCast
    \/ Worker
    \/ Heartbeat \/ HeartbeatFails \/ CleanwaitTimeout
    \/ Boot \/ AgentEnds

Spec == Init /\ [][Next]_vars

\* Workers run, agents call and end what they do, the timeouts are checked,
\* and of the messages that are sent again and again one arrives.
Fairness ==
    /\ WF_vars(Worker) /\ WF_vars(Heartbeat) /\ WF_vars(CleanwaitTimeout)
    /\ WF_vars(Boot) /\ WF_vars(AgentEnds)
    /\ SF_vars(ContinueNodeClean)

FairSpec == Spec /\ Fairness

-----------------------------------------------------------------------------
(* Properties.                                                             *)

\* A step that may not be interrupted is never cut by an abort: the request
\* flags it, and the abort waits until it has ended.
AbortBetweenSteps ==
    [][ work.stage # "abort" /\ work'.stage = "abort" /\ agent.cmd = "running"
           => agent.at \in Abortable ]_vars

\* Nobody works on a cleaning, and nobody waits for it.
LeftBehind == "uncaught" \in Faults /\ node.prov = "cleaning" /\ Idle

\* A cleaning ends, well or badly, whatever is late, repeated, refused or
\* rebooted on the way.  The code keeps it for ever in these cases, and in no
\* other: it stays flagged for an abort; the message that would repeat a step
\* has been lost; the node is in maintenance (a cleaning may begin so), where
\* neither the agent's calls nor the timeout move it, until it is taken out;
\* or something was raised that _do_node_clean does not catch.
CleaningEnds ==
    Cleaning ~> (~Cleaning \/ node.abort \/ ~node.skip \/ node.maint \/ LeftBehind)

\* do_provisioning_action on a flagged step, "cleaning should be aborted after
\* that step is done": then the cleaning does not go on for ever, not even
\* where no maintenance keeps it.
AbortTakesEffect == (Cleaning /\ node.abort) ~> (~Cleaning \/ node.maint)

\* continue_cleaning on an agent without commands, "Node finished a cleaning step
\* that requested a reboot, and this is the first heartbeat after booting":
\* the step by which such a heartbeat resumes the cleaning is complete.
RebootFollowsStep == [][ AfterReboot => node.step \in done ]_vars

\* The steps of a cleaning keep the order that CleanOrder promises.
Order == INSTANCE CleanOrder WITH
    phase    <- IF Cleaning THEN "cleaning"
                ELSE IF ended THEN "cleaned" ELSE "rest",
    running  <- IF Counting /\ agent.cmd = "running" THEN agent.at
                ELSE IF work.stage = "execute" /\ work.at \notin InBand
                THEN work.at ELSE 0,
    complete <- done

ImplementsCleanOrder == Order!Spec
=============================================================================
