--------------------------- MODULE ProvisionStates ---------------------------
(***************************************************************************)
(* The provision state machine: the table of ironic/common/states.py and   *)
(* the target-tracking machine of ironic/common/fsm.py that runs it, as    *)
(* operators on a record [state, target].                                  *)
(***************************************************************************)

NoState == "none"                 \* states.NOSTATE

Stable == {"enroll", "manageable", "available", "active", "error"}

\* UNSTABLE_STATES, and those of them in which a thread works on the node.
Unstable == {"deploying", "deploywait", "cleaning", "cleanwait", "verifying",
             "deleting", "inspecting", "adopting"}
Working == Unstable \ {"deploywait", "cleanwait", "inspecting"}

Failed == {"deployfail", "cleanfail", "inspectfail", "adoptfail"}

State == Stable \cup Unstable \cup Failed

\* The target a state is declared with.
DefaultTarget ==
    [s \in State |->
        CASE s \in {"verifying", "inspecting", "inspectfail"} -> "manageable"
          [] s \in {"deploying", "deploywait", "deployfail",
                    "adopting", "adoptfail"} -> "active"
          [] s \in {"cleaning", "cleanwait", "cleanfail",
                    "deleting"} -> "available"
          [] OTHER -> NoState]

Edges == {
    <<"available", "deploy", "deploying">>,
    <<"deploying", "fail", "deployfail">>,
    <<"deployfail", "rebuild", "deploying">>,
    <<"deployfail", "deploy", "deploying">>,
    <<"deploying", "wait", "deploywait">>,
    <<"deploywait", "resume", "deploying">>,
    <<"deploywait", "fail", "deployfail">>,
    <<"deploying", "done", "active">>,
    <<"active", "rebuild", "deploying">>,
    <<"active", "delete", "deleting">>,
    <<"deploywait", "delete", "deleting">>,
    <<"deployfail", "delete", "deleting">>,
    <<"deleting", "error", "error">>,
    <<"deleting", "clean", "cleaning">>,
    <<"cleaning", "done", "available">>,
    <<"cleaning", "fail", "cleanfail">>,
    <<"cleanwait", "fail", "cleanfail">>,
    <<"cleanwait", "abort", "cleanfail">>,
    <<"cleaning", "wait", "cleanwait">>,
    <<"cleanwait", "resume", "cleaning">>,
    <<"cleanfail", "manage", "manageable">>,
    <<"manageable", "provide", "cleaning">>,
    <<"manageable", "clean", "cleaning">>,
    <<"cleaning", "manage", "manageable">>,
    <<"available", "manage", "manageable">>,
    <<"error", "rebuild", "deploying">>,
    <<"error", "delete", "deleting">>,
    <<"manageable", "inspect", "inspecting">>,
    <<"inspecting", "done", "manageable">>,
    <<"inspecting", "fail", "inspectfail">>,
    <<"inspectfail", "manage", "manageable">>,
    <<"inspectfail", "inspect", "inspecting">>,
    <<"enroll", "manage", "verifying">>,
    <<"verifying", "done", "manageable">>,
    <<"verifying", "fail", "enroll">>,
    <<"manageable", "adopt", "adopting">>,
    <<"adopting", "done", "active">>,
    <<"adopting", "fail", "adoptfail">>,
    <<"adoptfail", "adopt", "adopting">>,
    <<"adoptfail", "manage", "manageable">> }

Event == {edge[2] : edge \in Edges}

\* process_event does not raise InvalidState.
Accepts(s, e) == \E edge \in Edges : edge[1] = s /\ edge[2] = e

After(s, e) == CHOOSE r \in State : <<s, e, r>> \in Edges

Machine == [state : State, target : Stable \cup {NoState}]

\* FSM.initialize, as TaskManager.node does it.
Initialized(state, target) ==
    [state |-> state,
     target |-> IF target # NoState THEN target ELSE DefaultTarget[state]]

\* Operators named Mut... are plausible bugs: nothing uses them; each breaks a
\* property when it stands in for the definition that follows it.
MutPostTarget(m, s) == m.target          \* the target is not tracked

\* _post_process_event: a target that is reached is cleared, then the target
\* of the new state, if it has one, replaces the old one.
PostTarget(m, s) ==
    IF DefaultTarget[s] # NoState THEN DefaultTarget[s]
    ELSE IF m.target = s THEN NoState ELSE m.target

\* FSM.process_event with the target_state argument "wanted" (NoState: none).
Processed(m, e, wanted) ==
    LET s == After(m.state, e)
    IN  [state |-> s,
         target |-> IF wanted # NoState THEN wanted ELSE PostTarget(m, s)]
=============================================================================
