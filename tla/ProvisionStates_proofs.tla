------------------------ MODULE ProvisionStates_proofs ------------------------
(***************************************************************************)
(* Facts about the provision state machine, from its table alone: what an  *)
(* event leads to, and that the target follows the state.                  *)
(***************************************************************************)
EXTENDS ProvisionStates, TLAPS

Cleanings == {"cleaning", "cleanwait", "cleanfail"}

\* The target that a row in state s may have.
Fits(s, g) ==
    \/ s \in Stable /\ g = NoState
    \/ s \in Cleanings /\ g \in {"available", "manageable"}
    \/ s \in State \ (Stable \cup Cleanings) /\ g = DefaultTarget[s]

\* The target that process_event writes into the row.
RowTarget(m, callback) ==
    IF ~callback /\ m.state \in Stable THEN NoState ELSE m.target

-----------------------------------------------------------------------------
\* Exactly the stable states have no target of their own.
LEMMA Defaults ==
    /\ \A s \in State : DefaultTarget[s] \in Stable \cup {NoState}
    /\ \A s \in State : s \in Stable <=> DefaultTarget[s] = NoState
    /\ \A s \in Cleanings : s \in State \ Stable /\ DefaultTarget[s] = "available"
    /\ NoState \notin State
  BY DEF DefaultTarget, State, Stable, Unstable, Failed, NoState, Cleanings

LEMMA EdgeTypes ==
    \A edge \in Edges : /\ edge = <<edge[1], edge[2], edge[3]>>
                        /\ edge[1] \in State /\ edge[3] \in State
  BY DEF Edges, State, Stable, Unstable, Failed

\* An event that is not refused follows an edge.
LEMMA AcceptedEdge ==
    ASSUME NEW s, NEW e, Accepts(s, e)
    PROVE  After(s, e) \in State /\ <<s, e, After(s, e)>> \in Edges
<1>1. PICK edge \in Edges : edge[1] = s /\ edge[2] = e
  BY DEF Accepts
<1>2. edge[3] \in State /\ <<s, e, edge[3]>> \in Edges
  BY <1>1, EdgeTypes
<1> QED
  BY <1>2 DEF After

\* Where the events lead.
LEMMA EdgeResults ==
    ASSUME NEW s, NEW e, NEW r, <<s, e, r>> \in Edges
    PROVE  /\ e \in {"deploy", "rebuild", "resume"} => r \in {"deploying", "cleaning"}
           /\ e \in {"deploy", "rebuild"} => r = "deploying"
           /\ e = "delete" => r = "deleting"
           /\ e \in {"clean", "provide"} => r = "cleaning"
           /\ e = "inspect" => r = "inspecting"
           /\ e = "adopt" => r = "adopting"
           /\ e = "abort" => r = "cleanfail"
           /\ e = "manage" /\ s = "enroll" => r = "verifying"
           /\ e = "manage" /\ s # "enroll" => r = "manageable"
           /\ e = "resume" /\ s = "cleanwait" => r = "cleaning"
           /\ e = "resume" /\ s = "deploywait" => r = "deploying"
           /\ e = "wait" /\ s = "cleaning" => r = "cleanwait"
           /\ e = "fail" /\ s \in {"deploywait", "deploying"} => r = "deployfail"
           /\ e = "fail" /\ s \in {"cleanwait", "cleaning", "cleanfail"} => r = "cleanfail"
           /\ e \in {"done", "fail", "error", "wait", "abort"} => r \notin Working
           /\ e = "manage" /\ s # "enroll" => r \notin Working
           /\ r = "available" => s = "cleaning" /\ e = "done"
           /\ r = "cleanwait" => s = "cleaning" /\ e = "wait"
           /\ r \in Stable => e \in {"done", "fail", "error", "manage"}
  BY DEF Edges, Stable, Working, Unstable

\* The events that those who work on a node in these states ask for.
LEMMA WorkAccepts ==
    /\ \A e \in {"done", "wait", "fail"} : Accepts("deploying", e)
    /\ \A e \in {"resume", "fail"} : Accepts("deploywait", e)
    /\ \A e \in {"error", "clean"} : Accepts("deleting", e)
    /\ \A e \in {"done", "wait", "fail", "manage"} : Accepts("cleaning", e)
    /\ \A e \in {"resume", "abort", "fail"} : Accepts("cleanwait", e)
    /\ \A s \in {"verifying", "adopting", "inspecting"}, e \in {"done", "fail"} :
           Accepts(s, e)
<1>1. ASSUME NEW s, NEW e, NEW r, <<s, e, r>> \in Edges
      PROVE  Accepts(s, e)
  BY <1>1 DEF Accepts
<1>2. /\ <<"deploying", "done", "active">> \in Edges
      /\ <<"deploying", "wait", "deploywait">> \in Edges
      /\ <<"deploying", "fail", "deployfail">> \in Edges
      /\ <<"deploywait", "resume", "deploying">> \in Edges
      /\ <<"deploywait", "fail", "deployfail">> \in Edges
      /\ <<"deleting", "error", "error">> \in Edges
      /\ <<"deleting", "clean", "cleaning">> \in Edges
  BY DEF Edges
<1>3. /\ <<"cleaning", "done", "available">> \in Edges
      /\ <<"cleaning", "wait", "cleanwait">> \in Edges
      /\ <<"cleaning", "fail", "cleanfail">> \in Edges
      /\ <<"cleaning", "manage", "manageable">> \in Edges
      /\ <<"cleanwait", "resume", "cleaning">> \in Edges
      /\ <<"cleanwait", "abort", "cleanfail">> \in Edges
      /\ <<"cleanwait", "fail", "cleanfail">> \in Edges
  BY DEF Edges
<1>4. /\ <<"verifying", "done", "manageable">> \in Edges
      /\ <<"verifying", "fail", "enroll">> \in Edges
      /\ <<"adopting", "done", "active">> \in Edges
      /\ <<"adopting", "fail", "adoptfail">> \in Edges
      /\ <<"inspecting", "done", "manageable">> \in Edges
      /\ <<"inspecting", "fail", "inspectfail">> \in Edges
  BY DEF Edges
<1>5. \A e \in {"done", "wait", "fail"} : Accepts("deploying", e)
  BY <1>1, <1>2
<1>6. /\ \A e \in {"resume", "fail"} : Accepts("deploywait", e)
      /\ \A e \in {"error", "clean"} : Accepts("deleting", e)
  BY <1>1, <1>2
<1>7. \A e \in {"done", "wait", "fail", "manage"} : Accepts("cleaning", e)
  BY <1>1, <1>3
<1>8. \A e \in {"resume", "abort", "fail"} : Accepts("cleanwait", e)
  BY <1>1, <1>3
<1>9. \A s \in {"verifying", "adopting", "inspecting"}, e \in {"done", "fail"} :
          Accepts(s, e)
  BY <1>1, <1>4
<1> QED
  BY <1>5, <1>6, <1>7, <1>8, <1>9

\* A cleaning can fail.
LEMMA CleaningMayFail == Accepts("cleaning", "fail")
<1>1. <<"cleaning", "fail", "cleanfail">> \in Edges
  BY DEF Edges
<1> QED
  BY <1>1 DEF Accepts
=============================================================================
