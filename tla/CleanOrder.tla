----------------------------- MODULE CleanOrder -----------------------------
(* What a cleaning promises: the steps are run one at a time and in their  *)
(* order, none is begun before all earlier ones are complete, a complete   *)
(* one is not run again, and the cleaning ends well only when all are      *)
(* complete.  It may be broken off, or begun anew, at any time.            *)
EXTENDS Naturals

CONSTANT StepCount                      \* how many steps a cleaning has

VARIABLES phase,                        \* "rest", "cleaning" or "cleaned"
          running,                      \* the step that is being run, or 0
          complete                      \* the steps that have been completed

vars == <<phase, running, complete>>

Step == 1 .. StepCount

Init == phase = "rest" /\ running = 0 /\ complete = {}

\* A cleaning begins, or begins anew: nothing counts as done.
Start == phase' = "cleaning" /\ running' = 0 /\ complete' = {}

Begin(k) ==
    /\ phase = "cleaning" /\ running = 0
    /\ k \notin complete /\ 1 .. (k - 1) \subseteq complete
    /\ running' = k
    /\ UNCHANGED <<phase, complete>>

Complete ==
    /\ running # 0
    /\ complete' = complete \cup {running}
    /\ running' = 0
    /\ UNCHANGED phase

\* A step that ends without success, or with the machine it runs on.
Interrupt == running' = 0 /\ UNCHANGED <<phase, complete>>

\* The cleaning is over; a step may still be running on the machine.
GiveUp == phase' = "rest" /\ UNCHANGED complete /\ running' \in {0, running}

Finish ==
    /\ phase = "cleaning" /\ running = 0 /\ complete = Step
    /\ phase' = "cleaned"
    /\ UNCHANGED <<running, complete>>

Next == Start \/ (\E k \in Step : Begin(k)) \/ Complete \/ Interrupt
        \/ GiveUp \/ Finish

Spec == Init /\ [][Next]_vars
=============================================================================
