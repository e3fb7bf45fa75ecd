------------------------------ MODULE NodeLock ------------------------------
(***************************************************************************)
(* What the conductors promise about the exclusive lock of a node, without *)
(* hosts, reservations, retries or worker threads: a node is owned by at   *)
(* most one task; a task becomes the owner only of a node nobody owns; it  *)
(* stops owning it by releasing it.  Where the environment may make a      *)
(* conductor lose its locks (it dies, restarts, or is believed dead), the  *)
(* ownership may also be revoked; it is never handed over directly.        *)
(* TaskManager.tla is shown to implement this module.                      *)
(***************************************************************************)
CONSTANTS Node, Task, NoTask,
          MayRevoke    \* whether anything may take a lock from its owner

VARIABLE owner         \* owner[n]: the task that owns node n, or NoTask

TypeOK == owner \in [Node -> Task \cup {NoTask}]

Init == owner = [n \in Node |-> NoTask]

Acquire(n, t) ==
    /\ owner[n] = NoTask
    /\ owner' = [owner EXCEPT ![n] = t]

Release(n, t) ==
    /\ owner[n] = t
    /\ owner' = [owner EXCEPT ![n] = NoTask]

\* Every node of S loses its owner in one step.
Revoke(S) ==
    /\ MayRevoke
    /\ owner' = [n \in Node |-> IF n \in S THEN NoTask ELSE owner[n]]

Next ==
    \/ \E n \in Node, t \in Task : Acquire(n, t) \/ Release(n, t)
    \/ \E S \in SUBSET Node : Revoke(S)

Spec == Init /\ [][Next]_owner
=============================================================================
