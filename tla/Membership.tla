----------------------------- MODULE Membership -----------------------------
(* Which conductor a node belongs to: the conductors' rows with their      *)
(* heartbeats, the hash ring that each process makes of them and keeps for *)
(* a while (common/hash_ring.py), the routing of requests by the API, and  *)
(* the periodic _sync_local_state, by which a conductor takes over the     *)
(* ACTIVE nodes that the ring maps to it and that another one has served.  *)
(* One node is enough, since the ring treats each by itself; what its lock *)
(* does besides is the subject of TaskManager.                             *)
EXTENDS Naturals, FiniteSets

CONSTANTS Host,           \* conductors, in the order of the node's preference
          MaxFaults,      \* bound: crashes, stops and heartbeats that are late
          MaxRequests     \* bound: requests of users

ASSUME MembershipAssumption ==
    /\ Host \subseteq Nat \ {0} /\ Host # {} /\ IsFiniteSet(Host)
    /\ MaxFaults \in Nat /\ MaxRequests \in Nat

VARIABLES conductor,      \* the processes, and their rows in the database
          ring,           \* the hash ring that each process has cached
          node,           \* the node's row
          job,            \* what each thread of a conductor does
          faults,         \* how much of MaxFaults has been used
          requests        \* how much of MaxRequests has been used

vars == <<conductor, ring, node, job, faults, requests>>

NoHost == 0

\* A loop that synchronises, and a thread for requests.
Task == Host \X {"sync", "request"}
Sync(h) == <<h, "sync">>
Handler(h) == <<h, "request">>

Conductor == [proc     : {"up", "stopping", "down"},
              online   : BOOLEAN,
              fresh    : BOOLEAN,  \* updated_at is within heartbeat_timeout
              touching : BOOLEAN]  \* the keepalive is in the middle of touch

TypeOK ==
    /\ conductor \in [Host -> Conductor]
    /\ ring \in [Host -> [valid : BOOLEAN, hosts : SUBSET Host]]
    /\ node \in [active : BOOLEAN, maint : BOOLEAN,
                 affinity : Host \cup {NoHost}, lock : Host \cup {NoHost}]
    /\ job \in [Task -> {"idle", "chosen", "taking", "sent", "working"}]
    /\ \A h \in Host : /\ job[Sync(h)] \notin {"sent", "working"}
                       /\ job[Handler(h)] \notin {"chosen", "taking"}
    /\ faults \in 0 .. MaxFaults /\ requests \in 0 .. MaxRequests

NoRing == [valid |-> FALSE, hosts |-> {}]

Init ==
    /\ conductor = [h \in Host |-> [proc |-> "up", online |-> TRUE,
                                    fresh |-> TRUE, touching |-> FALSE]]
    /\ ring = [h \in Host |-> NoRing]
    /\ node = [active |-> FALSE, maint |-> FALSE,
               affinity |-> NoHost, lock |-> NoHost]
    /\ job = [t \in Task |-> "idle"]
    /\ faults = 0 /\ requests = 0

Up == {h \in Host : conductor[h].proc = "up"}
Free == node.lock = NoHost
Goto(t, stage) == job' = [job EXCEPT ![t] = stage]
Fault == faults < MaxFaults /\ faults' = faults + 1
Unlocked(n) == [n EXCEPT !.lock = NoHost]

-----------------------------------------------------------------------------
(* The ring.                                                               *)

MutActive == {h \in Host : conductor[h].online}   \* the age is not looked at

\* _filter_active_conductors.
Active == {h \in Host : conductor[h].online /\ conductor[h].fresh}

\* Consistent hashing: a node has its own order of the hosts, and belongs to
\* the first of those that the ring knows.  Without any the driver is unknown.
Owner(S) == IF S = {} THEN NoHost ELSE CHOOSE h \in S : \A g \in S : h <= g

MutSeen(h) == IF ring[h].hosts # {} THEN ring[h].hosts ELSE Active

\* HashRingManager.ring: what the process h sees when it asks.
Seen(h) == IF ring[h].valid THEN ring[h].hosts ELSE Active

Loads(h) == ring' = [ring EXCEPT ![h] = [valid |-> TRUE, hosts |-> Seen(h)]]

\* hash_ring_reset_interval passes; or the process resets the cache because
\* its own rpcapi is about to send a message.
RingExpires(h) ==
    /\ ring[h].valid
    /\ ring' = [ring EXCEPT ![h].valid = FALSE]
    /\ UNCHANGED <<conductor, node, job, faults, requests>>

-----------------------------------------------------------------------------
(* _sync_local_state.                                                      *)

\* The node is read, and is mapped to this conductor as far as it can see.
Choose(h) ==
    /\ h \in Up
    /\ job[Sync(h)] = "idle"
    /\ node.active /\ ~node.maint /\ Free
    /\ node.affinity # h
    /\ Loads(h)
    /\ IF Owner(Seen(h)) = h THEN Goto(Sync(h), "chosen") ELSE UNCHANGED job
    /\ UNCHANGED <<conductor, node, faults, requests>>

MutLockChosen(h) ==                     \* the checks are not repeated
    /\ job[Sync(h)] = "chosen"
    /\ IF Free
       THEN node' = [node EXCEPT !.lock = h] /\ Goto(Sync(h), "taking")
       ELSE UNCHANGED node /\ Goto(Sync(h), "idle")
    /\ UNCHANGED <<conductor, ring, faults, requests>>

\* With the exclusive lock all is checked again but the ring.  A node that is
\* locked for too long is left for the next time.
LockChosen(h) ==
    /\ job[Sync(h)] = "chosen"
    /\ IF Free /\ node.active /\ ~node.maint /\ node.affinity # h
       THEN node' = [node EXCEPT !.lock = h] /\ Goto(Sync(h), "taking")
       ELSE UNCHANGED node /\ Goto(Sync(h), "idle")
    /\ UNCHANGED <<conductor, ring, faults, requests>>

MutTakeOver(h) ==                       \* the new affinity is not saved
    /\ job[Sync(h)] = "taking"
    /\ node' = Unlocked(node)
    /\ Goto(Sync(h), "idle")
    /\ UNCHANGED <<conductor, ring, faults, requests>>

\* _do_takeover, in a worker: the driver prepares and takes over.
TakeOver(h) ==
    /\ job[Sync(h)] = "taking"
    /\ node' = Unlocked([node EXCEPT !.affinity = h])
    /\ Goto(Sync(h), "idle")
    /\ UNCHANGED <<conductor, ring, faults, requests>>

\* It raises, or there is no free worker.
TakeOverFails(h) ==
    /\ job[Sync(h)] = "taking"
    /\ node' = Unlocked(node)
    /\ Goto(Sync(h), "idle")
    /\ UNCHANGED <<conductor, ring, faults, requests>>

-----------------------------------------------------------------------------
(* Requests.                                                               *)

\* ConductorAPI.get_topic_for: the API resets its ring for every request, so
\* that it sends it to the owner by the rows of this moment.
Send ==
    /\ requests < MaxRequests
    /\ requests' = requests + 1
    /\ \E h \in Host : /\ h = Owner(Active)
                       /\ job[Handler(h)] = "idle"
                       /\ Goto(Handler(h), "sent")
    /\ UNCHANGED <<conductor, ring, node, faults>>

MutReceive(h) ==                        \* the request takes the node over
    /\ h \in Up
    /\ job[Handler(h)] = "sent"
    /\ IF Free
       THEN /\ node' = [node EXCEPT !.lock = h]
            /\ Goto(Handler(h), "taking")
       ELSE UNCHANGED node /\ Goto(Handler(h), "idle")
    /\ UNCHANGED <<conductor, ring, faults, requests>>

\* The message is taken from the queue.  The handler looks at the lock, never
\* at the ring: who gets a message does what it says.  An ACTIVE node is
\* rebuilt or torn down; or its power state is changed, say, and it stays so.
Receive(h) ==
    /\ h \in Up
    /\ job[Handler(h)] = "sent"
    /\ IF Free
       THEN /\ \E active \in {node.active, FALSE} :
                  node' = [node EXCEPT !.lock = h, !.active = active]
            /\ Goto(Handler(h), "working")
       ELSE UNCHANGED node /\ Goto(Handler(h), "idle")
    /\ UNCHANGED <<conductor, ring, faults, requests>>

\* do_node_deploy ends with the affinity of its conductor; everything else
\* that a worker does, or fails to do, leaves the affinity alone.
WorkEnds(h) ==
    /\ job[Handler(h)] = "working"
    /\ \/ /\ ~node.active
          /\ node' = Unlocked([node EXCEPT !.active = TRUE, !.affinity = h])
       \/ node' = Unlocked(node)
    /\ Goto(Handler(h), "idle")
    /\ UNCHANGED <<conductor, ring, faults, requests>>

\* update_node: maintenance is set or cleared.
SetMaintenance ==
    /\ Free
    /\ node' = [node EXCEPT !.maint = ~@]
    /\ UNCHANGED <<conductor, ring, job, faults, requests>>

-----------------------------------------------------------------------------
(* Processes, their rows and their heartbeats.                             *)

\* _conductor_service_record_keepalive has seen that it is not to end.
BeginTouch(h) ==
    /\ h \in Up /\ ~conductor[h].touching
    /\ conductor' = [conductor EXCEPT ![h].touching = TRUE]
    /\ UNCHANGED <<ring, node, job, faults, requests>>

\* touch_conductor, which also brings a row online again that del_host has
\* taken offline in between.
Touch(h) ==
    /\ conductor[h].touching
    /\ conductor' = [conductor EXCEPT ![h].touching = FALSE,
                                      ![h].online = TRUE, ![h].fresh = TRUE]
    /\ UNCHANGED <<ring, node, job, faults, requests>>

\* heartbeat_timeout passes: the conductor does not run, or its heartbeats
\* cannot reach the database for a while.
HeartbeatTimeout(h) ==
    /\ conductor[h].fresh /\ ~conductor[h].touching
    /\ IF h \in Up THEN Fault ELSE UNCHANGED faults
    /\ conductor' = [conductor EXCEPT ![h].fresh = FALSE]
    /\ UNCHANGED <<ring, node, job, requests>>

\* The process dies with its threads and its ring, not with its lock nor with
\* the messages that wait for it.
Crash(h) ==
    /\ conductor[h].proc # "down"
    /\ Fault
    /\ conductor' = [conductor EXCEPT ![h].proc = "down",
                                      ![h].touching = FALSE]
    /\ ring' = [ring EXCEPT ![h] = NoRing]
    /\ job' = [t \in Task |-> IF t[1] = h /\ job[t] # "sent" THEN "idle"
                              ELSE job[t]]
    /\ UNCHANGED <<node, requests>>

MutRestart(h) ==                        \* its old lock stays
    /\ conductor[h].proc = "down"
    /\ conductor' = [conductor EXCEPT ![h] =
                        [proc |-> "up", online |-> TRUE, fresh |-> TRUE,
                         touching |-> FALSE]]
    /\ UNCHANGED <<ring, node, job, faults, requests>>

\* init_host: its locks are cleared, it registers.
Restart(h) ==
    /\ conductor[h].proc = "down"
    /\ node' = IF node.lock = h THEN Unlocked(node) ELSE node
    /\ conductor' = [conductor EXCEPT ![h] =
                        [proc |-> "up", online |-> TRUE, fresh |-> TRUE,
                         touching |-> FALSE]]
    /\ UNCHANGED <<ring, job, faults, requests>>

\* del_host: unregister_conductor, then the threads are waited for.
BeginStop(h) ==
    /\ h \in Up
    /\ Fault
    /\ conductor' = [conductor EXCEPT ![h].proc = "stopping",
                                      ![h].online = FALSE]
    /\ job' = [job EXCEPT ![Sync(h)] = IF @ = "chosen" THEN "idle" ELSE @]
    /\ UNCHANGED <<ring, node, requests>>

EndStop(h) ==
    /\ conductor[h].proc = "stopping" /\ ~conductor[h].touching
    /\ job[Sync(h)] = "idle" /\ job[Handler(h)] # "working"
    /\ conductor' = [conductor EXCEPT ![h].proc = "down"]
    /\ ring' = [ring EXCEPT ![h] = NoRing]
    /\ UNCHANGED <<node, job, faults, requests>>

-----------------------------------------------------------------------------
Next ==
    \/ \E h \in Host :
          \/ RingExpires(h) \/ Choose(h) \/ LockChosen(h)
          \/ TakeOver(h) \/ TakeOverFails(h)
          \/ Receive(h) \/ WorkEnds(h)
          \/ BeginTouch(h) \/ Touch(h) \/ HeartbeatTimeout(h)
          \/ Crash(h) \/ Restart(h) \/ BeginStop(h) \/ EndStop(h)
    \/ Send \/ SetMaintenance

Spec == Init /\ [][Next]_vars

\* Threads run, time passes, the periodic task runs, and a takeover that is
\* tried again and again succeeds.  Nobody need restart what is down.
Fairness ==
    \A h \in Host :
       /\ WF_vars(RingExpires(h)) /\ SF_vars(Choose(h)) /\ WF_vars(LockChosen(h))
       /\ WF_vars(TakeOver(h) \/ TakeOverFails(h)) /\ SF_vars(TakeOver(h))
       /\ WF_vars(Receive(h)) /\ WF_vars(WorkEnds(h))
       /\ WF_vars(h \in Up /\ BeginTouch(h)) /\ WF_vars(Touch(h))
       /\ WF_vars(h \notin Up /\ HeartbeatTimeout(h)) /\ WF_vars(EndStop(h))

FairSpec == Spec /\ Fairness

-----------------------------------------------------------------------------
(* Properties.                                                             *)

Working == {t \in Task : job[t] \in {"taking", "working"}}

\* The lock of the node belongs to a thread of the host whose tag it has, or
\* to a host that is down: neither a takeover nor a request leaks it, whatever
\* dies, stops or is routed elsewhere in between, and no two of them have it.
LockHasItsThread ==
    /\ Cardinality(Working) <= 1
    /\ \A t \in Working : node.lock = t[1]
    /\ ~Free => Working # {} \/ conductor[node.lock].proc = "down"

\* A takeover is of an ACTIVE node out of maintenance that another conductor
\* has served, from the lock to the new affinity.
TakesOverServed ==
    \A h \in Host : job[Sync(h)] = "taking" =>
        node.active /\ ~node.maint /\ node.affinity # h

\* When conductors have stopped coming and going, a node that stays ACTIVE and
\* that no dead conductor keeps locked belongs in the end to the conductor to
\* which the API sends its requests, a running one, however stale the rings
\* were by which it was passed around until then.
Settled ==
    /\ Owner(Active) \in Up
    /\ node.affinity = Owner(Active)

Settles ==
    <>[](Up # {} /\ node.active /\ ~node.maint) /\ []<>Free => <>[]Settled
=============================================================================
