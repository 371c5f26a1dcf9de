----------------------------- MODULE JobService -----------------------------
(***************************************************************************)
(* What the two thread pools of the runtime promise to their callers: jobs *)
(* start in the order they were submitted, each runs once and on one of at *)
(* most Capacity threads, and the pool only closes when no job is left.    *)
(* Blocking (runtime/src/blocking.c) and ParallelPool (runtime/src/pool.c) *)
(* implement it.                                                           *)
(***************************************************************************)
EXTENDS Naturals, Sequences, FiniteSets

CONSTANTS Jobs, Capacity

VARIABLES
    queue,      \* submitted jobs that did not start, oldest first
    running,    \* jobs a thread is executing
    finished,   \* jobs that ran and that the pool still counts
    phase       \* "closed", "accepting" or "draining"

vars == <<queue, running, finished, phase>>

Waiting == {queue[i] : i \in DOMAIN queue}
Known == Waiting \cup running \cup finished

Init == queue = <<>> /\ running = {} /\ finished = {} /\ phase = "closed"

Open ==
    /\ phase = "closed" /\ phase' = "accepting"
    /\ UNCHANGED <<queue, running, finished>>

Submit(j) ==
    /\ phase = "accepting" /\ j \notin Known
    /\ queue' = Append(queue, j)
    /\ UNCHANGED <<running, finished, phase>>

Start ==
    /\ queue # <<>> /\ Cardinality(running) < Capacity
    /\ running' = running \cup {Head(queue)}
    /\ queue' = Tail(queue)
    /\ UNCHANGED <<finished, phase>>

Finish(j) ==
    /\ j \in running
    /\ running' = running \ {j}
    /\ finished' = finished \cup {j}
    /\ UNCHANGED <<queue, phase>>

Forget(j) ==
    /\ j \in finished
    /\ finished' = finished \ {j}
    /\ UNCHANGED <<queue, running, phase>>

(* From here on nothing is submitted.                                      *)
Stop ==
    /\ phase = "accepting" /\ phase' = "draining"
    /\ UNCHANGED <<queue, running, finished>>

Close ==
    /\ phase = "draining" /\ Known = {} /\ phase' = "closed"
    /\ UNCHANGED <<queue, running, finished>>

Next ==
    \/ \E j \in Jobs : Submit(j) \/ Finish(j) \/ Forget(j)
    \/ Open \/ Start \/ Stop \/ Close

Spec == Init /\ [][Next]_vars
============================================================================
