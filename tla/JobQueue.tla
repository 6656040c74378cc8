------------------------------ MODULE JobQueue ------------------------------
(***************************************************************************)
(* What tpool_Schedule promises the rest of the SDK, and nothing about how *)
(* it is done: a first-in first-out queue whose jobs are each started at   *)
(* most once, in the order in which they were queued, with at most Limit   *)
(* of them running at a time, and no job started once the pool is closed.  *)
(* ThreadPool implements this specification; GenaDevice uses it in place   *)
(* of the pool.                                                            *)
(***************************************************************************)
EXTENDS Naturals, Sequences, FiniteSets

CONSTANTS Jobs,     \* one element per call of tpool_Schedule
          Limit     \* the largest value ever given to tpool_SetMaxThreads

VARIABLES pending,  \* the jobs queued and not started, in order
          running,  \* the jobs whose function is being executed
          finished, \* the jobs whose function has returned
          closed    \* the pool is being destroyed

vars == <<pending, running, finished, closed>>

Queued == {pending[i] : i \in DOMAIN pending}

Init == /\ pending = << >>
        /\ running = {}
        /\ finished = {}
        /\ closed = FALSE

Submit(j) == /\ j \notin Queued \cup running \cup finished
             /\ pending' = Append(pending, j)
             /\ UNCHANGED <<running, finished, closed>>

Start == /\ pending # << >>
         /\ ~closed
         /\ Cardinality(running) < Limit
         /\ running' = running \cup {Head(pending)}
         /\ pending' = Tail(pending)
         /\ UNCHANGED <<finished, closed>>

Finish(j) == /\ j \in running
             /\ running' = running \ {j}
             /\ finished' = finished \cup {j}
             /\ UNCHANGED <<pending, closed>>

Close == /\ ~closed
         /\ closed' = TRUE
         /\ UNCHANGED <<pending, running, finished>>

Next == \/ \E j \in Jobs : Submit(j) \/ Finish(j)
        \/ Start
        \/ Close

Spec == Init /\ [][Next]_vars

=============================================================================
