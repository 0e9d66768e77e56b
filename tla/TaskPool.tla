----------------------------- MODULE TaskPool ------------------------------
(***************************************************************************)
(* What the scheduler promises its users, with no threads, fibers, counters *)
(* or idle loops: a task handed in waits, is taken by one runner, is let go *)
(* of (it has yielded) or ends, and may be handed in again until it ends;   *)
(* after the pool has been told to close it is over only when nothing waits *)
(* and nothing runs, and nothing happens afterwards.                        *)
(***************************************************************************)
EXTENDS Naturals

CONSTANT Tasks

VARIABLES
    waiting,   \* how often each task is in the queue
    running,   \* the tasks some runner has taken and not let go of
    finished,  \* the tasks that have ended
    phase      \* "open", "closing" (stop() was called), "over" (it has returned)

poolVars == <<waiting, running, finished, phase>>

Init ==
    /\ waiting = [x \in Tasks |-> 0]
    /\ running = {}
    /\ finished = {}
    /\ phase = "open"

\* A running task may be handed in again: it must not be taken before it is let go.
Submit(x) ==
    /\ phase # "over" /\ waiting[x] = 0 /\ x \notin finished
    /\ waiting'[x] = 1  \* implied by the next conjunct, and quick to refute
    /\ waiting' = [waiting EXCEPT ![x] = 1]
    /\ UNCHANGED <<running, finished, phase>>

Take(x) ==
    /\ phase # "over" /\ waiting[x] = 1 /\ x \notin running \cup finished
    /\ waiting' = [waiting EXCEPT ![x] = 0]
    /\ running' = running \cup {x}
    /\ UNCHANGED <<finished, phase>>

Release(x) ==
    /\ x \in running
    /\ running' = running \ {x}
    /\ UNCHANGED <<waiting, finished, phase>>

Finish(x) ==
    /\ x \in running /\ waiting[x] = 0
    /\ running' = running \ {x}
    /\ finished' = finished \cup {x}
    /\ UNCHANGED <<waiting, phase>>

Close ==
    /\ phase = "open" /\ phase' = "closing"
    /\ UNCHANGED <<waiting, running, finished>>

Complete ==
    /\ phase = "closing" /\ phase' = "over"
    /\ running = {} /\ \A x \in Tasks : waiting[x] = 0
    /\ UNCHANGED <<waiting, running, finished>>

\* A pool that nobody serves never completes; it may be thrown away as it is.
Discard ==
    /\ phase = "closing" /\ running = {}
    /\ waiting' = [x \in Tasks |-> 0]
    /\ UNCHANGED <<running, finished, phase>>

Next ==
    \/ \E x \in Tasks : Submit(x) \/ Take(x) \/ Release(x) \/ Finish(x)
    \/ Close \/ Complete \/ Discard

Spec == Init /\ [][Next]_poolVars
=============================================================================
