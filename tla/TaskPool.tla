----------------------------- MODULE TaskPool ------------------------------
(***************************************************************************)
(* What the scheduler promises to the program that uses it, without        *)
(* fibers, contexts or locks: a task that is submitted waits in a queue,   *)
(* is taken from its front by one worker, which is then its only executor  *)
(* until the task suspends itself or finishes.  A suspended task comes     *)
(* back through the queue, a finished one only after it is renewed.        *)
(*                                                                         *)
(* A worker needs some time to leave a task that has suspended itself, and *)
(* nothing keeps the wake-up from coming earlier than that.  A second      *)
(* worker that takes the task before the first has left it may make the    *)
(* pool fail, after which nothing is promised; this is the only way to.    *)
(***************************************************************************)
EXTENDS Sequences

CONSTANTS Workers, Tasks, None

VARIABLES fresh, queue, active, leaving, waiting, done, failed

vars == <<fresh, queue, active, leaving, waiting, done, failed>>

Init ==
    /\ fresh = Tasks
    /\ queue = <<>>
    /\ active = [w \in Workers |-> None]
    /\ leaving = [w \in Workers |-> None]
    /\ waiting = {}
    /\ done = {}
    /\ failed = FALSE

Submit(f) ==
    /\ f \in fresh
    /\ fresh' = fresh \ {f}
    /\ queue' = Append(queue, f)
    /\ UNCHANGED <<active, leaving, waiting, done, failed>>

Take(w) ==
    /\ active[w] = None
    /\ leaving[w] = None
    /\ queue # <<>>
    /\ active' = [active EXCEPT ![w] = Head(queue)]
    /\ queue' = Tail(queue)
    /\ UNCHANGED <<fresh, leaving, waiting, done, failed>>

Suspend(w) ==
    /\ active[w] \in Tasks
    /\ waiting' = waiting \cup {active[w]}
    /\ leaving' = [leaving EXCEPT ![w] = active[w]]
    /\ active' = [active EXCEPT ![w] = None]
    /\ UNCHANGED <<fresh, queue, done, failed>>

Leave(w) ==
    /\ leaving[w] \in Tasks
    /\ leaving' = [leaving EXCEPT ![w] = None]
    /\ UNCHANGED <<fresh, queue, active, waiting, done, failed>>

Wakeup(f) ==
    /\ f \in waiting
    /\ waiting' = waiting \ {f}
    /\ queue' = Append(queue, f)
    /\ UNCHANGED <<fresh, active, leaving, done, failed>>

Finish(w) ==
    /\ active[w] \in Tasks
    /\ done' = done \cup {active[w]}
    /\ active' = [active EXCEPT ![w] = None]
    /\ UNCHANGED <<fresh, queue, leaving, waiting, failed>>

Renew(f) ==
    /\ f \in done
    /\ done' = done \ {f}
    /\ fresh' = fresh \cup {f}
    /\ UNCHANGED <<queue, active, leaving, waiting, failed>>

(* Worker w holds a task that worker v is still leaving.                   *)
Fail(w, v) ==
    /\ w # v
    /\ active[w] \in Tasks
    /\ leaving[v] = active[w]
    /\ failed' = TRUE
    /\ UNCHANGED <<fresh, queue, active, leaving, waiting, done>>

Next ==
    /\ ~failed
    /\ \/ \E f \in Tasks : Submit(f) \/ Wakeup(f) \/ Renew(f)
       \/ \E w \in Workers : Take(w) \/ Suspend(w) \/ Leave(w) \/ Finish(w)
       \/ \E w, v \in Workers : Fail(w, v)

Spec == Init /\ [][Next]_vars
=============================================================================
