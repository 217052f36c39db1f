---------------------------- MODULE MCScheduler ----------------------------
(* Scheduler for TLC: threads are interchangeable, and so are tasks.       *)
EXTENDS Scheduler, TLC

Symmetry == Permutations(Threads) \cup Permutations(Tasks)
=============================================================================
