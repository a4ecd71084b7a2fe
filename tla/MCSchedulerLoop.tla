-------------------------- MODULE MCSchedulerLoop --------------------------
(* TLC instances of SchedulerLoop. *)
EXTENDS SchedulerLoop, TLC

Symmetry == Permutations(Sessions)
============================================================================
