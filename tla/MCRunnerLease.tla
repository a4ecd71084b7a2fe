--------------------------- MODULE MCRunnerLease ---------------------------
(* Small instances of RunnerLease for TLC. *)
EXTENDS RunnerLease
=============================================================================
