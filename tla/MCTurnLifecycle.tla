-------------------------- MODULE MCTurnLifecycle --------------------------
(* TLC instances of TurnLifecycle. *)
EXTENDS TurnLifecycle
============================================================================
