------------------------ MODULE MCEligibilityNudge ------------------------
(* TLC instances of EligibilityNudge. *)
EXTENDS EligibilityNudge, TLC

Symmetry == Permutations(Sessions)
============================================================================
