---------------------- MODULE MCEligibilityWorkSource ----------------------
(* Small instances of EligibilityWorkSource for TLC. *)
EXTENDS EligibilityWorkSource
=============================================================================
