---------------------------- MODULE MCHubFence ----------------------------
(* Small instances of HubFence for TLC. *)
EXTENDS HubFence
=============================================================================
