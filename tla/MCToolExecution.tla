--------------------------- MODULE MCToolExecution ---------------------------
(* A batch of three requests, the first without an external effect. *)
EXTENDS ToolExecution
=============================================================================
