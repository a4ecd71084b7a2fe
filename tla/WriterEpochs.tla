---------------------------- MODULE WriterEpochs ----------------------------
(***************************************************************************)
(* What the hub fence promises the rest of the daemon: the database lives  *)
(* through epochs, sessions that may write are open only in the current    *)
(* one, an epoch ends only when none is left, and every write is made in   *)
(* the epoch that is current when it commits.  So what a startup scan      *)
(* reads is never changed behind its back by a predecessor.                *)
(***************************************************************************)
EXTENDS Naturals

VARIABLES
  epoch,    \* the current epoch
  writers,  \* sessions that may write are open
  written   \* the epoch of the last write

vars == <<epoch, writers, written>>

Init == epoch = 1 /\ writers = FALSE /\ written = 0

Advance == ~writers /\ epoch' = epoch + 1 /\ UNCHANGED <<writers, written>>

Open == writers' = TRUE /\ UNCHANGED <<epoch, written>>

Close == writers' = FALSE /\ UNCHANGED <<epoch, written>>

Write == writers /\ written' = epoch /\ UNCHANGED <<epoch, writers>>

Next == Advance \/ Open \/ Close \/ Write

Spec == Init /\ [][Next]_vars
=============================================================================
