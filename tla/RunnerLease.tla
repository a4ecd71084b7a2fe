----------------------------- MODULE RunnerLease -----------------------------
(***************************************************************************)
(* The tool leases a daemon gives its enrolled runner.                     *)
(*                                                                         *)
(* Daemon: the durable leases and the head of the connection epochs        *)
(* (crates/persistence/src/runner_protocol), one handler for each physical *)
(* connection and the resume admission (apps/signalboxd/src/               *)
(* runner_protocol_runtime.rs), the dispatch permit (runner_dispatch.rs).  *)
(* Runner: the fsynced journal (apps/signalbox-runner/src/journal.rs) and  *)
(* the connection state that dies with the process (protocol.rs).          *)
(*                                                                         *)
(* Epochs are only ever compared for equality with the newest one, so the  *)
(* model keeps the outcome of the comparison: conn.owner is the socket     *)
(* that holds the newest epoch, "fresh" an offer made under it, "intact" a *)
(* lease with no connection loss since its offer.  A socket number is used *)
(* again once both its ends are gone.                                      *)
(***************************************************************************)
EXTENDS Naturals, FiniteSets, SequencesExt

CONSTANTS
  Leases,     \* lease generations, offered in this order
  Sockets,    \* physical connections that may exist at a time
  MaxFaults,  \* bound on crashes, shutdowns, timeouts and lost handlers
  MaxFrames   \* bound on the frames in flight that heartbeats may resend

ASSUME RunnerAssumption ==
  /\ Leases \subseteq Nat \ {0}
  /\ IsFiniteSet(Leases)
  /\ Sockets \subseteq Nat \ {0}
  /\ IsFiniteSet(Sockets)
  /\ Cardinality(Sockets) > 1
  /\ MaxFaults \in Nat
  /\ MaxFrames \in Nat \ {0}

VARIABLES
  lease,      \* durable: each lease's current event and terminal attempt
  conn,       \* durable: the newest connection epoch and its state
  pending,    \* durable: a connection loss not yet propagated
  boot,       \* the daemon's startup reconciliation
  permit,     \* the lease whose dispatch task holds the permit
  hand,       \* the daemon's handler of each socket
  up, down,   \* the frames in flight on each socket
  journal,    \* the runner's fsynced journal
  run,        \* the runner's connection, lost with it
  started,    \* how often the executor was started for each lease
  produced,   \* the end the runner journalled for each lease
  faults

durable == <<lease, conn, pending>>
runner  == <<journal, run, started, produced>>
vars    == <<durable, boot, permit, hand, up, down, runner, faults>>

None   == 0
Ends   == {"completed", "failed"}
Live   == {"offered", "claimed"}
Lost   == {"lost_unclaimed", "lost_claimed"}
Final  == {"completed", "refused"} \cup Lost
Up     == {"connected", "suspect"}
Phases == {"none", "refused", "waiting", "received", "may_have_started"}

\* The stages of resume_durably, which holds the admission lock.
Resuming == {"lose", "resolve", "again", "open", "reread"}

NoLease   == [state |-> "none", fresh |-> FALSE, intact |-> FALSE, end |-> "none"]
Empty     == [lease |-> None, phase |-> "none", end |-> "none"]
NoHandler == [at |-> "none", inv |-> Empty, out |-> "none", busy |-> None]
NoConnection ==
  [sock |-> None, at |-> "idle", offer |-> None, claimed |-> FALSE,
   resumed |-> None, deferred |-> None, exec |-> None, last |-> None,
   scanned |-> FALSE]

Frame(kind, l, end) == [kind |-> kind, lease |-> l, end |-> end]

Kinds == {"offer", "claim", "claimed", "dispatch", "result", "recorded",
          "refusal", "refusal_recorded", "resumed", "shutdown"}

\* The ranges, and what a closed end of a socket leaves behind.
TypeOK ==
  /\ lease \in [Leases -> [state : {"none"} \cup Live \cup Final, fresh : BOOLEAN,
                           intact : BOOLEAN, end : Ends \cup {"none"}]]
  /\ conn \in [state : Up \cup {"shutdown", "lost"}, owner : Sockets \cup {None}]
  /\ pending \in BOOLEAN
  /\ boot \in [at : {"no", "reconcile", "finish"}, captured : BOOLEAN]
  /\ permit \in Leases \cup {None}
  /\ \A s \in Sockets :
       /\ hand[s].at \in {"none", "hello", "serving", "propagate"} \cup Resuming
       /\ hand[s].at = "none" => hand[s] = NoHandler
       /\ hand[s].busy \in Leases \cup {None}
       /\ \A i \in DOMAIN up[s] : up[s][i].kind \in Kinds
       /\ \A i \in DOMAIN down[s] : down[s][i].kind \in Kinds
  /\ journal \in [lease : Leases \cup {None}, phase : Phases, end : Ends \cup {"none"}]
  /\ journal.phase = "none" => journal = Empty
  /\ journal.end # "none" => journal.phase = "may_have_started"
  /\ run.at = "idle" => run = NoConnection
  /\ run.exec # None => journal.lease = run.exec
  /\ run.at \in {"idle", "hello", "serving", "dispatching", "starting"}
  /\ started \in [Leases -> 0 .. 2]
  /\ produced \in [Leases -> Ends \cup {"none"}]
  /\ faults \in 0 .. MaxFaults

\* An enrolled runner on its first connection; sockets are interchangeable.
Init ==
  /\ lease = [l \in Leases |-> NoLease]
  /\ pending = FALSE
  /\ boot = [at |-> "no", captured |-> FALSE]
  /\ permit = None
  /\ LET s == CHOOSE s \in Sockets : TRUE
     IN  /\ conn = [state |-> "connected", owner |-> s]
         /\ hand = [[r \in Sockets |-> NoHandler] EXCEPT ![s].at = "serving"]
         /\ run = [NoConnection EXCEPT !.sock = s, !.at = "serving"]
  /\ up = [s \in Sockets |-> <<>>]
  /\ down = [s \in Sockets |-> <<>>]
  /\ journal = Empty
  /\ started = [l \in Leases |-> 0]
  /\ produced = [l \in Leases |-> "none"]
  /\ faults = 0

Fault == faults < MaxFaults /\ faults' = faults + 1

Outstanding == \E l \in Leases : lease[l].state \in Live

AdmissionFree ==
  /\ boot.at # "finish"
  /\ \A s \in Sockets : hand[s].at \notin Resuming

\* Frames are written while the other end is there to read them.
ToRunner(s, frames) == down' = IF run.sock = s THEN [down EXCEPT ![s] = @ \o frames] ELSE down
ToDaemon(frames) ==
  up' = IF hand[run.sock].at \notin {"none", "propagate"}
        THEN [up EXCEPT ![run.sock] = @ \o frames] ELSE up

---------------------------------------------------------------------------
(* Connection epochs. *)

\* transition_connection: a stale epoch and a settled connection change
\* nothing; a shutdown that leaves a lease outstanding is a loss.
Transitioned(s, to) ==
  IF conn.owner = s /\ conn.state \in Up
  THEN [conn EXCEPT !.state = IF to = "shutdown" /\ Outstanding THEN "lost" ELSE to]
  ELSE conn

\* append_runner_connection_loss_epoch: no earlier offer is intact any more.
LossEpoch(newconn) ==
  IF newconn.state = "lost" /\ conn.state # "lost"
  THEN /\ lease' = [l \in Leases |-> [lease[l] EXCEPT !.intact = FALSE]]
       /\ pending' = TRUE
  ELSE UNCHANGED <<lease, pending>>

\* The handler records the transition, propagates a loss and ends.
EndHandler(s, to) ==
  LET newconn == Transitioned(s, to)
      loses   == conn.owner = s /\ newconn.state = "lost"
  IN  /\ conn' = newconn
      /\ LossEpoch(newconn)
      /\ hand' = [hand EXCEPT ![s] =
                    IF loses THEN [NoHandler EXCEPT !.at = "propagate"] ELSE NoHandler]
      /\ up' = [up EXCEPT ![s] = <<>>]

\* Closes without a transition.
CloseHandler(s) ==
  /\ hand' = [hand EXCEPT ![s] = NoHandler]
  /\ up' = [up EXCEPT ![s] = <<>>]

\* Mutant: every lost lease is taken for one that never reached a runner.
LostState_unclaimed(state) == "lost_unclaimed"

\* persist_runner_loss_lease_and_wait.
LostState(state) == IF state = "offered" THEN "lost_unclaimed" ELSE "lost_claimed"

Settled(state, end) == [NoLease EXCEPT !.state = state, !.end = end]

\* propagate_connection_loss_session: the sessions pinned before the loss.
Propagated ==
  [l \in Leases |->
     IF lease[l].state \in Live /\ ~lease[l].intact
     THEN Settled(LostState(lease[l].state), "none")
     ELSE lease[l]]

Propagate(s) ==
  /\ hand[s].at \in {"propagate", "resolve"}
  /\ lease' = Propagated
  /\ pending' = FALSE
  /\ hand' = [hand EXCEPT ![s] =
                IF @.at = "resolve" THEN [@ EXCEPT !.at = "again"] ELSE NoHandler]
  /\ UNCHANGED <<conn, boot, permit, up, down, runner, faults>>

---------------------------------------------------------------------------
(* Dispatch. *)

\* Mutant: the offer is made without the admission lock.
Offer_unlocked(l) ==
  /\ boot.at = "no" /\ permit = None
  /\ conn.state = "connected"
  /\ lease[l].state = "none"
  /\ \A o \in Leases : o < l => lease[o].state # "none"
  /\ lease' = [lease EXCEPT ![l] = [NoLease EXCEPT !.state = "offered",
                                      !.fresh = TRUE, !.intact = TRUE]]
  /\ permit' = l
  /\ UNCHANGED <<conn, pending, boot, hand, up, down, runner, faults>>

\* RunnerDispatchService::execute_admitted over offer_tool_dispatch.
Offer(l) ==
  /\ boot.at = "no" /\ permit = None
  /\ AdmissionFree
  /\ conn.state = "connected"
  /\ lease[l].state = "none"
  /\ \A o \in Leases : o < l => lease[o].state # "none"
  /\ lease' = [lease EXCEPT ![l] = [NoLease EXCEPT !.state = "offered",
                                      !.fresh = TRUE, !.intact = TRUE]]
  /\ permit' = l
  /\ UNCHANGED <<conn, pending, boot, hand, up, down, runner, faults>>

\* wait_for_lease: the detached task keeps the permit until the lease ends.
WaitForLease ==
  /\ permit # None
  /\ lease[permit].state \in Final
  /\ permit' = None
  /\ UNCHANGED <<durable, boot, hand, up, down, runner, faults>>

---------------------------------------------------------------------------
(* Resume admission. *)

Of(inv) == lease[inv.lease]

\* The lease still belongs to an unbroken connection.
Held(inv) == Of(inv).state \in Live /\ Of(inv).intact /\ conn.state \in Up

\* An outstanding lease that the runner's inventory leaves out.
Omits(inv) == \E l \in Leases \ {inv.lease} : lease[l].state \in Live

\* Mutant: evidence that is recorded already is refused.
Records_strict(inv) ==
  \/ inv.phase = "refused" /\ Held(inv) /\ Of(inv).state = "offered"
  \/ inv.end # "none" /\ Held(inv) /\ Of(inv).state = "claimed"

\* The evidence is recorded already, or is recorded now.
Records(inv) ==
  \/ /\ inv.phase = "refused"
     /\ \/ Of(inv).state \in {"refused", "lost_unclaimed"}
        \/ Held(inv) /\ Of(inv).state = "offered"
  \/ /\ inv.end # "none"
     /\ \/ Of(inv).state = "completed" /\ Of(inv).end = inv.end
        \/ Held(inv) /\ Of(inv).state = "claimed"

\* The dispatch may be repeated: execution has not started.
Awaits(inv) ==
  /\ Held(inv) /\ Of(inv).state = "claimed"
  /\ inv.phase \in {"waiting", "received"}

\* Only the loss of the connection can settle the lease.
Breaks(inv) ==
  \/ Of(inv).state \in Live /\ ~Held(inv)
  \/ /\ Held(inv) /\ Of(inv).state = "claimed"
     /\ inv.phase = "may_have_started" /\ inv.end = "none"

\* Mutant: execution that may have started is taken for a known failure.
Recorded_failed(inv) ==
  IF inv.phase = "may_have_started" /\ Held(inv)
  THEN [lease EXCEPT ![inv.lease] =
          Settled("completed", IF inv.end = "none" THEN "failed" ELSE inv.end)]
  ELSE lease

\* record_tool_lease_result_in and record_tool_lease_failure_in: the lease
\* and the physical attempt end in one transaction.
Recorded(inv) ==
  IF inv # Empty /\ Records(inv)
  THEN [lease EXCEPT ![inv.lease] =
          Settled(IF inv.phase = "refused" THEN "refused" ELSE "completed", inv.end)]
  ELSE lease

\* reconcile_tool_resume answers; "invalid" is its error.
Outcome(inv) ==
  IF inv = Empty THEN IF Omits(inv) THEN "lose" ELSE "empty"
  ELSE IF ~(Records(inv) \/ Awaits(inv) \/ Breaks(inv) \/ Of(inv).state \in Lost) THEN "invalid"
  ELSE IF Omits(inv) \/ Breaks(inv) THEN "lose"
  ELSE IF Records(inv) THEN "recorded"
  ELSE IF Awaits(inv) THEN "await" ELSE "lost"

\* The first reconciliation takes the admission lock; the second one follows
\* the loss it called for, and may not call for another.
Reconcile(s) ==
  LET outcome == Outcome(hand[s].inv)
  IN  /\ \/ hand[s].at = "hello" /\ AdmissionFree
         \/ hand[s].at = "again"
      /\ lease' = Recorded(hand[s].inv)
      /\ hand' = [hand EXCEPT ![s] =
                    IF outcome = "invalid" \/ (outcome = "lose" /\ @.at = "again")
                    THEN NoHandler
                    ELSE [@ EXCEPT !.at = IF outcome = "lose" THEN "lose" ELSE "open",
                                   !.out = outcome]]
      /\ UNCHANGED <<conn, pending, boot, permit, up, down, runner, faults>>

\* resolve_resume_loss: the newest epoch is lost, whoever holds it.
ResolveLoss(s) ==
  LET newconn == IF conn.state \in Up THEN [conn EXCEPT !.state = "lost"] ELSE conn
  IN  /\ hand[s].at = "lose"
      /\ conn' = newconn
      /\ LossEpoch(newconn)
      /\ hand' = [hand EXCEPT ![s] =
                    IF newconn.state = "lost" THEN [@ EXCEPT !.at = "resolve"] ELSE NoHandler]
      /\ UNCHANGED <<boot, permit, up, down, runner, faults>>

\* serve_connection keeps the awaited lease busy and answers the runner.
Serving(s, out) == [NoHandler EXCEPT !.at = "serving",
                                    !.busy = IF out = "await" THEN hand[s].inv.lease ELSE None]

\* open_connection, a new epoch that fences every earlier socket and offer.
OpenConnection(s) ==
  /\ hand[s].at = "open"
  /\ conn' = [state |-> "connected", owner |-> s]
  /\ lease' = [l \in Leases |-> [lease[l] EXCEPT !.fresh = FALSE]]
  /\ boot' = [boot EXCEPT !.captured = FALSE]
  /\ IF hand[s].out = "await"
     THEN hand' = [hand EXCEPT ![s].at = "reread"] /\ UNCHANGED down
     ELSE /\ hand' = [hand EXCEPT ![s] = Serving(s, hand[s].out)]
          /\ ToRunner(s, <<Frame("resumed", hand[s].inv.lease, hand[s].out)>>)
  /\ UNCHANGED <<pending, permit, up, runner, faults>>

\* An awaited lease is read again: a fenced connection may have lost it.
Reread(s) ==
  LET outcome == Outcome(hand[s].inv)
  IN  /\ hand[s].at = "reread"
      /\ \/ /\ outcome \in {"await", "lost"}
            /\ hand' = [hand EXCEPT ![s] = Serving(s, outcome)]
            /\ ToRunner(s, <<Frame("resumed", hand[s].inv.lease, outcome)>>)
            /\ UNCHANGED <<durable, up>>
         \/ /\ outcome = "lose"
            /\ EndHandler(s, "lost")
            /\ UNCHANGED down
         \/ /\ outcome \notin {"await", "lost", "lose"}
            /\ CloseHandler(s)
            /\ UNCHANGED <<durable, down>>
      /\ UNCHANGED <<boot, permit, runner, faults>>

---------------------------------------------------------------------------
(* A handler that serves. *)

\* pending_tool_lease and the offer, unless a lease is busy here.
SendOffer(s) ==
  \E l \in Leases :
    /\ hand[s].at = "serving" /\ hand[s].busy = None
    /\ conn.owner = s /\ lease[l].state = "offered" /\ lease[l].fresh
    /\ hand' = [hand EXCEPT ![s].busy = l]
    /\ ToRunner(s, <<Frame("offer", l, "none")>>)
    /\ UNCHANGED <<durable, boot, permit, up, runner, faults>>

\* validate_connection.
ValidConnection(s, l) ==
  /\ conn.owner = s /\ conn.state \in Up
  /\ \/ lease[l].state \in {"completed", "refused"}
     \/ lease[l].intact /\ (lease[l].state = "claimed" \/ lease[l].fresh)

\* The handler reads frame f of that kind, and goes on serving.
Reads(s, kind, f) == hand[s].at = "serving" /\ f.kind = kind
Taken(s) == up' = [up EXCEPT ![s] = Tail(@)]

\* The claim is recorded already, or is admitted by
\* reject_runner_lease_claim_after_connection_loss: a first claim needs a
\* connection that is not even suspect.
Claims(s, l) ==
  /\ ValidConnection(s, l)
  /\ \/ lease[l].state = "offered" /\ conn.state = "connected"
     \/ lease[l].state = "claimed"

\* claim_tool_lease: the claim commits before the dispatch goes out.
TakeClaim(s, f) ==
  /\ Reads(s, "claim", f)
  /\ \/ /\ Claims(s, f.lease)
        /\ lease' = [lease EXCEPT ![f.lease].state = "claimed"]
        /\ ToRunner(s, <<Frame("claimed", f.lease, "none"), Frame("dispatch", f.lease, "none")>>)
        /\ Taken(s)
        /\ UNCHANGED <<conn, pending, hand>>
     \/ /\ ~Claims(s, f.lease)
        /\ EndHandler(s, "lost")
        /\ UNCHANGED down
  /\ UNCHANGED <<boot, permit, runner, faults>>

\* Mutant: a result is taken for a lease whose connection was lost.
Completes_late(s, f) ==
  \/ lease[f.lease].state = "completed" /\ lease[f.lease].end = f.end
  \/ lease[f.lease].state \in {"claimed", "lost_claimed"}

\* The result is new, or the one that is recorded.
Completes(s, f) ==
  /\ ValidConnection(s, f.lease)
  /\ \/ lease[f.lease].state = "completed" /\ lease[f.lease].end = f.end
     \/ lease[f.lease].state = "claimed"

\* record_tool_lease_result.
TakeResult(s, f) ==
  /\ Reads(s, "result", f)
  /\ \/ /\ Completes(s, f)
        /\ lease' = [lease EXCEPT ![f.lease] = Settled("completed", f.end)]
        /\ hand' = [hand EXCEPT ![s].busy = IF @ = f.lease THEN None ELSE @]
        /\ ToRunner(s, <<Frame("recorded", f.lease, "none")>>)
        /\ Taken(s)
        /\ UNCHANGED <<conn, pending>>
     \/ /\ ~Completes(s, f)
        /\ EndHandler(s, "lost")
        /\ UNCHANGED down
  /\ UNCHANGED <<boot, permit, runner, faults>>

\* record_tool_lease_failure; its rejection leaves the connection as it is.
TakeRefusal(s, f) ==
  LET valid == ValidConnection(s, f.lease) /\ lease[f.lease].state \in {"offered", "refused"}
  IN  /\ Reads(s, "refusal", f)
      /\ \/ /\ valid
            /\ lease' = [lease EXCEPT ![f.lease] = Settled("refused", "none")]
            /\ hand' = [hand EXCEPT ![s].busy = IF @ = f.lease THEN None ELSE @]
            /\ ToRunner(s, <<Frame("refusal_recorded", f.lease, "none")>>)
            /\ Taken(s)
         \/ /\ ~valid
            /\ CloseHandler(s)
            /\ UNCHANGED <<lease, down>>
      /\ UNCHANGED <<conn, pending, boot, permit, runner, faults>>

TakeShutdown(s, f) ==
  /\ Reads(s, "shutdown", f)
  /\ EndHandler(s, "shutdown")
  /\ UNCHANGED <<boot, permit, down, runner, faults>>

TakeFrame(s) ==
  /\ up[s] # <<>>
  /\ LET f == Head(up[s]) IN
    TakeClaim(s, f) \/ TakeResult(s, f) \/ TakeRefusal(s, f) \/ TakeShutdown(s, f)

\* The runner has left this socket: the read ends or a write fails.
HandlerEof(s) ==
  /\ hand[s].at = "serving" /\ run.sock # s
  /\ EndHandler(s, "lost")
  /\ UNCHANGED <<boot, permit, down, runner, faults>>

\* HeartbeatState: one miss makes the connection suspect, an answer undoes it,
\* and the third miss loses it.
Heartbeat(s) ==
  /\ hand[s].at = "serving" /\ conn.owner = s /\ conn.state \in Up
  /\ conn' = [conn EXCEPT !.state = IF @ = "suspect" THEN "connected" ELSE "suspect"]
  /\ UNCHANGED <<lease, pending, boot, permit, hand, up, down, runner, faults>>

\* An acknowledgement on a fenced socket is rejected as stale.
HeartbeatStale(s) ==
  /\ hand[s].at = "serving" /\ conn.owner # s
  /\ CloseHandler(s)
  /\ UNCHANGED <<durable, boot, permit, down, runner, faults>>

HeartbeatTimeout(s) ==
  /\ hand[s].at = "serving" /\ Fault
  /\ EndHandler(s, "lost")
  /\ UNCHANGED <<boot, permit, down, runner>>

\* A failed statement ends the handler with nothing recorded.
HandlerFails(s) ==
  /\ hand[s].at \notin {"none", "hello"} /\ Fault
  /\ CloseHandler(s)
  /\ UNCHANGED <<durable, boot, permit, down, runner>>

---------------------------------------------------------------------------
(* The daemon stops and starts. *)

\* The handler's part of an orderly stop; the runner is told only when
\* nothing is outstanding.
DaemonShutdown(s) ==
  /\ hand[s].at = "serving" /\ Fault
  /\ EndHandler(s, "shutdown")
  /\ IF conn.owner = s /\ conn'.state = "shutdown"
     THEN ToRunner(s, <<Frame("shutdown", None, "none")>>) ELSE UNCHANGED down
  /\ UNCHANGED <<boot, permit, runner>>

\* The process is gone.  The next one loads the heads that are not terminal
\* and reconciles them before the dispatch service runs.
DaemonCrash ==
  /\ Fault
  /\ hand' = [s \in Sockets |-> NoHandler]
  /\ up' = [s \in Sockets |-> <<>>]
  /\ down' = [s \in Sockets |-> <<>>]
  /\ permit' = None
  /\ conn' = [conn EXCEPT !.owner = None]
  /\ boot' = [at |-> "reconcile", captured |-> conn.state \in Up]
  /\ UNCHANGED <<lease, pending, runner>>

BootPropagate ==
  /\ boot.at \in {"reconcile", "finish"}
  /\ pending
  /\ lease' = Propagated
  /\ pending' = FALSE
  /\ UNCHANGED <<conn, boot, permit, hand, up, down, runner, faults>>

\* Mutant: startup does not wait for the leases a runner holds.
BootSettled_early ==
  LET newconn == IF boot.captured /\ conn.state \in Up THEN [conn EXCEPT !.state = "lost"] ELSE conn
  IN  /\ boot.at = "reconcile" /\ AdmissionFree
      /\ conn' = newconn
      /\ LossEpoch(newconn)
      /\ boot' = [at |-> "finish", captured |-> FALSE]
      /\ UNCHANGED <<permit, hand, up, down, runner, faults>>

\* reconcile_startup takes the admission lock when no claimed lease is left
\* and closes the connections of the process before, if still the newest.
BootSettled ==
  LET newconn == IF boot.captured /\ conn.state \in Up THEN [conn EXCEPT !.state = "lost"] ELSE conn
  IN  /\ boot.at = "reconcile" /\ AdmissionFree
      /\ \A l \in Leases : lease[l].state # "claimed"
      /\ conn' = newconn
      /\ LossEpoch(newconn)
      /\ boot' = [at |-> "finish", captured |-> FALSE]
      /\ UNCHANGED <<permit, hand, up, down, runner, faults>>

BootDone ==
  /\ boot.at = "finish" /\ ~pending
  /\ boot' = [at |-> "no", captured |-> FALSE]
  /\ UNCHANGED <<durable, permit, hand, up, down, runner, faults>>

---------------------------------------------------------------------------
(* The runner. *)

\* The reconnect loop: a new socket, and the journal as its inventory.
Connect(s) ==
  /\ run.at = "idle" /\ hand[s].at = "none"
  /\ run' = [NoConnection EXCEPT !.sock = s, !.at = "hello"]
  /\ hand' = [hand EXCEPT ![s] = [NoHandler EXCEPT !.at = "hello", !.inv = journal]]
  /\ conn' = [conn EXCEPT !.owner = IF @ = s THEN None ELSE @]
  /\ UNCHANGED <<lease, pending, boot, permit, up, down, journal, started, produced, faults>>

\* The runner receives frame f of that kind.
Gets(kind, f) == f.kind = kind /\ down' = [down EXCEPT ![run.sock] = Tail(@)]

Answers(kind, l, end) == ToDaemon(<<Frame(kind, l, end)>>)

\* The runner's end of the socket is gone, and with it the execution.
Leaves == run' = NoConnection /\ down' = [down EXCEPT ![run.sock] = <<>>]

\* establish applies the directive for what the journal holds.
GetResumed(f) ==
  /\ run.at = "hello" /\ Gets("resumed", f)
  /\ run' = [run EXCEPT !.at = "serving", !.resumed = IF f.end = "await" THEN f.lease ELSE None]
  /\ IF f.end = "await"
     THEN Answers("claim", f.lease, "none") /\ UNCHANGED journal
     ELSE journal' = Empty /\ UNCHANGED up
  /\ UNCHANGED <<durable, boot, permit, hand, started, produced, faults>>

\* What a dispatch must find, and what the journal then says.
Dispatchable(l) ==
  /\ run.exec = None
  /\ run.resumed = l \/ run.offer = l
  /\ journal.lease = l /\ journal.end = "none"
  /\ journal.phase = "waiting" \/ (run.resumed = l /\ journal.phase = "received")

Dispatches(l) ==
  /\ Dispatchable(l)
  /\ journal' = [journal EXCEPT !.phase = "received"]
  /\ run' = [run EXCEPT !.at = "dispatching", !.deferred = None, !.scanned = TRUE]

\* advance_local once the startup scan is complete: the deferred dispatch, or
\* the claim of an offer that had to wait.
ScanDone ==
  LET unclaimed == run.offer # None /\ ~run.claimed /\ journal = Empty
  IN  /\ run.at = "serving" /\ ~run.scanned
      /\ \/ run.deferred # None /\ Dispatches(run.deferred) /\ UNCHANGED up
         \/ /\ run.deferred = None
            /\ run' = [run EXCEPT !.scanned = TRUE, !.claimed = @ \/ unclaimed]
            /\ IF unclaimed THEN Answers("claim", run.offer, "none") ELSE UNCHANGED up
            /\ UNCHANGED journal
      /\ UNCHANGED <<durable, boot, permit, hand, down, started, produced, faults>>

\* LeaseOffer: refused durably, or admitted and claimed.
GetOffer(f) ==
  /\ run.at = "serving" /\ Gets("offer", f)
  /\ run.offer = None /\ journal = Empty
  /\ \/ /\ journal' = [lease |-> f.lease, phase |-> "refused", end |-> "none"]
        /\ Answers("refusal", f.lease, "none")
        /\ UNCHANGED run
     \/ /\ run' = [run EXCEPT !.offer = f.lease, !.claimed = run.scanned]
        /\ IF run.scanned THEN Answers("claim", f.lease, "none") ELSE UNCHANGED up
        /\ UNCHANGED journal
  /\ UNCHANGED <<durable, boot, permit, hand, started, produced, faults>>

GetClaimed(f) ==
  /\ run.at = "serving" /\ Gets("claimed", f)
  /\ run.resumed = f.lease \/ run.offer = f.lease
  /\ journal' = IF run.resumed = f.lease THEN journal
                ELSE [lease |-> f.lease, phase |-> "waiting", end |-> "none"]
  /\ UNCHANGED <<durable, boot, permit, hand, up, run, started, produced, faults>>

GetDispatch(f) ==
  /\ run.at = "serving" /\ Gets("dispatch", f)
  /\ \/ run.scanned /\ Dispatches(f.lease)
     \/ /\ ~run.scanned
        /\ run' = [run EXCEPT !.deferred = f.lease]
        /\ UNCHANGED journal
  /\ UNCHANGED <<durable, boot, permit, hand, up, started, produced, faults>>

\* Mutant: the second phase is not journalled.
JournalStart_skipped ==
  /\ run.at = "dispatching"
  /\ run' = [run EXCEPT !.at = "starting"]
  /\ UNCHANGED <<durable, boot, permit, hand, up, down, journal, started, produced, faults>>

\* The second fsync of a dispatch, before anything runs.
JournalStart ==
  /\ run.at = "dispatching"
  /\ journal' = [journal EXCEPT !.phase = "may_have_started"]
  /\ run' = [run EXCEPT !.at = "starting"]
  /\ UNCHANGED <<durable, boot, permit, hand, up, down, started, produced, faults>>

Start ==
  /\ run.at = "starting"
  /\ run' = [run EXCEPT !.at = "serving", !.exec = journal.lease, !.resumed = None]
  /\ started' = [started EXCEPT ![journal.lease] = @ + 1]
  /\ UNCHANGED <<durable, boot, permit, hand, up, down, journal, produced, faults>>

\* Mutant: the result leaves without the journal.
Finish_forgets(e) ==
  /\ run.at = "serving" /\ run.exec # None
  /\ journal' = Empty
  /\ produced' = [produced EXCEPT ![run.exec] = e]
  /\ run' = [run EXCEPT !.exec = None]
  /\ Answers("result", run.exec, e)
  /\ UNCHANGED <<durable, boot, permit, hand, down, started, faults>>

\* Mutant: the finished execution is kept.
Finish_kept(e) ==
  /\ run.at = "serving" /\ run.exec # None
  /\ journal' = [journal EXCEPT !.end = e]
  /\ produced' = [produced EXCEPT ![run.exec] = e]
  /\ Answers("result", run.exec, e)
  /\ UNCHANGED <<durable, boot, permit, hand, down, run, started, faults>>

\* The execution ends: the result is journalled, then sent.
Finish(e) ==
  /\ run.at = "serving" /\ run.exec # None
  /\ journal' = [journal EXCEPT !.end = e]
  /\ produced' = [produced EXCEPT ![run.exec] = e]
  /\ run' = [run EXCEPT !.exec = None]
  /\ Answers("result", run.exec, e)
  /\ UNCHANGED <<durable, boot, permit, hand, down, started, faults>>

\* Mutant: the second answer finds nothing to acknowledge.
Acknowledges_once(l) ==
  journal.lease = l /\ (journal.end # "none" \/ journal.phase = "refused")

\* ResultRecorded and OperationFailureRecorded: the second answer to evidence
\* that was sent twice is ignored.
Acknowledges(l) ==
  \/ run.last = l
  \/ journal.lease = l /\ (journal.end # "none" \/ journal.phase = "refused")

GetRecorded(kind, f) ==
  /\ run.at = "serving" /\ Gets(kind, f)
  /\ Acknowledges(f.lease)
  /\ \/ run.last = f.lease /\ UNCHANGED <<journal, run>>
     \/ /\ run.last # f.lease
        /\ journal' = Empty
        /\ run' = [run EXCEPT !.last = f.lease, !.offer = IF kind = "recorded" THEN None ELSE @]
  /\ UNCHANGED <<durable, boot, permit, hand, up, started, produced, faults>>

GetShutdown(f) ==
  /\ run.at = "serving" /\ f.kind = "shutdown"
  /\ Leaves
  /\ UNCHANGED <<durable, boot, permit, hand, up, journal, started, produced, faults>>

\* A heartbeat is answered with whatever evidence is still retained.
Resend ==
  /\ run.at = "serving" /\ Len(up[run.sock] \o down[run.sock]) < MaxFrames
  /\ \/ journal.end # "none" /\ Answers("result", journal.lease, journal.end)
     \/ journal.phase = "refused" /\ Answers("refusal", journal.lease, "none")
  /\ UNCHANGED <<durable, boot, permit, hand, down, runner, faults>>

\* serve_until_shutdown: an asked shutdown waits for what is unsettled, as
\* far as the runner knows.
RunnerShutdown ==
  /\ run.at = "serving" /\ run.scanned
  /\ run.offer = None /\ run.exec = None /\ journal = Empty
  /\ Fault
  /\ Answers("shutdown", None, "none")
  /\ Leaves
  /\ UNCHANGED <<durable, boot, permit, hand, journal, started, produced>>

\* The connection ends under the runner, or the process dies.  Either way the
\* execution is aborted and only the journal is left.
RunnerClosed ==
  /\ run.sock # None /\ hand[run.sock].at = "none"
  /\ Leaves
  /\ UNCHANGED <<durable, boot, permit, hand, up, journal, started, produced, faults>>

RunnerCrash ==
  /\ run.sock # None /\ Fault
  /\ Leaves
  /\ UNCHANGED <<durable, boot, permit, hand, up, journal, started, produced>>

---------------------------------------------------------------------------

Resume(s) == Reconcile(s) \/ ResolveLoss(s) \/ OpenConnection(s) \/ Reread(s)

HandlerStep(s) ==
  \/ Resume(s) \/ Propagate(s) \/ SendOffer(s) \/ TakeFrame(s)
  \/ HandlerEof(s) \/ HeartbeatStale(s)

Boot == BootPropagate \/ BootSettled \/ BootDone

GetFrame ==
  /\ run.sock # None /\ down[run.sock] # <<>>
  /\ LET f == Head(down[run.sock]) IN
    \/ GetResumed(f) \/ GetOffer(f) \/ GetClaimed(f) \/ GetDispatch(f)
    \/ GetRecorded("recorded", f) \/ GetRecorded("refusal_recorded", f) \/ GetShutdown(f)

RunnerStep ==
  \/ GetFrame \/ ScanDone \/ JournalStart \/ Start \/ RunnerClosed
  \/ \E e \in Ends : Finish(e)

Faulty(s) ==
  HeartbeatTimeout(s) \/ HandlerFails(s) \/ DaemonShutdown(s)

Next ==
  \/ \E l \in Leases : Offer(l)
  \/ WaitForLease \/ Boot \/ RunnerStep \/ Resend
  \/ \E s \in Sockets : HandlerStep(s) \/ Heartbeat(s) \/ Faulty(s) \/ Connect(s)
  \/ DaemonCrash \/ RunnerShutdown \/ RunnerCrash

Spec == Init /\ [][Next]_vars

(***************************************************************************)
(* Fairness.  Every task that can run does: the handlers, the startup      *)
(* reconciliation, the runner.  The runner's supervisor restarts it and it *)
(* reconnects for ever.  Nothing is assumed of faults, heartbeats, offers  *)
(* or resent evidence.                                                     *)
(***************************************************************************)
Fairness ==
  /\ \A s \in Sockets : WF_vars(HandlerStep(s))
  /\ WF_vars(Boot) /\ WF_vars(GetFrame) /\ WF_vars(ScanDone)
  /\ WF_vars(JournalStart) /\ WF_vars(Start) /\ WF_vars(RunnerClosed)
  /\ WF_vars(\E e \in Ends : Finish(e))
  /\ WF_vars(\E s \in Sockets : Connect(s))

FairSpec == Spec /\ Fairness

-----------------------------------------------------------------------------

\* Whatever frames are repeated, delayed or lost and whichever side dies at
\* whichever point of a dispatch, a lease is executed at most once: the phase
\* journalled before the start keeps a resumed dispatch from being repeated.
\* And only a claimed lease is: one that the daemon gives to another runner,
\* or reports as never run (lost_unclaimed, refused), reaches the executor
\* neither before nor after it is settled so.
ClaimedRunsOnce ==
  \A l \in Leases :
    /\ started[l] <= 1
    /\ started[l] > 0 => lease[l].state \in {"claimed", "completed", "lost_claimed"}

\* The end that the daemon records is the one the execution produced, however
\* the evidence travelled (a result frame, a resent one, a resume), and it
\* leaves the runner's journal only when the daemon has recorded it or has
\* recorded the loss of the lease.
EvidenceKept ==
  \A l \in Leases :
    /\ lease[l].state = "completed" => lease[l].end = produced[l]
    /\ produced[l] # "none" /\ ~(journal.lease = l /\ journal.end # "none")
         => lease[l].state \in {"completed", "lost_claimed"}

\* The runner holds one lease at a time across daemon restarts, and an offer
\* that may still be taken belongs to the newest connection.
OneCurrentLease ==
  /\ \A l, m \in Leases : lease[l].state \in Live /\ lease[m].state \in Live => l = m
  /\ \A l \in Leases : lease[l].state = "offered" /\ lease[l].intact => lease[l].fresh

\* The daemon never sends a frame that the runner answers by exiting with a
\* protocol violation, whatever was resent or deferred before.
FramesAccepted ==
  \A s \in Sockets : run.sock = s /\ run.at = "serving" /\ down[s] # <<>> =>
    LET f == Head(down[s])
    IN  /\ f.kind = "offer" => run.offer = None /\ journal = Empty
        /\ f.kind = "claimed" => run.resumed = f.lease \/ (run.offer = f.lease /\ journal = Empty)
        /\ f.kind = "dispatch" =>
             IF run.scanned THEN Dispatchable(f.lease) ELSE run.deferred \in {None, f.lease}
        /\ f.kind \in {"recorded", "refusal_recorded"} => Acknowledges(f.lease)
        /\ f.kind # "resumed"

\* A settled lease stays as it was settled; only the refusal that reaches the
\* daemon after the loss of an unclaimed lease replaces it.
SettledIsFinal ==
  [][\A l \in Leases : lease[l].state \in Final =>
       \/ lease'[l].state = lease[l].state /\ lease'[l].end = lease[l].end
       \/ lease[l].state = "lost_unclaimed" /\ lease'[l].state = "refused"]_vars

\* An offered lease is settled in the end, and with it the tool call's wait;
\* and the runner's journal is cleared: no inventory is refused for ever.
LeaseSettles ==
  /\ \A l \in Leases : lease[l].state \in Live ~> lease[l].state \in Final
  /\ journal # Empty ~> journal = Empty

-----------------------------------------------------------------------------
(* The parts of the inductive invariant: types, and the daemon's rules. *)

\* What a journal, and so an inventory, can hold.
Inventories ==
  {j \in [lease : Leases \cup {None}, phase : Phases, end : Ends \cup {"none"}] :
     /\ j.phase = "none" => j = Empty
     /\ j.phase # "none" => j.lease # None
     /\ j.end # "none" => j.phase = "may_have_started"}

LeaseRecords ==
  [state : {"none"} \cup Live \cup Final, fresh : BOOLEAN, intact : BOOLEAN,
   end : Ends \cup {"none"}]

Connections == [state : Up \cup {"shutdown", "lost"}, owner : Sockets \cup {None}]

Handlers ==
  [at : {"none", "hello", "serving", "propagate"} \cup Resuming, inv : Inventories,
   out : {"none", "empty", "recorded", "await", "lose", "lost"},
   busy : Leases \cup {None}]

RunStates ==
  [sock : Sockets \cup {None}, at : {"idle", "hello", "serving", "dispatching", "starting"},
   offer : Leases \cup {None}, claimed : BOOLEAN, resumed : Leases \cup {None},
   deferred : Leases \cup {None}, exec : Leases \cup {None}, last : Leases \cup {None},
   scanned : BOOLEAN]

UpFrames ==
  {Frame(kind, l, "none") : kind \in {"claim", "refusal"}, l \in Leases}
  \cup {Frame("result", l, e) : l \in Leases, e \in Ends}
  \cup {Frame("shutdown", None, "none")}

DownFrames ==
  {Frame(kind, l, "none") : kind \in {"offer", "claimed", "dispatch", "recorded",
                                      "refusal_recorded"}, l \in Leases}
  \cup {Frame("resumed", l, "await") : l \in Leases}
  \cup {Frame("resumed", l, out) : l \in Leases \cup {None}, out \in {"empty", "recorded", "lost"}}
  \cup {Frame("shutdown", None, "none")}

DaemonTypes ==
  /\ lease \in [Leases -> LeaseRecords]
  /\ conn \in Connections
  /\ pending \in BOOLEAN
  /\ boot \in [at : {"no", "reconcile", "finish"}, captured : BOOLEAN]
  /\ permit \in Leases \cup {None}
  /\ hand \in [Sockets -> Handlers]

FrameTypes == up \in [Sockets -> Seq(UpFrames)] /\ down \in [Sockets -> Seq(DownFrames)]

RunnerTypes ==
  /\ journal \in Inventories
  /\ run \in RunStates
  /\ IF run.sock = None THEN run = NoConnection ELSE run.at # "idle"
  /\ run.exec # None => /\ run.exec = journal.lease /\ run.at = "serving"
                        /\ journal.phase = "may_have_started"
  /\ run.at = "dispatching" => journal.phase = "received"
  /\ run.at = "starting" => journal.phase = "may_have_started"

\* The admission lock has one holder.
AdmissionExclusive ==
  /\ \A s, r \in Sockets : hand[s].at \in Resuming /\ hand[r].at \in Resuming => s = r
  /\ boot.at = "finish" => \A s \in Sockets : hand[s].at \notin Resuming

\* A lease whose connection was lost is on its way to be settled, and no
\* other lease is outstanding while no connection is up.
LossPending ==
  \A l \in Leases : lease[l].state \in Live =>
    /\ ~lease[l].intact => pending
    /\ conn.state # "shutdown"
    /\ conn.state = "lost" => ~lease[l].intact

\* The permit is the outstanding lease's, and startup begins without one.
PermitHolds ==
  /\ boot.at # "no" => permit = None
  /\ \A l \in Leases : lease[l].state \in Live /\ boot.at = "no" => permit = l

\* What startup leaves to be propagated when it releases the lock.
BootCloses ==
  \A l \in Leases : lease[l].state \in Live =>
    /\ boot.at = "finish" => ~lease[l].intact
    /\ boot.at = "reconcile" /\ ~boot.captured /\ conn.state \in Up
         => ~(lease[l].state = "offered" /\ lease[l].intact)

\* No offer is left when a new connection opens.
OffersFenced ==
  \A s \in Sockets, l \in Leases :
    hand[s].at \in {"open", "reread"} => lease[l].state # "offered"

\* A refusal carries no end.
RefusedHasNoEnd ==
  \A l \in Leases : lease[l].state = "refused" => lease[l].end = "none"

LeaseRules ==
  /\ OneCurrentLease /\ AdmissionExclusive /\ LossPending
  /\ PermitHolds /\ BootCloses /\ OffersFenced /\ RefusedHasNoEnd

LeaseInv == DaemonTypes /\ FrameTypes /\ RunnerTypes /\ LeaseRules

-----------------------------------------------------------------------------
(* The lease on its way through the runner. *)

\* A frame of that kind about lease l is in flight, and at most one is.
Has(q, kind, l) == \E i \in DOMAIN q : q[i].kind = kind /\ q[i].lease = l

Once(q, kind, l) ==
  \A i, j \in DOMAIN q :
    /\ q[i].kind = kind /\ q[i].lease = l
    /\ q[j].kind = kind /\ q[j].lease = l
    => i = j

\* An end of a socket that is gone leaves no frames to read, and a runner
\* that waits for its resumption has sent its journal and nothing else.
ClosedEnds ==
  /\ \A s \in Sockets :
       /\ s # run.sock => down[s] = <<>>
       /\ hand[s].at # "serving" => up[s] = <<>>
       /\ hand[s].at = "none" => hand[s] = NoHandler
       /\ run.sock = s /\ hand[s].at \in {"hello"} \cup Resuming =>
            /\ run.at = "hello" /\ hand[s].inv = journal /\ down[s] = <<>>
  /\ run.at = "hello" =>
       /\ run = [NoConnection EXCEPT !.sock = run.sock, !.at = "hello"]
       /\ up[run.sock] = <<>>

\* The daemon's answers to evidence.
Acks == {"recorded", "refusal_recorded"}

\* The phases, and the states of a lease, in which it was claimed.
ClaimPhases == {"waiting", "received", "may_have_started"}
MayRun == {"claimed", "completed", "lost_claimed"}

\* The runner has neither done nor seen anything about lease l but its offer.
Untouched(l) ==
  /\ started[l] = 0 /\ produced[l] = "none"
  /\ journal.lease # l
  /\ l \notin {run.offer, run.resumed, run.deferred, run.last}
  /\ \A s \in Sockets :
       /\ hand[s].inv.lease # l
       /\ \A i \in DOMAIN up[s] : up[s][i].lease # l
       /\ \A i \in DOMAIN down[s] : down[s][i].lease = l => down[s][i].kind = "offer"

\* A lease is offered once: an offer that is made or sent again would find a
\* runner that knows nothing of it.
OfferedOnce ==
  \A l \in Leases :
    /\ lease[l].state = "none" =>
         Untouched(l) /\ \A s \in Sockets : hand[s].busy # l /\ ~Has(down[s], "offer", l)
    /\ \A s \in Sockets :
         /\ Has(down[s], "offer", l) =>
              Untouched(l) /\ Once(down[s], "offer", l) /\ lease[l].state \notin MayRun
         /\ /\ lease[l].state = "offered" /\ lease[l].fresh
            /\ conn.owner = s /\ hand[s].at = "serving" /\ hand[s].busy # l
            => Untouched(l) /\ \A r \in Sockets : ~Has(down[r], "offer", l)

\* What shows that the runner has refused a lease, and that it has not.
Refused(l) ==
  \/ lease[l].state = "refused"
  \/ journal.lease = l /\ journal.phase = "refused"
  \/ \E s \in Sockets :
       \/ hand[s].inv.lease = l /\ hand[s].inv.phase = "refused"
       \/ Has(up[s], "refusal", l)
       \/ Has(down[s], "refusal_recorded", l)

Admitted(l) ==
  \/ lease[l].state \in MayRun
  \/ journal.lease = l /\ journal.phase \in ClaimPhases
  \/ run.offer = l
  \/ started[l] > 0
  \/ \E s \in Sockets :
       \/ hand[s].inv.lease = l /\ hand[s].inv.phase \in ClaimPhases
       \/ Has(up[s], "claim", l)
       \/ Has(down[s], "offer", l)

RefusalStands == \A l \in Leases : ~(Refused(l) /\ Admitted(l))

\* What the runner does about a lease once it knows its claim is recorded.
ClaimRecorded ==
  \A l \in Leases :
    \/ lease[l].state \in MayRun
    \/ /\ started[l] = 0
       /\ ~(journal.lease = l /\ journal.phase \in ClaimPhases)
       /\ \A s \in Sockets :
            /\ ~(hand[s].inv.lease = l /\ hand[s].inv.phase \in ClaimPhases)
            /\ ~Has(down[s], "claimed", l)

\* The journal and the runner's connection.
JournalTells ==
  /\ started \in [Leases -> 0 .. 1] /\ produced \in [Leases -> Ends \cup {"none"}]
  /\ \A l \in Leases : produced[l] # "none" => started[l] = 1
  /\ journal.phase \in {"waiting", "received"} \/ run.at = "starting"
       => started[journal.lease] = 0
  /\ run.exec # None => started[run.exec] = 1 /\ produced[run.exec] = "none"
  /\ journal.end # "none" => produced[journal.lease] = journal.end
  /\ run.exec # None \/ run.at \in {"dispatching", "starting"} => journal.end = "none"
  /\ run.resumed # None =>
       /\ journal.lease = run.resumed /\ journal.end = "none"
       /\ journal.phase \in {"waiting", "received"} \/ run.at = "starting"
       /\ run.offer = None /\ run.exec = None

\* An admitted offer is claimed once on its connection, and journalled once.
OfferStage ==
  run.offer # None =>
    LET l == run.offer
        s == run.sock
    IN  /\ journal # Empty => journal.lease = l
        /\ journal = Empty => started[l] = 0
        /\ ~run.claimed =>
             journal = Empty /\ ~Has(up[s], "claim", l) /\ ~Has(down[s], "claimed", l)
        /\ Has(up[s], "claim", l) =>
             journal = Empty /\ ~Has(down[s], "claimed", l) /\ Once(up[s], "claim", l)
        /\ Has(down[s], "claimed", l) => journal = Empty /\ Once(down[s], "claimed", l)

\* What the evidence in flight says was produced, and what the answers to it
\* say was recorded.
EvidenceTrue ==
  /\ \A l \in Leases : lease[l].state = "completed" => lease[l].end # "none"
  /\ \A s \in Sockets :
       /\ \A i \in DOMAIN up[s] : up[s][i].kind = "result" =>
            up[s][i].end # "none" /\ produced[up[s][i].lease] = up[s][i].end
       /\ hand[s].inv.end # "none" => produced[hand[s].inv.lease] = hand[s].inv.end
       /\ \A i \in DOMAIN down[s] :
            /\ down[s][i].kind = "recorded" => lease[down[s][i].lease].state = "completed"
            /\ down[s][i].kind = "refusal_recorded" => lease[down[s][i].lease].state = "refused"

\* The answer to a resumption fits the inventory it is an answer to.
Fits(j, out) ==
  /\ out \in {"empty", "recorded", "await", "lost"}
  /\ out = "await" => j.phase \in {"waiting", "received"}
  /\ out = "empty" => j = Empty
  /\ out \in {"recorded", "lost"} => j # Empty /\ lease[j.lease].state \in Final

ResumeFits ==
  /\ \A s \in Sockets : hand[s].at \in {"open", "reread"} => Fits(hand[s].inv, hand[s].out)
  /\ run.at = "hello" => \A i \in DOMAIN down[run.sock] :
       LET f == down[run.sock][i]
       IN  f.kind = "resumed" => f.lease = journal.lease /\ Fits(journal, f.end)

ExecInv ==
  /\ LeaseInv /\ ClosedEnds /\ OfferedOnce /\ RefusalStands /\ ClaimRecorded
  /\ JournalTells /\ OfferStage /\ EvidenceTrue /\ EvidenceKept /\ ResumeFits

-----------------------------------------------------------------------------
(***************************************************************************)
(* The frames on the runner's connection, in their order: between handler  *)
(* h and the runner r with its journal j, the queue q of frames on their   *)
(* way to the runner and u of those on their way to the daemon.            *)
(***************************************************************************)

\* What the runner sends to have an end recorded.
Evidence == {"result", "refusal"}

\* The leases the runner has taken and not handed back.
Holds(r, j) == {r.offer, j.lease} \ {None}

AckAt(q, i, l)   == q[i].kind \in Acks /\ q[i].lease = l
ProofAt(u, i, l) == u[i].kind \in Evidence /\ u[i].lease = l

\* The handler is busy with what it offered and with what the runner holds,
\* until it has recorded the end of it.
BusyWith(h, q, r, j) ==
  /\ h.at = "serving" =>
       /\ \A i \in DOMAIN q : q[i].kind = "offer" => h.busy = q[i].lease
       /\ r.at # "hello" =>
            \A l \in Holds(r, j) : h.busy = l \/ \E i \in DOMAIN q : AckAt(q, i, l)
       /\ r.at = "hello" =>
            \E i \in DOMAIN q : q[i].kind = "resumed" /\ (q[i].end = "await" => h.busy = j.lease)
  /\ h.busy # None => h.busy # r.last /\ \A i \in DOMAIN q : ~AckAt(q, i, h.busy)

\* A resumption is answered first, once, and before any evidence is; one
\* offer follows the answer that leaves the runner with nothing.
OfferFollows(q, r, j) ==
  /\ \A i \in DOMAIN q : q[i].kind = "resumed" => i = 1 /\ r.at = "hello"
  /\ \A i \in DOMAIN q : q[i].kind \in Acks => r.at # "hello"
  /\ \A i, k \in DOMAIN q : q[i].kind = "offer" /\ q[k].kind = "offer" => i = k
  /\ \A i \in DOMAIN q : q[i].kind = "offer" =>
       IF r.at = "hello"
       THEN \E k \in 1 .. i - 1 : q[k].kind = "resumed" /\ q[k].end # "await"
       ELSE \A l \in Holds(r, j) : \E k \in 1 .. i - 1 : AckAt(q, k, l)

Some(q, kind)   == \E i \in DOMAIN q : q[i].kind = kind
Single(q, kind) == \A i, k \in DOMAIN q : q[i].kind = kind /\ q[k].kind = kind => i = k
Own(q, kind, r) == \A i \in DOMAIN q : q[i].kind = kind => q[i].lease \in {r.offer, r.resumed}

TokenFree(q, u) == ~Some(u, "claim") /\ ~Some(q, "claimed") /\ ~Some(q, "dispatch")

\* The runner is not about to start anything.
Idle(r, j) ==
  \/ r.at # "serving" \/ j.phase \in {"refused", "may_have_started"}
  \/ r.resumed = None /\ (r.offer = None \/ ~r.claimed)

\* A claim, the two frames that answer it and the dispatch deferred are one
\* token, of the lease that the runner is about to start.
OneToken(q, u, r, j) ==
  /\ Idle(r, j) => TokenFree(q, u) /\ r.deferred = None
  /\ Own(u, "claim", r) /\ Own(q, "claimed", r) /\ Own(q, "dispatch", r)
  /\ Single(u, "claim") /\ Single(q, "claimed") /\ Single(q, "dispatch")
  /\ Some(u, "claim") => ~Some(q, "claimed") /\ ~Some(q, "dispatch")
  /\ r.deferred # None => TokenFree(q, u) /\ ~r.scanned
  /\ \A i, k \in DOMAIN q : q[i].kind = "claimed" /\ q[k].kind = "dispatch" => i < k
  /\ Some(q, "dispatch") /\ ~Some(q, "claimed") =>
       j.lease \in {r.offer, r.resumed} /\ j.phase \in {"waiting", "received"}
  /\ r.at = "serving" /\ j.phase = "received" => r.resumed = j.lease

\* Acknowledges, of the runner r with journal j.
Retains(r, j, l) ==
  r.last = l \/ (j.lease = l /\ (j.end # "none" \/ j.phase = "refused"))

\* Evidence in flight, and the answers to it, are about what the journal
\* retains or about what was acknowledged last, and that comes first.
AcksInOrder(q, u, r, j) ==
  /\ \A i \in DOMAIN q : q[i].kind \in Acks => Retains(r, j, q[i].lease)
  /\ \A i \in DOMAIN u : u[i].kind \in Evidence => Retains(r, j, u[i].lease)
  /\ r.last \notin Holds(r, j)
  /\ \A i, k \in DOMAIN q : AckAt(q, i, r.last) /\ AckAt(q, k, j.lease) => i < k
  /\ \A i, k \in DOMAIN u : ProofAt(u, i, r.last) /\ ProofAt(u, k, j.lease) => i < k
  /\ \A i \in DOMAIN u, k \in DOMAIN q : ~(ProofAt(u, i, r.last) /\ AckAt(q, k, j.lease))

Exchange(h, q, u, r, j) ==
  BusyWith(h, q, r, j) /\ OfferFollows(q, r, j) /\ OneToken(q, u, r, j) /\ AcksInOrder(q, u, r, j)

FramesInOrder ==
  run.sock # None =>
    Exchange(hand[run.sock], down[run.sock], up[run.sock], run, journal)

=============================================================================
