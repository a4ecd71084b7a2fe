---------------------------- MODULE TurnLifecycle ----------------------------
(***************************************************************************)
(* The durable turn lifecycle of one session: acceptance of user input,    *)
(* derivation of the queue, activation, model calls, tool execution, and   *)
(* the recovery paths that race them (crates/domain and the transactions   *)
(* of crates/persistence).                                                 *)
(*                                                                         *)
(* Every action that changes durable state is one database transaction     *)
(* that reloads the session under its scheduler row lock.  The clients,    *)
(* the one scheduler pass of the session (SchedulerLoop!OnePassPerSession),*)
(* the recovery task of an expired pass, the liveness watchdogs and the    *)
(* startup scan interleave between transactions.                           *)
(*                                                                         *)
(* A turn is named by the acceptance position of the input that it starts  *)
(* from.  Attempt and call identities are not kept: one pass at a time     *)
(* mints them, and no turn that left the running phase by recovery comes   *)
(* back to it, so the state of the current attempt and call decides what   *)
(* the identity checks of the code decide.                                 *)
(***************************************************************************)
EXTENDS QueueOrder

CONSTANT MaxInputs   \* bound: inputs accepted in one behaviour

ASSUME InputsAssumption == MaxInputs \in Nat \ {0}

Positions == 1 .. MaxInputs
NoTurn    == 0

VARIABLES
  last,      \* the session's last acceptance position
  input,     \* disposition of each accepted input
  bound,     \* steering: the turn the input is bound to
  after,     \* interrupt: the turn it follows immediately, or NoPred
  turn,      \* lifecycle state of the turn the input originates
  lineage,   \* predecessor recorded when the turn started, or NoTurn
  run,       \* execution state of the active turn
  pass,      \* the session's scheduler pass: its turn, what it waits for
  daemon     \* "up" or "down"

facts == <<last, input, bound, after>>
vars  == <<facts, turn, lineage, run, pass, daemon>>

Terminal == {"completed", "refused", "failed", "cancelled", "reconciliation"}

(***************************************************************************)
(* run.phase    the active phase (ActiveTurnPhase)                         *)
(* run.attempt  the current turn attempt                                   *)
(* run.call     the attempt's model call                                   *)
(* run.tool     the open tool round: every attempt ended ("ready"), or the *)
(*              state of its one current tool attempt                      *)
(* pass.op      what the pass is awaiting; it holds its turn's tool        *)
(*              dispatch gate exactly while it awaits an executor          *)
(***************************************************************************)
Runs ==
  [phase   : {"idle", "running", "approval", "recovery", "credential"},
   attempt : {"none", "prepared", "running", "stop"},
   call    : {"none", "prepared", "inflight", "cancelRequested"},
   tool    : {"none", "ready", "prepared", "inflight"}]

Phase(p) == [phase |-> p, attempt |-> "none", call |-> "none", tool |-> "none"]

Idle             == Phase("idle")
AwaitingRecovery == Phase("recovery")
NoPass           == [turn |-> NoTurn, op |-> "none"]

\* One type invariant: the ranges, and that phases keep no live attempt.
TypeOK ==
  /\ last \in 0 .. MaxInputs
  /\ input \in [Positions -> {"absent", "origin", "pending", "consumed",
                              "reclassified"}]
  /\ bound \in [Positions -> Positions \cup {NoTurn}]
  /\ after \in [Positions -> Positions \cup {NoPred}]
  /\ turn \in [Positions -> {"none", "queued", "active"} \cup Terminal]
  /\ lineage \in [Positions -> Positions \cup {NoTurn}]
  /\ run \in Runs
  /\ pass \in [turn : Positions \cup {NoTurn}, op : {"none", "call", "tool"}]
  /\ daemon \in {"up", "down"}
  /\ run.phase = "running" <=> run.attempt # "none"

Init ==
  /\ last = 0
  /\ input = [p \in Positions |-> "absent"]
  /\ bound = [p \in Positions |-> NoTurn]
  /\ after = [p \in Positions |-> NoPred]
  /\ turn = [p \in Positions |-> "none"]
  /\ lineage = [p \in Positions |-> NoTurn]
  /\ run = Idle
  /\ pass = NoPass
  /\ daemon = "up"

---------------------------------------------------------------------------
(* Shared state formulas. *)

Active == {t \in Positions : turn[t] = "active"}

PendingOn(t) == {p \in Positions : input[p] = "pending" /\ bound[p] = t}

GateHeld(t) == pass = [turn |-> t, op |-> "tool"]

QueueFacts(turns, preds) ==
  [t \in {p \in Positions : turns[p] # "none"} |->
     [session |-> 1, turn |-> t, pos |-> t, pred |-> preds[t]]]

Queue == Derive(QueueFacts(turn, after))

(***************************************************************************)
(* A terminal transition of the active turn t.  Every closure reclassifies *)
(* the steering still pending on t, in the same transaction, as ordinary   *)
(* queued turns at the positions it was accepted at.                       *)
(***************************************************************************)
Reclassified(inputs, t) ==
  [p \in Positions |-> IF p \in PendingOn(t) THEN "reclassified" ELSE inputs[p]]

Close(t, disposition, inputs, turns) ==
  /\ input' = Reclassified(inputs, t)
  /\ turn' = [[p \in Positions |->
                 IF p \in PendingOn(t) THEN "queued" ELSE turns[p]]
                    EXCEPT ![t] = disposition]
  /\ run' = Idle

CloseTurn(t, disposition) ==
  /\ Close(t, disposition, input, turn)
  /\ UNCHANGED <<last, bound, after, lineage>>

\* A step of the active turn that does not end it.
Proceed(state) ==
  /\ run' = state
  /\ UNCHANGED <<facts, turn, lineage>>

---------------------------------------------------------------------------
(* SubmitInput: prepare_with_no_active_turn, prepare_with_active_turn and   *)
(* SubmitInputRepository::handle.  Rejected commands change nothing here.   *)

NextPosition == last + 1

\* Expected and actual active turn must agree.
ExpectedActive(t) == t \in Active

SubmitStart ==
  /\ daemon = "up"
  /\ last < MaxInputs
  /\ Active = {}
  /\ last' = NextPosition
  /\ input' = [input EXCEPT ![NextPosition] = "origin"]
  /\ turn' = [turn EXCEPT ![NextPosition] = "queued"]
  /\ UNCHANGED <<bound, after, lineage, run, pass, daemon>>

SubmitAfterCurrentTurn(t) ==
  /\ daemon = "up"
  /\ last < MaxInputs
  /\ ExpectedActive(t)
  /\ last' = NextPosition
  /\ input' = [input EXCEPT ![NextPosition] = "origin"]
  /\ turn' = [turn EXCEPT ![NextPosition] = "queued"]
  /\ UNCHANGED <<bound, after, lineage, run, pass, daemon>>

SubmitNextSafePoint(t) ==
  /\ daemon = "up"
  /\ last < MaxInputs
  /\ ExpectedActive(t)
  /\ last' = NextPosition
  /\ input' = [input EXCEPT ![NextPosition] = "pending"]
  /\ bound' = [bound EXCEPT ![NextPosition] = t]
  /\ UNCHANGED <<after, turn, lineage, run, pass, daemon>>

\* Mutant: an interrupt is not refused on a turn already stopping.
InterruptAdmissibleTwice(t) ==
  /\ ExpectedActive(t)
  /\ run.phase # "approval"

\* InterruptAlreadyApplied and InterruptUnavailableWhileAwaitingApproval.
InterruptAdmissible(t) ==
  /\ ExpectedActive(t)
  /\ run.attempt # "stop"
  /\ run.phase # "approval"

QueueWithInterrupt(t) ==
  Derive(QueueFacts([turn EXCEPT ![NextPosition] = "queued"],
                    [after EXCEPT ![NextPosition] = t]))

\* Mutant: the attempt is stopped and its call is not asked to cancel.
ApplyInterruptKeepsCall(t) ==
  LET inputs == [input EXCEPT ![NextPosition] = "origin"]
      turns  == [turn EXCEPT ![NextPosition] = "queued"]
  IN  IF run.call = "inflight"
      THEN /\ run' = [run EXCEPT !.attempt = "stop"]
           /\ input' = inputs
           /\ turn' = turns
      ELSE Close(t, IF run.phase = "recovery" THEN "reconciliation"
                                              ELSE "cancelled", inputs, turns)

\* apply_interrupt and its siblings for a tool batch, a credential wait and
\* a recovery wait: everything not yet sent is cancelled on the spot, a
\* sent call is asked to stop, an ambiguous effect needs reconciliation.
ApplyInterrupt(t) ==
  LET inputs == [input EXCEPT ![NextPosition] = "origin"]
      turns  == [turn EXCEPT ![NextPosition] = "queued"]
  IN  IF run.call = "inflight"
      THEN /\ run' = [run EXCEPT !.attempt = "stop", !.call = "cancelRequested"]
           /\ input' = inputs
           /\ turn' = turns
      ELSE Close(t, IF run.phase = "recovery" THEN "reconciliation"
                                              ELSE "cancelled", inputs, turns)

(***************************************************************************)
(* The command waits for the dispatch gate before its transaction.  An     *)
(* in-flight tool attempt found once the gate is free is reported as       *)
(* corruption and the transaction is rolled back: no step.                 *)
(***************************************************************************)
SubmitInterrupt(t) ==
  /\ daemon = "up"
  /\ last < MaxInputs
  /\ ~GateHeld(t)
  /\ InterruptAdmissible(t)
  /\ run.tool # "inflight"
  /\ QueueWithInterrupt(t).error = "none"
  /\ last' = NextPosition
  /\ after' = [after EXCEPT ![NextPosition] = t]
  /\ ApplyInterrupt(t)
  /\ UNCHANGED <<bound, lineage, pass, daemon>>

---------------------------------------------------------------------------
(* The scheduler pass. *)

StartPass(t) == pass' = [turn |-> t, op |-> "none"]

Activated(t, predecessor) ==
  /\ turn' = [turn EXCEPT ![t] = "active"]
  /\ lineage' = [lineage EXCEPT ![t] = predecessor]
  /\ run' = [Phase("running") EXCEPT !.attempt = "prepared"]
  /\ StartPass(t)
  /\ UNCHANGED <<facts, daemon>>

\* Mutant: the earliest accepted queued turn is activated.
ActivateByPosition ==
  /\ daemon = "up"
  /\ pass = NoPass
  /\ Active = {}
  /\ LET order  == Queue.order
         queued == {p \in Positions : turn[p] = "queued"}
         i      == IndexIn(order, Min(queued))
     IN  /\ queued # {}
         /\ Activated(Min(queued), IF i = 1 THEN NoTurn ELSE order[i - 1])

\* prepare_earliest_queued_activation: the first queued turn of the derived
\* order; its lineage is the turn before it, or First.
Activate ==
  /\ daemon = "up"
  /\ pass = NoPass
  /\ Active = {}
  /\ \E order \in {Queue.order} :   \* empty when the facts do not derive
       \E t \in Positions, i \in DOMAIN order :
           /\ order[i] = t
           /\ turn[t] = "queued"
           /\ \A j \in 1 .. i - 1 : turn[order[j]] # "queued"
           /\ Activated(t, IF i = 1 THEN NoTurn ELSE order[i - 1])

\* Mutant: a prepared call is not found resumable.
ResumePassNoCall ==
  /\ daemon = "up"
  /\ pass = NoPass
  /\ \/ run.phase = "credential"
     \/ run.phase = "running" /\ run.tool # "none"
  /\ \E t \in Active : StartPass(t)
  /\ UNCHANGED <<facts, turn, lineage, run, daemon>>

\* find_resumable_turn: an eligible credential wait, a prepared call, or an
\* open tool round.  A prepared attempt with neither is not resumed.
ResumePass ==
  /\ daemon = "up"
  /\ pass = NoPass
  /\ \/ run.phase = "credential"
     \/ run.call = "prepared"
     \/ run.phase = "running" /\ run.tool # "none"
  /\ \E t \in Active : StartPass(t)
  /\ UNCHANGED <<facts, turn, lineage, run, daemon>>

\* The pass runs and its turn still holds the session's active slot.
Owns(t) ==
  /\ daemon = "up"
  /\ pass.turn = t
  /\ turn[t] = "active"

Idling(t) == Owns(t) /\ pass.op = "none"

KeepPass == UNCHANGED <<pass, daemon>>

\* Where the next call may be prepared: a fresh attempt without a call, a
\* complete tool round, or a credential wait (released and prepared in one
\* transaction).
CallFree ==
  \/ run.phase = "credential"
  \/ /\ run.phase = "running"
     /\ run.call = "none"
     /\ run.tool = "ready" \/ (run.tool = "none" /\ run.attempt = "prepared")

\* Mutant: only the newest pending input reaches the call.
PrepareCallNewest(t) ==
  /\ Idling(t)
  /\ CallFree
  /\ input' = [p \in Positions |->
                 IF p \in PendingOn(t) /\ p = Max(PendingOn(t))
                 THEN "consumed" ELSE input[p]]
  /\ run' = [phase |-> "running", call |-> "prepared", tool |-> "none",
             attempt |-> IF run.phase = "credential" THEN "prepared"
                                                     ELSE run.attempt]
  /\ UNCHANGED <<last, bound, after, turn, lineage>>
  /\ KeepPass

\* prepare_initial_call_consuming_steering, initial and continuation: the
\* complete pending inventory is consumed by the call.
PrepareCall(t) ==
  /\ Idling(t)
  /\ CallFree
  /\ input' = [p \in Positions |->
                 IF p \in PendingOn(t) THEN "consumed" ELSE input[p]]
  /\ run' = [phase |-> "running", call |-> "prepared", tool |-> "none",
             attempt |-> IF run.phase = "credential" THEN "prepared"
                                                     ELSE run.attempt]
  /\ UNCHANGED <<last, bound, after, turn, lineage>>
  /\ KeepPass

\* Target resolution, pool exhaustion, a released chain with nothing left,
\* or failed context compaction.
FailCallFree(t) ==
  /\ Idling(t)
  /\ CallFree
  /\ CloseTurn(t, "failed")
  /\ KeepPass

\* park_initial.
ParkForCredential(t) ==
  /\ Idling(t)
  /\ CallFree
  /\ run.phase = "running"
  /\ Proceed(Phase("credential"))
  /\ KeepPass

FailPreparedCall(t) ==
  /\ Idling(t)
  /\ run.call = "prepared"
  /\ CloseTurn(t, "failed")
  /\ KeepPass

AuthorizeSend(t) ==
  /\ Idling(t)
  /\ run.call = "prepared"
  /\ Proceed([run EXCEPT !.attempt = "running", !.call = "inflight"])
  /\ pass' = [pass EXCEPT !.op = "call"]
  /\ UNCHANGED daemon

---------------------------------------------------------------------------
(* Observation of the model call, in a transaction of its own after the     *)
(* provider answered: the state the pass authorized may be gone.            *)

Observing(t) ==
  /\ Owns(t)
  /\ pass.op = "call"
  /\ run.call \in {"inflight", "cancelRequested"}

Stopping == run.call = "cancelRequested"

BackInPass == pass' = [pass EXCEPT !.op = "none"] /\ UNCHANGED daemon

\* apply_terminal_observation, the outcomes that end the turn.  A stopped
\* call may still complete; its tool uses are cancelled, its ambiguity goes
\* to reconciliation; a cancellation nobody requested is a failure.
Dispositions ==
  {"completed", "refused", "failed"} \cup
  (IF Stopping THEN {"cancelled", "reconciliation"} ELSE {})

\* Mutant: the observation does not reload the turn it was authorized for.
ObserveStale(t) ==
  /\ daemon = "up"
  /\ pass = [turn |-> t, op |-> "call"]
  /\ \E disposition \in Dispositions : CloseTurn(t, disposition)
  /\ BackInPass

ObserveTerminal(t) ==
  /\ Observing(t)
  /\ \E disposition \in Dispositions : CloseTurn(t, disposition)
  /\ BackInPass

ToolRound(phase) ==
  [phase |-> phase, call |-> "none", tool |-> "ready",
   attempt |-> IF phase = "running" THEN "prepared" ELSE "none"]

\* assemble_tool_round: the attempt yields; approval or a fresh attempt.
ObserveToolRound(t) ==
  /\ Observing(t)
  /\ ~Stopping
  /\ \E phase \in {"approval", "running"} : Proceed(ToolRound(phase))
  /\ BackInPass

ObserveAmbiguous(t) ==
  /\ Observing(t)
  /\ ~Stopping
  /\ Proceed(AwaitingRecovery)
  /\ BackInPass

\* apply_availability_successor: a fresh attempt on another credential, or
\* park_failed when none is available now.
ObserveUnavailable(t) ==
  /\ Observing(t)
  /\ ~Stopping
  /\ \/ Proceed([Phase("running") EXCEPT !.attempt = "prepared"])
     \/ Proceed(Phase("credential"))
  /\ BackInPass

---------------------------------------------------------------------------
(* The tool round. *)

\* decide and expire_human_approval_wait: the last open approval resolves
\* and the round executes on a fresh attempt.
DecideApproval ==
  /\ daemon = "up"
  /\ run.phase = "approval"
  /\ Proceed(ToolRound("running"))
  /\ UNCHANGED <<pass, daemon>>

PrepareToolAttempt(t) ==
  /\ Idling(t)
  /\ run.phase = "running" /\ run.tool = "ready"
  /\ Proceed([run EXCEPT !.tool = "prepared"])
  /\ KeepPass

\* commit_preflight_error: the tool attempt ends without being dispatched.
PreflightError(t) ==
  /\ Idling(t)
  /\ run.tool = "prepared"
  /\ Proceed([run EXCEPT !.attempt = "running", !.tool = "ready"])
  /\ KeepPass

\* authorize_attempt_with_preauthorization, under the gate.
DispatchTool(t) ==
  /\ Idling(t)
  /\ run.tool = "prepared"
  /\ Proceed([run EXCEPT !.attempt = "running", !.tool = "inflight"])
  /\ pass' = [pass EXCEPT !.op = "tool"]
  /\ UNCHANGED daemon

\* commit_observation; the gate is released with the answer.
ToolAnswers(t) ==
  /\ Owns(t)
  /\ pass.op = "tool"
  /\ run.tool = "inflight"
  /\ \/ Proceed([run EXCEPT !.tool = "ready"])
     \/ Proceed(AwaitingRecovery)
  /\ BackInPass

\* classify_crash_loss_and_close: an attempt found in flight that is not
\* this pass's own, or whose executor failed.  An external effect is
\* ambiguous; an effect-free attempt is known to have failed.
ClassifyToolLoss(t) ==
  /\ Owns(t)
  /\ pass.op \in {"none", "tool"}
  /\ run.tool = "inflight"
  /\ CloseTurn(t, "failed") \/ Proceed(AwaitingRecovery)
  /\ BackInPass

---------------------------------------------------------------------------
(* Recovery. *)

\* recover_locked_session on the running turn t, where it changes anything.
RecoverLocked(t) ==
  /\ t \in Active
  /\ run.phase = "running"
  /\ \/ run.tool \in {"prepared", "inflight"} /\ CloseTurn(t, "failed")
     \/ run.tool = "inflight" /\ Proceed(AwaitingRecovery)
     \/ run.call = "inflight" /\ Proceed(AwaitingRecovery)
     \/ run.call = "cancelRequested" /\ CloseTurn(t, "reconciliation")
     \/ run.tool = "none" /\ run.call = "none" /\ CloseTurn(t, "failed")

\* A complete tool round and a prepared call are left for a pass to resume,
\* and a turn that is not running is left to whatever it waits for.
NothingToRecover ==
  \/ run.phase # "running"
  \/ run.tool = "ready"
  \/ run.call = "prepared"

\* The slot-held watchdog and the recovery task of an expired pass.  Both
\* act on elapsed time and unchanged evidence, so a slow live pass is not
\* excluded.
RecoverHeldSlot(t) ==
  /\ daemon = "up"
  /\ RecoverLocked(t)
  /\ UNCHANGED <<pass, daemon>>

\* Mutant: the watchdog fails the turn and leaves its steering pending.
FailQuiescentBare(t) ==
  /\ daemon = "up"
  /\ t \in Active
  /\ run.phase = "running"
  /\ run.tool = "none" /\ run.call = "none" /\ run.attempt # "stop"
  /\ turn' = [turn EXCEPT ![t] = "failed"]
  /\ run' = Idle
  /\ UNCHANGED <<facts, lineage, pass, daemon>>

\* The quiescent watchdog: terminalize_in_transaction.
FailQuiescent(t) ==
  /\ daemon = "up"
  /\ t \in Active
  /\ run.phase = "running"
  /\ run.tool = "none" /\ run.call = "none" /\ run.attempt # "stop"
  /\ CloseTurn(t, "failed")
  /\ UNCHANGED <<pass, daemon>>

\* apply_automatic_reconciliation, for a call and for a tool attempt.
AutoReconcile(t) ==
  /\ daemon = "up"
  /\ t \in Active
  /\ run.phase = "recovery"
  /\ CloseTurn(t, "reconciliation")
  /\ UNCHANGED <<pass, daemon>>

\* bounded_pass: the pass future is dropped at the occupancy ceiling, and
\* with it the tool executor and its gate permit.
ExpirePass ==
  /\ daemon = "up"
  /\ pass # NoPass
  /\ pass' = NoPass
  /\ UNCHANGED <<facts, turn, lineage, run, daemon>>

\* The pass finds nothing more to do, or that its answer came too late.
EndPass ==
  /\ daemon = "up"
  /\ pass # NoPass
  /\ \/ pass.op = "none"
     \/ pass.op = "call" /\ ~Observing(pass.turn)
     \/ pass.op = "tool" /\ ~(Owns(pass.turn) /\ run.tool = "inflight")
  /\ pass' = NoPass
  /\ UNCHANGED <<facts, turn, lineage, run, daemon>>

Crash ==
  /\ daemon = "up"
  /\ daemon' = "down"
  /\ pass' = NoPass
  /\ UNCHANGED <<facts, turn, lineage, run>>

\* migrate_scan_then_schedule: the scan ends before anything is served.
Startup ==
  /\ daemon = "down"
  /\ daemon' = "up"
  /\ UNCHANGED pass
  /\ \/ \E t \in Positions : RecoverLocked(t)
     \/ NothingToRecover /\ UNCHANGED <<facts, turn, lineage, run>>

Submit ==
  \/ SubmitStart
  \/ \E t \in Positions : \/ SubmitAfterCurrentTurn(t)
                          \/ SubmitNextSafePoint(t)
                          \/ SubmitInterrupt(t)

CallStep(t) ==
  \/ PrepareCall(t) \/ FailCallFree(t) \/ ParkForCredential(t)
  \/ FailPreparedCall(t) \/ AuthorizeSend(t)
  \/ ObserveTerminal(t) \/ ObserveToolRound(t)
  \/ ObserveAmbiguous(t) \/ ObserveUnavailable(t)

ToolStep(t) ==
  \/ PrepareToolAttempt(t) \/ PreflightError(t) \/ DispatchTool(t)
  \/ ToolAnswers(t) \/ ClassifyToolLoss(t)

RecoveryStep(t) ==
  RecoverHeldSlot(t) \/ FailQuiescent(t) \/ AutoReconcile(t)

Next ==
  \/ Submit
  \/ Activate \/ ResumePass \/ EndPass \/ ExpirePass
  \/ \E t \in Positions : CallStep(t) \/ ToolStep(t) \/ RecoveryStep(t)
  \/ DecideApproval
  \/ Crash \/ Startup

Spec == Init /\ [][Next]_vars

(***************************************************************************)
(* The startup, sweep, watchdog and reconciliation loops keep running, and *)
(* a pass whose occupancy ceiling outlasts one transaction gets to prepare *)
(* and send a call if it is given the chance again and again.              *)
(***************************************************************************)
FairSpec ==
  /\ Spec
  /\ WF_vars(Startup)
  /\ WF_vars(ResumePass)
  /\ WF_vars(\E t \in Positions : RecoverHeldSlot(t))
  /\ WF_vars(\E t \in Positions : FailQuiescent(t))
  /\ WF_vars(\E t \in Positions : AutoReconcile(t))
  /\ SF_vars(\E t \in Positions : PrepareCall(t))
  /\ SF_vars(\E t \in Positions : AuthorizeSend(t))

---------------------------------------------------------------------------
(***************************************************************************)
(* InterruptQueueOrderInvalid is unreachable: whatever was accepted, the   *)
(* queue derives, and an interrupt the command would admit derives too     *)
(* (submit_input/command.rs reports the contrary as a preparation error).  *)
(***************************************************************************)
InterruptAlwaysOrders ==
  /\ Queue.error = "none"
  /\ \A t \in Positions :
       (last < MaxInputs /\ InterruptAdmissible(t))
         => QueueWithInterrupt(t).error = "none"

(***************************************************************************)
(* The lineage a turn recorded when it was activated stays the truth: in   *)
(* the order derived from today's facts, later interrupts and reclassified *)
(* steering included, it is still the turn immediately before, and that    *)
(* turn was started.                                                       *)
(***************************************************************************)
LineageMatchesOrder ==
  LET order == Queue.order
  IN  \A i \in DOMAIN order :
        turn[order[i]] # "queued"
          => IF i = 1 THEN lineage[order[i]] = NoTurn
             ELSE /\ lineage[order[i]] = order[i - 1]
                  /\ turn[order[i - 1]] # "queued"

(***************************************************************************)
(* No accepted steering is lost: while an input is pending, the turn it is *)
(* bound to is the active one, whichever transition ended other turns.     *)
(***************************************************************************)
NoOrphanSteering ==
  \A p \in Positions : input[p] = "pending" => bound[p] \in Active

(***************************************************************************)
(* Steering reaches the model in the order it was accepted: no input is    *)
(* consumed ahead of an earlier one bound to the same turn.                *)
(***************************************************************************)
SteeringInOrder ==
  \A p, q \in Positions :
    (p < q /\ bound[p] = bound[q] /\ bound[q] # NoTurn /\ input[q] = "consumed")
      => input[p] = "consumed"

(***************************************************************************)
(* Once an interrupt of a turn is accepted the turn is over, or it only    *)
(* awaits the answer of a call already sent and asked to stop: nothing     *)
(* more is prepared, sent or dispatched for it.                            *)
(***************************************************************************)
InterruptedTurnStops ==
  \A p \in Positions :
    (after[p] # NoPred /\ turn[after[p]] = "active")
      => run.attempt = "stop" /\ run.call = "cancelRequested"

(***************************************************************************)
(* A turn's disposition is final: a late answer, a second recovery or a    *)
(* restart never rewrites it, nor reopens what became of an input.         *)
(***************************************************************************)
DispositionFinal ==
  [][\A p \in Positions :
       /\ turn[p] \in Terminal => turn'[p] = turn[p]
       /\ input[p] \in {"origin", "consumed", "reclassified"}
            => input'[p] = input[p]]_vars

(***************************************************************************)
(* docs/spec/tool-loop.md: "the durable attempt cannot remain in flight    *)
(* after the gate becomes available to an interrupt".                      *)
(***************************************************************************)
GateCoversInFlight ==
  \A t \in Active :
    (daemon = "up" /\ run.tool = "inflight") => GateHeld(t)

(***************************************************************************)
(* Pending steering is consumed or reclassified in the end, or its turn    *)
(* waits for a decision or a credential from outside, provided the daemon  *)
(* stops crashing.                                                         *)
(***************************************************************************)
SteeringSettles ==
  <>[](daemon = "up") =>
    \A p \in Positions :
      input[p] = "pending"
        ~> (input[p] # "pending" \/ run.phase \in {"approval", "credential"})
=============================================================================
