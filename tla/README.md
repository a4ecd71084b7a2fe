# TLA+ models of signalbox

Signalbox is a daemon (`src/apps/signalboxd`) that runs agent sessions: clients
submit input, a scheduler turns accepted input into turns, a turn alternates
model calls and tool executions, and everything that matters is a transaction
on a database.  A daemon may place tools on a runner
(`src/apps/signalbox-runner`), a process of its own with a journal.  This
directory models the core of that machine, checks it with TLC and proves part of
it with TLAPS.

## Inventory

### The core chain

| Part | Source | State | Operations |
|---|---|---|---|
| Nudge channel | `crates/application/src/scheduler.rs` 90-700 | bounded token channel, deduplication map behind a mutex | `nudge`, `nudge_waiting_for_capacity`, receive, cancellation, destruction |
| Work source and sweep | `scheduler.rs` 660-950, `crates/persistence/src/scheduler.rs` | sweep under way, timer, page cursor, queued sweep hints, preference flags | `next`, cancelled where it waits; one page of the durable rows |
| Scheduler loop, admission, slots | `scheduler.rs` 950-1520, `scheduler/admission.rs`, `scheduler_slot.rs` | hint queue, reruns, passes in flight, released and waiting passes, slot counter | admit, release and reacquire a slot, join, expire, drain |
| Queue order | `crates/domain/src/queue_order.rs` | none: a pure derivation from immutable facts | `derive_accepted_input_total_order` |
| Submit input | `crates/domain/src/submit_input*`, `crates/persistence/src/submit_input*` | accepted inputs with positions, dispositions, bindings | four deliveries: start, after the current turn, next safe point, interrupt |
| Activation | `crates/domain/src/turn_eligibility*` | turn states, recorded lineage | activate the earliest queued turn |
| Attempts and model calls | `crates/domain/src/model_execution*`, `crates/persistence/src/model_execution*` | current attempt and call | prepare with steering, authorize, observe, park, fail |
| Tool loop and gate | `crates/persistence/src/tool_loop*`, `crates/application/src/tool_dispatch*` | open tool round, current tool attempt, in-memory gate per turn | approve, prepare, dispatch, observe, classify loss |
| Tool execution | `crates/application/src/tool_loop.rs`, `apps/signalboxd/src/lib.rs` | stage of the service, retained evidence, gate permit | prepare, authorize, execute, observe, reread, reconcile, classify, continue |
| Hub fence | `crates/persistence/src/hub_fence.rs`, `apps/signalboxd/src/{single_hub,fenced_database,guard_recovery}.rs` | guard session, durable generation, advisory locks of every session | acquire, advance, connect, close, retire, drop, restart |
| Runner leases | `crates/persistence/src/runner_protocol*`, `apps/signalboxd/src/runner_*.rs`, `apps/signalbox-runner/src` | leases, connection epochs, pending loss; handlers; the runner's journal and connection | offer, claim, dispatch, result, refusal, resume, loss, heartbeat, shutdown, startup |
| Startup scan, watchdogs, expired-pass recovery | `crates/persistence/src/startup.rs`, `turn_liveness.rs`, `apps/signalboxd/src/lib.rs` | none of their own: they act on the session's rows | recover, fail a quiescent turn, reconcile |

Handlers nudge the scheduler after they commit.  The loop takes hints from the
work source, starts at most one pass per session under a slot limit, and the
pass runs transactions on the session's rows.  Clients, the pass, the recovery
task of an expired pass, the watchdogs and the startup scan share nothing but
those rows, the slot counter and the in-memory tool dispatch gate.  The fence
keeps a second daemon off the rows.  A tool placed on a runner is a lease: its
dispatch task waits for the lease to be settled, and daemon and runner agree
about it over connections that come and go.

What is hard: the critical sections of the nudge channel are separated by
awaits; a pass gives its slot up during I/O and must win it back in competition
with fresh work; a pass may be dropped at any await when its occupancy bound
ends; a model call or tool may be under way when the daemon crashes; an
interrupt may arrive between any two transactions of a turn; lineage is written
once while the derived order it was read from keeps growing; a commit may take
effect although its answer was lost, so a service must find out what it did
before it does it again; the sessions of a daemon outlive it on the server; a
runner may hold the only evidence of an execution the daemon has given up.

What makes each part correct: no accepted nudge is lost or queued twice; slots
are neither lost nor invented; one pass per session; hints and returning passes
are served and shutdown ends; the queue has exactly one order for the same
facts, never contradicting lineage already recorded; steering is never lost or
reordered; an interrupted turn does nothing more; a disposition is final; every
session that stays eligible is found; a tool runs at most once and its recorded
end is what it answered; one daemon writes at a time; a lease is settled once
and in the end.

### The rest

Goal mode, session delegation and child waits, session lifecycle, credential
pools, context compaction, the command registry and outbox, the approval judge,
review workflows, repository watch, workflows and the program journal,
conversation import, blob stores, the wire protocol, provider adapters,
configuration, tools, clients and evaluation are listed in `PROJECT.json` with
the reason each is not modelled, or not yet.

## Modules

### EligibilityNudge

Each critical section of the nudge channel is one action.  `pending` is the
deduplication map with `queued_channel_tokens` 0 (`Reserved`) or 1 (`Queued`).
`caller` is the program counter of each `nudge_waiting_for_capacity` future;
`Cancellable` names the ones raced against a shutdown signal.  `taken` is the
token between `recv` and `take_nudge`.  `source` follows the work source's
destructor, which first clears the map and then, as its fields are dropped,
closes the channel.  The tokio channel is external: a FIFO with a fair
semaphore of `Capacity` permits, a released permit going to the oldest queued
`reserve`.  `owed` is a history variable: hints answered Enqueued or Coalesced
that the source has not returned.

### SchedulerLoop

The loop is a control variable `ctl` over its await points: the top, a popped
hint, the wait that polls the work source, the wait with hints in hand, the
drain and its select.  The biased selects become guards: a branch is taken only
when those above it are not ready.  `pc` is the place of each pass; `holding`
is the set of passes whose shared cell holds a slot.  `ReleaseSlot` and
`ReleaseAdmission` are the two ways a pass gives its slot up during I/O.
`changes` is the unbounded Release/Resume channel.  Messages of a pass that was
joined meanwhile are applied as `Admission::apply` does, by ignoring them.
Hints are inputs; tasks get fresh identities up to `HintBudget`.

### QueueOrder

Operators only.  `Derive` makes every check of the code in its order and
returns the first error or the order.  Facts may be any function into records.
`Ordered` is the two nested loops, one push at a time: the successor of the turn
pushed last, or else the earliest root not pushed yet.  `IsTheOrder` is the
reference: what the facts say of an order, without building one.

### TurnLifecycle

One session.  Every action that changes durable state is one transaction of the
code, which reloads the session under its row lock.  A turn is named by the
acceptance position of its input.  `run` is the active turn's phase, attempt,
call and tool round; `pass` is what the session's one scheduler pass awaits (a
crash or an expiry erases it, an answer finds whatever is left).  The queue is
`QueueOrder!Derive` of the facts, as in the code.  `Close` is the shared part
of every terminal transition: it reclassifies pending steering in the same
transaction.  It relies on `SchedulerLoop!OnePassPerSession` for there being
one pass.

Abstracted: transcript contents, which tool of a round is current, attempt and
call identities (the module's header says why their checks are decided by the
states kept), how long a watchdog waits.  The approval judge, the provider and
the tools are nondeterministic answers.

### EligibilityWorkSource

One turn of the loop in `next` is one action; the biased selects become guards
as in `SchedulerLoop`.  `next` is the future itself: dropped (`Cancel`) only
where it waits, which is where the code can lose a tick, a page or a nudge.
`sweep` is the sweep or the future it was moved into; the future belongs to the
source, not to `next`, and lives through cancellation.  The query is a page of
the eligible sessions after `cursor`, in the order of their identities, and
sessions become eligible and cease to be at any time.  What a page and the
extended list of sweep hints are is stated by what determines them (`IsPage`,
`extend_pending_sweep_hints`), not computed by a fold, so that proofs can use
it; TLC enumerates the candidates.  The nudge channel is the
queue of distinct sessions that `EligibilityNudge!TokensMatchMap` shows it to
be.  `owed` and `late` are history variables.

### HubFence and WriterEpochs

A hub is one incarnation of the daemon: its guard session, the transaction that
advances the generation, its pool's sessions.  Sessions are the server's and
outlive their client, so an incarnation that crashed or is cut off still has
locks and transactions.  A detached session is one its pool has forgotten.
`WriterEpochs` is what the rest of the daemon may rely on, in four actions:
an epoch ends only with no writing session open, and every write belongs to
the epoch that is current when it commits.  `HubFence!ExclusiveEpochs` maps the
stored generation to the epoch.

### ToolExecution

One batch of a turn, in more detail than `TurnLifecycle` has it.  `Transact` is
`finish_commit`: the transaction is answered, or is in `doubt` (it holds the
session's row lock until the server decides), or fails.  `pass.at` is the stage
of `ToolExecutionService`; `again` says that the pass has used its one
reconciliation of retained evidence.  A pass can be dropped in every stage.
`started` counts executor starts and `answer` keeps what the executor answered.
Interrupts take the gate; recovery does not.  The durable states of an attempt
separate what the property needs: "rejected" and "lost" are both KnownFailed in
the store, with different error kinds.

### RunnerLease

The daemon's durable rows, one handler per socket, the resume admission with
the transactions it makes one after another, dispatch and startup; the runner's
journal and its connection.  Each socket is a FIFO in each direction and loses
what is in it when an end is gone.  Epochs are compared only with the newest
one, so the model keeps the outcome of that comparison.  Each `Take` action is
what the handler does with one frame, each `Get` action what the runner does.
A journal write is a step of its own where a crash after it matters.
A check that a trigger of the schema makes is part of the action whose
transaction it can fail: a first claim on a suspect connection is refused by
`reject_runner_lease_claim_after_connection_loss` and ends the connection
(`Claims`), while a repeated one writes nothing and is answered.

The `MC` modules hold the symmetry sets; `MCQueueOrder` also holds the process
that accepts facts one at a time.
Definitions whose comment begins with "Mutant" are wrong on purpose: each is a
plausible bug, in place of the definition that follows it, and some property
catches it.

## Runs

| Run | Shows | Bounds |
|---|---|---|
| `nudge` | map, channel and permits stay in step | 3 sessions, 3 callers, buffer of 2: a full buffer, a competing session and two cancellable callers at once |
| `nudge_live` | an accepted hint is in the channel, in the receiver's hand or with a caller that will send it, and is returned in the end | 2 sessions, 3 callers, buffer of 1, no cancellation (see below) |
| `loop` | slot counter, in-flight sets, hint queue, admission state agree | 3 sessions, 2 slots, 3 passes: two returning passes against one fresh hint |
| `loop_live` | hints and returning passes are served, shutdown ends | 2 sessions, 1 slot, 3 passes: a rerun plus a rival |
| `order` | the derivation is exactly the order that the facts define, and a new fact never swaps ordered turns | every list of 3 facts, with all duplicates, dangling links, cycles, 2 sessions; every set of 4 facts with distinct turns and positions, for branching chains and reversed chronology, and one more fact after each |
| `turns` | order, lineage, steering and interrupts survive every interleaving | 4 inputs: an interrupt of an interrupt with steering on each |
| `turns_live` | steering settles | 3 inputs |
| `turns_gate` | violated, the finding below | 2 inputs |
| `source` | no hint is dropped, nudges and sweep hints alternate, every session that stays eligible is found | 2 sessions, one of them unmonitored, on pages of 1, buffer of 2: a cycle has continuation pages, rows move around the cursor |
| `fence` | one generation writes at a time, a clean close leaves nothing behind, exclusive epochs, a successor gets in | 2 incarnations of 2 sessions, 4 generations: an incarnation that lingers, one that advances over it, restarts, exhaustion |
| `tools` | one start per attempt, honest ends, order, final ends, the batch settles | 3 requests of which 2 have external effects, any subset approved |
| `runner` | one execution per lease, evidence kept until recorded, one current lease, no frame the runner rejects, every lease settles | 2 leases, 2 sockets, 2 faults, 2 frames resent: an old connection beside its successor, and a fault during the recovery from the first |

The bounds are named constants.  Four inputs are what the deepest cases need: a
turn, its interrupt, the interrupt's interrupt and one steering input
reclassified among them.  Three passes let a session be rerun while another
returns; with that, `ReturnServed` is checked for a returning pass that is
overtaken a bounded number of times.  A page of one row is full or empty: a
nonempty page that is not full needs pages of two, and with the three sessions
that would also give it a continuation page the liveness check takes too long.
The safety properties of `source` are proved for every page size.
Session and caller identities are symmetric in the safety runs.
Deadlock is not checked where the system may stop: a closed source, an exited
loop, a queue derivation that has seen its last fact, a settled batch, a runner
whose leases are all settled.

`TypeOK` is checked and proved for `loop`, `source`, `tools` and `runner`; for
`nudge`, `fence` and `turns` it is proved.

Cancellation is excluded from `nudge_live` because it defeats
the property by design of the code: a nudge that coalesces with the zero-token
entry of another caller is lost when that caller is cancelled.  The cancelled
callers are those that race shutdown, and the periodic sweep is what finds the
work again.

### Fairness

- `EligibilityNudge`: the receiver and each waiting caller take their steps
  (tokio polls a ready task).  The scheduler keeps calling `next`.
- `SchedulerLoop`: weak fairness of the loop and of each pass's steps; strong
  fairness of `Complete`, because a pass makes finitely many I/O rounds and
  every one is under a deadline.  Nothing is assumed of hints, expiry, panics
  or shutdown.
- `TurnLifecycle`: weak fairness of startup, of resuming a pass (the sweep
  finds resumable sessions for ever) and of the three recovery loops, that is, a
  reconciliation succeeds within its retry budget, which only database failures
  use up; strong fairness of preparing and of sending a call, because the occupancy bound of a
  pass is much longer than those transactions.  Nothing is assumed of
  observations, of tools or of clients.  `SteeringSettles` assumes that the
  daemon stops crashing and exempts turns waiting for a decision or a
  credential.
- `EligibilityWorkSource`: the loop admits what it got, calls `next` again and
  polls it in the end however often it drops it; time passes; the query does
  not fail for ever.  The final select of `next` is not biased, so each of its
  branches is taken in the end; nothing is assumed of the biased ones.
- `HubFence`: the server grants a free lock and ends the sessions of a client
  that closes or is gone; a daemon notices that its guard is lost, which it
  checks every second; a process that dropped its database exits.  Nothing is
  assumed of crashes, of connections or of a successor's progress.
- `ToolExecution`: sweeps start passes, a pass moves or is dropped, the
  database settles what is in doubt; recovery, and the stages a batch cannot do
  without, succeed if they are tried again and again.
- `RunnerLease`: handlers, startup and runner take their steps and the runner
  reconnects for ever, as its main loop does.  That a runner process which
  exited is started again is its supervisor's part, an assumption about the
  environment.  Nothing is assumed of faults,
  heartbeats, offers or resent evidence.

## Finding

`turns_gate` is a run that TLC violates and a sentence of the repository that
the code does not keep; no accepted work is lost for good.  A pass that expires
during a tool execution frees the dispatch gate while the attempt is durably in
flight; an interrupt in that window is rolled back.

Three smaller things were seen while modelling and have no run: a nudge between
the source destructor's clearing of the map and the closing of the channel
leaves an entry, so the dropped source answers Coalesced; the wait that polls
the work source does not end on a slot that opens for queued work, though
another event ends it; and a returning pass that asks for admission queues
behind hints queued earlier.  `HintServed` and `ReturnServed` hold all the same.

## Proofs

`EligibilityNudgeProofs` proves, for any sets of sessions and of callers (the
callers finite), any subset of cancellable callers and any positive capacity:

- `NudgeTypeCorrect`, and `NudgeTokensMatchMap` and `NudgePermitAccounting`: the
  invariants of the run `nudge`;
- `NudgeHintKept`: `AcceptedHintKept` when `Cancellable = {}`.

The assumption on the constants is `NudgeAssumption`.  None of the invariants is
inductive alone.  `NudgeInv` adds two facts: the semaphore queues exactly the
callers that wait, each once (`WaitqMatchesCallers`), without which a permit
handed to the head of the queue could reach a caller that is not waiting; and a
call under way has its session (`CallsHaveSessions`).  `PermitAccounting` counts
permits over a finite set of callers, so its steps are lemmas on how the set of
permitted callers changes.  `NudgeHintKept` needs a second strengthening,
`KeptInv`: a zero-token entry is some caller's promise to send a token.  It
holds only without cancellation.

`TurnLifecycleProofs` proves, for any number of inputs, every property of the
run `turns` and `TypeOK`, assuming only `InputsAssumption`.  The first part
proves `NoOrphanSteering`, `SteeringInOrder`, `InterruptedTurnStops` and
`DispositionFinal`; there `Derive` is never expanded, so they hold whatever order
the queue has.  `TurnInv` strengthens the four by what they need:

- attempt, call and tool round fit together (`Shape`): a stopping attempt has a
  call asked to cancel and no tool round, so no action can prepare, send or
  dispatch for it;
- at most one turn is active and `run` describes it (`OneActive`), so ending it
  settles all pending steering;
- positions not handed out carry nothing (`Unused`), so accepting an input
  touches no earlier fact;
- an input without a turn has none, and reclassified steering was bound to a
  turn that has ended (`Dispositioned`), so steering reclassified once is never
  among what a call consumes;
- only started turns have been interrupted (`OnlyStartedInterrupted`), so a
  turn just activated is not under an interrupt.

Every action is shown to be one of six kinds of step (`Kinds`) or one of two
submissions, and each kind to preserve the invariant and every disposition.

The second part proves `InterruptAlwaysOrders`, `LineageMatchesOrder` and the
range of `lineage`.  Both properties compare what was written once with an order
that is derived again and grows in the middle, and neither is inductive.
`OrderInv` is:

- an interrupt was accepted after its target, which had started by then, and no
  two have the same target (`Targeted`);
- later interrupts have targets later in the derived order (`Chronological`):
  the check `Derive` makes last, and the one that a session could fail;
- a prefix of the derived order is what was started, its last turn alone may be
  active, and the lineage of each is the turn before it (`StartedUpTo`).  This
  is what makes the other two inductive: an interrupt targets the active turn,
  the last of the prefix, so every earlier target is ahead of it, and the new
  turn goes in right behind the prefix, where it separates no two turns whose
  lineage is recorded;
- steering is bound to an earlier turn (`BoundEarlier`), so a turn made of it
  when the active one ends has a position behind every turn started.

What it needs of the derivation comes from `QueueLemmas`, for any finite set of
facts: when every interrupt has an earlier target of its own, the loops push
every turn, once (`OrderedCovers`); an arrangement that respects the facts is
unique (`OrderUnique`); up to the turn after which a new fact goes in, the order
stays (`PrefixStays`).  The
provers cannot instantiate the library's induction over the numbers, which has
an operator as a parameter.  `QueueLemmas!Induction` has a set instead: a set of
numbers that holds 0 and the successor of each of its members holds every
number, because its complement has no least element (`Least`).  Each inductive
claim becomes such a set.

The same lemmas give `DeriveFindsTheOrder`: for all facts, `Derive` returns an
order exactly when it is the order the facts define, so no check is missing and
none rejects too much.  `TurnLifecycleProofs` extends `MCQueueOrder` too and ends
with `DeriveIsTheOrder` and `NeverReorders` of the run `order`, for any number of
facts accepted in any way (`FactsAssumption`).

`HubFenceProofs` proves, for any incarnations, sessions and largest generation
(`FenceAssumption`), `SingleWriter`, `CleanRelease`, `TypeOK` and that the
fence implements `WriterEpochs` (`FenceRefinesEpochs`).  `SingleWriter` is not
inductive: it rests on who holds which lock.  `FenceInv` says that

- the guard is held once, and the advance and the exclusive locks are the
  holder's (`GuardOwnsFence`);
- an open advance has read what is stored, and holds its lock once granted
  (`AdvanceReadsCurrent`);
- exclusive and shared locks of a generation exclude each other
  (`ExclusiveExcludesShared`), also for a session whose client is gone;
- sessions exist only from the pool on, and after the drain only detached ones
  (`SessionsNeedPool`);
- pool generations are never ahead of the stored one and never shared by two
  incarnations (`OwnGenerations`);
- a session that may write is of the current generation (`WritersCurrent`):
  the advance that would break this needs the exclusive lock of the prior
  generation, which excludes such sessions.

Each part has a lemma with one case per action.  For the refinement, every step
is shown to be one of the four actions of `WriterEpochs` or to stutter, `Advance`
from `WritersCurrent` and `ExclusiveExcludesShared`.

`SchedulerLoopProofs` proves, for any sessions, slot limit and number of passes
(`LoopAssumption`), `TypeOK`, `SlotAccounting`, `OnePassPerSession` and
`AdmissionHygiene` of the run `loop`.  `LoopInv` strengthens them:

- the hint queue lists the hinted sessions once each, and a popped hint is in
  neither (`QueueIsHints`);
- task identities are used in order, a task is in the map from its start to its
  join, and no two tasks share a session (`TasksMatchSessions`);
- only running and panicked passes hold a slot (`SlotsHeld`), so none is given
  back twice, and the waiters of `acquire` are exactly the passes inside it,
  once each (`ReacquireIsQueue`);
- a waiting entry names a released pass of that session that still waits
  (`WaitingIsReturning`), and a pass has at most one Resume under way and none
  beside its waiting entry (`ResumeOnce`): without this a stale Resume could
  make an entry for a pass that has since run on;
- hints accepted never outnumber the identities left (`BudgetLeft`), which is
  what keeps `nextTask` in its range.

Each part has a lemma with one case per action.  `QueueLemmas` also holds what
appending, taking the head and removing an element do to a queue without
repetitions: what its range becomes, and that it stays without repetitions.

`EligibilityWorkSourceProofs` proves, for any finite set of sessions, page size
and buffer (`SourceAssumption`), `TypeOK`, `NoHintDropped` and `Alternates` of
the run `source`.  `SourceInv` adds that a page in the future has distinct
sessions and agrees with the cursor (`PageInFuture`), that a continuation which
is due has a cursor to go on from (`ContinuationKept`), and that the kind of
hint last overtaken is the one preferred next (`OvertakenIsNext`), without which
`Alternates` is not inductive.

`ToolExecutionProofs` proves, for any finite batch and any of its requests with
external effects (`ToolAssumption`), `TypeOK`, `StartedOnceInOrder`,
`HonestRecord` and `EndsAreFinal` of the run `tools`.  What makes `ToolInv`
inductive is that every claim about the durable attempts is also made of the
attempts that a transaction in doubt would write (`Honest` and `OneAtATime` of
both, `DoubtKeepsEnds`): the server may apply it at any later time.  The rest
ties the stage of the pass to the executor: up to the start it has not run and
nothing is in doubt (`StartIsAuthorized`), and an observation in hand is its
answer (`ObservationInHand`).

`RunnerLeaseProofs` proves, for any leases, at least two sockets and any bounds
on faults and resent frames (`RunnerAssumption`), `TypeOK`, `ClaimedRunsOnce`,
`EvidenceKept`, `OneCurrentLease`, `SettledIsFinal` and `FramesAccepted` of the run
`runner`.  The invariant `ExecInv` relates three places that never agree at once:
the rows, the frames in flight, the runner.

- `LeaseRules` is about the daemon alone: the admission lock has one holder,
  the permit is the outstanding lease's, a lease whose connection was lost is
  pending or is being settled by startup, and no offer survives to the opening
  of the next connection.  From these, `OneCurrentLease`.
- `ClosedEnds`: a socket whose end is gone holds nothing to read, so a frame is
  always read by the two ends that were there when it was sent.
- `OfferedOnce`, `RefusalStands`, `ClaimRecorded`, `OfferStage` follow a lease
  through the runner: an offer finds a runner that knows nothing of the lease,
  a refusal excludes everything that admits it, and whatever shows that a claim
  was recorded (a journal entry, an inventory sent, a `claimed` in flight) has
  the claim in the rows behind it, for ever after.
- `JournalTells` ties journal, connection and executions: a phase before the
  start means no start, and an end kept is the end produced.  `EvidenceTrue`
  says the same of evidence in flight and of the answers to it.  From these and
  `ClaimRecorded`, `ClaimedRunsOnce`; with them, `EvidenceKept` is inductive.
- `ResumeFits`: the answer to a resumption is one the journal it answers allows.

The proof describes each action once, by what it does to the rows, to the
handlers, to the frames and to the runner (the lemmas named `...Does`), and by
the frames it sends (`DaemonSent`, with the lemmas on growing and shrinking
queues).  Each part of the invariant then has a lemma over those descriptions.

`FramesAccepted` is about the first frame on its way to the runner, and which
frame is first tomorrow depends on every frame behind it today.  `FramesInOrder`
therefore orders all the frames on the runner's connection, in both directions,
and is inductive on top of `ExecInv`:

- `BusyWith`: the handler is busy with what it offered and with what the runner
  holds (`run.offer` or the journal) until it has sent the acknowledgement, so
  it offers nothing else meanwhile;
- `OfferFollows`: `resumed` is the first frame and the only one of its kind, and
  the one offer in flight comes after the acknowledgement, or the resumption,
  that leaves the runner with nothing;
- `OneToken`: a claim, its `claimed` and `dispatch`, and a deferred dispatch are
  one token, of the lease the runner is about to start, `claimed` ahead of
  `dispatch`;
- `AcksInOrder`: evidence and its acknowledgements are about the journal's lease
  or about `run.last`, the latter first, so a late acknowledgement is one the
  runner still recognises.

The proof takes handler, queues, runner and journal as parameters (`Exchange`),
reduces what any step of the daemon does to the runner's connection to seven
cases (`DaemonView`, `DaemonViews`), and shows that those cases and each step of
the runner preserve the four parts.

Only model-checked, and why:

- liveness (`AcceptedHintReturned`, `HintServed`, `ReturnServed`,
  `DrainTerminates`, `SteeringSettles`, `WorkReturned`, `SuccessorPasses`,
  `BatchSettles`, `LeaseSettles`): the prover has no rules for fairness.

## Plan

In the order of what matters most; the first eight are in place.

1. `EligibilityNudge` with its proofs.
2. `SchedulerLoop`.
3. `QueueOrder` against its reference definition, with its proofs.
4. `TurnLifecycle`, which composes `QueueOrder` with turns and recovery, with
   its proofs.
5. `EligibilityWorkSource`, `ToolExecution`.
6. `HubFence` with its proofs, and `WriterEpochs`, which it implements.
7. `RunnerLease`.
8. Proofs of `SchedulerLoop`, `EligibilityWorkSource`, `ToolExecution` and
   `RunnerLease`.
9. An abstract tool execution (at most one start, an end that stays) that both
   `ToolExecution` and `RunnerLease` implement; an abstract session queue that
   `TurnLifecycle` implements.
10. Session delegation: parent and child turns, result delivery, cascades.
11. Goal mode, session closure against an active turn, credential exclusion
    deadlines, command replay, replacement of a lost runner, workspaces.

## Not modelled

Beside the parts listed above: the paused loop (a limit of zero passes only
waits for shutdown), the unbounded nudge channel (it never waits), goal and
delegation origins of turns, the delivery that ends a child wait, compaction's
checkpoint guard, session closure, replay of commands, the retry policy of
expired-pass recovery, and the transactions' own conflict retries, which repeat
an action that had no effect.  Of the runner protocol: enrollment, promotion,
registration revisions, workspace provisioning and release, the replacement of a
lost runner, and leases with side effects, which no tool can have today.  Of the
fence: migrations and the backoff between incarnations.
