---------------------------- MODULE ToolExecution ----------------------------
(***************************************************************************)
(* One tool batch of a turn: ToolExecutionService (crates/application/src/ *)
(* tool_loop.rs) over the transactions of crates/persistence/src/          *)
(* tool_loop.rs, with every commit that may be rolled back or whose answer *)
(* may be lost.                                                            *)
(*                                                                         *)
(* The service lives as long as the scheduler pass that made it            *)
(* (PostgresProviderToolLoopExecution).  A stage that fails with evidence  *)
(* in hand retains it, with the permit of the dispatch gate; the pass      *)
(* reconciles it once and gives up if that fails too.  Interrupts wait for *)
(* the gate; the recovery of slow passes, the watchdogs and the startup    *)
(* scan do not.                                                            *)
(***************************************************************************)
EXTENDS Naturals, FiniteSets

CONSTANTS
  Requests,   \* the batch's requests, numbered in their order
  External    \* the requests whose tool has an external effect

ASSUME ToolAssumption ==
  /\ Requests \subseteq Nat
  /\ IsFiniteSet(Requests)
  /\ External \subseteq Requests

VARIABLES
  approved,   \* the requests the approvals let through
  attempt,    \* durable state of each request's physical attempt
  turn,       \* durable phase of the turn
  doubt,      \* a transaction whose commit answer was lost, or NoDoubt
  pass,       \* the scheduler pass and the stage its service is in
  started,    \* how often the executor was started for each request
  answer      \* what the executor answered for each request

durable == <<attempt, turn>>
vars    == <<approved, attempt, turn, doubt, pass, started, answer>>

NoRequest == 0
NoDoubt   == [attempt |-> [r \in Requests |-> "none"], turn |-> "none"]
NoPass    == [at |-> "none", req |-> NoRequest, again |-> FALSE]

Live    == {"prepared", "inflight"}
Ended   == {"completed", "failed", "rejected", "lost", "ambiguous", "child"}
Phases  == {"executing", "child", "recovery", "runner", "continued", "closed"}
Waiting == {"prepare", "dispatch", "lose", "continue"}

\* The stages that hold the permit of the dispatch gate.
Permitted ==
  {"authorize", "rereadAuthorization", "reconcileAuthorization", "execute",
   "observe", "rereadObservation", "durable", "classify"}

---------------------------------------------------------------------------
\* The ranges, and that a pass outside its stages carries nothing.
TypeOK ==
  /\ approved \subseteq Requests
  /\ attempt \in [Requests -> {"none"} \cup Live \cup Ended]
  /\ turn \in Phases
  /\ doubt \in [attempt : [Requests -> {"none"} \cup Live \cup Ended],
                turn    : Phases \cup {"none"}]
  /\ pass \in [at    : {"none", "idle"} \cup Waiting \cup Permitted,
               req   : Requests \cup {NoRequest},
               again : BOOLEAN]
  /\ pass.at = "none" => pass = NoPass
  /\ started \in [Requests -> 0 .. 2]
  /\ answer \in [Requests -> {"none", "completed", "failed", "ambiguous"}]

Init ==
  /\ approved \in SUBSET Requests
  /\ attempt = [r \in Requests |-> "none"]
  /\ turn = "executing"
  /\ doubt = NoDoubt
  /\ pass = NoPass
  /\ started = [r \in Requests |-> 0]
  /\ answer = [r \in Requests |-> "none"]

---------------------------------------------------------------------------
(* Transactions. *)

\* lock_tool_session: a transaction in doubt holds the session's row lock
\* until the server has committed it or rolled it back.
Unlocked == doubt = NoDoubt

(***************************************************************************)
(* finish_commit.  The transaction commits and is answered; it commits or  *)
(* rolls back later than its failed answer; or it changes nothing, for a   *)
(* check it fails or for the database.                                     *)
(***************************************************************************)
Transact(check, attempts, phase, ok, lost, err) ==
  /\ Unlocked
  /\ \/ /\ check
        /\ attempt' = attempts
        /\ turn' = phase
        /\ pass' = ok
        /\ UNCHANGED doubt
     \/ /\ check
        /\ doubt' = [attempt |-> attempts, turn |-> phase]
        /\ pass' = lost
        /\ UNCHANGED durable
     \/ /\ pass' = err
        /\ UNCHANGED <<durable, doubt>>

Ends(r, end) == [attempt EXCEPT ![r] = end]

LiveRequests == {r \in Requests : attempt[r] \in Live}

Unprepared == {r \in approved : attempt[r] = "none"}

\* Mutant: the requests are taken from the back.
First_latest(S) == CHOOSE r \in S : \A other \in S : other <= r

First(S) == CHOOSE r \in S : \A other \in S : r <= other

\* Mutant: an attempt in flight counts as one that never ran.
CrashEnd_known(r) == "lost"

\* Mutant: a lost attempt is recorded like one whose executor failed.
CrashEnd_failed(r) ==
  IF attempt[r] = "inflight" /\ r \in External THEN "ambiguous" ELSE "failed"

\* CurrentToolAttempt::classify_crash_loss.
CrashEnd(r) ==
  IF attempt[r] = "inflight" /\ r \in External THEN "ambiguous" ELSE "lost"

\* The turn waits for a decision on the ambiguous, and fails with the lost.
CrashPhase(end) == IF end = "ambiguous" THEN "recovery" ELSE "closed"

---------------------------------------------------------------------------
(* The pass. *)

At(stage) == pass.at = stage

Goto(stage) == [pass EXCEPT !.at = stage]

\* tools.execute returned an outcome: the loop goes round.
Done == [at |-> "idle", req |-> NoRequest, again |-> FALSE]

\* Mutant: a failed reconciliation ends the pass and keeps the evidence.
Retained_kept(stage) == [Goto(IF pass.again THEN "none" ELSE stage) EXCEPT !.again = TRUE]

\* A stage failed with evidence retained: reconcile_retained_once, or the
\* pass fails and the evidence and the permit are dropped with the service.
Retained(stage) == IF pass.again THEN NoPass ELSE [Goto(stage) EXCEPT !.again = TRUE]

StartPass ==
  /\ pass = NoPass
  /\ turn \in {"executing", "child"}
  /\ pass' = Done
  /\ UNCHANGED <<approved, durable, doubt, started, answer>>

\* execute and execute_batch: one load of the batch picks the next stage.
Execute ==
  /\ At("idle")
  /\ Unlocked
  /\ IF turn # "executing"
     THEN pass' = NoPass
     ELSE LET work == Unprepared \cup LiveRequests
              r    == First(work)
          IN  IF work = {}
              THEN pass' = Goto("continue")
              ELSE pass' = [Goto(IF attempt[r] = "none" THEN "prepare"
                                 ELSE IF attempt[r] = "prepared" THEN "dispatch"
                                 ELSE "lose") EXCEPT !.req = r]
  /\ UNCHANGED <<approved, durable, doubt, started, answer>>

\* resume_child_wait: the delivered result puts the batch back to work.
ResumeChildWait ==
  /\ At("idle")
  /\ turn = "child"
  /\ Transact(TRUE, attempt, "executing", Done, NoPass, NoPass)
  /\ UNCHANGED <<approved, started, answer>>

\* prepare_attempt: under the gate, the earliest approved request.
PrepareAttempt ==
  /\ At("prepare")
  /\ Transact(turn = "executing" /\ LiveRequests = {} /\ Unprepared # {},
              Ends(First(Unprepared), "prepared"), turn, Done, NoPass, NoPass)
  /\ UNCHANGED <<approved, started, answer>>

\* execute_prepared up to its check: gate, reload, the exact prepared attempt.
ReloadPrepared ==
  /\ At("dispatch")
  /\ Unlocked
  /\ pass' = IF turn = "executing" /\ attempt[pass.req] = "prepared"
             THEN Goto("authorize") ELSE NoPass
  /\ UNCHANGED <<approved, durable, doubt, started, answer>>

\* commit_preflight_error, and a refused preauthorization.
PreflightError ==
  /\ At("authorize")
  /\ Transact(attempt[pass.req] = "prepared", Ends(pass.req, "rejected"), turn,
              Done, NoPass, NoPass)
  /\ UNCHANGED <<approved, started, answer>>

\* Mutant: authorization does not look at the turn and the attempt again.
Authorize_unchecked ==
  /\ At("authorize")
  /\ Transact(TRUE, Ends(pass.req, "inflight"), turn,
              Goto("execute"), Goto("rereadAuthorization"), NoPass)
  /\ UNCHANGED <<approved, started, answer>>

\* authorize_attempt_with_preauthorization.
Authorize ==
  /\ At("authorize")
  /\ Transact(turn = "executing" /\ attempt[pass.req] = "prepared",
              Ends(pass.req, "inflight"), turn,
              Goto("execute"), Goto("rereadAuthorization"), NoPass)
  /\ UNCHANGED <<approved, started, answer>>

\* The reread in the failed stage itself: a prepared attempt ends the pass.
RereadAuthorization ==
  /\ At("rereadAuthorization")
  /\ \/ /\ Unlocked
        /\ turn = "executing" /\ attempt[pass.req] \in Live
        /\ pass' = IF attempt[pass.req] = "inflight" THEN Goto("execute") ELSE NoPass
     \/ pass' = Retained("reconcileAuthorization")
  /\ UNCHANGED <<approved, durable, doubt, started, answer>>

\* AuthorizationNonConsumption: a prepared attempt goes through the gate again.
ReconcileAuthorization ==
  /\ At("reconcileAuthorization")
  /\ \/ /\ Unlocked
        /\ turn = "executing" /\ attempt[pass.req] \in Live
        /\ pass' = Goto(IF attempt[pass.req] = "inflight" THEN "execute" ELSE "dispatch")
     \/ pass' = NoPass
  /\ UNCHANGED <<approved, durable, doubt, started, answer>>

---------------------------------------------------------------------------
(* The executor. *)

\* From here on the effect may happen, whatever becomes of the pass.
Started == started' = [started EXCEPT ![pass.req] = @ + 1]

\* The executor answers with evidence; or with an error, or with evidence
\* for another dispatch, which shows nothing.
ExecutorAnswers ==
  /\ At("execute")
  /\ Started
  /\ \/ \E evidence \in {"completed", "failed", "ambiguous"} :
          /\ answer' = [answer EXCEPT ![pass.req] = evidence]
          /\ pass' = Goto("observe")
     \/ pass' = Goto("classify") /\ UNCHANGED answer
  /\ UNCHANGED <<approved, durable, doubt>>

\* Delegation and runner tools commit the attempt's end themselves: an end, a
\* wait for a child session, or the loss of the runner.
ExecutorCommits ==
  /\ At("execute")
  /\ Started
  /\ \E evidence \in {"completed", "failed", "child", "runner"} :
       /\ Transact(/\ turn = "executing" /\ attempt[pass.req] = "inflight"
                   /\ evidence = "child" => pass.req \notin External,
                   IF evidence = "runner" THEN attempt ELSE Ends(pass.req, evidence),
                   IF evidence \in {"child", "runner"} THEN evidence ELSE turn,
                   Goto("durable"), Goto("classify"), Goto("classify"))
       /\ answer' = IF evidence \in {"completed", "failed"}
                    THEN [answer EXCEPT ![pass.req] = evidence] ELSE answer
  /\ UNCHANGED approved

\* admit_executor_evidence: nothing without an effect is ambiguous.
Observation(r) ==
  IF answer[r] = "ambiguous" /\ r \notin External THEN "failed" ELSE answer[r]

\* commit_executor_observation: any failure retains the observation.
Observe ==
  /\ At("observe")
  /\ LET end == Observation(pass.req)
     IN  Transact(attempt[pass.req] = "inflight", Ends(pass.req, end),
                  IF end = "ambiguous" THEN "recovery" ELSE turn, Done,
                  Retained("rereadObservation"), Retained("rereadObservation"))
  /\ UNCHANGED <<approved, started, answer>>

\* Mutant: what was not committed is executed once more.
RereadObservation_repeats ==
  /\ At("rereadObservation")
  /\ \/ /\ Unlocked
        /\ attempt[pass.req] \in {"inflight", Observation(pass.req)}
        /\ pass' = IF attempt[pass.req] = "inflight" THEN Goto("execute") ELSE Done
     \/ pass' = NoPass
  /\ UNCHANGED <<approved, durable, doubt, started, answer>>

\* reread_observation: pending is committed again, anything that is neither
\* pending nor this very observation is inconsistent.
RereadObservation ==
  /\ At("rereadObservation")
  /\ \/ /\ Unlocked
        /\ attempt[pass.req] \in {"inflight", Observation(pass.req)}
        /\ pass' = IF attempt[pass.req] = "inflight" THEN Goto("observe") ELSE Done
     \/ pass' = NoPass
  /\ UNCHANGED <<approved, durable, doubt, started, answer>>

\* reconcile_durable_completion, _child_wait and _runner_wait: the executor's
\* own commit is confirmed or the pass fails.
RereadDurable ==
  /\ At("durable")
  /\ \/ /\ Unlocked
        /\ pass' = IF turn = "executing" /\ attempt[pass.req] \in {"completed", "failed"}
                   THEN Done ELSE NoPass
     \/ pass' = Retained("durable")
  /\ UNCHANGED <<approved, durable, doubt, started, answer>>

---------------------------------------------------------------------------
(* Loss. *)

\* execute_batch on an attempt in flight that this service did not dispatch.
ReloadInFlight ==
  /\ At("lose")
  /\ Unlocked
  /\ pass' = IF turn = "executing" /\ attempt[pass.req] = "inflight"
             THEN Goto("classify") ELSE NoPass
  /\ UNCHANGED <<approved, durable, doubt, started, answer>>

\* classify_crash_loss_and_close; a fatal cause ends the pass all the same.
ClassifyCrashLoss ==
  /\ At("classify")
  /\ LET end == CrashEnd(pass.req)
     IN  \E ok \in {Done, NoPass} :
           Transact(turn = "executing" /\ attempt[pass.req] \in Live,
                    Ends(pass.req, end), CrashPhase(end),
                    ok, Retained("classify"), Retained("classify"))
  /\ UNCHANGED <<approved, started, answer>>

\* Mutant: a denied request holds the continuation up.
PrepareContinuation_all ==
  /\ At("continue")
  /\ \E phase \in {"continued", "closed"} :
       Transact(turn = "executing" /\ \A r \in Requests : attempt[r] \in Ended,
                attempt, phase, NoPass, NoPass, NoPass)
  /\ UNCHANGED <<approved, started, answer>>

\* prepare_continuation: the batch is projected into the next model call, or
\* the turn fails with it.
PrepareContinuation ==
  /\ At("continue")
  /\ \E phase \in {"continued", "closed"} :
       Transact(turn = "executing" /\ LiveRequests = {} /\ Unprepared = {},
                attempt, phase, NoPass, NoPass, NoPass)
  /\ UNCHANGED <<approved, started, answer>>

\* The pass is dropped at an await, or the daemon dies with it.
DropPass ==
  /\ pass # NoPass
  /\ pass' = NoPass
  /\ UNCHANGED <<approved, durable, doubt, started, answer>>

---------------------------------------------------------------------------
(* The others. *)

\* The database settles a transaction whose answer was lost.
SettleDoubt ==
  /\ doubt # NoDoubt
  /\ \/ attempt' = doubt.attempt /\ turn' = doubt.turn
     \/ UNCHANGED durable
  /\ doubt' = NoDoubt
  /\ UNCHANGED <<approved, pass, started, answer>>

\* An interrupt: under the gate, refused while an attempt is in flight.
Interrupt ==
  /\ pass.at \notin Permitted
  /\ Unlocked
  /\ turn \in {"executing", "child", "recovery"}
  /\ \A r \in Requests : attempt[r] # "inflight"
  /\ attempt' = [r \in Requests |-> IF attempt[r] = "prepared" THEN "lost" ELSE attempt[r]]
  /\ turn' = "closed"
  /\ UNCHANGED <<approved, doubt, pass, started, answer>>

\* recover_locked_session: the startup scan, the held-slot watchdog and the
\* recovery of an expired pass.
Recover ==
  /\ Unlocked
  /\ turn = "executing"
  /\ LiveRequests # {}
  /\ LET r == First(LiveRequests)
     IN  /\ attempt' = Ends(r, CrashEnd(r))
         /\ turn' = CrashPhase(CrashEnd(r))
  /\ UNCHANGED <<approved, doubt, pass, started, answer>>

PassStep ==
  \/ Execute \/ ResumeChildWait \/ PrepareAttempt \/ ReloadPrepared
  \/ PreflightError \/ Authorize
  \/ RereadAuthorization \/ ReconcileAuthorization
  \/ ExecutorAnswers \/ ExecutorCommits \/ Observe \/ RereadObservation \/ RereadDurable
  \/ ReloadInFlight \/ ClassifyCrashLoss \/ PrepareContinuation

Next ==
  StartPass \/ PassStep \/ DropPass \/ SettleDoubt \/ Interrupt \/ Recover

Spec == Init /\ [][Next]_vars

(***************************************************************************)
(* Sweeps start passes, the database settles what it has in doubt, the     *)
(* watchdogs recover, and a pass moves or is dropped at its occupancy      *)
(* ceiling; a pass is not dropped before every one of its stages, and a    *)
(* database that keeps being asked does not fail every time.               *)
(***************************************************************************)
FairSpec ==
  /\ Spec
  /\ WF_vars(StartPass)
  /\ WF_vars(PassStep \/ DropPass)
  /\ WF_vars(SettleDoubt)
  /\ SF_vars(Recover)
  /\ SF_vars(Execute)
  /\ SF_vars(PrepareAttempt /\ durable' # durable)
  /\ SF_vars(PrepareContinuation /\ durable' # durable)

---------------------------------------------------------------------------
(* Properties. *)

\* The executor is started at most once for an attempt, and for the requests
\* of a batch one at a time and in their order: no lost answer, no reread, no
\* retained state, no pass after this one dispatches an attempt again or ahead
\* of an earlier request.
StartedOnceInOrder ==
  /\ \A r \in Requests : started[r] <= 1
  /\ \A r, later \in Requests :
       r < later /\ r \in approved /\ started[later] > 0
         => attempt[r] \in Ended

\* The record is honest.  What it says never ran did not run and is not about
\* to: an attempt not yet authorized, refused, or, for a tool with an external
\* effect, closed as lost.  A definite end is what the executor answered in
\* the one run it had.
HonestRecord ==
  \A r \in Requests :
    /\ \/ attempt[r] \in {"none", "prepared", "rejected"}
       \/ attempt[r] = "lost" /\ r \in External
       => started[r] = 0 /\ ~(At("execute") /\ pass.req = r)
    /\ attempt[r] \in {"completed", "failed"}
       => started[r] = 1 /\ attempt[r] = Observation(r)

\* An ended attempt keeps its end: what a lost commit wrote is neither
\* overwritten by the retry nor by the recovery that raced it.
EndsAreFinal ==
  [][\A r \in Requests : attempt[r] \in Ended => attempt'[r] = attempt[r]]_vars

\* A batch does not execute for ever: it is continued, closed or parked.
BatchSettles == turn = "executing" ~> turn # "executing"

---------------------------------------------------------------------------
(* The parts of the inductive invariant. *)

\* A stage that reads or writes an attempt knows whose attempt.
StagesHaveRequest ==
  pass.at \in Permitted \cup {"dispatch", "lose"} => pass.req \in Requests

\* A transaction in doubt keeps the end of every attempt that has ended.
DoubtKeepsEnds ==
  doubt # NoDoubt =>
    /\ doubt.turn \in Phases
    /\ \A r \in Requests : attempt[r] \in Ended => doubt.attempt[r] = attempt[r]

\* Up to the start the executor has not been started, and a start has no
\* transaction in doubt beside it and an authorization behind it: the attempt
\* is in flight, or a recovery that did not wait for the gate has closed it.
StartIsAuthorized ==
  /\ pass.at \in {"authorize", "rereadAuthorization", "reconcileAuthorization", "execute"}
       => started[pass.req] = 0
  /\ At("execute") =>
       /\ doubt = NoDoubt
       /\ \/ attempt[pass.req] \in {"inflight", "ambiguous"}
          \/ attempt[pass.req] = "lost" /\ pass.req \notin External

\* An observation in hand is the executor's answer in its one run.
ObservationInHand ==
  pass.at \in {"observe", "rereadObservation"} =>
    started[pass.req] = 1 /\ answer[pass.req] # "none"

\* What the attempts, written or in doubt, say of the executor.
Honest(attempts) ==
  \A r \in Requests :
    /\ \/ attempts[r] \in {"none", "prepared", "rejected"}
       \/ attempts[r] = "lost" /\ r \in External
       => started[r] = 0
    /\ attempts[r] \in {"completed", "failed"}
       => started[r] = 1 /\ attempts[r] = Observation(r)

\* No attempt, written or in doubt, is made ahead of an earlier request's end.
OneAtATime(attempts) ==
  \A r, later \in Requests :
    r < later /\ r \in approved /\ attempts[later] # "none" => attempts[r] \in Ended

ToolInv ==
  /\ TypeOK /\ StagesHaveRequest /\ DoubtKeepsEnds
  /\ StartIsAuthorized /\ ObservationInHand
  /\ \A r \in Requests : started[r] <= 1
  /\ Honest(attempt) /\ OneAtATime(attempt)
  /\ doubt # NoDoubt => Honest(doubt.attempt) /\ OneAtATime(doubt.attempt)
=============================================================================
