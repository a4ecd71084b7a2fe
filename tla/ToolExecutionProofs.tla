------------------------ MODULE ToolExecutionProofs ------------------------
(***************************************************************************)
(* Proofs about ToolExecution, for any finite batch and any subset of it   *)
(* with external effects.  ToolInv is inductive; StartedOnceInOrder and    *)
(* HonestRecord follow from it, and with it no step rewrites an end.       *)
(***************************************************************************)
EXTENDS ToolExecution, WellFoundedInduction, TLAPS

\* First takes the earliest request (the loops over the batch in request order).
LEMMA FirstIsLeast ==
  ASSUME NEW S, S \subseteq Requests, S # {}
  PROVE  First(S) \in S /\ \A other \in S : First(S) <= other
  <1>1. PICK r \in S : \A other \in S : ~(<<other, r>> \in OpToRel(<, Nat))
    <2>1. S \subseteq Nat
      BY ToolAssumption
    <2> QED
      BY <2>1, NatLessThanWellFounded, WFMin, Zenon
  <1>2. \A other \in S : r <= other
    <2> SUFFICES ASSUME NEW other \in S, other < r PROVE FALSE
      BY ToolAssumption
    <2>1. <<other, r>> \in Nat \X Nat
      BY ToolAssumption
    <2>2. <<other, r>> \in OpToRel(<, Nat)
      BY <2>1 DEF OpToRel
    <2> QED
      BY <2>2, <1>1
  <1> QED
    BY <1>2 DEF First

\* The values of a pass, and the rest of the type invariant.
PassValues ==
  {p \in [at    : {"none", "idle"} \cup Waiting \cup Permitted,
          req   : Requests \cup {NoRequest},
          again : BOOLEAN] : p.at = "none" => p = NoPass}

DataTypeOK ==
  /\ approved \subseteq Requests
  /\ attempt \in [Requests -> {"none"} \cup Live \cup Ended]
  /\ turn \in Phases
  /\ doubt \in [attempt : [Requests -> {"none"} \cup Live \cup Ended],
                turn    : Phases \cup {"none"}]
  /\ started \in [Requests -> 0 .. 2]
  /\ answer \in [Requests -> {"none", "completed", "failed", "ambiguous"}]

\* Moving a pass on, with or without retained evidence, keeps its type.
LEMMA PassValuesClosed ==
  ASSUME TypeOK
  PROVE  /\ pass \in PassValues /\ NoPass \in PassValues /\ Done \in PassValues
         /\ \A stage \in Waiting \cup Permitted :
              /\ Goto(stage) \in PassValues
              /\ Retained(stage) \in PassValues
  <1>1. pass \in PassValues
    BY DEF TypeOK, PassValues
  <1>2. NoPass \in PassValues /\ Done \in PassValues
    BY DEF NoPass, Done, PassValues
  <1>3. ASSUME NEW stage \in Waiting \cup Permitted PROVE Goto(stage) \in PassValues
    BY DEF Goto, TypeOK, PassValues, Waiting, Permitted
  <1>4. ASSUME NEW stage \in Waiting \cup Permitted PROVE Retained(stage) \in PassValues
    <2>1. [Goto(stage) EXCEPT !.again = TRUE] \in PassValues
      BY DEF Goto, TypeOK, PassValues, Waiting, Permitted
    <2> QED
      BY <2>1, <1>2 DEF Retained
  <1> QED
    BY <1>1, <1>2, <1>3, <1>4

\* Where a moved pass is, and that it keeps its request.
LEMMA PassFields ==
  ASSUME TypeOK, NEW stage
  PROVE  /\ Goto(stage).at = stage /\ Goto(stage).req = pass.req
         /\ \/ Retained(stage) = NoPass
            \/ Retained(stage).at = stage /\ Retained(stage).req = pass.req
  BY DEF Goto, Retained, TypeOK

\* The steps that read and move the pass and write nothing.
MovesPass ==
  \/ StartPass \/ Execute \/ ReloadPrepared \/ RereadAuthorization
  \/ ReconcileAuthorization \/ RereadObservation \/ RereadDurable
  \/ ReloadInFlight \/ DropPass

\* They change nothing but the pass.
LEMMA MovesPassOnly ==
  MovesPass => UNCHANGED <<approved, attempt, turn, doubt, started, answer>>
  BY DEF MovesPass, StartPass, Execute, ReloadPrepared, RereadAuthorization,
         ReconcileAuthorization, RereadObservation, RereadDurable,
         ReloadInFlight, DropPass, durable

\* execute_batch ends the pass, goes to the continuation, or picks a request.
LEMMA ExecutePicks ==
  ASSUME ToolInv, Execute
  PROVE  \/ pass' = NoPass
         \/ pass' = Goto("continue")
         \/ \E r \in Requests, stage \in {"prepare", "dispatch", "lose"} :
              pass' = [at |-> stage, req |-> r, again |-> pass.again]
  <1> DEFINE work == Unprepared \cup LiveRequests
             r == First(work)
             stage == IF attempt[r] = "none" THEN "prepare"
                      ELSE IF attempt[r] = "prepared" THEN "dispatch" ELSE "lose"
  <1>1. CASE turn # "executing" \/ work = {}
    BY <1>1 DEF Execute
  <1>2. CASE turn = "executing" /\ work # {}
    <2>1. work \subseteq Requests
      BY DEF Unprepared, LiveRequests, ToolInv, TypeOK
    <2>2. r \in Requests
      BY <1>2, <2>1, FirstIsLeast
    <2>3. pass' = [Goto(stage) EXCEPT !.req = r]
      BY <1>2 DEF Execute
    <2>4. stage \in {"prepare", "dispatch", "lose"}
      OBVIOUS
    <2> HIDE DEF r, stage
    <2>5. pass = [at |-> pass.at, req |-> pass.req, again |-> pass.again]
      BY DEF ToolInv, TypeOK
    <2>6. Goto(stage) = [at |-> stage, req |-> pass.req, again |-> pass.again]
      BY <2>5 DEF Goto
    <2>7. [Goto(stage) EXCEPT !.req = r] = [at |-> stage, req |-> r, again |-> pass.again]
      BY <2>6
    <2> QED
      BY <2>2, <2>3, <2>4, <2>7
  <1> QED
    BY <1>1, <1>2

\* prepare_attempt touches at most the earliest approved request without an
\* attempt, and only when no attempt is live.
LEMMA PrepareTakesEarliest ==
  ASSUME ToolInv, PrepareAttempt
  PROVE  /\ doubt = NoDoubt
         /\ UNCHANGED <<approved, started, answer>>
         /\ \/ UNCHANGED <<attempt, doubt>>
            \/ \E r \in approved :
                 /\ attempt[r] = "none"
                 /\ LiveRequests = {}
                 /\ \A other \in approved : other < r => attempt[other] # "none"
                 /\ \/ attempt' = Ends(r, "prepared") /\ UNCHANGED doubt
                    \/ /\ doubt' = [attempt |-> Ends(r, "prepared"), turn |-> turn]
                       /\ UNCHANGED attempt
  <1> DEFINE r == First(Unprepared)
  <1>1. /\ doubt = NoDoubt
        /\ UNCHANGED <<approved, started, answer>>
    BY DEF PrepareAttempt, Transact, Unlocked
  <1>2. \/ UNCHANGED <<attempt, doubt>>
        \/ /\ LiveRequests = {} /\ Unprepared # {}
           /\ \/ attempt' = Ends(r, "prepared") /\ UNCHANGED doubt
              \/ /\ doubt' = [attempt |-> Ends(r, "prepared"), turn |-> turn]
                 /\ UNCHANGED attempt
    BY DEF PrepareAttempt, Transact, durable
  <1>3. Unprepared # {} => r \in Unprepared /\ \A other \in Unprepared : r <= other
    BY FirstIsLeast DEF Unprepared, ToolInv, TypeOK
  <1> HIDE DEF r
  <1>4. ASSUME Unprepared # {}
        PROVE  /\ r \in approved /\ attempt[r] = "none"
               /\ \A other \in approved : other < r => attempt[other] # "none"
    <2>1. r \in approved /\ attempt[r] = "none"
      BY <1>3, <1>4 DEF Unprepared
    <2>2. ASSUME NEW other \in approved, other < r, attempt[other] = "none" PROVE FALSE
      <3>1. other \in Unprepared
        BY <2>2 DEF Unprepared
      <3>2. r <= other
        BY <1>3, <1>4, <3>1
      <3>3. r \in Nat /\ other \in Nat
        BY <2>1, ToolAssumption DEF ToolInv, TypeOK
      <3> QED
        BY <2>2, <3>2, <3>3
    <2> QED
      BY <2>1, <2>2
  <1> QED
    BY <1>1, <1>2, <1>4

\* Every step keeps the type of the pass.
LEMMA PassTypeStep ==
  ToolInv /\ [Next]_vars => pass' \in PassValues
  <1> SUFFICES ASSUME ToolInv, [Next]_vars PROVE pass' \in PassValues
    OBVIOUS
  <1> USE ToolAssumption, PassValuesClosed DEF ToolInv, vars, durable, Waiting, Permitted
  <1>1. CASE Execute
    BY <1>1, ExecutePicks DEF PassValues
  <1>2. CASE ResumeChildWait
    BY <1>2 DEF ResumeChildWait, Transact
  <1>3. CASE PrepareAttempt
    BY <1>3 DEF PrepareAttempt, Transact
  <1>4. CASE ReloadPrepared
    BY <1>4 DEF ReloadPrepared
  <1>5. CASE PreflightError
    BY <1>5 DEF PreflightError, Transact
  <1>6. CASE Authorize
    BY <1>6 DEF Authorize, Transact
  <1>7. CASE RereadAuthorization
    BY <1>7 DEF RereadAuthorization
  <1>8. CASE ReconcileAuthorization
    BY <1>8 DEF ReconcileAuthorization
  <1>9. CASE ExecutorAnswers
    BY <1>9 DEF ExecutorAnswers
  <1>10. CASE ExecutorCommits
    BY <1>10 DEF ExecutorCommits, Transact
  <1>11. CASE Observe
    BY <1>11 DEF Observe, Transact
  <1>12. CASE RereadObservation
    BY <1>12 DEF RereadObservation
  <1>13. CASE RereadDurable
    BY <1>13 DEF RereadDurable
  <1>14. CASE ReloadInFlight
    BY <1>14 DEF ReloadInFlight
  <1>15. CASE ClassifyCrashLoss
    BY <1>15 DEF ClassifyCrashLoss, Transact
  <1>16. CASE PrepareContinuation
    BY <1>16 DEF PrepareContinuation, Transact
  <1>17. CASE StartPass
    BY <1>17 DEF StartPass
  <1>18. CASE DropPass
    BY <1>18 DEF DropPass
  <1>19. CASE SettleDoubt
    BY <1>19 DEF SettleDoubt
  <1>20. CASE Interrupt
    BY <1>20 DEF Interrupt
  <1>21. CASE Recover
    BY <1>21, FirstIsLeast DEF Recover
  <1>22. CASE UNCHANGED vars
    BY <1>22 DEF Observation
  <1> QED
    BY <1>1, <1>2, <1>3, <1>4, <1>5, <1>6, <1>7, <1>8, <1>9, <1>10, <1>11, <1>12, <1>13, <1>14, <1>15, <1>16, <1>17, <1>18, <1>19, <1>20, <1>21, <1>22 DEF Next, PassStep

\* Every step keeps the types of the other variables.
LEMMA RestTypeStep ==
  ToolInv /\ [Next]_vars => DataTypeOK'
  <1> SUFFICES ASSUME ToolInv, [Next]_vars PROVE DataTypeOK'
    OBVIOUS
  <1> USE ToolAssumption, PassFields DEF ToolInv, TypeOK, vars, durable, NoPass, Done, At, Phases, Waiting, Permitted, Live, Ended, NoDoubt, Unlocked, DataTypeOK
  <1>1. CASE MovesPass
    BY <1>1, MovesPassOnly
  <1>2. CASE ResumeChildWait
    BY <1>2 DEF ResumeChildWait, Ends, Transact
  <1>3. CASE PrepareAttempt
    BY <1>3, FirstIsLeast DEF PrepareAttempt, Ends, Transact, LiveRequests, Unprepared
  <1>4. CASE PreflightError
    BY <1>4 DEF PreflightError, Ends, Transact, StagesHaveRequest
  <1>5. CASE Authorize
    BY <1>5 DEF Authorize, Ends, Transact, StagesHaveRequest, Honest
  <1>6. CASE ExecutorAnswers
    BY <1>6 DEF ExecutorAnswers, Ends, Started, StagesHaveRequest, StartIsAuthorized
  <1>7. CASE ExecutorCommits
    BY <1>7 DEF ExecutorCommits, Ends, Transact, Started, StagesHaveRequest, StartIsAuthorized
  <1>8. CASE Observe
    BY <1>8 DEF Observe, Ends, Transact, Observation, ObservationInHand, StagesHaveRequest
  <1>9. CASE ClassifyCrashLoss
    BY <1>9 DEF ClassifyCrashLoss, Ends, Transact, CrashEnd, CrashPhase, StagesHaveRequest
  <1>10. CASE PrepareContinuation
    BY <1>10 DEF PrepareContinuation, Ends, Transact, LiveRequests, Unprepared
  <1>11. CASE SettleDoubt
    BY <1>11 DEF SettleDoubt, Ends, DoubtKeepsEnds, Honest, OneAtATime
  <1>12. CASE Interrupt
    BY <1>12 DEF Interrupt, Ends
  <1>13. CASE Recover
    BY <1>13, FirstIsLeast DEF Recover, Ends, LiveRequests, Unprepared, CrashEnd, CrashPhase
  <1>14. CASE UNCHANGED vars
    BY <1>14 DEF Observation
  <1> QED
    BY <1>1, <1>2, <1>3, <1>4, <1>5, <1>6, <1>7, <1>8, <1>9, <1>10, <1>11, <1>12, <1>13, <1>14 DEF Next, PassStep, MovesPass

\* Every step keeps a request with the stages that need one.
LEMMA StagesHaveRequestStep ==
  ToolInv /\ [Next]_vars => StagesHaveRequest'
  <1> SUFFICES ASSUME ToolInv, [Next]_vars PROVE StagesHaveRequest'
    OBVIOUS
  <1> USE ToolAssumption, PassFields DEF ToolInv, TypeOK, vars, durable, NoPass, Done, At, Phases, Waiting, Permitted, Live, Ended, NoDoubt, Unlocked, StagesHaveRequest
  <1>1. CASE Execute
    BY <1>1, ExecutePicks
  <1>2. CASE ResumeChildWait
    BY <1>2 DEF ResumeChildWait, Ends, Transact
  <1>3. CASE PrepareAttempt
    BY <1>3 DEF PrepareAttempt, Ends, Transact, LiveRequests, Unprepared
  <1>4. CASE ReloadPrepared
    BY <1>4 DEF ReloadPrepared, Ends, Honest
  <1>5. CASE PreflightError
    BY <1>5 DEF PreflightError, Ends, Transact
  <1>6. CASE Authorize
    BY <1>6 DEF Authorize, Ends, Transact, Honest
  <1>7. CASE RereadAuthorization
    BY <1>7 DEF RereadAuthorization, Ends
  <1>8. CASE ReconcileAuthorization
    BY <1>8 DEF ReconcileAuthorization, Ends
  <1>9. CASE ExecutorAnswers
    BY <1>9 DEF ExecutorAnswers, Ends, Started, StartIsAuthorized
  <1>10. CASE ExecutorCommits
    BY <1>10 DEF ExecutorCommits, Ends, Transact, Started, StartIsAuthorized
  <1>11. CASE Observe
    BY <1>11 DEF Observe, Ends, Transact, Observation, ObservationInHand
  <1>12. CASE RereadObservation
    BY <1>12 DEF RereadObservation, Ends, Observation, ObservationInHand
  <1>13. CASE RereadDurable
    BY <1>13 DEF RereadDurable, Ends
  <1>14. CASE ReloadInFlight
    BY <1>14 DEF ReloadInFlight, Ends
  <1>15. CASE ClassifyCrashLoss
    BY <1>15 DEF ClassifyCrashLoss, Ends, Transact, CrashEnd, CrashPhase
  <1>16. CASE PrepareContinuation
    BY <1>16 DEF PrepareContinuation, Ends, Transact, LiveRequests, Unprepared
  <1>17. CASE StartPass
    BY <1>17 DEF StartPass, Ends
  <1>18. CASE DropPass
    BY <1>18 DEF DropPass, Ends
  <1>19. CASE SettleDoubt
    BY <1>19 DEF SettleDoubt, Ends, DoubtKeepsEnds, Honest, OneAtATime
  <1>20. CASE Interrupt
    BY <1>20 DEF Interrupt, Ends
  <1>21. CASE Recover
    BY <1>21, FirstIsLeast DEF Recover, Ends, LiveRequests, Unprepared, CrashEnd, CrashPhase
  <1>22. CASE UNCHANGED vars
    BY <1>22 DEF Observation
  <1> QED
    BY <1>1, <1>2, <1>3, <1>4, <1>5, <1>6, <1>7, <1>8, <1>9, <1>10, <1>11, <1>12, <1>13, <1>14, <1>15, <1>16, <1>17, <1>18, <1>19, <1>20, <1>21, <1>22 DEF Next, PassStep

\* Every step keeps what a transaction in doubt may write: no lost commit
\* would rewrite an end.
LEMMA DoubtKeepsEndsStep ==
  ToolInv /\ [Next]_vars => DoubtKeepsEnds'
  <1> SUFFICES ASSUME ToolInv, [Next]_vars PROVE DoubtKeepsEnds'
    OBVIOUS
  <1> USE ToolAssumption, PassFields DEF ToolInv, TypeOK, vars, durable, NoPass, Done, At, Phases, Waiting, Permitted, Live, Ended, NoDoubt, Unlocked, DoubtKeepsEnds
  <1>1. CASE MovesPass
    BY <1>1, MovesPassOnly
  <1>2. CASE ResumeChildWait
    BY <1>2 DEF ResumeChildWait, Ends, Transact
  <1>3. CASE PrepareAttempt
    BY <1>3, PrepareTakesEarliest DEF Ends, LiveRequests
  <1>4. CASE PreflightError
    BY <1>4 DEF PreflightError, Ends, Transact, StagesHaveRequest
  <1>5. CASE Authorize
    BY <1>5 DEF Authorize, Ends, Transact, StagesHaveRequest, Honest
  <1>6. CASE ExecutorAnswers
    BY <1>6 DEF ExecutorAnswers, Ends, Started, StagesHaveRequest, StartIsAuthorized
  <1>7. CASE ExecutorCommits
    BY <1>7 DEF ExecutorCommits, Ends, Transact, Started, StagesHaveRequest, StartIsAuthorized
  <1>8. CASE Observe
    BY <1>8 DEF Observe, Ends, Transact, Observation, ObservationInHand, StagesHaveRequest
  <1>9. CASE ClassifyCrashLoss
    BY <1>9 DEF ClassifyCrashLoss, Ends, Transact, CrashEnd, CrashPhase, StagesHaveRequest
  <1>10. CASE PrepareContinuation
    BY <1>10 DEF PrepareContinuation, Ends, Transact, LiveRequests, Unprepared
  <1>11. CASE SettleDoubt
    BY <1>11 DEF SettleDoubt, Ends, Honest, OneAtATime
  <1>12. CASE Interrupt
    BY <1>12 DEF Interrupt, Ends
  <1>13. CASE Recover
    BY <1>13, FirstIsLeast DEF Recover, Ends, LiveRequests, Unprepared, CrashEnd, CrashPhase
  <1>14. CASE UNCHANGED vars
    BY <1>14 DEF Observation
  <1> QED
    BY <1>1, <1>2, <1>3, <1>4, <1>5, <1>6, <1>7, <1>8, <1>9, <1>10, <1>11, <1>12, <1>13, <1>14 DEF Next, PassStep, MovesPass

\* Every step keeps a start behind its authorization: rereads and retained
\* state lead to the executor only when it has not been started.
LEMMA StartIsAuthorizedStep ==
  ToolInv /\ [Next]_vars => StartIsAuthorized'
  <1> SUFFICES ASSUME ToolInv, [Next]_vars PROVE StartIsAuthorized'
    OBVIOUS
  <1> USE ToolAssumption, PassFields DEF ToolInv, TypeOK, vars, durable, NoPass, Done, At, Phases, Waiting, Permitted, Live, Ended, NoDoubt, Unlocked, StartIsAuthorized
  <1>1. CASE Execute
    BY <1>1, ExecutePicks
  <1>2. CASE ResumeChildWait
    BY <1>2 DEF ResumeChildWait, Ends, Transact, StagesHaveRequest
  <1>3. CASE PrepareAttempt
    BY <1>3 DEF PrepareAttempt, Ends, Transact, LiveRequests, Unprepared, StagesHaveRequest
  <1>4. CASE ReloadPrepared
    <2>1. pass.req \in Requests
      BY <1>4 DEF ReloadPrepared, StagesHaveRequest
    <2>2. pass' = Goto("authorize") => attempt[pass.req] = "prepared"
      BY <1>4 DEF ReloadPrepared
    <2>3. attempt[pass.req] = "prepared" => started[pass.req] = 0
      BY <2>1 DEF Honest
    <2>4. pass' = Goto("authorize") \/ pass' = NoPass
      BY <1>4 DEF ReloadPrepared
    <2> QED
      BY <1>4, <2>2, <2>3, <2>4 DEF ReloadPrepared
  <1>5. CASE PreflightError
    BY <1>5 DEF PreflightError, Ends, Transact, StagesHaveRequest
  <1>6. CASE Authorize
    BY <1>6 DEF Authorize, Ends, Transact, StagesHaveRequest, Honest
  <1>7. CASE RereadAuthorization
    BY <1>7 DEF RereadAuthorization, Ends, StagesHaveRequest
  <1>8. CASE ReconcileAuthorization
    BY <1>8 DEF ReconcileAuthorization, Ends, StagesHaveRequest
  <1>9. CASE ExecutorAnswers
    BY <1>9 DEF ExecutorAnswers, Ends, Started, StagesHaveRequest
  <1>10. CASE ExecutorCommits
    BY <1>10 DEF ExecutorCommits, Ends, Transact, Started, StagesHaveRequest
  <1>11. CASE Observe
    BY <1>11 DEF Observe, Ends, Transact, Observation, ObservationInHand, StagesHaveRequest
  <1>12. CASE RereadObservation
    BY <1>12 DEF RereadObservation, Ends, Observation, ObservationInHand, StagesHaveRequest
  <1>13. CASE RereadDurable
    BY <1>13 DEF RereadDurable, Ends, StagesHaveRequest
  <1>14. CASE ReloadInFlight
    BY <1>14 DEF ReloadInFlight, Ends, StagesHaveRequest
  <1>15. CASE ClassifyCrashLoss
    BY <1>15 DEF ClassifyCrashLoss, Ends, Transact, CrashEnd, CrashPhase, StagesHaveRequest
  <1>16. CASE PrepareContinuation
    BY <1>16 DEF PrepareContinuation, Ends, Transact, LiveRequests, Unprepared, StagesHaveRequest
  <1>17. CASE StartPass
    BY <1>17 DEF StartPass, Ends, StagesHaveRequest
  <1>18. CASE DropPass
    BY <1>18 DEF DropPass, Ends, StagesHaveRequest
  <1>19. CASE SettleDoubt
    BY <1>19 DEF SettleDoubt, Ends, StagesHaveRequest, DoubtKeepsEnds, Honest, OneAtATime
  <1>20. CASE Interrupt
    BY <1>20 DEF Interrupt, Ends, StagesHaveRequest
  <1>21. CASE Recover
    BY <1>21, FirstIsLeast DEF Recover, Ends, LiveRequests, Unprepared, CrashEnd, CrashPhase, StagesHaveRequest
  <1>22. CASE UNCHANGED vars
    BY <1>22 DEF Observation
  <1> QED
    BY <1>1, <1>2, <1>3, <1>4, <1>5, <1>6, <1>7, <1>8, <1>9, <1>10, <1>11, <1>12, <1>13, <1>14, <1>15, <1>16, <1>17, <1>18, <1>19, <1>20, <1>21, <1>22 DEF Next, PassStep

\* Every step keeps an observation with the run it came from.
LEMMA ObservationInHandStep ==
  ToolInv /\ [Next]_vars => ObservationInHand'
  <1> SUFFICES ASSUME ToolInv, [Next]_vars PROVE ObservationInHand'
    OBVIOUS
  <1> USE ToolAssumption, PassFields DEF ToolInv, TypeOK, vars, durable, NoPass, Done, At, Phases, Waiting, Permitted, Live, Ended, NoDoubt, Unlocked, ObservationInHand
  <1>1. CASE Execute
    BY <1>1, ExecutePicks
  <1>2. CASE ResumeChildWait
    BY <1>2 DEF ResumeChildWait, Ends, Transact, StagesHaveRequest
  <1>3. CASE PrepareAttempt
    BY <1>3 DEF PrepareAttempt, Ends, Transact, LiveRequests, Unprepared, StagesHaveRequest
  <1>4. CASE ReloadPrepared
    BY <1>4 DEF ReloadPrepared, Ends, StagesHaveRequest, Honest
  <1>5. CASE PreflightError
    BY <1>5 DEF PreflightError, Ends, Transact, StagesHaveRequest
  <1>6. CASE Authorize
    BY <1>6 DEF Authorize, Ends, Transact, StagesHaveRequest, Honest
  <1>7. CASE RereadAuthorization
    BY <1>7 DEF RereadAuthorization, Ends, StagesHaveRequest
  <1>8. CASE ReconcileAuthorization
    BY <1>8 DEF ReconcileAuthorization, Ends, StagesHaveRequest
  <1>9. CASE ExecutorAnswers
    BY <1>9 DEF ExecutorAnswers, Ends, Started, StagesHaveRequest, StartIsAuthorized
  <1>10. CASE ExecutorCommits
    BY <1>10 DEF ExecutorCommits, Ends, Transact, Started, StagesHaveRequest, StartIsAuthorized
  <1>11. CASE Observe
    BY <1>11 DEF Observe, Ends, Transact, Observation, StagesHaveRequest
  <1>12. CASE RereadObservation
    BY <1>12 DEF RereadObservation, Ends, Observation, StagesHaveRequest
  <1>13. CASE RereadDurable
    BY <1>13 DEF RereadDurable, Ends, StagesHaveRequest
  <1>14. CASE ReloadInFlight
    BY <1>14 DEF ReloadInFlight, Ends, StagesHaveRequest
  <1>15. CASE ClassifyCrashLoss
    BY <1>15 DEF ClassifyCrashLoss, Ends, Transact, CrashEnd, CrashPhase, StagesHaveRequest
  <1>16. CASE PrepareContinuation
    BY <1>16 DEF PrepareContinuation, Ends, Transact, LiveRequests, Unprepared, StagesHaveRequest
  <1>17. CASE StartPass
    BY <1>17 DEF StartPass, Ends, StagesHaveRequest
  <1>18. CASE DropPass
    BY <1>18 DEF DropPass, Ends, StagesHaveRequest
  <1>19. CASE SettleDoubt
    BY <1>19 DEF SettleDoubt, Ends, StagesHaveRequest, DoubtKeepsEnds, Honest, OneAtATime
  <1>20. CASE Interrupt
    BY <1>20 DEF Interrupt, Ends, StagesHaveRequest
  <1>21. CASE Recover
    BY <1>21, FirstIsLeast DEF Recover, Ends, LiveRequests, Unprepared, CrashEnd, CrashPhase, StagesHaveRequest
  <1>22. CASE UNCHANGED vars
    BY <1>22 DEF Observation
  <1> QED
    BY <1>1, <1>2, <1>3, <1>4, <1>5, <1>6, <1>7, <1>8, <1>9, <1>10, <1>11, <1>12, <1>13, <1>14, <1>15, <1>16, <1>17, <1>18, <1>19, <1>20, <1>21, <1>22 DEF Next, PassStep

\* No step starts an executor a second time.
LEMMA StartedOnceStep ==
  ToolInv /\ [Next]_vars => (\A r \in Requests : started[r] <= 1)'
  <1> SUFFICES ASSUME ToolInv, [Next]_vars PROVE (\A r \in Requests : started[r] <= 1)'
    OBVIOUS
  <1> USE ToolAssumption, PassFields DEF ToolInv, TypeOK, vars, durable, NoPass, Done, At, Phases, Waiting, Permitted, Live, Ended, NoDoubt, Unlocked
  <1>1. CASE MovesPass
    BY <1>1, MovesPassOnly
  <1>2. CASE ResumeChildWait
    BY <1>2 DEF ResumeChildWait, Ends, Transact
  <1>3. CASE PrepareAttempt
    BY <1>3 DEF PrepareAttempt, Ends, Transact, LiveRequests, Unprepared
  <1>4. CASE PreflightError
    BY <1>4 DEF PreflightError, Ends, Transact, StagesHaveRequest
  <1>5. CASE Authorize
    BY <1>5 DEF Authorize, Ends, Transact, StagesHaveRequest, Honest
  <1>6. CASE ExecutorAnswers
    BY <1>6 DEF ExecutorAnswers, Ends, Started, StagesHaveRequest, StartIsAuthorized
  <1>7. CASE ExecutorCommits
    BY <1>7 DEF ExecutorCommits, Ends, Transact, Started, StagesHaveRequest, StartIsAuthorized
  <1>8. CASE Observe
    BY <1>8 DEF Observe, Ends, Transact, Observation, ObservationInHand, StagesHaveRequest
  <1>9. CASE ClassifyCrashLoss
    BY <1>9 DEF ClassifyCrashLoss, Ends, Transact, CrashEnd, CrashPhase, StagesHaveRequest
  <1>10. CASE PrepareContinuation
    BY <1>10 DEF PrepareContinuation, Ends, Transact, LiveRequests, Unprepared
  <1>11. CASE SettleDoubt
    BY <1>11 DEF SettleDoubt, Ends, DoubtKeepsEnds, Honest, OneAtATime
  <1>12. CASE Interrupt
    BY <1>12 DEF Interrupt, Ends
  <1>13. CASE Recover
    BY <1>13, FirstIsLeast DEF Recover, Ends, LiveRequests, Unprepared, CrashEnd, CrashPhase
  <1>14. CASE UNCHANGED vars
    BY <1>14 DEF Observation
  <1> QED
    BY <1>1, <1>2, <1>3, <1>4, <1>5, <1>6, <1>7, <1>8, <1>9, <1>10, <1>11, <1>12, <1>13, <1>14 DEF Next, PassStep, MovesPass

\* Every step keeps the attempts honest, the written and the doubtful.
LEMMA HonestAllStep ==
  ToolInv /\ [Next]_vars => (Honest(attempt) /\ (doubt # NoDoubt => Honest(doubt.attempt)))'
  <1> SUFFICES ASSUME ToolInv, [Next]_vars PROVE (Honest(attempt) /\ (doubt # NoDoubt => Honest(doubt.attempt)))'
    OBVIOUS
  <1> USE ToolAssumption, PassFields DEF ToolInv, TypeOK, vars, durable, NoPass, Done, At, Phases, Waiting, Permitted, Live, Ended, NoDoubt, Unlocked, Honest, Observation
  <1>1. CASE MovesPass
    BY <1>1, MovesPassOnly
  <1>2. CASE ResumeChildWait
    BY <1>2 DEF ResumeChildWait, Ends, Transact
  <1>3. CASE PrepareAttempt
    BY <1>3, PrepareTakesEarliest DEF Ends, LiveRequests
  <1>4. CASE PreflightError
    BY <1>4 DEF PreflightError, Ends, Transact, StagesHaveRequest
  <1>5. CASE Authorize
    BY <1>5 DEF Authorize, Ends, Transact, StagesHaveRequest
  <1>6. CASE ExecutorAnswers
    BY <1>6 DEF ExecutorAnswers, Ends, Started, StagesHaveRequest, StartIsAuthorized
  <1>7. CASE ExecutorCommits
    BY <1>7 DEF ExecutorCommits, Ends, Transact, Started, StagesHaveRequest, StartIsAuthorized
  <1>8. CASE Observe
    BY <1>8 DEF Observe, Ends, Transact, ObservationInHand, StagesHaveRequest
  <1>9. CASE ClassifyCrashLoss
    BY <1>9 DEF ClassifyCrashLoss, Ends, Transact, CrashEnd, CrashPhase, StagesHaveRequest
  <1>10. CASE PrepareContinuation
    BY <1>10 DEF PrepareContinuation, Ends, Transact, LiveRequests, Unprepared
  <1>11. CASE SettleDoubt
    BY <1>11 DEF SettleDoubt, Ends, DoubtKeepsEnds, OneAtATime
  <1>12. CASE Interrupt
    BY <1>12 DEF Interrupt, Ends
  <1>13. CASE Recover
    BY <1>13, FirstIsLeast DEF Recover, Ends, LiveRequests, Unprepared, CrashEnd, CrashPhase
  <1>14. CASE UNCHANGED vars
    BY <1>14 DEF Observation
  <1> QED
    BY <1>1, <1>2, <1>3, <1>4, <1>5, <1>6, <1>7, <1>8, <1>9, <1>10, <1>11, <1>12, <1>13, <1>14 DEF Next, PassStep, MovesPass

\* Every step keeps the attempts in order, the written and the doubtful.
LEMMA OrderAllStep ==
  ToolInv /\ [Next]_vars => (OneAtATime(attempt) /\ (doubt # NoDoubt => OneAtATime(doubt.attempt)))'
  <1> SUFFICES ASSUME ToolInv, [Next]_vars PROVE (OneAtATime(attempt) /\ (doubt # NoDoubt => OneAtATime(doubt.attempt)))'
    OBVIOUS
  <1> USE ToolAssumption, PassFields DEF ToolInv, TypeOK, vars, durable, NoPass, Done, At, Phases, Waiting, Permitted, Live, Ended, NoDoubt, Unlocked, OneAtATime
  <1>1. CASE MovesPass
    BY <1>1, MovesPassOnly
  <1>2. CASE ResumeChildWait
    BY <1>2 DEF ResumeChildWait, Ends, Transact
  <1>3. CASE PrepareAttempt
    BY <1>3, PrepareTakesEarliest DEF Ends, LiveRequests
  <1>4. CASE PreflightError
    BY <1>4 DEF PreflightError, Ends, Transact, StagesHaveRequest
  <1>5. CASE Authorize
    BY <1>5 DEF Authorize, Ends, Transact, StagesHaveRequest, Honest
  <1>6. CASE ExecutorAnswers
    BY <1>6 DEF ExecutorAnswers, Ends, Started, StagesHaveRequest, StartIsAuthorized
  <1>7. CASE ExecutorCommits
    BY <1>7 DEF ExecutorCommits, Ends, Transact, Started, StagesHaveRequest, StartIsAuthorized
  <1>8. CASE Observe
    BY <1>8 DEF Observe, Ends, Transact, Observation, ObservationInHand, StagesHaveRequest
  <1>9. CASE ClassifyCrashLoss
    BY <1>9 DEF ClassifyCrashLoss, Ends, Transact, CrashEnd, CrashPhase, StagesHaveRequest
  <1>10. CASE PrepareContinuation
    BY <1>10 DEF PrepareContinuation, Ends, Transact, LiveRequests, Unprepared
  <1>11. CASE SettleDoubt
    BY <1>11 DEF SettleDoubt, Ends, DoubtKeepsEnds, Honest
  <1>12. CASE Interrupt
    BY <1>12 DEF Interrupt, Ends
  <1>13. CASE Recover
    BY <1>13, FirstIsLeast DEF Recover, Ends, LiveRequests, Unprepared, CrashEnd, CrashPhase
  <1>14. CASE UNCHANGED vars
    BY <1>14 DEF Observation
  <1> QED
    BY <1>1, <1>2, <1>3, <1>4, <1>5, <1>6, <1>7, <1>8, <1>9, <1>10, <1>11, <1>12, <1>13, <1>14 DEF Next, PassStep, MovesPass

\* No step rewrites an end: a lost commit that arrives late, a retry and a
\* recovery included.
LEMMA EndsKeptStep ==
  ToolInv /\ [Next]_vars => \A r \in Requests : attempt[r] \in Ended => attempt'[r] = attempt[r]
  <1> SUFFICES ASSUME ToolInv, [Next]_vars PROVE \A r \in Requests : attempt[r] \in Ended => attempt'[r] = attempt[r]
    OBVIOUS
  <1> USE ToolAssumption, PassFields DEF ToolInv, TypeOK, vars, durable, NoPass, Done, At, Phases, Waiting, Permitted, Live, Ended, NoDoubt, Unlocked
  <1>1. CASE MovesPass
    BY <1>1, MovesPassOnly
  <1>2. CASE ResumeChildWait
    BY <1>2 DEF ResumeChildWait, Ends, Transact
  <1>3. CASE PrepareAttempt
    BY <1>3, PrepareTakesEarliest DEF Ends, LiveRequests
  <1>4. CASE PreflightError
    BY <1>4 DEF PreflightError, Ends, Transact, StagesHaveRequest
  <1>5. CASE Authorize
    BY <1>5 DEF Authorize, Ends, Transact, StagesHaveRequest, Honest
  <1>6. CASE ExecutorAnswers
    BY <1>6 DEF ExecutorAnswers, Ends, Started, StagesHaveRequest, StartIsAuthorized
  <1>7. CASE ExecutorCommits
    BY <1>7 DEF ExecutorCommits, Ends, Transact, Started, StagesHaveRequest, StartIsAuthorized
  <1>8. CASE Observe
    BY <1>8 DEF Observe, Ends, Transact, Observation, ObservationInHand, StagesHaveRequest
  <1>9. CASE ClassifyCrashLoss
    BY <1>9 DEF ClassifyCrashLoss, Ends, Transact, CrashEnd, CrashPhase, StagesHaveRequest
  <1>10. CASE PrepareContinuation
    BY <1>10 DEF PrepareContinuation, Ends, Transact, LiveRequests, Unprepared
  <1>11. CASE SettleDoubt
    BY <1>11 DEF SettleDoubt, Ends, DoubtKeepsEnds, Honest, OneAtATime
  <1>12. CASE Interrupt
    BY <1>12 DEF Interrupt, Ends
  <1>13. CASE Recover
    BY <1>13, FirstIsLeast DEF Recover, Ends, LiveRequests, Unprepared, CrashEnd, CrashPhase
  <1>14. CASE UNCHANGED vars
    BY <1>14 DEF Observation
  <1> QED
    BY <1>1, <1>2, <1>3, <1>4, <1>5, <1>6, <1>7, <1>8, <1>9, <1>10, <1>11, <1>12, <1>13, <1>14 DEF Next, PassStep, MovesPass

\* The first state satisfies the invariant.
LEMMA ToolInit == Init => ToolInv
  <1> SUFFICES ASSUME Init PROVE ToolInv
    OBVIOUS
  <1> USE ToolAssumption DEF Init, NoPass
  <1>1. TypeOK
    BY DEF TypeOK, Phases, NoDoubt
  <1>2. StagesHaveRequest /\ StartIsAuthorized /\ ObservationInHand
    BY DEF StagesHaveRequest, StartIsAuthorized, ObservationInHand, Permitted, At
  <1>3. Honest(attempt) /\ OneAtATime(attempt) /\ DoubtKeepsEnds
    BY DEF Honest, OneAtATime, DoubtKeepsEnds
  <1> QED
    BY <1>1, <1>2, <1>3 DEF ToolInv

\* Every step preserves the invariant.
LEMMA ToolStep == ToolInv /\ [Next]_vars => ToolInv'
  <1> SUFFICES ASSUME ToolInv, [Next]_vars PROVE ToolInv'
    OBVIOUS
  <1>1. TypeOK'
    <2>1. pass' \in PassValues /\ DataTypeOK'
      BY PassTypeStep, RestTypeStep
    <2> QED
      BY <2>1 DEF PassValues, DataTypeOK, TypeOK
  <1> QED
    BY <1>1, StagesHaveRequestStep, DoubtKeepsEndsStep, StartIsAuthorizedStep,
       ObservationInHandStep, StartedOnceStep, HonestAllStep, OrderAllStep
    DEF ToolInv

\* The invariant of ToolExecution is inductive.
THEOREM ToolInvariant == Spec => []ToolInv
  BY ToolInit, ToolStep, PTL DEF Spec

\* Every reachable state has its type.
THEOREM ToolTypeCorrect == Spec => []TypeOK
  <1>1. ToolInv => TypeOK
    BY DEF ToolInv
  <1> QED
    BY <1>1, ToolInvariant, PTL

\* Whatever answers are lost, reread or retained, the executor is started at
\* most once for a request and never ahead of an earlier one
\* (ToolExecutionService::execute).
THEOREM ToolStartedOnceInOrder == Spec => []StartedOnceInOrder
  <1>1. ToolInv => StartedOnceInOrder
    <2> SUFFICES ASSUME ToolInv,
                        NEW r \in Requests, NEW later \in Requests,
                        r < later, r \in approved, started[later] > 0
                 PROVE  attempt[r] \in Ended
      BY DEF ToolInv, StartedOnceInOrder
    <2>1. attempt[later] # "none"
      BY DEF ToolInv, Honest
    <2> QED
      BY <2>1 DEF ToolInv, OneAtATime
  <1> QED
    BY <1>1, ToolInvariant, PTL

\* The durable record tells the truth about the executor: what it says never
\* ran did not, and a definite end is the executor's answer
\* (classify_crash_loss, commit_executor_observation).
THEOREM ToolHonestRecord == Spec => []HonestRecord
  <1>1. ToolInv => HonestRecord
    <2> SUFFICES ASSUME ToolInv, NEW r \in Requests
                 PROVE  /\ \/ attempt[r] \in {"none", "prepared", "rejected"}
                           \/ attempt[r] = "lost" /\ r \in External
                           => started[r] = 0 /\ ~(At("execute") /\ pass.req = r)
                        /\ attempt[r] \in {"completed", "failed"}
                           => started[r] = 1 /\ attempt[r] = Observation(r)
      BY DEF HonestRecord
    <2>1. At("execute") /\ pass.req = r =>
            \/ attempt[r] \in {"inflight", "ambiguous"}
            \/ attempt[r] = "lost" /\ r \notin External
      BY DEF ToolInv, StartIsAuthorized
    <2> QED
      BY <2>1 DEF ToolInv, Honest
  <1> QED
    BY <1>1, ToolInvariant, PTL

\* A settled attempt is never settled again (the terminal states of
\* tool_attempt, under lost commits and racing recoveries).
THEOREM ToolEndsAreFinal == Spec => EndsAreFinal
  <1>1. ToolInv /\ [Next]_vars =>
          [\A r \in Requests : attempt[r] \in Ended => attempt'[r] = attempt[r]]_vars
    BY EndsKeptStep
  <1> QED
    BY <1>1, ToolInvariant, PTL DEF Spec, EndsAreFinal

=============================================================================
