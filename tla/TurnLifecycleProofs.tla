------------------------ MODULE TurnLifecycleProofs ------------------------
(***************************************************************************)
(* Proofs about TurnLifecycle for any number of inputs.                    *)
(*                                                                         *)
(* Every action of the specification is one of a few kinds of step (it     *)
(* accepts an input, starts a turn, moves it on, ends it, or only concerns *)
(* the pass); each invariant is proved once for each kind.  The first      *)
(* part leaves the order the queue derives opaque: which queued turn       *)
(* starts, and which lineage it records, makes no difference to it.  The   *)
(* second part is about that order, and rests on what QueueLemmas says of  *)
(* Derive; it ends with the queue's own machine, which accepts any facts.  *)
(***************************************************************************)
EXTENDS TurnLifecycle, MCQueueOrder, QueueLemmas

(***************************************************************************)
(* The inductive invariant.                                                *)
(***************************************************************************)

\* TypeOK but for lineage, whose range depends on what Derive computes and
\* is left to the second part.
Ranges ==
  /\ last \in 0 .. MaxInputs
  /\ input \in [Positions -> {"absent", "origin", "pending", "consumed",
                              "reclassified"}]
  /\ bound \in [Positions -> Positions \cup {NoTurn}]
  /\ after \in [Positions -> Positions \cup {NoPred}]
  /\ turn \in [Positions -> {"none", "queued", "active"} \cup Terminal]
  /\ pass \in [turn : Positions \cup {NoTurn}, op : {"none", "call", "tool"}]
  /\ daemon \in {"up", "down"}

\* Attempt, call and tool round fit together.
Shape(r) ==
  /\ r \in Runs
  /\ r.phase = "running" <=> r.attempt # "none"
  /\ r.call # "none" => r.phase = "running" /\ r.tool = "none"
  /\ r.call = "cancelRequested" <=> r.attempt = "stop"
  /\ r.tool \in {"prepared", "inflight"} => r.phase = "running"

\* At most one turn is active, and it is the one `run' describes.
OneActive ==
  /\ \A t, u \in Active : t = u
  /\ run.phase = "idle" <=> Active = {}

\* Positions not handed out yet carry nothing.
Unused ==
  \A p \in Positions :
    p > last => /\ input[p] = "absent"
                /\ bound[p] = NoTurn
                /\ after[p] = NoPred
                /\ turn[p] = "none"

\* Only an origin or a reclassified input has a turn; only steering is
\* bound; it is reclassified when the turn it is bound to has ended.
Dispositioned ==
  \A p \in Positions :
    /\ input[p] \in {"absent", "pending", "consumed"} => turn[p] = "none"
    /\ bound[p] # NoTurn => input[p] \in {"pending", "consumed", "reclassified"}
    /\ input[p] = "reclassified" /\ bound[p] # NoTurn
         => turn[bound[p]] \in Terminal

\* Only a turn that was started has been interrupted.
OnlyStartedInterrupted ==
  \A p \in Positions :
    after[p] # NoPred => turn[after[p]] \in {"active"} \cup Terminal

TurnInv ==
  /\ Ranges
  /\ Shape(run)
  /\ OneActive
  /\ Unused
  /\ Dispositioned
  /\ OnlyStartedInterrupted
  /\ NoOrphanSteering
  /\ SteeringInOrder
  /\ InterruptedTurnStops

\* The queue's derived order for given turns and targets.
Ordering(turns, preds) == Ordered(QueueFacts(turns, preds))

\* An interrupt is the only one of a turn that was accepted before it and
\* was started by then.
Targeted(turns, preds) ==
  \A p \in Positions : preds[p] # NoPred =>
    /\ turns[p] # "none"
    /\ preds[p] < p
    /\ turns[preds[p]] \notin {"none", "queued"}
    /\ \A q \in Positions : preds[q] = preds[p] => q = p

\* Later interrupts have later targets.
Chronological(turns, preds) ==
  LET o == Ordering(turns, preds)
  IN  \A p, q \in Positions : \A i, j \in 1 .. Len(o) :
        p < q /\ preds[p] = o[i] /\ preds[q] = o[j] => i < j

\* The first k turns of the order were started, each after the one before
\* it, and only the k-th may be active.
StartedUpTo(turns, preds, lineages, k) ==
  LET o == Ordering(turns, preds)
  IN  /\ k \in 0 .. Len(o)
      /\ \A i \in 1 .. Len(o) : turns[o[i]] # "queued" <=> i <= k
      /\ \A i \in 1 .. Len(o) : turns[o[i]] = "active" => i = k
      /\ \A i \in 1 .. k :
           lineages[o[i]] = IF i = 1 THEN NoTurn ELSE o[i - 1]

\* Steering is accepted after the turn it is bound to.
BoundEarlier == \A p \in Positions : bound[p] # NoTurn => bound[p] < p

OrderInv ==
  /\ lineage \in [Positions -> Positions \cup {NoTurn}]
  /\ BoundEarlier
  /\ Targeted(turn, after)
  /\ Chronological(turn, after)
  /\ \E k \in 0 .. MaxInputs : StartedUpTo(turn, after, lineage, k)

\* What one step must respect: the body of DispositionFinal.
Final ==
  \A p \in Positions :
    /\ turn[p] \in Terminal => turn'[p] = turn[p]
    /\ input[p] \in {"origin", "consumed", "reclassified"}
         => input'[p] = input[p]

(***************************************************************************)
(* The kinds of step.                                                      *)
(***************************************************************************)

\* Where the pass and the daemon are after a step.
PassRanges ==
  /\ pass' \in [turn : Positions \cup {NoTurn}, op : {"none", "call", "tool"}]
  /\ daemon' \in {"up", "down"}

\* Nothing durable changes.
Idles == UNCHANGED <<facts, turn, lineage, run>>

\* The active turn, not stopping, goes on.
Moves ==
  /\ run.phase # "idle" /\ run.attempt # "stop"
  /\ Shape(run') /\ run'.phase # "idle"
  /\ UNCHANGED <<facts, turn, lineage>>

\* The active turn ends.
Ends ==
  /\ \E t \in Active, d \in Terminal : Close(t, d, input, turn)
  /\ UNCHANGED <<last, bound, after, lineage>>

\* The active turn consumes its pending steering.
Consumes ==
  /\ run.attempt # "stop"
  /\ Shape(run') /\ run'.phase # "idle"
  /\ \E t \in Active :
       input' = [p \in Positions |->
                   IF p \in PendingOn(t) THEN "consumed" ELSE input[p]]
  /\ UNCHANGED <<last, bound, after, turn, lineage>>

\* The first queued turn of an order becomes the active one.
StartsIn(order, t, i) ==
  /\ i \in DOMAIN order /\ order[i] = t
  /\ turn[t] = "queued"
  /\ \A j \in 1 .. i - 1 : turn[order[j]] # "queued"
  /\ turn' = [turn EXCEPT ![t] = "active"]
  /\ lineage' = [lineage EXCEPT ![t] = IF i = 1 THEN NoTurn ELSE order[i - 1]]

Starts ==
  /\ Active = {}
  /\ \E t \in Positions : \E i : StartsIn(Queue.order, t, i)
  /\ run' = [Phase("running") EXCEPT !.attempt = "prepared"]
  /\ UNCHANGED facts

\* An input is accepted as the origin of a queued turn.
Accepts ==
  /\ last < MaxInputs
  /\ last' = last + 1
  /\ input' = [input EXCEPT ![last + 1] = "origin"]
  /\ turn' = [turn EXCEPT ![last + 1] = "queued"]
  /\ UNCHANGED <<bound, after, lineage, run>>

\* Every step of the specification is of one of these kinds, or is one of
\* the two submissions that name the active turn.
Kinds ==
  \/ PassRanges /\ (Idles \/ Moves \/ Ends \/ Consumes \/ Starts \/ Accepts)
  \/ \E t \in Positions : SubmitNextSafePoint(t) \/ SubmitInterrupt(t)

---------------------------------------------------------------------------
(* Constants and ranges. *)

(* Zero, the mark of no predecessor and of no turn, is not a position, and *)
(* the position after the last one is.                                     *)
LEMMA PositionFacts ==
  ASSUME last \in 0 .. MaxInputs
  PROVE  /\ NoTurn \notin Positions /\ NoPred \notin Positions
         /\ NoTurn = NoPred
         /\ last < MaxInputs => last + 1 \in Positions /\ last + 1 > last
BY InputsAssumption DEF Positions, NoTurn, NoPred

(* The execution state of no turn is well formed.                          *)
LEMMA IdleShape == Shape(Idle) /\ Idle.phase = "idle" /\ Idle.attempt = "none"
BY DEF Shape, Idle, Phase, Runs

(* A stopping attempt awaits a call and has no tool round.                 *)
LEMMA StopShape ==
  ASSUME Shape(run), run.attempt = "stop"
  PROVE  /\ run.phase = "running" /\ run.call = "cancelRequested"
         /\ run.tool = "none"
BY DEF Shape

(* The invariant at the start.                                             *)
LEMMA TurnInvInit == Init => TurnInv
<1> SUFFICES ASSUME Init PROVE TurnInv
  OBVIOUS
<1>1. Ranges
  BY InputsAssumption DEF Init, Ranges, NoPass, Positions, NoTurn, NoPred
<1>2. Shape(run) /\ run.phase = "idle"
  BY IdleShape DEF Init
<1>3. Active = {}
  BY DEF Init, Active
<1> QED
  BY <1>1, <1>2, <1>3, PositionFacts
  DEF Init, TurnInv, Ranges, OneActive, Unused, Dispositioned,
      OnlyStartedInterrupted, NoOrphanSteering, SteeringInOrder,
      InterruptedTurnStops

---------------------------------------------------------------------------
(* Each kind of step preserves the invariant and no disposition changes.   *)

(* Steps that only concern the pass.                                       *)
LEMMA IdlesStep == TurnInv /\ PassRanges /\ Idles => TurnInv' /\ Final
BY DEF TurnInv, PassRanges, Idles, facts, Ranges, Shape, OneActive, Active,
       Unused, Dispositioned, OnlyStartedInterrupted, NoOrphanSteering,
       SteeringInOrder, InterruptedTurnStops, Final

(* Steps of the active turn that neither end it nor consume anything.      *)
LEMMA MovesStep == TurnInv /\ PassRanges /\ Moves => TurnInv' /\ Final
<1> SUFFICES ASSUME TurnInv, PassRanges, Moves PROVE TurnInv' /\ Final
  OBVIOUS
<1>1. UNCHANGED <<last, input, bound, after, turn>>
  BY DEF Moves, facts
<1>2. Active' = Active
  BY <1>1 DEF Active
<1>3. Ranges' /\ Shape(run)' /\ OneActive'
  BY <1>1, <1>2 DEF TurnInv, Ranges, PassRanges, Moves, OneActive, Shape
<1>4. ~ \E p \in Positions : after[p] # NoPred /\ turn[after[p]] = "active"
  BY DEF TurnInv, Moves, InterruptedTurnStops
<1> QED
  BY <1>1, <1>2, <1>3, <1>4
  DEF TurnInv, Unused, Dispositioned, OnlyStartedInterrupted,
      NoOrphanSteering, SteeringInOrder, InterruptedTurnStops, Final

(* Steps that consume the pending steering of the active turn.             *)
LEMMA ConsumesStep == TurnInv /\ PassRanges /\ Consumes => TurnInv' /\ Final
<1> SUFFICES ASSUME TurnInv, PassRanges, Consumes PROVE TurnInv' /\ Final
  OBVIOUS
<1> USE DEF TurnInv
<1>1. UNCHANGED <<last, bound, after, turn>>
  BY DEF Consumes
<1>2. PICK t \in Active :
        input' = [p \in Positions |->
                    IF p \in PendingOn(t) THEN "consumed" ELSE input[p]]
  BY DEF Consumes
<1>3. Active' = Active
  BY <1>1 DEF Active
<1>4. Ranges' /\ Shape(run)' /\ OneActive'
  BY <1>1, <1>2, <1>3 DEF Ranges, PassRanges, Consumes, OneActive, Shape
<1>5. Unused' /\ Dispositioned' /\ OnlyStartedInterrupted'
  BY <1>1, <1>2 DEF Unused, Dispositioned, OnlyStartedInterrupted, PendingOn,
                    Ranges
<1>6. NoOrphanSteering'
  BY <1>1, <1>2, <1>3 DEF NoOrphanSteering, PendingOn
<1>7. SteeringInOrder'
  <2> SUFFICES ASSUME NEW p \in Positions, NEW q \in Positions,
                      p < q, bound[p] = bound[q], bound[q] # NoTurn,
                      input'[q] = "consumed", input'[p] # "consumed"
               PROVE  FALSE
    BY <1>1 DEF SteeringInOrder
  <2>1. input[p] # "consumed" /\ p \notin PendingOn(t)
    BY <1>2 DEF PendingOn
  <2>2. q \in PendingOn(t)
    BY <1>2, <2>1 DEF SteeringInOrder
  <2>3. bound[p] = t /\ input[p] = "reclassified"
    BY <2>1, <2>2 DEF PendingOn, Dispositioned
  <2>4. turn[t] = "active" /\ turn[t] \in Terminal
    BY <2>3 DEF Dispositioned, Active
  <2> QED
    BY <2>4 DEF Terminal
<1>8. InterruptedTurnStops'
  BY <1>1 DEF InterruptedTurnStops, Consumes
<1>9. Final
  BY <1>1, <1>2 DEF Final, PendingOn
<1> QED
  BY <1>4, <1>5, <1>6, <1>7, <1>8, <1>9

(* The end of the active turn: its pending steering becomes queued turns.  *)
LEMMA EndsStep == TurnInv /\ PassRanges /\ Ends => TurnInv' /\ Final
<1> SUFFICES ASSUME TurnInv, PassRanges, Ends PROVE TurnInv' /\ Final
  OBVIOUS
<1> USE DEF TurnInv
<1>1. UNCHANGED <<last, bound, after>>
  BY DEF Ends
<1>2. PICK t \in Active, d \in Terminal : Close(t, d, input, turn)
  BY DEF Ends
<1>3. /\ t \in Positions /\ turn[t] = "active"
      /\ \A p \in Positions :
           p \in PendingOn(t) <=> input[p] = "pending" /\ bound[p] = t
  BY DEF Active, PendingOn
<1>4. \A p \in Positions :
        /\ input'[p] = IF p \in PendingOn(t) THEN "reclassified" ELSE input[p]
        /\ p = t => turn'[p] = d
        /\ p # t /\ p \in PendingOn(t) => turn'[p] = "queued"
        /\ p # t /\ p \notin PendingOn(t) => turn'[p] = turn[p]
  BY <1>2 DEF Close, Reclassified
<1>5. \A p \in PendingOn(t) : p # t /\ turn[p] = "none"
  BY <1>3 DEF Dispositioned, PendingOn
<1>6. Ranges'
  BY <1>1, <1>2 DEF Ranges, PassRanges, Close, Reclassified
<1>7. Active' = {}
  <2> SUFFICES ASSUME NEW u \in Positions, turn'[u] = "active" PROVE FALSE
    BY DEF Active
  <2>1. u # t
    BY <1>3, <1>4 DEF Terminal
  <2> QED
    BY <1>3, <1>4, <2>1 DEF OneActive, Active
<1>8. Shape(run)' /\ OneActive'
  BY <1>2, <1>7, IdleShape DEF Close, OneActive
<1>9. Unused'
  <2> SUFFICES ASSUME NEW p \in Positions, p > last
               PROVE  /\ input'[p] = "absent" /\ bound[p] = NoTurn
                      /\ after[p] = NoPred /\ turn'[p] = "none"
    BY <1>1 DEF Unused
  <2>1. input[p] = "absent" /\ turn[p] = "none"
    BY DEF Unused
  <2> QED
    BY <1>3, <1>4, <2>1 DEF Unused
<1>10. Final
  BY <1>3, <1>4, <1>5 DEF Final, Terminal
<1>11. \A p \in Positions : input'[p] # "pending"
  BY <1>3, <1>4, <1>7 DEF NoOrphanSteering, OneActive, Active
<1>12. Dispositioned'
  <2> SUFFICES ASSUME NEW p \in Positions
               PROVE  /\ input'[p] \in {"absent", "pending", "consumed"}
                            => turn'[p] = "none"
                      /\ bound[p] # NoTurn
                            => input'[p] \in {"pending", "consumed",
                                              "reclassified"}
                      /\ input'[p] = "reclassified" /\ bound[p] # NoTurn
                            => turn'[bound[p]] \in Terminal
    BY <1>1 DEF Dispositioned
  <2>1. CASE p \in PendingOn(t)
    BY <1>3, <1>4, <2>1
  <2>2. CASE p \notin PendingOn(t)
    <3>1. input'[p] = input[p]
      BY <1>4, <2>2
    <3>2. input[p] \in {"absent", "pending", "consumed"} => turn'[p] = "none"
      BY <1>3, <1>4, <2>2 DEF Dispositioned
    <3>3. input[p] = "reclassified" /\ bound[p] # NoTurn
            => bound[p] \in Positions /\ turn'[bound[p]] = turn[bound[p]]
      BY <1>10 DEF Final, Dispositioned, Ranges
    <3> QED
      BY <3>1, <3>2, <3>3 DEF Dispositioned
  <2> QED
    BY <2>1, <2>2
<1>13. OnlyStartedInterrupted'
  <2> SUFFICES ASSUME NEW p \in Positions, after[p] # NoPred
               PROVE  turn'[after[p]] \in {"active"} \cup Terminal
    BY <1>1 DEF OnlyStartedInterrupted
  <2>1. after[p] \in Positions /\ turn[after[p]] # "none"
    BY DEF Ranges, OnlyStartedInterrupted, Terminal
  <2> QED
    BY <1>4, <1>5, <2>1 DEF OnlyStartedInterrupted
<1>14. NoOrphanSteering'
  BY <1>11 DEF NoOrphanSteering
<1>15. SteeringInOrder'
  <2> SUFFICES ASSUME NEW p \in Positions, NEW q \in Positions,
                      p < q, bound[p] = bound[q], bound[q] # NoTurn,
                      input'[q] = "consumed"
               PROVE  input'[p] = "consumed"
    BY <1>1 DEF SteeringInOrder
  <2>1. input[q] = "consumed"
    BY <1>4
  <2> QED
    BY <1>10, <2>1 DEF SteeringInOrder, Final
<1>16. InterruptedTurnStops'
  <2> SUFFICES ASSUME NEW p \in Positions, after[p] # NoPred
               PROVE  turn'[after[p]] # "active"
    BY <1>1 DEF InterruptedTurnStops
  <2> QED
    BY <1>7 DEF Active, Ranges
<1> QED
  BY <1>6, <1>8, <1>9, <1>10, <1>12, <1>13, <1>14, <1>15, <1>16

(* The start of a queued turn: nothing was interrupted or bound to it.     *)
LEMMA StartsStep == TurnInv /\ PassRanges /\ Starts => TurnInv' /\ Final
<1> SUFFICES ASSUME TurnInv, PassRanges, Starts PROVE TurnInv' /\ Final
  OBVIOUS
<1> USE DEF TurnInv
<1>1. UNCHANGED <<last, input, bound, after>>
  BY DEF Starts, facts
<1>2. PICK t \in Positions : /\ turn[t] = "queued"
                             /\ turn' = [turn EXCEPT ![t] = "active"]
  BY DEF Starts, StartsIn
<1>3. \A p \in Positions : turn'[p] = IF p = t THEN "active" ELSE turn[p]
  BY <1>2 DEF Ranges
<1>4. Ranges'
  BY <1>1, <1>2 DEF Ranges, PassRanges
<1>5. Active' = {t}
  BY <1>2, <1>3 DEF Active, Starts
<1>6. Shape(run)' /\ OneActive'
  <2>1. run' = [phase |-> "running", attempt |-> "prepared", call |-> "none",
                tool |-> "none"]
    BY DEF Starts, Phase
  <2> QED
    BY <1>5, <2>1 DEF Shape, Runs, OneActive
<1>7. Unused'
  BY <1>1, <1>2, <1>3 DEF Unused
<1>8. Dispositioned'
  BY <1>1, <1>2, <1>3 DEF Dispositioned, Ranges, Terminal
<1>9. OnlyStartedInterrupted'
  BY <1>1, <1>2, <1>3 DEF OnlyStartedInterrupted, Ranges
<1>10. NoOrphanSteering'
  BY <1>1 DEF NoOrphanSteering, Starts
<1>11. SteeringInOrder'
  BY <1>1 DEF SteeringInOrder
<1>12. InterruptedTurnStops'
  <2> SUFFICES ASSUME NEW p \in Positions, after[p] # NoPred
               PROVE  turn'[after[p]] # "active"
    BY <1>1 DEF InterruptedTurnStops
  <2>1. after[p] \in Positions /\ after[p] # t /\ turn[after[p]] # "active"
    BY <1>2 DEF OnlyStartedInterrupted, Ranges, Terminal, Starts, Active
  <2> QED
    BY <1>3, <2>1
<1>13. Final
  BY <1>1, <1>2, <1>3 DEF Final, Terminal
<1> QED
  BY <1>4, <1>6, <1>7, <1>8, <1>9, <1>10, <1>11, <1>12, <1>13

(* The next position was never used, so no earlier fact mentions its turn. *)
LEMMA NextUnused ==
  ASSUME TurnInv, last < MaxInputs
  PROVE  /\ last + 1 \in Positions
         /\ input[last + 1] = "absent" /\ bound[last + 1] = NoTurn
         /\ after[last + 1] = NoPred /\ turn[last + 1] = "none"
         /\ \A p \in Positions : after[p] # last + 1
         /\ \A p \in Positions : p > last + 1 => p > last /\ p # last + 1
         /\ last + 1 \in 0 .. MaxInputs
<1>1. last \in 0 .. MaxInputs
  BY DEF TurnInv, Ranges
<1>2. /\ last + 1 \in Positions
      /\ \A p \in Positions : p > last + 1 => p > last /\ p # last + 1
      /\ last + 1 \in 0 .. MaxInputs /\ last + 1 > last /\ last + 1 # NoPred
  BY <1>1, InputsAssumption DEF Positions, NoPred
<1>3. /\ input[last + 1] = "absent" /\ bound[last + 1] = NoTurn
      /\ after[last + 1] = NoPred /\ turn[last + 1] = "none"
  BY <1>2 DEF TurnInv, Unused
<1>4. \A p \in Positions : after[p] # last + 1
  BY <1>2, <1>3 DEF TurnInv, OnlyStartedInterrupted, Terminal
<1> QED
  BY <1>2, <1>3, <1>4

(* The acceptance of the origin of a queued turn.                          *)
LEMMA AcceptsStep == TurnInv /\ PassRanges /\ Accepts => TurnInv' /\ Final
<1> SUFFICES ASSUME TurnInv, PassRanges, Accepts PROVE TurnInv' /\ Final
  OBVIOUS
<1> DEFINE n == last + 1
<1>1. /\ last < MaxInputs /\ last' = n
      /\ UNCHANGED <<bound, after, run>>
  BY DEF Accepts
<1>2. /\ n \in Positions /\ n \in 0 .. MaxInputs
      /\ input[n] = "absent" /\ bound[n] = NoTurn
      /\ after[n] = NoPred /\ turn[n] = "none"
      /\ \A p \in Positions : after[p] # n
      /\ \A p \in Positions : p > n => p > last /\ p # n
  BY <1>1, NextUnused
<1> USE DEF TurnInv
<1>3. \A p \in Positions :
        /\ input'[p] = IF p = n THEN "origin" ELSE input[p]
        /\ turn'[p] = IF p = n THEN "queued" ELSE turn[p]
  BY DEF Accepts, Ranges
<1>4. Ranges'
  BY <1>1, <1>2 DEF Ranges, PassRanges, Accepts
<1> HIDE DEF n
<1>5. Active' = Active
  BY <1>2, <1>3 DEF Active
<1>6. Shape(run)' /\ OneActive'
  BY <1>1, <1>5 DEF OneActive, Shape
<1>7. Unused'
  BY <1>1, <1>2, <1>3 DEF Unused
<1>8. Final
  BY <1>2, <1>3 DEF Final, Terminal
<1>9. Dispositioned'
  <2> SUFFICES ASSUME NEW p \in Positions
               PROVE  /\ input'[p] \in {"absent", "pending", "consumed"}
                            => turn'[p] = "none"
                      /\ bound[p] # NoTurn
                            => input'[p] \in {"pending", "consumed",
                                              "reclassified"}
                      /\ input'[p] = "reclassified" /\ bound[p] # NoTurn
                            => turn'[bound[p]] \in Terminal
    BY <1>1 DEF Dispositioned
  <2>1. CASE p = n
    BY <1>2, <1>3, <2>1
  <2>2. CASE p # n
    <3>1. input'[p] = input[p] /\ turn'[p] = turn[p]
      BY <1>3, <2>2
    <3>2. input[p] = "reclassified" /\ bound[p] # NoTurn
            => bound[p] \in Positions /\ turn'[bound[p]] = turn[bound[p]]
      BY <1>8 DEF Final, Dispositioned, Ranges
    <3> QED
      BY <3>1, <3>2 DEF Dispositioned
  <2> QED
    BY <2>1, <2>2
<1>10. OnlyStartedInterrupted'
  BY <1>1, <1>2, <1>3 DEF OnlyStartedInterrupted, Ranges
<1>11. NoOrphanSteering'
  BY <1>1, <1>3, <1>5 DEF NoOrphanSteering
<1>12. SteeringInOrder'
  BY <1>1, <1>2, <1>3 DEF SteeringInOrder
<1>13. InterruptedTurnStops'
  <2> SUFFICES ASSUME NEW p \in Positions, after[p] # NoPred,
                      turn'[after[p]] = "active"
               PROVE  run.attempt = "stop" /\ run.call = "cancelRequested"
    BY <1>1 DEF InterruptedTurnStops
  <2>1. after[p] \in Positions /\ after[p] # n
    BY <1>2 DEF Ranges
  <2>2. turn[after[p]] = "active"
    BY <1>3, <2>1
  <2> QED
    BY <2>2 DEF InterruptedTurnStops
<1> QED
  BY <1>4, <1>6, <1>7, <1>8, <1>9, <1>10, <1>11, <1>12, <1>13

(* The acceptance of steering for the active turn.                         *)
LEMMA SteeringStep ==
  ASSUME TurnInv, NEW t \in Positions, SubmitNextSafePoint(t)
  PROVE  TurnInv' /\ Final
<1> DEFINE n == last + 1
<1>1. /\ last < MaxInputs /\ last' = n /\ t \in Active
      /\ UNCHANGED <<after, turn, run, pass, daemon>>
  BY DEF SubmitNextSafePoint, NextPosition, ExpectedActive
<1>2. /\ n \in Positions /\ n \in 0 .. MaxInputs
      /\ input[n] = "absent" /\ bound[n] = NoTurn
      /\ after[n] = NoPred /\ turn[n] = "none"
      /\ \A p \in Positions : after[p] # n
      /\ \A p \in Positions : p > n => p > last /\ p # n
  BY <1>1, NextUnused
<1> USE DEF TurnInv
<1>3. \A p \in Positions :
        /\ input'[p] = IF p = n THEN "pending" ELSE input[p]
        /\ bound'[p] = IF p = n THEN t ELSE bound[p]
  BY DEF SubmitNextSafePoint, NextPosition, Ranges
<1>4. Ranges'
  BY <1>1, <1>2 DEF Ranges, SubmitNextSafePoint, NextPosition
<1>5. \A p, q \in Positions : p = n /\ p < q => input[q] = "absent"
  BY <1>1, PositionFacts DEF Ranges, Unused, Positions
<1> HIDE DEF n
<1>6. Active' = Active
  BY <1>1 DEF Active
<1>7. Shape(run)' /\ OneActive'
  BY <1>1, <1>6 DEF OneActive, Shape
<1>8. Unused'
  BY <1>1, <1>2, <1>3 DEF Unused
<1>9. Dispositioned'
  BY <1>1, <1>2, <1>3 DEF Dispositioned
<1>10. OnlyStartedInterrupted'
  BY <1>1 DEF OnlyStartedInterrupted
<1>11. NoOrphanSteering'
  BY <1>1, <1>3, <1>6 DEF NoOrphanSteering
<1>12. SteeringInOrder'
  <2> SUFFICES ASSUME NEW p \in Positions, NEW q \in Positions,
                      p < q, bound'[p] = bound'[q], bound'[q] # NoTurn,
                      input'[q] = "consumed"
               PROVE  input'[p] = "consumed"
    BY DEF SteeringInOrder
  <2>1. q # n /\ input[q] = "consumed" /\ bound'[q] = bound[q]
    BY <1>3
  <2>2. p # n
    BY <1>5, <2>1
  <2> QED
    BY <1>3, <2>1, <2>2 DEF SteeringInOrder
<1>13. InterruptedTurnStops'
  BY <1>1 DEF InterruptedTurnStops
<1>14. Final
  BY <1>1, <1>2, <1>3 DEF Final
<1> QED
  BY <1>4, <1>7, <1>8, <1>9, <1>10, <1>11, <1>12, <1>13, <1>14

(* An admitted interrupt: its own turn is queued, and the turn it names    *)
(* stops on the spot or awaits its last answer.                            *)
LEMMA InterruptStep ==
  ASSUME TurnInv, NEW t \in Positions, SubmitInterrupt(t)
  PROVE  TurnInv' /\ Final
<1> DEFINE n == last + 1
           inputs == [input EXCEPT ![n] = "origin"]
           turns == [turn EXCEPT ![n] = "queued"]
<1>1. /\ last < MaxInputs /\ last' = n /\ t \in Active
      /\ UNCHANGED <<bound, pass, daemon>>
  BY DEF SubmitInterrupt, NextPosition, InterruptAdmissible, ExpectedActive
<1>2. /\ n \in Positions /\ n \in 0 .. MaxInputs
      /\ input[n] = "absent" /\ bound[n] = NoTurn
      /\ after[n] = NoPred /\ turn[n] = "none"
      /\ \A p \in Positions : after[p] # n
      /\ \A p \in Positions : p > n => p > last /\ p # n
  BY <1>1, NextUnused
<1> USE DEF TurnInv
<1>3. turn[t] = "active" /\ t # n /\ n \notin PendingOn(t)
  BY <1>1, <1>2 DEF Active, PendingOn
<1>4. \A p \in Positions : after'[p] = IF p = n THEN t ELSE after[p]
  BY DEF SubmitInterrupt, NextPosition, Ranges
<1>5. after' \in [Positions -> Positions \cup {NoPred}]
  BY <1>2 DEF SubmitInterrupt, NextPosition, Ranges
<1>6. \A p \in Positions : /\ inputs[p] = IF p = n THEN "origin" ELSE input[p]
                           /\ turns[p] = IF p = n THEN "queued" ELSE turn[p]
  BY DEF Ranges
<1>7. /\ inputs \in [Positions -> {"absent", "origin", "pending", "consumed",
                                   "reclassified"}]
      /\ turns \in [Positions -> {"none", "queued", "active"} \cup Terminal]
  BY <1>2 DEF Ranges
<1>8. \/ /\ run.call = "inflight"
         /\ run' = [run EXCEPT !.attempt = "stop", !.call = "cancelRequested"]
         /\ input' = inputs
         /\ turn' = turns
      \/ \E d \in Terminal : Close(t, d, inputs, turns)
  BY DEF SubmitInterrupt, ApplyInterrupt, NextPosition, Terminal
<1>9. \A p \in Positions : p \in PendingOn(t) <=> input[p] = "pending" /\ bound[p] = t
  BY DEF PendingOn
<1>10. \A p \in PendingOn(t) : p # t /\ turn[p] = "none"
  BY <1>3 DEF Dispositioned, PendingOn
<1> HIDE DEF n, inputs, turns
<1>11. ASSUME run.call = "inflight",
              run' = [run EXCEPT !.attempt = "stop", !.call = "cancelRequested"],
              input' = inputs, turn' = turns
       PROVE  TurnInv' /\ Final
  <2>1. Ranges'
    BY <1>1, <1>2, <1>5, <1>7, <1>11 DEF Ranges
  <2>2. Active' = Active
    BY <1>2, <1>6, <1>11 DEF Active
  <2>3. Shape(run') /\ run'.phase # "idle" /\ run'.attempt = "stop"
          /\ run'.call = "cancelRequested"
    BY <1>11 DEF Shape, Runs
  <2>4. OneActive'
    BY <1>1, <2>2, <2>3 DEF OneActive
  <2>5. Unused'
    BY <1>1, <1>2, <1>4, <1>6, <1>11 DEF Unused
  <2>6. Final
    BY <1>2, <1>6, <1>11 DEF Final, Terminal
  <2>7. Dispositioned'
    <3> SUFFICES ASSUME NEW p \in Positions
                 PROVE  /\ input'[p] \in {"absent", "pending", "consumed"}
                              => turn'[p] = "none"
                        /\ bound[p] # NoTurn
                              => input'[p] \in {"pending", "consumed",
                                                "reclassified"}
                        /\ input'[p] = "reclassified" /\ bound[p] # NoTurn
                              => turn'[bound[p]] \in Terminal
      BY <1>1 DEF Dispositioned
    <3>1. CASE p = n
      BY <1>2, <1>6, <1>11, <3>1
    <3>2. CASE p # n
      <4>1. input'[p] = input[p] /\ turn'[p] = turn[p]
        BY <1>6, <1>11, <3>2
      <4>2. input[p] = "reclassified" /\ bound[p] # NoTurn
              => bound[p] \in Positions /\ turn'[bound[p]] = turn[bound[p]]
        BY <2>6 DEF Final, Dispositioned, Ranges
      <4> QED
        BY <4>1, <4>2 DEF Dispositioned
    <3> QED
      BY <3>1, <3>2
  <2>8. OnlyStartedInterrupted'
    BY <1>2, <1>3, <1>4, <1>6, <1>11 DEF OnlyStartedInterrupted, Ranges
  <2>9. NoOrphanSteering'
    BY <1>1, <1>6, <1>11, <2>2 DEF NoOrphanSteering
  <2>10. SteeringInOrder'
    BY <1>1, <1>2, <1>6, <1>11 DEF SteeringInOrder
  <2>11. InterruptedTurnStops'
    BY <2>3 DEF InterruptedTurnStops
  <2> QED
    BY <2>1, <2>3, <2>4, <2>5, <2>6, <2>7, <2>8, <2>9, <2>10, <2>11
<1>12. ASSUME NEW d \in Terminal, Close(t, d, inputs, turns)
       PROVE  TurnInv' /\ Final
  <2>1. \A p \in Positions :
          /\ input'[p] = IF p \in PendingOn(t) THEN "reclassified" ELSE inputs[p]
          /\ p = t => turn'[p] = d
          /\ p # t /\ p \in PendingOn(t) => turn'[p] = "queued"
          /\ p # t /\ p \notin PendingOn(t) => turn'[p] = turns[p]
    BY <1>12 DEF Close, Reclassified
  <2>2. Ranges'
    BY <1>1, <1>2, <1>5, <1>7, <1>12 DEF Ranges, Close, Reclassified
  <2>3. Active' = {}
    <3> SUFFICES ASSUME NEW u \in Positions, turn'[u] = "active" PROVE FALSE
      BY DEF Active
    <3>1. u # t
      BY <2>1 DEF Terminal
    <3>2. turn[u] = "active"
      BY <1>6, <2>1, <3>1
    <3> QED
      BY <1>1, <3>1, <3>2 DEF OneActive, Active
  <2>4. Shape(run)' /\ OneActive'
    BY <1>12, <2>3, IdleShape DEF Close, OneActive
  <2>5. Unused'
    <3> SUFFICES ASSUME NEW p \in Positions, p > n
                 PROVE  /\ input'[p] = "absent" /\ bound[p] = NoTurn
                        /\ after'[p] = NoPred /\ turn'[p] = "none"
      BY <1>1 DEF Unused
    <3>1. /\ p # n /\ input[p] = "absent" /\ turn[p] = "none"
          /\ bound[p] = NoTurn /\ after[p] = NoPred
      BY <1>2 DEF Unused
    <3> QED
      BY <1>3, <1>4, <1>6, <1>9, <2>1, <3>1
  <2>6. Final
    BY <1>2, <1>3, <1>6, <1>9, <1>10, <2>1 DEF Final, Terminal
  <2>7. \A p \in Positions : input'[p] # "pending"
    BY <1>1, <1>6, <1>9, <2>1 DEF NoOrphanSteering, OneActive, Active
  <2>8. Dispositioned'
    <3> SUFFICES ASSUME NEW p \in Positions
                 PROVE  /\ input'[p] \in {"absent", "pending", "consumed"}
                              => turn'[p] = "none"
                        /\ bound[p] # NoTurn
                              => input'[p] \in {"pending", "consumed",
                                                "reclassified"}
                        /\ input'[p] = "reclassified" /\ bound[p] # NoTurn
                              => turn'[bound[p]] \in Terminal
      BY <1>1 DEF Dispositioned
    <3>1. CASE p \in PendingOn(t)
      BY <1>9, <2>1, <3>1
    <3>2. CASE p = n
      BY <1>2, <1>3, <1>6, <2>1, <3>2
    <3>3. CASE p \notin PendingOn(t) /\ p # n
      <4>1. input'[p] = input[p]
        BY <1>6, <2>1, <3>3
      <4>2. input[p] \in {"absent", "pending", "consumed"} => turn'[p] = "none"
        BY <1>3, <1>6, <2>1, <3>3 DEF Dispositioned
      <4>3. input[p] = "reclassified" /\ bound[p] # NoTurn
              => bound[p] \in Positions /\ turn'[bound[p]] = turn[bound[p]]
        BY <2>6 DEF Final, Dispositioned, Ranges
      <4> QED
        BY <4>1, <4>2, <4>3 DEF Dispositioned
    <3> QED
      BY <3>1, <3>2, <3>3
  <2>9. OnlyStartedInterrupted'
    <3> SUFFICES ASSUME NEW p \in Positions, after'[p] # NoPred
                 PROVE  turn'[after'[p]] \in {"active"} \cup Terminal
      BY DEF OnlyStartedInterrupted
    <3>1. CASE p = n
      BY <1>4, <2>1, <3>1
    <3>2. CASE p # n
      <4>1. /\ after'[p] = after[p] /\ after[p] \in Positions
            /\ after[p] # n /\ turn[after[p]] # "none"
            /\ turn[after[p]] \in {"active"} \cup Terminal
        BY <1>2, <1>4, <3>2 DEF Ranges, OnlyStartedInterrupted, Terminal
      <4> QED
        BY <1>6, <1>10, <2>1, <4>1
    <3> QED
      BY <3>1, <3>2
  <2>10. NoOrphanSteering'
    BY <2>7 DEF NoOrphanSteering
  <2>11. SteeringInOrder'
    <3> SUFFICES ASSUME NEW p \in Positions, NEW q \in Positions,
                        p < q, bound[p] = bound[q], bound[q] # NoTurn,
                        input'[q] = "consumed"
                 PROVE  input'[p] = "consumed"
      BY <1>1 DEF SteeringInOrder
    <3>1. input[q] = "consumed"
      BY <1>6, <2>1
    <3> QED
      BY <2>6, <3>1 DEF SteeringInOrder, Final
  <2>12. InterruptedTurnStops'
    <3> SUFFICES ASSUME NEW p \in Positions, after'[p] # NoPred
                 PROVE  turn'[after'[p]] # "active"
      BY DEF InterruptedTurnStops
    <3> QED
      BY <2>2, <2>3 DEF Active, Ranges
  <2> QED
    BY <2>2, <2>4, <2>5, <2>6, <2>8, <2>9, <2>10, <2>11, <2>12
<1> QED
  BY <1>8, <1>11, <1>12

---------------------------------------------------------------------------
(* Every action is of one kind. *)

(* The pass goes on, waits for something else, or is over.                 *)
LEMMA PassSteps ==
  ASSUME TurnInv
  PROVE  /\ KeepPass => PassRanges
         /\ UNCHANGED <<pass, daemon>> => PassRanges
         /\ BackInPass => PassRanges
         /\ \A op \in {"none", "call", "tool"} :
              pass' = [pass EXCEPT !.op = op] /\ UNCHANGED daemon => PassRanges
         /\ pass' = NoPass /\ daemon' \in {"up", "down"} => PassRanges
         /\ \A t \in Positions : StartPass(t) /\ UNCHANGED daemon => PassRanges
BY DEF TurnInv, Ranges, KeepPass, BackInPass, PassRanges, NoPass, StartPass

(* Closing the active turn with a terminal disposition ends it.            *)
LEMMA ClosingEnds ==
  ASSUME NEW t \in Active, NEW d \in Terminal, CloseTurn(t, d)
  PROVE  Ends
BY DEF CloseTurn, Ends

(* What the active turn may proceed to.                                    *)
LEMMA ProceedMoves ==
  ASSUME NEW r, Proceed(r), Shape(r), r.phase # "idle",
         run.phase # "idle", run.attempt # "stop"
  PROVE  Moves
BY DEF Proceed, Moves

(* The well-formed states a turn is put into.                              *)
LEMMA FreshShapes ==
  /\ Shape(AwaitingRecovery) /\ AwaitingRecovery.phase # "idle"
  /\ Shape(Phase("credential")) /\ Phase("credential").phase # "idle"
  /\ LET r == [Phase("running") EXCEPT !.attempt = "prepared"]
     IN  Shape(r) /\ r.phase # "idle"
  /\ \A phase \in {"approval", "running"} :
       Shape(ToolRound(phase)) /\ ToolRound(phase).phase # "idle"
BY DEF Shape, Runs, Phase, AwaitingRecovery, ToolRound

(* Sending a call or a tool attempt, or refusing to send the latter, keeps *)
(* the execution state well formed.                                        *)
LEMMA SentShapes ==
  ASSUME Shape(run)
  PROVE  /\ run.call = "prepared" =>
              LET r == [run EXCEPT !.attempt = "running", !.call = "inflight"]
              IN  run.attempt # "stop" /\ Shape(r) /\ r.phase # "idle"
         /\ run.tool = "prepared" =>
              /\ run.phase # "idle"
              /\ LET r == [run EXCEPT !.attempt = "running", !.tool = "ready"]
                 IN  Shape(r) /\ r.phase # "idle"
              /\ LET r == [run EXCEPT !.attempt = "running", !.tool = "inflight"]
                 IN  Shape(r) /\ r.phase # "idle"
<1>1. ASSUME run.call = "prepared",
             NEW r, r = [run EXCEPT !.attempt = "running", !.call = "inflight"]
      PROVE  run.attempt # "stop" /\ Shape(r) /\ r.phase # "idle"
  BY <1>1 DEF Shape, Runs
<1>2. ASSUME run.tool = "prepared", NEW tool \in {"ready", "inflight"},
             NEW r, r = [run EXCEPT !.attempt = "running", !.tool = tool]
      PROVE  Shape(r) /\ r.phase # "idle" /\ run.phase # "idle"
  BY <1>2 DEF Shape, Runs
<1> QED
  BY <1>1, <1>2

(* The steps of a model call.                                              *)
LEMMA CallStepKinds ==
  ASSUME TurnInv, NEW t \in Positions, CallStep(t)
  PROVE  Kinds
<1> USE PassSteps, FreshShapes DEF Kinds
<1>1. Shape(run) /\ OneActive
  BY DEF TurnInv
<1>2. Owns(t) => t \in Active /\ run.phase # "idle"
  BY <1>1 DEF Owns, Active, OneActive
<1>3. CASE PrepareCall(t)
  <2>1. t \in Active /\ run.phase # "idle" /\ CallFree /\ KeepPass
    BY <1>2, <1>3 DEF PrepareCall, Idling
  <2>2. run.attempt # "stop"
    BY <1>1, <2>1, StopShape DEF CallFree
  <2>3. run.attempt \in {"none", "prepared", "running", "stop"}
          /\ (run.phase = "credential" \/ run.attempt # "none")
    BY <1>1, <2>1 DEF Shape, Runs, CallFree
  <2>4. Shape(run') /\ run'.phase # "idle"
    BY <1>3, <2>2, <2>3 DEF PrepareCall, Shape, Runs
  <2>5. Consumes
    BY <1>3, <2>1, <2>2, <2>4 DEF PrepareCall, Consumes
  <2> QED
    BY <2>1, <2>5
<1>4. CASE FailCallFree(t)
  BY <1>2, <1>4, ClosingEnds DEF FailCallFree, Idling, Terminal
<1>5. CASE ParkForCredential(t)
  <2>1. run.attempt # "stop"
    BY <1>1, <1>5, StopShape DEF ParkForCredential, CallFree
  <2> QED
    BY <1>2, <1>5, <2>1, ProceedMoves DEF ParkForCredential, Idling
<1>6. CASE FailPreparedCall(t)
  BY <1>2, <1>6, ClosingEnds DEF FailPreparedCall, Idling, Terminal
<1>7. CASE AuthorizeSend(t)
  <2> DEFINE r == [run EXCEPT !.attempt = "running", !.call = "inflight"]
  <2>1. run.call = "prepared" /\ run.phase # "idle" /\ Proceed(r)
    BY <1>2, <1>7 DEF AuthorizeSend, Idling
  <2>2. run.attempt # "stop" /\ Shape(r) /\ r.phase # "idle"
    BY <1>1, <2>1, SentShapes
  <2>3. Moves
    BY <2>1, <2>2, ProceedMoves
  <2> QED
    BY <1>7, <2>3 DEF AuthorizeSend
<1>8. CASE ObserveTerminal(t)
  <2>1. PICK d \in Dispositions : CloseTurn(t, d)
    BY <1>8 DEF ObserveTerminal
  <2>2. d \in Terminal /\ t \in Active /\ BackInPass
    BY <1>2, <1>8 DEF ObserveTerminal, Observing, Dispositions, Terminal
  <2> QED
    BY <2>1, <2>2, ClosingEnds
<1>9. ASSUME Observing(t), ~Stopping
      PROVE  run.phase # "idle" /\ run.attempt # "stop"
  BY <1>1, <1>2, <1>9, StopShape DEF Observing, Stopping
<1>10. CASE ObserveToolRound(t)
  <2>1. PICK phase \in {"approval", "running"} : Proceed(ToolRound(phase))
    BY <1>10 DEF ObserveToolRound
  <2>2. Moves
    BY <1>9, <1>10, <2>1, ProceedMoves DEF ObserveToolRound
  <2> QED
    BY <1>10, <2>2 DEF ObserveToolRound
<1>11. CASE ObserveAmbiguous(t)
  BY <1>9, <1>11, ProceedMoves DEF ObserveAmbiguous
<1>12. CASE ObserveUnavailable(t)
  BY <1>9, <1>12, ProceedMoves DEF ObserveUnavailable
<1> QED
  BY <1>3, <1>4, <1>5, <1>6, <1>7, <1>8, <1>10, <1>11, <1>12 DEF CallStep

(* The steps of a tool round.                                              *)
LEMMA ToolStepKinds ==
  ASSUME TurnInv, NEW t \in Positions, ToolStep(t)
  PROVE  Kinds
<1> USE PassSteps, FreshShapes DEF Kinds
<1>1. Shape(run) /\ OneActive
  BY DEF TurnInv
<1>2. Owns(t) => t \in Active /\ run.phase # "idle"
  BY <1>1 DEF Owns, Active, OneActive
<1>3. run.tool # "none" => run.call = "none" /\ run.attempt # "stop"
  BY <1>1, StopShape DEF Shape
<1>4. CASE PrepareToolAttempt(t)
  <2> DEFINE r == [run EXCEPT !.tool = "prepared"]
  <2>1. run.phase = "running" /\ run.tool = "ready" /\ Proceed(r)
    BY <1>4 DEF PrepareToolAttempt
  <2>2. Shape(r) /\ r.phase # "idle"
    BY <1>1, <1>3, <2>1 DEF Shape, Runs
  <2>3. Moves
    BY <1>3, <2>1, <2>2, ProceedMoves
  <2> QED
    BY <1>4, <2>3 DEF PrepareToolAttempt
<1>5. CASE PreflightError(t)
  <2> DEFINE r == [run EXCEPT !.attempt = "running", !.tool = "ready"]
  <2>1. run.tool = "prepared" /\ Proceed(r)
    BY <1>5 DEF PreflightError
  <2>2. Shape(r) /\ r.phase # "idle" /\ run.phase # "idle"
    BY <1>1, <2>1, SentShapes
  <2>3. Moves
    BY <1>3, <2>1, <2>2, ProceedMoves
  <2> QED
    BY <1>5, <2>3 DEF PreflightError
<1>6. CASE DispatchTool(t)
  <2> DEFINE r == [run EXCEPT !.attempt = "running", !.tool = "inflight"]
  <2>1. run.tool = "prepared" /\ Proceed(r)
    BY <1>6 DEF DispatchTool
  <2>2. Shape(r) /\ r.phase # "idle" /\ run.phase # "idle"
    BY <1>1, <2>1, SentShapes
  <2>3. Moves
    BY <1>3, <2>1, <2>2, ProceedMoves
  <2> QED
    BY <1>6, <2>3 DEF DispatchTool
<1>7. CASE ToolAnswers(t)
  <2> DEFINE r == [run EXCEPT !.tool = "ready"]
  <2>1. run.tool = "inflight" /\ (Proceed(r) \/ Proceed(AwaitingRecovery))
    BY <1>7 DEF ToolAnswers
  <2>2. Shape(r) /\ r.phase # "idle" /\ run.phase # "idle"
    BY <1>1, <1>3, <2>1 DEF Shape, Runs
  <2>3. Moves
    BY <1>3, <2>1, <2>2, ProceedMoves
  <2> QED
    BY <1>7, <2>3 DEF ToolAnswers
<1>8. CASE ClassifyToolLoss(t)
  <2>1. /\ t \in Active /\ run.phase # "idle" /\ run.attempt # "stop"
        /\ BackInPass
    BY <1>2, <1>3, <1>8 DEF ClassifyToolLoss
  <2>2. CASE CloseTurn(t, "failed")
    BY <2>1, <2>2, ClosingEnds DEF Terminal
  <2>3. CASE Proceed(AwaitingRecovery)
    BY <2>1, <2>3, ProceedMoves
  <2> QED
    BY <1>8, <2>2, <2>3 DEF ClassifyToolLoss
<1> QED
  BY <1>4, <1>5, <1>6, <1>7, <1>8 DEF ToolStep

(* Recovery ends the turn or leaves it waiting for reconciliation.         *)
LEMMA RecoverLockedKinds ==
  ASSUME TurnInv, NEW t \in Positions, RecoverLocked(t)
  PROVE  Ends \/ Moves
<1>1. t \in Active /\ run.phase = "running" /\ Shape(run)
  BY DEF RecoverLocked, TurnInv
<1>2. Proceed(AwaitingRecovery) => run.attempt # "stop"
  <2> SUFFICES ASSUME run.attempt = "stop", RecoverLocked(t)
               PROVE  CloseTurn(t, "reconciliation")
    BY <1>1, FreshShapes DEF CloseTurn, Close, Proceed, AwaitingRecovery, Idle,
                             Phase
  <2>1. run.tool = "none" /\ run.call = "cancelRequested"
    BY <1>1, StopShape
  <2> QED
    BY <2>1 DEF RecoverLocked
<1> QED
  BY <1>1, <1>2, ClosingEnds, ProceedMoves, FreshShapes
  DEF RecoverLocked, Terminal

(* Every action is of one of the kinds.                                    *)
LEMMA NextKinds ==
  ASSUME TurnInv, Next
  PROVE  Kinds
<1> USE PassSteps DEF Kinds
<1>1. Shape(run) /\ OneActive
  BY DEF TurnInv
<1>2. CASE Submit
  BY <1>2 DEF Submit, SubmitStart, SubmitAfterCurrentTurn, Accepts, NextPosition
<1>3. CASE Activate
  <2> DEFINE order == Queue.order
  <2>1. PICK t \in Positions, i \in DOMAIN order :
          /\ order[i] = t
          /\ turn[t] = "queued"
          /\ \A j \in 1 .. i - 1 : turn[order[j]] # "queued"
          /\ Activated(t, IF i = 1 THEN NoTurn ELSE order[i - 1])
    BY <1>3 DEF Activate
  <2>2. PassRanges
    BY <2>1 DEF Activated
  <2>3. StartsIn(order, t, i)
    BY <2>1 DEF StartsIn, Activated
  <2>4. Starts
    <3>1. Active = {} /\ UNCHANGED facts /\ run' = [Phase("running") EXCEPT !.attempt = "prepared"]
      BY <1>3, <2>1 DEF Activate, Activated
    <3> HIDE DEF order
    <3> QED BY <2>3, <3>1 DEF Starts, order
  <2> QED
    BY <2>2, <2>4
<1>4. CASE ResumePass
  <2>1. PICK t \in Active : StartPass(t)
    BY <1>4 DEF ResumePass
  <2>2. PassRanges
    BY <1>4, <2>1 DEF ResumePass, Active
  <2> QED
    BY <1>4, <2>2 DEF ResumePass, Idles
<1>5. CASE EndPass \/ ExpirePass \/ Crash
  <2>1. daemon' \in {"up", "down"} /\ pass' = NoPass /\ Idles
    BY <1>5 DEF EndPass, ExpirePass, Crash, Idles
  <2> QED
    BY <2>1
<1>6. ASSUME NEW t \in Positions, CallStep(t) PROVE Kinds
  BY <1>6, CallStepKinds
<1>7. ASSUME NEW t \in Positions, ToolStep(t) PROVE Kinds
  BY <1>7, ToolStepKinds
<1>8. ASSUME NEW t \in Positions, RecoveryStep(t) PROVE Kinds
  <2>1. CASE RecoverHeldSlot(t)
    BY <2>1, RecoverLockedKinds DEF RecoverHeldSlot
  <2>2. CASE FailQuiescent(t)
    BY <2>2, ClosingEnds DEF FailQuiescent, Terminal
  <2>3. CASE AutoReconcile(t)
    BY <2>3, ClosingEnds DEF AutoReconcile, Terminal
  <2> QED
    BY <1>8, <2>1, <2>2, <2>3 DEF RecoveryStep
<1>9. CASE DecideApproval
  <2>1. run.attempt # "stop"
    BY <1>1, <1>9, StopShape DEF DecideApproval
  <2> QED
    BY <1>9, <2>1, ProceedMoves, FreshShapes DEF DecideApproval
<1>10. CASE Startup
  <2>1. PassRanges
    BY <1>10 DEF Startup, PassRanges, TurnInv, Ranges
  <2>2. Ends \/ Moves \/ Idles
    BY <1>10, RecoverLockedKinds DEF Startup, Idles
  <2> QED
    BY <2>1, <2>2
<1> QED
  BY <1>2, <1>3, <1>4, <1>5, <1>6, <1>7, <1>8, <1>9, <1>10 DEF Next

(* One step of the specification.                                          *)
LEMMA TurnInvStep ==
  ASSUME TurnInv, [Next]_vars
  PROVE  TurnInv' /\ Final
<1>1. CASE Next
  BY <1>1, NextKinds, IdlesStep, MovesStep, EndsStep, ConsumesStep, StartsStep,
     AcceptsStep, SteeringStep, InterruptStep DEF Kinds
<1>2. CASE UNCHANGED vars
  <2>1. Idles /\ PassRanges
    BY <1>2, PassSteps DEF vars, Idles
  <2> QED
    BY <2>1, IdlesStep
<1> QED
  BY <1>1, <1>2

---------------------------------------------------------------------------
(* The facts of the queue. *)

\* Turns and targets as the session stores them.
Stored(turns, preds) ==
  /\ turns \in [Positions -> {"none", "queued", "active"} \cup Terminal]
  /\ preds \in [Positions -> Positions \cup {NoPred}]

(* The facts the queue is derived from: one for each turn, at the position *)
(* of its input, following what it interrupts.                             *)
LEMMA QueueFactsOf ==
  ASSUME NEW turns, NEW preds, Stored(turns, preds)
  PROVE  LET w == QueueFacts(turns, preds)
         IN  /\ TurnsOf(w) = {p \in Positions : turns[p] # "none"}
             /\ \A t \in TurnsOf(w) : Pos(w, t) = t /\ Pred(w, t) = preds[t]
             /\ Wellformed(w)
             /\ OneFactPerTurn(w)
             /\ DistinctPositions(w)
<1> DEFINE w == QueueFacts(turns, preds)
           D == {p \in Positions : turns[p] # "none"}
<1>1. DOMAIN w = D /\ D \subseteq Positions
  BY DEF QueueFacts
<1>2. \A t \in D : /\ w[t].session = 1 /\ w[t].turn = t /\ w[t].pos = t
                   /\ w[t].pred = preds[t]
  BY DEF QueueFacts
<1>3. \A t \in D : t \in Nat \ {0} /\ preds[t] \in Nat
  BY <1>1, InputsAssumption DEF Stored, Positions, NoPred
<1>4. IsFiniteSet(D)
  <2>1. IsFiniteSet(Positions)
    BY InputsAssumption, FS_Interval DEF Positions
  <2> QED BY <1>1, <2>1, FS_Subset
<1> HIDE DEF w, D
<1>5. TurnsOf(w) = D
  BY <1>1, <1>2 DEF TurnsOf
<1>6. ASSUME NEW t \in D PROVE Pos(w, t) = t /\ Pred(w, t) = preds[t]
  <2>1. PICK i \in DOMAIN w : w[i].turn = t /\ Pos(w, t) = w[i].pos /\ Pred(w, t) = w[i].pred
    BY <1>5, FactOfTurn
  <2> QED BY <1>1, <1>2, <2>1
<1>7. Wellformed(w)
  BY <1>1, <1>2, <1>3, <1>4 DEF Wellformed
<1>8. OneFactPerTurn(w)
  BY <1>1, <1>2 DEF OneFactPerTurn
<1> QED BY <1>5, <1>6, <1>7, <1>8, OneFactDistinct DEF w, D

(* Their links are sound, and the order arranges them.                     *)
LEMMA OrderingArranges ==
  ASSUME NEW turns, NEW preds, Stored(turns, preds), Targeted(turns, preds)
  PROVE  LET w == QueueFacts(turns, preds)
             o == Ordering(turns, preds)
         IN  /\ Linked(w)
             /\ Arranges(w, o)
             /\ \A p \in Positions : p \in Interrupts(w) <=> preds[p] # NoPred
             /\ \A p \in Positions : p \in Roots(w) <=> turns[p] # "none" /\ preds[p] = NoPred
<1> DEFINE w == QueueFacts(turns, preds)
           o == Ordering(turns, preds)
<1>1. /\ TurnsOf(w) = {p \in Positions : turns[p] # "none"}
      /\ \A t \in TurnsOf(w) : Pos(w, t) = t /\ Pred(w, t) = preds[t]
      /\ Wellformed(w)
      /\ DistinctPositions(w)
  BY QueueFactsOf
<1>2. o = Ordered(w)
  BY DEF Ordering
<1> HIDE DEF w, o
<1>3. \A p \in Positions : p \in Interrupts(w) <=> preds[p] # NoPred
  BY <1>1 DEF Interrupts, Targeted
<1>4. \A p \in Positions : p \in Roots(w) <=> turns[p] # "none" /\ preds[p] = NoPred
  BY <1>1, <1>3 DEF Roots
<1>5. Linked(w)
  <2> SUFFICES ASSUME NEW t \in Interrupts(w)
               PROVE  /\ Pred(w, t) \in TurnsOf(w)
                      /\ Pos(w, Pred(w, t)) < Pos(w, t)
                      /\ \A u \in Interrupts(w) : Pred(w, u) = Pred(w, t) => u = t
    BY DEF Linked
  <2>1. \A u \in Interrupts(w) : u \in TurnsOf(w) /\ u \in Positions /\ preds[u] # NoPred
                                 /\ Pred(w, u) = preds[u]
    BY <1>1, <1>3 DEF Interrupts
  <2>2. preds[t] \in Positions /\ turns[preds[t]] # "none" /\ preds[t] < t
        /\ \A q \in Positions : preds[q] = preds[t] => q = t
    BY <2>1 DEF Targeted, Stored
  <2>3. preds[t] \in TurnsOf(w)
    BY <2>2, <1>1
  <2> QED BY <2>1, <2>2, <2>3, <1>1
<1>6. Arranges(w, o)
  BY <1>1, <1>2, <1>5, OrderedArranges
<1> QED BY <1>3, <1>4, <1>5, <1>6 DEF w, o

(* The order by index: each turn once, ordinary turns by position, an      *)
(* interrupt after its target.                                             *)
LEMMA OrderingParts ==
  ASSUME NEW turns, NEW preds, Stored(turns, preds), Targeted(turns, preds)
  PROVE  LET o == Ordering(turns, preds)
         IN  /\ o \in Seq(Positions) /\ Len(o) \in Nat /\ DOMAIN o = 1 .. Len(o)
             /\ Len(o) <= MaxInputs
             /\ \A i \in 1 .. Len(o) : o[i] \in Positions /\ turns[o[i]] # "none"
             /\ \A i, j \in 1 .. Len(o) : o[i] = o[j] => i = j
             /\ \A p \in Positions : turns[p] # "none" => \E i \in 1 .. Len(o) : o[i] = p
             /\ \A i, j \in 1 .. Len(o) : j <= i /\ preds[o[j]] = NoPred => o[j] <= o[i]
<1> DEFINE w == QueueFacts(turns, preds)
           o == Ordering(turns, preds)
<1>1. /\ TurnsOf(w) = {p \in Positions : turns[p] # "none"}
      /\ \A t \in TurnsOf(w) : Pos(w, t) = t
      /\ Wellformed(w)
      /\ DistinctPositions(w)
  BY QueueFactsOf
<1>2. Linked(w) /\ Arranges(w, o)
      /\ \A p \in Positions : p \in Roots(w) <=> turns[p] # "none" /\ preds[p] = NoPred
  BY OrderingArranges
<1> HIDE DEF w, o
<1>3. /\ o \in Seq(TurnsOf(w)) /\ Len(o) \in Nat /\ DOMAIN o = 1 .. Len(o)
      /\ \A i \in 1 .. Len(o) : o[i] \in TurnsOf(w)
      /\ \A i, j \in 1 .. Len(o) : o[i] = o[j] => i = j
      /\ \A t \in TurnsOf(w) : \E i \in 1 .. Len(o) : o[i] = t
  BY <1>2, ArrangedParts
<1>4. o \in Seq(Positions)
  BY <1>1, <1>3
<1>5. Len(o) <= MaxInputs
  <2>1. IsFiniteSet(Positions) /\ Cardinality(Positions) = MaxInputs
    BY InputsAssumption, FS_Interval DEF Positions
  <2> QED BY <2>1, <1>3, <1>4, FullLength
<1>6. \A i, j \in 1 .. Len(o) : j <= i /\ preds[o[j]] = NoPred => o[j] <= o[i]
  <2> SUFFICES ASSUME NEW i \in 1 .. Len(o), NEW j \in 1 .. Len(o), j <= i,
                      preds[o[j]] = NoPred
               PROVE  o[j] <= o[i]
    OBVIOUS
  <2>1. o[j] \in Roots(w) /\ Pos(w, o[j]) = o[j] /\ Pos(w, o[i]) = o[i]
    BY <1>1, <1>2, <1>3
  <2>2. Pos(w, o[j]) <= Pos(w, o[i])
    BY <1>1, <1>2, <2>1, RootsBelow
  <2> QED BY <2>1, <2>2
<1> QED BY <1>1, <1>3, <1>4, <1>5, <1>6 DEF o

(* Interrupts with ever later targets derive without error.                *)
LEMMA QueueDerives ==
  ASSUME NEW turns, NEW preds, Stored(turns, preds), Targeted(turns, preds),
         Chronological(turns, preds)
  PROVE  Derive(QueueFacts(turns, preds))
           = [error |-> "none", order |-> Ordering(turns, preds)]
<1> DEFINE w == QueueFacts(turns, preds)
           o == Ordering(turns, preds)
<1>1. /\ TurnsOf(w) = {p \in Positions : turns[p] # "none"}
      /\ \A t \in TurnsOf(w) : Pos(w, t) = t /\ Pred(w, t) = preds[t]
      /\ Wellformed(w)
      /\ OneFactPerTurn(w)
  BY QueueFactsOf
<1>2. Linked(w) /\ Arranges(w, o)
  BY OrderingArranges
<1>3. o = Ordered(w)
  BY DEF Ordering
<1>4. \A p, q \in Positions : \A i, j \in 1 .. Len(o) :
        p < q /\ preds[p] = o[i] /\ preds[q] = o[j] => i < j
  BY DEF Chronological
<1> HIDE DEF w, o
<1>5. \A t \in Interrupts(w) : IndexIn(o, Pred(w, t)) \in Nat
  BY <1>1, <1>2, InterruptsAscend
<1>6. TargetsAscend(w, o)
  <2> SUFFICES ASSUME NEW t \in Interrupts(w), NEW u \in Interrupts(w), Pos(w, u) < Pos(w, t)
               PROVE  IndexIn(o, Pred(w, u)) < IndexIn(o, Pred(w, t))
    BY DEF TargetsAscend
  <2>1. t \in TurnsOf(w) /\ u \in TurnsOf(w) /\ Pred(w, t) \in TurnsOf(w) /\ Pred(w, u) \in TurnsOf(w)
    BY <1>2 DEF Interrupts, Linked
  <2>2. u < t /\ Pred(w, t) = preds[t] /\ Pred(w, u) = preds[u] /\ t \in Positions /\ u \in Positions
    BY <1>1, <2>1
  <2>a. \A x \in TurnsOf(w) : \E i \in 1 .. Len(o) : o[i] = x
    BY <1>2, ArrangedParts
  <2>3. PICK i \in 1 .. Len(o), j \in 1 .. Len(o) : o[i] = preds[u] /\ o[j] = preds[t]
    BY <2>1, <2>2, <2>a
  <2>4. i < j
    BY <1>4, <2>2, <2>3
  <2>5. IndexIn(o, o[i]) = i /\ IndexIn(o, o[j]) = j
    BY <1>2, TargetIndex
  <2> QED BY <2>2, <2>3, <2>4, <2>5
<1>7. ~ChronologyReversed(w, o)
  BY <1>1, <1>5, <1>6, ChronologyPairs
<1> QED BY <1>1, <1>2, <1>3, <1>7, DeriveAccepts DEF w, o

(* New turns leave what was started where it is: new queued turns that are *)
(* ordinary and accepted after every ordinary turn started, and an         *)
(* interrupt of the active turn, the first one, accepted after all others. *)
LEMMA OrderGrows ==
  ASSUME NEW turns, NEW preds, NEW turns2, NEW preds2, NEW lineages,
         NEW k \in 0 .. MaxInputs,
         Stored(turns, preds), Targeted(turns, preds), Chronological(turns, preds),
         StartedUpTo(turns, preds, lineages, k),
         Stored(turns2, preds2), Targeted(turns2, preds2),
         \A p \in Positions : turns[p] # "none" =>
           /\ turns2[p] # "none" /\ preds2[p] = preds[p]
           /\ turns2[p] = "queued" <=> turns[p] = "queued"
           /\ turns2[p] = "active" => turns[p] = "active",
         \A p \in Positions : turns[p] = "none" /\ turns2[p] # "none" =>
           /\ turns2[p] = "queued"
           /\ preds2[p] = NoPred =>
                \A u \in Positions : turns[u] \notin {"none", "queued"} /\ preds[u] = NoPred => u < p
           /\ preds2[p] # NoPred =>
                /\ turns[preds2[p]] = "active"
                /\ \A u \in Positions : preds[u] # NoPred => u < p /\ preds[u] # preds2[p]
  PROVE  /\ Chronological(turns2, preds2)
         /\ StartedUpTo(turns2, preds2, lineages, k)
<1> DEFINE w  == QueueFacts(turns, preds)
           w2 == QueueFacts(turns2, preds2)
           o  == Ordering(turns, preds)
           q  == Ordering(turns2, preds2)
<1>1. /\ TurnsOf(w) = {p \in Positions : turns[p] # "none"}
      /\ \A t \in TurnsOf(w) : Pos(w, t) = t /\ Pred(w, t) = preds[t]
      /\ Wellformed(w)
  BY QueueFactsOf
<1>2. /\ TurnsOf(w2) = {p \in Positions : turns2[p] # "none"}
      /\ \A t \in TurnsOf(w2) : Pos(w2, t) = t /\ Pred(w2, t) = preds2[t]
      /\ Wellformed(w2) /\ DistinctPositions(w2)
  BY QueueFactsOf
<1>3. /\ Arranges(w, o)
      /\ \A p \in Positions : p \in Roots(w) <=> turns[p] # "none" /\ preds[p] = NoPred
  BY OrderingArranges
<1>4. /\ Arranges(w2, q)
      /\ \A p \in Positions : p \in Interrupts(w2) <=> preds2[p] # NoPred
      /\ \A p \in Positions : p \in Roots(w2) <=> turns2[p] # "none" /\ preds2[p] = NoPred
  BY OrderingArranges
<1>5. /\ Len(o) \in Nat
      /\ \A i \in 1 .. Len(o) : o[i] \in Positions /\ turns[o[i]] # "none"
      /\ \A i, j \in 1 .. Len(o) : o[i] = o[j] => i = j
      /\ \A p \in Positions : turns[p] # "none" => \E i \in 1 .. Len(o) : o[i] = p
  BY OrderingParts
<1>6. /\ Len(q) \in Nat
      /\ \A i \in 1 .. Len(q) : q[i] \in Positions /\ turns2[q[i]] # "none"
      /\ \A i, j \in 1 .. Len(q) : q[i] = q[j] => i = j
  BY OrderingParts
<1>7. /\ k \in 0 .. Len(o)
      /\ \A i \in 1 .. Len(o) : turns[o[i]] # "queued" <=> i <= k
      /\ \A i \in 1 .. Len(o) : turns[o[i]] = "active" => i = k
      /\ \A i \in 1 .. k : lineages[o[i]] = IF i = 1 THEN NoTurn ELSE o[i - 1]
  BY DEF StartedUpTo
<1>8. \A p, r \in Positions : \A i, j \in 1 .. Len(o) :
        p < r /\ preds[p] = o[i] /\ preds[r] = o[j] => i < j
  BY DEF Chronological
<1>9. \A p \in Positions : turns[p] = "active" => \E i \in 1 .. Len(o) : o[i] = p /\ i = k
  BY <1>5, <1>7
<1> HIDE DEF w, w2, o, q
<1>10. Extends(w, w2, o, k)
  <2>1. TurnsOf(w) \subseteq TurnsOf(w2)
    BY <1>1, <1>2
  <2>2. \A t \in TurnsOf(w) : Pos(w2, t) = Pos(w, t) /\ Pred(w2, t) = Pred(w, t)
    BY <1>1, <1>2, <2>1
  <2>3. ASSUME NEW x \in TurnsOf(w2) \ TurnsOf(w)
        PROVE  /\ x \in Roots(w2) =>
                    \A i \in 1 .. k : o[i] \in Roots(w) => Pos(w, o[i]) < Pos(w2, x)
               /\ x \in Interrupts(w2) => \A i \in 1 .. k - 1 : o[i] # Pred(w2, x)
    <3>1. x \in Positions /\ turns[x] = "none" /\ turns2[x] # "none"
          /\ Pos(w2, x) = x /\ Pred(w2, x) = preds2[x]
      BY <1>1, <1>2
    <3>2. ASSUME x \in Roots(w2), NEW i \in 1 .. k, o[i] \in Roots(w)
          PROVE  Pos(w, o[i]) < Pos(w2, x)
      <4>1. i \in 1 .. Len(o) /\ i <= k
        BY <1>5, <1>7
      <4>2. /\ o[i] \in Positions /\ turns[o[i]] \notin {"none", "queued"} /\ preds[o[i]] = NoPred
            /\ Pos(w, o[i]) = o[i]
        BY <4>1, <1>5, <1>7, <1>3, <1>1, <3>2
      <4> QED BY <4>2, <3>1, <3>2, <1>4
    <3>3. ASSUME x \in Interrupts(w2), NEW i \in 1 .. k - 1, o[i] = Pred(w2, x)
          PROVE  FALSE
      <4>1. turns[o[i]] = "active"
        BY <3>1, <3>3, <1>4
      <4>2. i \in 1 .. Len(o) /\ i # k
        BY <1>5, <1>7
      <4> QED BY <4>1, <4>2, <1>7
    <3> QED BY <3>2, <3>3
  <2> QED BY <2>1, <2>2, <2>3 DEF Extends
<1>11. Agree(o, q, k)
  BY <1>1, <1>2, <1>3, <1>4, <1>7, <1>10, PrefixStays
<1>12. k <= Len(q) /\ \A i \in 1 .. k : q[i] = o[i] /\ i \in 1 .. Len(o) /\ i \in 1 .. Len(q)
  BY <1>5, <1>6, <1>7, <1>11 DEF Agree
<1>13. ASSUME NEW i \in 1 .. Len(q) PROVE turns2[q[i]] # "queued" <=> i <= k
  <2>1. CASE i <= k
    <3>1. i \in 1 .. k
      BY <2>1
    <3>2. q[i] = o[i] /\ turns[o[i]] # "queued" /\ o[i] \in Positions /\ turns[o[i]] # "none"
      BY <3>1, <2>1, <1>12, <1>7, <1>5
    <3> QED BY <3>2, <2>1
  <2>2. CASE ~(i <= k)
    <3>1. q[i] \in Positions /\ turns2[q[i]] # "none"
      BY <1>6
    <3>2. CASE turns[q[i]] # "none"
      <4>1. PICK j \in 1 .. Len(o) : o[j] = q[i]
        BY <3>1, <3>2, <1>5
      <4>2. ~(j <= k)
        <5> SUFFICES ASSUME j <= k PROVE FALSE
          OBVIOUS
        <5>1. j \in 1 .. k
          OBVIOUS
        <5>2. q[j] = q[i] /\ j \in 1 .. Len(q)
          BY <5>1, <4>1, <1>12
        <5>3. j = i
          BY <5>2, <1>6
        <5> QED BY <5>3, <2>2
      <4>3. turns[q[i]] = "queued"
        BY <4>1, <4>2, <1>7
      <4> QED BY <4>3, <3>1, <3>2, <2>2
    <3>3. CASE turns[q[i]] = "none"
      BY <3>1, <3>3, <2>2
    <3> QED BY <3>2, <3>3
  <2> QED BY <2>1, <2>2
<1>14. ASSUME NEW i \in 1 .. Len(q), turns2[q[i]] = "active" PROVE i = k
  <2>1. i <= k
    BY <1>13, <1>14
  <2>2. i \in 1 .. k
    BY <2>1
  <2>3. q[i] = o[i] /\ i \in 1 .. Len(o) /\ o[i] \in Positions /\ turns[o[i]] # "none"
    BY <2>2, <1>12, <1>5
  <2>4. turns[o[i]] = "active"
    BY <2>3, <1>14
  <2> QED BY <2>3, <2>4, <1>7
<1>15. ASSUME NEW i \in 1 .. k PROVE lineages[q[i]] = IF i = 1 THEN NoTurn ELSE q[i - 1]
  <2>1. lineages[q[i]] = IF i = 1 THEN NoTurn ELSE o[i - 1]
    BY <1>7, <1>12
  <2>2. i # 1 => q[i - 1] = o[i - 1]
    <3> SUFFICES ASSUME i # 1 PROVE q[i - 1] = o[i - 1]
      OBVIOUS
    <3>1. i - 1 \in 1 .. k
      OBVIOUS
    <3> QED BY <3>1, <1>12
  <2> QED BY <2>1, <2>2
<1>16. k \in 0 .. Len(q)
  BY <1>12, <1>6, <1>7
<1>17. StartedUpTo(turns2, preds2, lineages, k)
  BY <1>13, <1>14, <1>15, <1>16 DEF StartedUpTo, q
<1>18. ASSUME NEW p \in Positions, NEW i \in 1 .. Len(q), preds2[p] = q[i]
       PROVE  \/ preds[p] = o[i] /\ i \in 1 .. Len(o) /\ i <= k
              \/ /\ preds[p] = NoPred /\ turns[p] = "none" /\ i = k
                 /\ \A u \in Positions : preds[u] # NoPred => u < p /\ preds[u] # q[i]
  <2>0. preds2[p] # NoPred /\ turns2[p] # "none"
    BY <1>6, <1>18 DEF Targeted, Positions, NoPred
  <2>1. CASE turns[p] # "none"
    <3>1. preds[p] = q[i] /\ preds[p] # NoPred
      BY <2>0, <2>1, <1>18
    <3>2. preds[p] \in Positions /\ turns[preds[p]] \notin {"none", "queued"}
      BY <3>1 DEF Targeted, Stored
    <3>3. PICK j \in 1 .. Len(o) : o[j] = preds[p]
      BY <3>2, <1>5
    <3>4. j <= k
      BY <3>2, <3>3, <1>7
    <3>5. j \in 1 .. k
      BY <3>4
    <3>6. q[j] = q[i] /\ j \in 1 .. Len(q)
      BY <3>1, <3>3, <3>5, <1>12
    <3>7. j = i
      BY <3>6, <1>6
    <3> QED BY <3>3, <3>4, <3>7
  <2>2. CASE turns[p] = "none"
    <3>1. /\ turns[q[i]] = "active"
          /\ \A u \in Positions : preds[u] # NoPred => u < p /\ preds[u] # q[i]
      BY <2>0, <2>2, <1>18
    <3>2. preds[p] = NoPred
      BY <2>2 DEF Targeted
    <3>3. PICK j \in 1 .. Len(o) : o[j] = q[i] /\ j = k
      BY <3>1, <1>9, <1>6
    <3>4. j \in 1 .. k
      BY <3>3
    <3>5. q[j] = q[i] /\ j \in 1 .. Len(q)
      BY <3>3, <3>4, <1>12
    <3>6. j = i
      BY <3>5, <1>6
    <3> QED BY <3>1, <3>2, <3>3, <3>6, <2>2
  <2> QED BY <2>1, <2>2
<1>19. ASSUME NEW p \in Positions, NEW r \in Positions,
              NEW i \in 1 .. Len(q), NEW j \in 1 .. Len(q),
              p < r, preds2[p] = q[i], preds2[r] = q[j]
       PROVE  i < j
  <2>0. /\ i # j
        /\ p \in Nat /\ r \in Nat /\ NoPred \notin Positions
    <3>1. preds2[p] # NoPred
      BY <1>6, <1>19 DEF Positions, NoPred
    <3>2. i = j => r = p
      BY <3>1, <1>19 DEF Targeted
    <3> QED BY <3>2, <1>19, InputsAssumption DEF Positions, NoPred
  <2>1. CASE preds[p] = o[i] /\ i \in 1 .. Len(o) /\ i <= k
    <3>1. CASE preds[r] = o[j] /\ j \in 1 .. Len(o) /\ j <= k
      BY <2>1, <3>1, <1>8, <1>19
    <3>2. CASE j = k
      BY <2>0, <2>1, <3>2, <1>7
    <3> QED BY <3>1, <3>2, <1>18, <1>19
  <2>2. CASE /\ preds[p] = NoPred /\ i = k
             /\ \A u \in Positions : preds[u] # NoPred => u < p /\ preds[u] # q[i]
    <3>1. CASE preds[r] = o[j] /\ j \in 1 .. Len(o) /\ j <= k
      <4>1. preds[r] # NoPred
        BY <3>1, <2>0, <1>5
      <4>2. r < p
        BY <4>1, <2>2
      <4> QED BY <4>2, <2>0, <1>19
    <3>2. CASE j = k
      BY <3>2, <2>2, <2>0
    <3> QED BY <3>1, <3>2, <1>18, <1>19
  <2> QED BY <2>1, <2>2, <1>18, <1>19
<1>20. Chronological(turns2, preds2)
  BY <1>19 DEF Chronological, q
<1> QED BY <1>17, <1>20

---------------------------------------------------------------------------
(* The order as the session goes on. *)

(* The stored turns and targets have their ranges.                         *)
LEMMA TurnsStored == TurnInv => Stored(turn, after)
BY DEF TurnInv, Ranges, Stored

(* The order at the start: nothing to order.                               *)
LEMMA OrderInvInit == Init => OrderInv
<1> SUFFICES ASSUME Init PROVE OrderInv
  OBVIOUS
<1>1. Stored(turn, after) /\ Targeted(turn, after)
  BY TurnInvInit, TurnsStored DEF Targeted, Init
<1> DEFINE o == Ordering(turn, after)
<1>2. /\ Len(o) \in Nat
      /\ \A i \in 1 .. Len(o) : o[i] \in Positions /\ turn[o[i]] # "none"
  BY <1>1, OrderingParts
<1> HIDE DEF o
<1>3. Len(o) = 0
  <2> SUFFICES ASSUME Len(o) # 0 PROVE FALSE
    OBVIOUS
  <2>1. 1 \in 1 .. Len(o)
    BY <1>2
  <2> QED BY <1>2, <2>1 DEF Init
<1>4. 0 \in 0 .. MaxInputs /\ StartedUpTo(turn, after, lineage, 0)
  BY <1>3, InputsAssumption DEF StartedUpTo, o
<1>5. Chronological(turn, after)
  BY <1>3 DEF Chronological, o
<1> QED BY <1>1, <1>4, <1>5 DEF OrderInv, Init, BoundEarlier

(* Steps that start, end and accept no turn leave the order alone.         *)
LEMMA OrderUnchanged ==
  ASSUME OrderInv, UNCHANGED <<turn, after, lineage>>, BoundEarlier'
  PROVE  OrderInv'
<1>1. turn' = turn /\ after' = after /\ lineage' = lineage
  OBVIOUS
<1>2. Targeted(turn, after)' /\ Chronological(turn, after)'
  BY <1>1 DEF OrderInv
<1> QED BY <1>1, <1>2 DEF OrderInv

(* The order derives without error and is the one the invariant is about.  *)
LEMMA QueueIs ==
  ASSUME TurnInv, OrderInv
  PROVE  Queue = [error |-> "none", order |-> Ordering(turn, after)]
BY TurnsStored, QueueDerives DEF Queue, OrderInv

(* The active turn is the last one started; ordinary turns started were    *)
(* accepted no later.                                                      *)
LEMMA StartedBelowActive ==
  ASSUME TurnInv, OrderInv, NEW a \in Active,
         NEW u \in Positions, turn[u] \notin {"none", "queued"}, after[u] = NoPred
  PROVE  u <= a
<1> DEFINE o == Ordering(turn, after)
<1>1. /\ \A p \in Positions : turn[p] # "none" => \E i \in 1 .. Len(o) : o[i] = p
      /\ \A i, j \in 1 .. Len(o) : j <= i /\ after[o[j]] = NoPred => o[j] <= o[i]
  BY TurnsStored, OrderingParts DEF OrderInv
<1>2. PICK k \in 0 .. MaxInputs : StartedUpTo(turn, after, lineage, k)
  BY DEF OrderInv
<1>3. /\ \A i \in 1 .. Len(o) : turn[o[i]] # "queued" <=> i <= k
      /\ \A i \in 1 .. Len(o) : turn[o[i]] = "active" => i = k
  BY <1>2 DEF StartedUpTo
<1> HIDE DEF o
<1>4. a \in Positions /\ turn[a] = "active"
  BY DEF Active
<1>5. PICK i \in 1 .. Len(o) : o[i] = a
  BY <1>1, <1>4
<1>6. PICK j \in 1 .. Len(o) : o[j] = u
  BY <1>1
<1>7. i = k /\ j <= k
  BY <1>3, <1>4, <1>5, <1>6
<1> QED BY <1>1, <1>5, <1>6, <1>7

(* The start of the first queued turn of the order.                        *)
LEMMA OrderStarts ==
  ASSUME TurnInv, OrderInv, Starts
  PROVE  OrderInv'
<1> DEFINE o == Ordering(turn, after)
<1>1. Queue.order = o
  BY QueueIs
<1>2. PICK t \in Positions : \E i : StartsIn(o, t, i)
  BY <1>1 DEF Starts
<1>3. PICK m : StartsIn(o, t, m)
  BY <1>2
<1>4. Active = {} /\ after' = after /\ bound' = bound
  BY DEF Starts, facts
<1>5. Stored(turn, after) /\ Targeted(turn, after)
  BY TurnsStored DEF OrderInv
<1>6. /\ Len(o) \in Nat /\ DOMAIN o = 1 .. Len(o) /\ Len(o) <= MaxInputs
      /\ \A i \in 1 .. Len(o) : o[i] \in Positions /\ turn[o[i]] # "none"
      /\ \A i, j \in 1 .. Len(o) : o[i] = o[j] => i = j
  BY <1>5, OrderingParts
<1>7. PICK k \in 0 .. MaxInputs : StartedUpTo(turn, after, lineage, k)
  BY DEF OrderInv
<1>8. /\ k \in 0 .. Len(o)
      /\ \A i \in 1 .. Len(o) : turn[o[i]] # "queued" <=> i <= k
      /\ \A i \in 1 .. k : lineage[o[i]] = IF i = 1 THEN NoTurn ELSE o[i - 1]
  BY <1>7 DEF StartedUpTo
<1>9. \A p, q \in Positions : \A i, j \in 1 .. Len(o) :
        p < q /\ after[p] = o[i] /\ after[q] = o[j] => i < j
  BY DEF OrderInv, Chronological
<1>10. \A p \in Positions : turn'[p] = IF p = t THEN "active" ELSE turn[p]
  BY <1>3 DEF StartsIn, TurnInv, Ranges
<1>11. \A p \in Positions :
         lineage'[p] = IF p = t THEN (IF m = 1 THEN NoTurn ELSE o[m - 1]) ELSE lineage[p]
  BY <1>3 DEF StartsIn, OrderInv
<1>12. turn[t] = "queued"
  BY <1>3 DEF StartsIn
<1>13. QueueFacts(turn, after)' = QueueFacts(turn, after)
  <2>1. {p \in Positions : turn'[p] # "none"} = {p \in Positions : turn[p] # "none"}
    BY <1>10, <1>12
  <2> QED BY <1>4, <2>1 DEF QueueFacts
<1>14. Ordering(turn, after)' = o
  BY <1>13 DEF Ordering
<1>15. m \in 1 .. Len(o) /\ o[m] = t /\ \A j \in 1 .. m - 1 : turn[o[j]] # "queued"
  BY <1>3, <1>6 DEF StartsIn
<1>a. lineage' = [lineage EXCEPT ![t] = IF m = 1 THEN NoTurn ELSE o[m - 1]]
  BY <1>3 DEF StartsIn
<1> HIDE DEF o
<1>16. m = k + 1
  <2>1. ~(m <= k)
    BY <1>8, <1>12, <1>15
  <2>2. ~(m > k + 1)
    <3> SUFFICES ASSUME m > k + 1 PROVE FALSE
      OBVIOUS
    <3>1. k + 1 \in 1 .. m - 1 /\ k + 1 \in 1 .. Len(o) /\ ~(k + 1 <= k)
      BY <1>6, <1>8, <1>15
    <3> QED BY <3>1, <1>8, <1>15
  <2> QED BY <2>1, <2>2, <1>15
<1>17. m \in 0 .. MaxInputs /\ m \in 0 .. Len(o)
  BY <1>6, <1>15, InputsAssumption
<1>18. ASSUME NEW i \in 1 .. Len(o) PROVE turn'[o[i]] # "queued" <=> i <= m
  <2>1. CASE i = m
    BY <2>1, <1>10, <1>15
  <2>2. CASE i # m
    <3>1. turn'[o[i]] = turn[o[i]]
      BY <2>2, <1>6, <1>10, <1>15
    <3>2. i <= m <=> i <= k
      BY <2>2, <1>16
    <3> QED BY <3>1, <3>2, <1>8
  <2> QED BY <2>1, <2>2
<1>19. ASSUME NEW i \in 1 .. Len(o), turn'[o[i]] = "active" PROVE i = m
  <2>1. o[i] = t
    BY <1>19, <1>4, <1>6, <1>10 DEF Active
  <2> QED BY <2>1, <1>6, <1>15
<1>20. ASSUME NEW i \in 1 .. m PROVE lineage'[o[i]] = IF i = 1 THEN NoTurn ELSE o[i - 1]
  <2>0. i \in 1 .. Len(o) /\ o[i] \in Positions
    BY <1>6, <1>15
  <2>1. CASE i = m
    BY <2>0, <2>1, <1>11, <1>15
  <2>2. CASE i # m
    <3>1. i \in 1 .. k /\ o[i] # t
      BY <2>0, <2>2, <1>6, <1>15, <1>16
    <3> QED BY <2>0, <3>1, <1>8, <1>11
  <2> QED BY <2>1, <2>2
<1>21. StartedUpTo(turn, after, lineage, m)'
  BY <1>14, <1>17, <1>18, <1>19, <1>20 DEF StartedUpTo
<1>22. Chronological(turn, after)'
  BY <1>4, <1>9, <1>14 DEF Chronological
<1>23. Targeted(turn, after)'
  <2> SUFFICES ASSUME NEW p \in Positions, after[p] # NoPred
               PROVE  /\ turn'[p] # "none"
                      /\ after[p] < p
                      /\ turn'[after[p]] \notin {"none", "queued"}
                      /\ \A q \in Positions : after[q] = after[p] => q = p
    BY <1>4 DEF Targeted
  <2>1. after[p] \in Positions
    BY DEF TurnInv, Ranges
  <2>2. /\ turn[p] # "none"
        /\ after[p] < p
        /\ turn[after[p]] \notin {"none", "queued"}
        /\ \A q \in Positions : after[q] = after[p] => q = p
    BY <1>5 DEF Targeted
  <2> QED BY <2>1, <2>2, <1>10
<1>24. lineage' \in [Positions -> Positions \cup {NoTurn}]
  <2>1. (IF m = 1 THEN NoTurn ELSE o[m - 1]) \in Positions \cup {NoTurn}
    <3>1. CASE m = 1
      BY <3>1
    <3>2. CASE m # 1
      <4>1. m - 1 \in 1 .. Len(o)
        BY <3>2, <1>15, <1>6
      <4> QED BY <4>1, <3>2, <1>6
    <3> QED BY <3>1, <3>2
  <2> QED BY <2>1, <1>a DEF OrderInv
<1>25. BoundEarlier'
  BY <1>4 DEF OrderInv, BoundEarlier
<1>26. \E i \in 0 .. MaxInputs : StartedUpTo(turn, after, lineage, i)'
  BY <1>17, <1>21
<1> QED BY <1>22, <1>23, <1>24, <1>25, <1>26 DEF OrderInv

(* Positions in use are no later than the last one handed out.             *)
LEMMA UsedPositions ==
  ASSUME TurnInv, NEW u \in Positions, turn[u] # "none" \/ bound[u] # NoTurn
  PROVE  u <= last /\ u < last + 1
BY DEF TurnInv, Unused, Ranges, Positions

(* The acceptance of an ordinary turn, after every other.                  *)
LEMMA OrderAccepts ==
  ASSUME TurnInv, OrderInv, Accepts, TurnInv'
  PROVE  OrderInv'
<1> DEFINE n == last + 1
<1>1. /\ last < MaxInputs
      /\ after' = after /\ bound' = bound /\ lineage' = lineage
  BY DEF Accepts
<1>2. /\ n \in Positions
      /\ after[n] = NoPred /\ turn[n] = "none"
      /\ \A p \in Positions : after[p] # n
  BY <1>1, NextUnused
<1>3. \A p \in Positions : turn'[p] = IF p = n THEN "queued" ELSE turn[p]
  BY DEF Accepts, TurnInv, Ranges
<1>4. \A u \in Positions : turn[u] # "none" => u < n
  BY UsedPositions
<1> HIDE DEF n
<1>5. Stored(turn, after) /\ Targeted(turn, after) /\ Chronological(turn, after)
  BY TurnsStored DEF OrderInv
<1>6. Stored(turn', after)
  BY <1>1 DEF TurnInv, Ranges, Stored
<1>7. Targeted(turn', after)
  <2> SUFFICES ASSUME NEW p \in Positions, after[p] # NoPred
               PROVE  /\ turn'[p] # "none"
                      /\ after[p] < p
                      /\ turn'[after[p]] \notin {"none", "queued"}
                      /\ \A q \in Positions : after[q] = after[p] => q = p
    BY DEF Targeted
  <2>1. after[p] \in Positions /\ p # n
    BY <1>2 DEF TurnInv, Ranges
  <2>2. /\ turn[p] # "none"
        /\ after[p] < p
        /\ turn[after[p]] \notin {"none", "queued"}
        /\ \A q \in Positions : after[q] = after[p] => q = p
    BY <1>5 DEF Targeted
  <2> QED BY <2>1, <2>2, <1>2, <1>3
<1>8. PICK k \in 0 .. MaxInputs : StartedUpTo(turn, after, lineage, k)
  BY DEF OrderInv
<1>9. \A p \in Positions : turn[p] # "none" => turn'[p] = turn[p]
  BY <1>2, <1>3
<1>10. \A p \in Positions : turn[p] = "none" /\ turn'[p] # "none" =>
         /\ turn'[p] = "queued"
         /\ after[p] = NoPred
         /\ \A u \in Positions : turn[u] \notin {"none", "queued"} => u < p
  BY <1>2, <1>3, <1>4
<1>11. Chronological(turn', after) /\ StartedUpTo(turn', after, lineage, k)
  BY <1>5, <1>6, <1>7, <1>8, <1>9, <1>10, OrderGrows
<1>12. BoundEarlier'
  BY <1>1 DEF OrderInv, BoundEarlier
<1> QED BY <1>1, <1>7, <1>11, <1>12 DEF OrderInv

(* The end of the active turn: its pending steering, all accepted later,   *)
(* becomes ordinary turns behind it.                                       *)
LEMMA OrderEnds ==
  ASSUME TurnInv, OrderInv, Ends, TurnInv'
  PROVE  OrderInv'
<1>1. after' = after /\ bound' = bound /\ lineage' = lineage
  BY DEF Ends
<1>2. PICK t \in Active, d \in Terminal : Close(t, d, input, turn)
  BY DEF Ends
<1>3. /\ t \in Positions /\ turn[t] = "active"
      /\ \A p \in Positions :
           p \in PendingOn(t) <=> input[p] = "pending" /\ bound[p] = t
  BY DEF Active, PendingOn
<1>4. \A p \in Positions :
        /\ p = t => turn'[p] = d
        /\ p # t /\ p \in PendingOn(t) => turn'[p] = "queued"
        /\ p # t /\ p \notin PendingOn(t) => turn'[p] = turn[p]
  BY <1>2 DEF Close
<1>5. \A p \in PendingOn(t) : p # t /\ turn[p] = "none" /\ p \in Positions
  BY <1>3 DEF TurnInv, Dispositioned, PendingOn
<1>6. d \notin {"none", "queued", "active"}
  BY DEF Terminal
<1>7. Stored(turn, after) /\ Targeted(turn, after) /\ Chronological(turn, after)
  BY TurnsStored DEF OrderInv
<1>8. Stored(turn', after)
  BY <1>1 DEF TurnInv, Ranges, Stored
<1>9. \A p \in Positions : turn[p] # "none" =>
        /\ turn'[p] # "none"
        /\ turn'[p] = "queued" <=> turn[p] = "queued"
        /\ turn'[p] = "active" => turn[p] = "active"
  BY <1>3, <1>4, <1>5, <1>6
<1>10. Targeted(turn', after)
  <2> SUFFICES ASSUME NEW p \in Positions, after[p] # NoPred
               PROVE  /\ turn'[p] # "none"
                      /\ after[p] < p
                      /\ turn'[after[p]] \notin {"none", "queued"}
                      /\ \A q \in Positions : after[q] = after[p] => q = p
    BY DEF Targeted
  <2>1. after[p] \in Positions
    BY DEF TurnInv, Ranges
  <2>2. /\ turn[p] # "none"
        /\ after[p] < p
        /\ turn[after[p]] \notin {"none", "queued"}
        /\ \A q \in Positions : after[q] = after[p] => q = p
    BY <1>7 DEF Targeted
  <2> QED BY <2>1, <2>2, <1>9
<1>11. PICK k \in 0 .. MaxInputs : StartedUpTo(turn, after, lineage, k)
  BY DEF OrderInv
<1>12. ASSUME NEW p \in Positions, turn[p] = "none", turn'[p] # "none"
       PROVE  /\ turn'[p] = "queued"
              /\ after[p] = NoPred
              /\ \A u \in Positions :
                   turn[u] \notin {"none", "queued"} /\ after[u] = NoPred => u < p
  <2>1. p \in PendingOn(t) /\ p # t /\ turn'[p] = "queued"
    BY <1>3, <1>4, <1>12
  <2>2. after[p] = NoPred
    BY <1>7, <1>12 DEF Targeted
  <2>3. t < p
    <3>1. bound[p] = t /\ t # NoTurn
      BY <2>1, <1>3, PositionFacts DEF TurnInv, Ranges
    <3> QED BY <3>1 DEF OrderInv, BoundEarlier
  <2>4. ASSUME NEW u \in Positions, turn[u] \notin {"none", "queued"}, after[u] = NoPred
        PROVE  u < p
    <3>1. u <= t
      BY <2>4, StartedBelowActive
    <3> QED BY <3>1, <2>3, <1>3 DEF Positions
  <2> QED BY <2>1, <2>2, <2>4
<1>13. Chronological(turn', after) /\ StartedUpTo(turn', after, lineage, k)
  BY <1>7, <1>8, <1>9, <1>10, <1>11, <1>12, OrderGrows
<1>14. BoundEarlier'
  BY <1>1 DEF OrderInv, BoundEarlier
<1> QED BY <1>1, <1>10, <1>13, <1>14 DEF OrderInv

(* An admissible interrupt of the active turn fits the order, whether or   *)
(* not that turn ends at once and its pending steering is reclassified.    *)
LEMMA InterruptOrders ==
  ASSUME TurnInv, OrderInv, last < MaxInputs,
         NEW t \in Positions, InterruptAdmissible(t),
         NEW preds2,
         \A p \in Positions : preds2[p] = IF p = last + 1 THEN t ELSE after[p],
         NEW turns2, Stored(turns2, preds2),
         turns2[last + 1] = "queued", turns2[t] \in {"active"} \cup Terminal,
         \A p \in Positions : p # last + 1 /\ p # t =>
           turns2[p] = turn[p] \/ (p \in PendingOn(t) /\ turns2[p] = "queued")
  PROVE  /\ Targeted(turns2, preds2)
         /\ Chronological(turns2, preds2)
         /\ \E k \in 0 .. MaxInputs : StartedUpTo(turns2, preds2, lineage, k)
<1> DEFINE n == last + 1
<1>1. t \in Active /\ turn[t] = "active" /\ run.attempt # "stop"
  BY DEF InterruptAdmissible, ExpectedActive, Active
<1>2. /\ n \in Positions
      /\ after[n] = NoPred /\ turn[n] = "none"
      /\ \A p \in Positions : after[p] # n
  BY NextUnused
<1>3. \A u \in Positions : turn[u] # "none" => u < n
  BY UsedPositions
<1>4. \A p \in Positions : preds2[p] = IF p = n THEN t ELSE after[p]
  OBVIOUS
<1>5. /\ turns2[n] = "queued" /\ turns2[t] \in {"active"} \cup Terminal
      /\ \A p \in Positions : p # n /\ p # t =>
           turns2[p] = turn[p] \/ (p \in PendingOn(t) /\ turns2[p] = "queued")
  OBVIOUS
<1> HIDE DEF n
<1>6. turns2[t] \notin {"none", "queued"} /\ t # n /\ t < n /\ t # NoPred
  BY <1>1, <1>2, <1>3, <1>5, PositionFacts DEF Terminal, TurnInv, Ranges
<1>7. \A p \in PendingOn(t) : p \in Positions /\ turn[p] = "none" /\ bound[p] = t
  BY DEF TurnInv, Dispositioned, PendingOn
<1>8. Stored(turn, after) /\ Targeted(turn, after) /\ Chronological(turn, after)
  BY TurnsStored DEF OrderInv
<1>9. \A p \in Positions : after[p] # t
  BY <1>1, <1>6 DEF TurnInv, InterruptedTurnStops
<1>10. ASSUME NEW p \in Positions, turn[p] # "none"
       PROVE  /\ turns2[p] # "none" /\ preds2[p] = after[p]
              /\ turns2[p] = "queued" <=> turn[p] = "queued"
              /\ turns2[p] = "active" => turn[p] = "active"
  <2>1. p # n /\ p \notin PendingOn(t)
    BY <1>2, <1>7, <1>10
  <2>2. CASE p = t
    BY <2>1, <2>2, <1>1, <1>4, <1>6
  <2>3. CASE p # t
    BY <2>1, <2>3, <1>4, <1>5, <1>10
  <2> QED BY <2>2, <2>3
<1>11. Targeted(turns2, preds2)
  <2> SUFFICES ASSUME NEW p \in Positions, preds2[p] # NoPred
               PROVE  /\ turns2[p] # "none"
                      /\ preds2[p] < p
                      /\ turns2[preds2[p]] \notin {"none", "queued"}
                      /\ \A q \in Positions : preds2[q] = preds2[p] => q = p
    BY DEF Targeted
  <2>1. CASE p = n
    BY <2>1, <1>4, <1>5, <1>6, <1>9
  <2>2. CASE p # n
    <3>1. preds2[p] = after[p] /\ after[p] \in Positions /\ after[p] # NoPred
      BY <2>2, <1>4 DEF TurnInv, Ranges
    <3>2. /\ turn[p] # "none"
          /\ after[p] < p
          /\ turn[after[p]] \notin {"none", "queued"}
          /\ \A q \in Positions : after[q] = after[p] => q = p
      BY <3>1, <1>8 DEF Targeted
    <3>3. turns2[p] # "none" /\ turns2[after[p]] \notin {"none", "queued"}
      BY <3>1, <3>2, <1>10
    <3>4. \A q \in Positions : preds2[q] = preds2[p] => q = p
      BY <3>1, <3>2, <1>4, <1>9
    <3> QED BY <3>1, <3>2, <3>3, <3>4
  <2> QED BY <2>1, <2>2
<1>12. PICK k \in 0 .. MaxInputs : StartedUpTo(turn, after, lineage, k)
  BY DEF OrderInv
<1>13. ASSUME NEW p \in Positions, turn[p] = "none", turns2[p] # "none"
       PROVE  /\ turns2[p] = "queued"
              /\ preds2[p] = NoPred =>
                   \A u \in Positions :
                     turn[u] \notin {"none", "queued"} /\ after[u] = NoPred => u < p
              /\ preds2[p] # NoPred =>
                   /\ turn[preds2[p]] = "active"
                   /\ \A u \in Positions : after[u] # NoPred => u < p /\ after[u] # preds2[p]
  <2>1. CASE p = n
    <3>1. preds2[p] = t /\ turns2[p] = "queued"
      BY <2>1, <1>4, <1>5
    <3>2. ASSUME NEW u \in Positions, after[u] # NoPred PROVE u < p /\ after[u] # t
      BY <2>1, <3>2, <1>3, <1>8, <1>9 DEF Targeted
    <3> QED BY <3>1, <3>2, <1>1, <1>6
  <2>2. CASE p # n
    <3>1. p # t /\ p \in PendingOn(t) /\ turns2[p] = "queued"
      BY <2>2, <1>1, <1>5, <1>13
    <3>2. preds2[p] = NoPred
      BY <2>2, <1>4, <1>8, <1>13 DEF Targeted
    <3>3. t < p
      <4>1. bound[p] = t /\ t # NoTurn
        BY <3>1, <1>7, PositionFacts DEF TurnInv, Ranges
      <4> QED BY <4>1 DEF OrderInv, BoundEarlier
    <3>4. ASSUME NEW u \in Positions, turn[u] \notin {"none", "queued"}, after[u] = NoPred
          PROVE  u < p
      <4>1. u <= t
        BY <3>4, <1>1, StartedBelowActive
      <4> QED BY <4>1, <3>3 DEF Positions
    <3> QED BY <3>1, <3>2, <3>4
  <2> QED BY <2>1, <2>2
<1>14. Stored(turns2, preds2)
  OBVIOUS
<1>15. Chronological(turns2, preds2) /\ StartedUpTo(turns2, preds2, lineage, k)
  BY <1>8, <1>10, <1>11, <1>12, <1>13, <1>14, OrderGrows
<1> QED BY <1>11, <1>15

(* The command that accepts an interrupt.                                  *)
LEMMA OrderInterrupts ==
  ASSUME TurnInv, OrderInv, NEW t \in Positions, SubmitInterrupt(t), TurnInv'
  PROVE  OrderInv'
<1> DEFINE n == last + 1
           turns == [turn EXCEPT ![n] = "queued"]
<1>1. /\ last < MaxInputs /\ InterruptAdmissible(t) /\ t \in Active
      /\ bound' = bound /\ lineage' = lineage
      /\ after' = [after EXCEPT ![n] = t]
  BY DEF SubmitInterrupt, NextPosition, InterruptAdmissible, ExpectedActive
<1>2. n \in Positions /\ turn[n] = "none" /\ input[n] = "absent"
  BY <1>1, NextUnused
<1>3. turn[t] = "active" /\ t # n /\ n \notin PendingOn(t)
  BY <1>1, <1>2 DEF Active, PendingOn
<1>4. \A p \in Positions : turns[p] = IF p = n THEN "queued" ELSE turn[p]
  BY DEF TurnInv, Ranges
<1>5. \/ turn' = turns
      \/ \E d \in Terminal : \E inputs : Close(t, d, inputs, turns)
  BY DEF SubmitInterrupt, ApplyInterrupt, NextPosition, Terminal
<1> HIDE DEF turns
<1> DEFINE Grown == /\ turn'[n] = "queued" /\ turn'[t] \in {"active"} \cup Terminal
                    /\ \A p \in Positions : p # n /\ p # t =>
                         turn'[p] = turn[p] \/ (p \in PendingOn(t) /\ turn'[p] = "queued")
<1>6. Grown
  <2>1. CASE turn' = turns
    BY <2>1, <1>2, <1>3, <1>4
  <2>2. ASSUME NEW d \in Terminal, NEW inputs, Close(t, d, inputs, turns)
        PROVE  Grown
    <3>1. \A p \in Positions :
            /\ p = t => turn'[p] = d
            /\ p # t /\ p \in PendingOn(t) => turn'[p] = "queued"
            /\ p # t /\ p \notin PendingOn(t) => turn'[p] = turns[p]
      BY <2>2 DEF Close
    <3> QED BY <3>1, <1>2, <1>3, <1>4
  <2> QED BY <2>1, <2>2, <1>5
<1>7. Stored(turn', after') /\ \A p \in Positions : after'[p] = IF p = n THEN t ELSE after[p]
  BY <1>1 DEF TurnInv, Ranges, Stored
<1> HIDE DEF n
<1>8. /\ Targeted(turn', after') /\ Chronological(turn', after')
      /\ \E k \in 0 .. MaxInputs : StartedUpTo(turn', after', lineage, k)
  BY <1>1, <1>6, <1>7, InterruptOrders DEF n
<1>9. BoundEarlier'
  BY <1>1 DEF OrderInv, BoundEarlier
<1> QED BY <1>1, <1>8, <1>9 DEF OrderInv

(* One step of the specification keeps the order and what was recorded of  *)
(* it.                                                                     *)
LEMMA OrderInvStep ==
  ASSUME TurnInv, OrderInv, [Next]_vars
  PROVE  OrderInv'
<1>0. TurnInv'
  BY TurnInvStep
<1>1. ASSUME Idles \/ Moves \/ Consumes PROVE OrderInv'
  <2>1. turn' = turn /\ after' = after /\ lineage' = lineage /\ bound' = bound
    BY <1>1 DEF Idles, Moves, Consumes, facts
  <2>2. BoundEarlier'
    BY <2>1 DEF OrderInv, BoundEarlier
  <2> QED BY <2>1, <2>2, OrderUnchanged
<1>2. ASSUME NEW t \in Positions, SubmitNextSafePoint(t) PROVE OrderInv'
  <2>1. /\ turn' = turn /\ after' = after /\ lineage' = lineage
        /\ last < MaxInputs /\ turn[t] = "active"
        /\ bound' = [bound EXCEPT ![last + 1] = t]
    BY <1>2 DEF SubmitNextSafePoint, NextPosition, ExpectedActive, Active
  <2>2. t < last + 1
    BY <2>1, UsedPositions
  <2>3. \A p \in Positions : bound'[p] = IF p = last + 1 THEN t ELSE bound[p]
    BY <2>1 DEF TurnInv, Ranges
  <2>4. BoundEarlier'
    BY <2>2, <2>3 DEF OrderInv, BoundEarlier
  <2> QED BY <2>1, <2>4, OrderUnchanged
<1>3. CASE Next
  BY <1>0, <1>1, <1>2, <1>3, NextKinds, OrderStarts, OrderAccepts, OrderEnds, OrderInterrupts
  DEF Kinds
<1>4. CASE UNCHANGED vars
  BY <1>1, <1>4 DEF vars, Idles
<1> QED BY <1>3, <1>4

(* The invariants give what the runs check of the order.                   *)
LEMMA OrderInvGives ==
  ASSUME TurnInv, OrderInv
  PROVE  TypeOK /\ InterruptAlwaysOrders /\ LineageMatchesOrder
<1> DEFINE o == Ordering(turn, after)
<1>1. Queue.error = "none" /\ Queue.order = o
  BY QueueIs
<1>2. TypeOK
  BY DEF TurnInv, OrderInv, Ranges, Shape, TypeOK
<1>3. ASSUME NEW t \in Positions, last < MaxInputs, InterruptAdmissible(t)
      PROVE  QueueWithInterrupt(t).error = "none"
  <2> DEFINE n == last + 1
             turns2 == [turn EXCEPT ![n] = "queued"]
             preds2 == [after EXCEPT ![n] = t]
  <2>1. n \in Positions /\ turn[n] = "none" /\ turn[t] = "active"
    BY <1>3, NextUnused DEF InterruptAdmissible, ExpectedActive, Active
  <2>2. Stored(turns2, preds2)
    BY <2>1 DEF TurnInv, Ranges, Stored
  <2>3. \A p \in Positions : turns2[p] = IF p = n THEN "queued" ELSE turn[p]
    BY DEF TurnInv, Ranges
  <2>4. QueueWithInterrupt(t) = Derive(QueueFacts(turns2, preds2))
    BY DEF QueueWithInterrupt, NextPosition
  <2>5. \A p \in Positions : preds2[p] = IF p = n THEN t ELSE after[p]
    BY DEF TurnInv, Ranges
  <2> HIDE DEF turns2, preds2, n
  <2>6. turns2[n] = "queued" /\ turns2[t] = "active"
        /\ \A p \in Positions : p # n /\ p # t => turns2[p] = turn[p]
    BY <2>1, <2>3
  <2>7. Targeted(turns2, preds2) /\ Chronological(turns2, preds2)
    BY <1>3, <2>2, <2>5, <2>6, InterruptOrders DEF n
  <2> QED BY <2>2, <2>4, <2>7, QueueDerives
<1>4. InterruptAlwaysOrders
  BY <1>1, <1>3 DEF InterruptAlwaysOrders
<1>5. LineageMatchesOrder
  <2>1. PICK k \in 0 .. MaxInputs : StartedUpTo(turn, after, lineage, k)
    BY DEF OrderInv
  <2>2. /\ k \in 0 .. Len(o)
        /\ \A i \in 1 .. Len(o) : turn[o[i]] # "queued" <=> i <= k
        /\ \A i \in 1 .. k : lineage[o[i]] = IF i = 1 THEN NoTurn ELSE o[i - 1]
    BY <2>1 DEF StartedUpTo
  <2>3. Len(o) \in Nat /\ DOMAIN o = 1 .. Len(o)
    BY TurnsStored, OrderingParts DEF OrderInv
  <2> HIDE DEF o
  <2>4. ASSUME NEW i \in 1 .. Len(o), turn[o[i]] # "queued"
        PROVE  IF i = 1 THEN lineage[o[i]] = NoTurn
               ELSE lineage[o[i]] = o[i - 1] /\ turn[o[i - 1]] # "queued"
    <3>1. i <= k
      BY <2>2, <2>4
    <3>2. i \in 1 .. k
      BY <3>1
    <3>3. i # 1 => i - 1 \in 1 .. Len(o) /\ i - 1 <= k
      BY <2>3, <3>1
    <3> QED BY <2>2, <3>2, <3>3
  <2> QED BY <1>1, <2>3, <2>4 DEF LineageMatchesOrder
<1> QED BY <1>2, <1>4, <1>5

---------------------------------------------------------------------------
(* The theorems. *)

(* The inductive invariant of the turn lifecycle.                          *)
THEOREM TurnInvariant == Spec => []TurnInv
<1>1. Init => TurnInv
  BY TurnInvInit
<1>2. TurnInv /\ [Next]_vars => TurnInv'
  BY TurnInvStep
<1> QED
  BY <1>1, <1>2, PTL DEF Spec

(* No terminal path of model_execution, startup, turn_liveness or the tool *)
(* loop leaves an accepted steering input pending on a turn that is over.  *)
THEOREM TurnNoOrphanSteering == Spec => []NoOrphanSteering
<1>1. TurnInv => NoOrphanSteering
  BY DEF TurnInv
<1> QED
  BY <1>1, TurnInvariant, PTL

(* prepare_initial_call_consuming_steering never lets a later steering     *)
(* input overtake an earlier one of the same turn.                         *)
THEOREM TurnSteeringInOrder == Spec => []SteeringInOrder
<1>1. TurnInv => SteeringInOrder
  BY DEF TurnInv
<1> QED
  BY <1>1, TurnInvariant, PTL

(* After apply_interrupt the turn is over or awaits the answer of a call   *)
(* asked to stop, whatever pass, watchdog or recovery runs meanwhile.      *)
THEOREM TurnInterruptedStops == Spec => []InterruptedTurnStops
<1>1. TurnInv => InterruptedTurnStops
  BY DEF TurnInv
<1> QED
  BY <1>1, TurnInvariant, PTL

(* A turn's disposition and what became of an input are final: late        *)
(* observations, second recoveries and restarts do not rewrite them.       *)
THEOREM TurnDispositionFinal == Spec => DispositionFinal
<1>1. TurnInv /\ [Next]_vars => Final
  BY TurnInvStep
<1> QED
  BY <1>1, TurnInvariant, PTL DEF Spec, DispositionFinal, Final

(* The inductive invariant of the order: a session starts its turns in the *)
(* order the queue derives, and nothing accepted later gets ahead of what  *)
(* was started.                                                            *)
THEOREM TurnOrderInvariant == Spec => []OrderInv
<1>1. Init => OrderInv
  BY OrderInvInit
<1>2. TurnInv /\ OrderInv /\ [Next]_vars => OrderInv'
  BY OrderInvStep
<1> QED
  BY <1>1, <1>2, TurnInvariant, PTL DEF Spec

(* Every variable stays in its range and waiting phases keep no attempt,   *)
(* lineage included: what prepare_earliest_queued_activation records is a  *)
(* turn of the session.                                                    *)
THEOREM TurnTypeCorrect == Spec => []TypeOK
<1>1. TurnInv /\ OrderInv => TypeOK
  BY OrderInvGives
<1> QED
  BY <1>1, TurnInvariant, TurnOrderInvariant, PTL

(* derive_accepted_input_total_order never fails on what a session         *)
(* accepted, nor on an interrupt that submit_input admits: the preparation *)
(* error InterruptQueueOrderInvalid is unreachable, for any number of      *)
(* inputs.                                                                 *)
THEOREM TurnInterruptAlwaysOrders == Spec => []InterruptAlwaysOrders
<1>1. TurnInv /\ OrderInv => InterruptAlwaysOrders
  BY OrderInvGives
<1> QED
  BY <1>1, TurnInvariant, TurnOrderInvariant, PTL

(* The lineage recorded by an activation is never contradicted by the      *)
(* order derived later, whatever interrupts and reclassified steering were *)
(* added since.                                                            *)
THEOREM TurnLineageMatchesOrder == Spec => []LineageMatchesOrder
<1>1. TurnInv /\ OrderInv => LineageMatchesOrder
  BY OrderInvGives
<1> QED
  BY <1>1, TurnInvariant, TurnOrderInvariant, PTL

---------------------------------------------------------------------------
(* The order of any facts, accepted one at a time (MCQueueOrder). *)

FactRecords == [session : Sessions, turn : Nat \ {0}, pos : Nat, pred : Nat]

\* The facts are well formed and the order is the one they derive.
WorkInv ==
  /\ distinct \in BOOLEAN
  /\ work \in Seq(FactRecords)
  /\ derived = Derive(work)

(* Nothing accepted derives the empty order.                               *)
LEMMA WorkInvInit == NoWork => WorkInv
BY DEF NoWork, WorkInv

(* Accepted facts are well formed and the order is derived again.          *)
LEMMA WorkInvStep == WorkInv /\ [AcceptAny]_orderVars => WorkInv'
<1> SUFFICES ASSUME WorkInv, [AcceptAny]_orderVars PROVE WorkInv'
  OBVIOUS
<1>1. CASE UNCHANGED orderVars
  BY <1>1 DEF WorkInv, orderVars
<1>2. ASSUME NEW fact \in Facts, Accept(fact) PROVE WorkInv'
  <2>1. MaxFacts \in Nat
    BY FactsAssumption DEF MaxFacts, WorkInv
  <2>2. Ids \subseteq Nat \ {0}
    BY <2>1 DEF Ids
  <2>3. fact \in FactRecords
    <3>1. Ids \cup {NoPred} \subseteq Nat
      BY <2>2 DEF NoPred
    <3> QED BY <2>2, <3>1 DEF Facts, FactRecords
  <2>4. work' = Append(work, fact) /\ derived' = Derive(work') /\ distinct' = distinct
    BY <1>2 DEF Accept
  <2>5. work' \in Seq(FactRecords)
    BY <2>3, <2>4 DEF WorkInv
  <2> QED BY <2>4, <2>5 DEF WorkInv
<1> QED BY <1>1, <1>2 DEF AcceptAny

(* Such facts are well formed.                                             *)
LEMMA WorkWellformed ==
  ASSUME NEW w \in Seq(FactRecords)
  PROVE  Wellformed(w)
<1>1. DOMAIN w = 1 .. Len(w) /\ Len(w) \in Nat
  OBVIOUS
<1>2. IsFiniteSet(DOMAIN w)
  BY <1>1, FS_Interval
<1>3. \A i \in DOMAIN w : w[i] \in FactRecords
  BY <1>1
<1> HIDE <1>1
<1>4. ASSUME NEW i \in DOMAIN w
      PROVE  w[i].turn \in Nat \ {0} /\ w[i].pos \in Nat /\ w[i].pred \in Nat
  <2>1. w[i] \in FactRecords
    BY <1>3
  <2> QED BY <2>1 DEF FactRecords
<1> QED BY <1>2, <1>4 DEF Wellformed

(* What DeriveIsTheOrder compares: the order exists and is the only one.   *)
LEMMA WorkOrdered == WorkInv => DeriveIsTheOrder
<1> SUFFICES ASSUME WorkInv PROVE DeriveIsTheOrder
  OBVIOUS
<1>1. Wellformed(work) /\ derived = Derive(work)
  BY WorkWellformed DEF WorkInv
<1> DEFINE good == {o \in Arrangements : IsTheOrder(work, o)}
<1>2. ASSUME derived.error = "none" PROVE good = {derived.order}
  <2>1. derived = [error |-> "none", order |-> derived.order]
    <3>1. Derive(work).error = "none" => Derive(work) = [error |-> "none", order |-> Ordered(work)]
      BY <1>1, DeriveAccepts
    <3>2. derived = [error |-> "none", order |-> Ordered(work)]
      BY <3>1, <1>1, <1>2
    <3>3. derived.order = Ordered(work)
      BY <3>2
    <3> QED BY <3>2, <3>3
  <2>2. IsTheOrder(work, derived.order)
    BY <2>1, <1>1, DeriveFindsTheOrder
  <2>3. derived.order \in Arrangements
    <3> DEFINE o == derived.order
    <3>1. Arranges(work, o)
      BY <2>2 DEF IsTheOrder
    <3> HIDE DEF o
    <3>2. /\ o \in Seq(TurnsOf(work)) /\ Len(o) \in Nat
          /\ \A i, j \in 1 .. Len(o) : o[i] = o[j] => i = j
          /\ \A t \in TurnsOf(work) : \E i \in 1 .. Len(o) : o[i] = t
      BY <3>1, ArrangedParts
    <3>3. IsFiniteSet(TurnsOf(work))
      BY <1>1, FactShapes
    <3>4. Len(o) = Cardinality(TurnsOf(work))
      BY <3>2, <3>3, FullLength
    <3>5. o \in [1 .. Len(o) -> TurnsOf(work)]
      BY <3>2
    <3> QED BY <3>4, <3>5 DEF Arrangements, o
  <2>4. ASSUME NEW o, IsTheOrder(work, o) PROVE o = derived.order
    <3>1. derived = [error |-> "none", order |-> o]
      BY <2>4, <1>1, DeriveFindsTheOrder
    <3> QED BY <3>1
  <2> QED BY <2>2, <2>3, <2>4
<1>3. ASSUME derived.error # "none" PROVE good = {}
  <2> SUFFICES ASSUME NEW o, IsTheOrder(work, o) PROVE FALSE
    OBVIOUS
  <2>1. derived = [error |-> "none", order |-> o]
    BY <1>1, DeriveFindsTheOrder
  <2> QED BY <2>1, <1>3
<1> QED BY <1>2, <1>3 DEF DeriveIsTheOrder

(* derive_accepted_input_total_order returns the one order that respects   *)
(* the facts whenever there is one and an error otherwise, for any number  *)
(* of facts accepted in any way.                                           *)
THEOREM QueueDeriveIsTheOrder == Accepting => []DeriveIsTheOrder
<1> QED
  BY WorkInvInit, WorkInvStep, WorkOrdered, PTL DEF Accepting

\* What one step must respect: the body of NeverReorders.
KeepsOrder ==
  (derived.error = "none" /\ derived'.error = "none")
    => \A t, u \in ToSet(derived.order) :
         Precedes(derived.order, t, u) => Precedes(derived'.order, t, u)

(* A turn added to facts that derive, so that they derive again, swaps no  *)
(* two others.                                                             *)
LEMMA AcceptKeepsOrder ==
  ASSUME WorkInv, WorkInv', NEW fact, work' = Append(work, fact)
  PROVE  KeepsOrder
<1> SUFFICES ASSUME derived.error = "none", derived'.error = "none",
                    NEW t \in ToSet(derived.order), NEW u \in ToSet(derived.order),
                    Precedes(derived.order, t, u)
             PROVE  Precedes(derived'.order, t, u)
  BY DEF KeepsOrder
<1> DEFINE new == work'
           o   == derived.order
           q   == derived'.order
           x   == fact.turn
<1>1. Wellformed(work) /\ Wellformed(new)
  <2>1. work \in Seq(FactRecords) /\ new \in Seq(FactRecords)
    BY DEF WorkInv
  <2> HIDE DEF new
  <2> QED BY <2>1, WorkWellformed
<1>2. OneFactPerTurn(work) /\ Linked(work) /\ o = Ordered(work)
  <2>1. derived = Derive(work)
    BY DEF WorkInv
  <2> QED BY <2>1, <1>1, DeriveAccepts
<1>3. OneFactPerTurn(new) /\ Linked(new) /\ q = Ordered(new)
  <2>1. derived' = Derive(new)
    BY DEF WorkInv
  <2> HIDE DEF new
  <2>2. Derive(new).error = "none"
    BY <2>1
  <2> QED BY <2>1, <2>2, <1>1, DeriveAccepts
<1>4. /\ DistinctPositions(work) /\ Arranges(work, o)
      /\ DistinctPositions(new) /\ Arranges(new, q)
  <2> HIDE DEF new
  <2> QED BY <1>1, <1>2, <1>3, OneFactDistinct, OrderedArranges
<1>5. /\ DOMAIN work = 1 .. Len(work) /\ Len(work) \in Nat
      /\ DOMAIN new = 1 .. Len(work) + 1
      /\ new[Len(work) + 1] = fact
      /\ \A i \in 1 .. Len(work) : new[i] = work[i]
  BY DEF WorkInv
<1> HIDE DEF new, o, q, x
<1>6. TurnsOf(new) = TurnsOf(work) \cup {x}
  <2>1. \A i \in DOMAIN new : i \in DOMAIN work \/ i = Len(work) + 1
    BY <1>5
  <2>2. \A i \in DOMAIN work : i \in DOMAIN new
    BY <1>5
  <2>3. Len(work) + 1 \in DOMAIN new
    BY <1>5
  <2> QED BY <2>1, <2>2, <2>3, <1>5 DEF TurnsOf, x
<1>7. x \notin TurnsOf(work)
  <2> SUFFICES ASSUME NEW i \in DOMAIN work, work[i].turn = x PROVE FALSE
    BY DEF TurnsOf
  <2>1. i \in DOMAIN new /\ Len(work) + 1 \in DOMAIN new /\ i # Len(work) + 1
    BY <1>5
  <2>2. new[i].turn = new[Len(work) + 1].turn
    BY <1>5 DEF x
  <2> QED BY <2>1, <2>2, <1>3 DEF OneFactPerTurn
<1>8. ASSUME NEW y \in TurnsOf(work)
      PROVE  Pos(new, y) = Pos(work, y) /\ Pred(new, y) = Pred(work, y)
  <2>1. PICK i \in DOMAIN work : /\ work[i].turn = y /\ Pos(work, y) = work[i].pos
                                 /\ Pred(work, y) = work[i].pred
    BY FactOfTurn
  <2>2. PICK j \in DOMAIN new : /\ new[j].turn = y /\ Pos(new, y) = new[j].pos
                                /\ Pred(new, y) = new[j].pred
    BY <1>6, FactOfTurn
  <2>3. i \in DOMAIN new /\ new[i] = work[i]
    BY <1>5
  <2>4. i = j
    <3>1. new[i].turn = new[j].turn
      BY <2>1, <2>2, <2>3
    <3>2. \A a, b \in DOMAIN new : new[a].turn = new[b].turn => a = b
      BY <1>3 DEF OneFactPerTurn
    <3> QED BY <2>3, <3>1, <3>2
  <2> QED BY <2>1, <2>2, <2>3, <2>4
<1>9. \A i, j \in 1 .. Len(o), a, b \in 1 .. Len(q) :
        i < j /\ q[a] = o[i] /\ q[b] = o[j] => a < b
  BY <1>1, <1>2, <1>4, <1>6, <1>7, <1>8, OneMoreTurn
<1>10. PICK i \in 1 .. Len(o), j \in 1 .. Len(o) : o[i] = t /\ o[j] = u
  <2>1. t \in ToSet(o) /\ u \in ToSet(o)
    BY DEF o
  <2>2. DOMAIN o = 1 .. Len(o)
    BY <1>4, ArrangedParts
  <2> QED BY <2>1, <2>2 DEF ToSet
<1>11. \A y \in TurnsOf(new) : \E a \in 1 .. Len(q) : q[a] = y
  BY <1>4, ArrangedParts
<1>12. o[i] \in TurnsOf(work) /\ o[j] \in TurnsOf(work)
  BY <1>4, ArrangedParts
<1>13. PICK a \in 1 .. Len(q), b \in 1 .. Len(q) : q[a] = o[i] /\ q[b] = o[j]
  BY <1>6, <1>11, <1>12
<1>14. /\ IndexIn(o, t) = i /\ IndexIn(o, u) = j
       /\ IndexIn(q, t) = a /\ IndexIn(q, u) = b
  BY <1>4, <1>10, <1>13, TargetIndex
<1>15. i < j
  BY <1>14 DEF Precedes, o
<1> QED BY <1>9, <1>13, <1>14, <1>15 DEF Precedes, q

(* Work accepted later never swaps two turns that were ordered before: an  *)
(* order read from an earlier derivation is not contradicted by a later    *)
(* one.                                                                    *)
THEOREM QueueNeverReorders == Accepting => NeverReorders
<1>1. WorkInv /\ WorkInv' /\ [AcceptAny]_orderVars => [KeepsOrder]_orderVars
  BY AcceptKeepsOrder DEF AcceptAny, Accept
<1> QED
  BY <1>1, WorkInvInit, WorkInvStep, PTL DEF Accepting, NeverReorders, KeepsOrder
============================================================================
