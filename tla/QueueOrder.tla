----------------------------- MODULE QueueOrder -----------------------------
(***************************************************************************)
(* The durable total order of a session's accepted work                    *)
(* (crates/domain/src/queue_order.rs).                                     *)
(*                                                                         *)
(* Every accepted turn is an immutable fact: its session, its turn         *)
(* identity, its acceptance position, and the turn it interrupts (NoPred   *)
(* when its priority is ordinary).  Nothing else is stored: the queue and  *)
(* every turn's lineage are derived from the complete set of facts.  Pure  *)
(* operators; `work' maps any finite index set to facts.                   *)
(***************************************************************************)
EXTENDS Integers, Sequences, FiniteSets, SequencesExt

NoPred == 0   \* AcceptedInputQueuePriority::Ordinary; turns are positive

TurnsOf(work)     == {work[i].turn : i \in DOMAIN work}
PositionsOf(work) == {work[i].pos : i \in DOMAIN work}

\* work_by_turn, and the parts of a turn's order.
Fact(work, t) == work[CHOOSE i \in DOMAIN work : work[i].turn = t]
Pos(work, t)  == Fact(work, t).pos
Pred(work, t) == Fact(work, t).pred

Interrupts(work) == {t \in TurnsOf(work) : Pred(work, t) # NoPred}
Roots(work)      == TurnsOf(work) \ Interrupts(work)

\* The loop that fills successor_by_predecessor visits turns in identity
\* order and reports the first one in error.
LinkError(work, t) ==
  LET p == Pred(work, t)
  IN  IF p = t THEN "SelfInterruptPredecessor"
      ELSE IF p \notin TurnsOf(work) THEN "MissingInterruptPredecessor"
      ELSE IF \E u \in Interrupts(work) : u < t /\ Pred(work, u) = p
           THEN "MultipleInterruptSuccessors"
      ELSE "none"

LinkErrors(work) == {t \in Interrupts(work) : LinkError(work, t) # "none"}

\* successor_by_predecessor: at most one turn once no link is in error.
Successors(work, t) == {u \in Interrupts(work) : Pred(work, u) = t}

\* Mutant: the roots in the map's own order, by turn identity, unsorted.
EarliestUnsorted(work, roots) == {t \in roots : \A u \in roots : t <= u}

\* Mutant: an interrupted root is placed by its interrupt.
EarliestByNewest(work, roots) ==
  LET newest(t) == Max({Pos(work, u) : u \in {t} \cup Successors(work, t)})
  IN  {t \in roots : \A u \in roots : newest(t) <= newest(u)}

\* The first of ordinary_roots, which are sorted by acceptance position.
Earliest(work, roots) ==
  {t \in roots : \A u \in roots : Pos(work, t) <= Pos(work, u)}

\* What the two loops push after `ordered': the successor of the turn pushed
\* last, or the next root.
NextPushed(work, ordered) ==
  IF ordered # << >> /\ Successors(work, Last(ordered)) # {}
  THEN Successors(work, Last(ordered))
  ELSE Earliest(work, Roots(work) \ ToSet(ordered))

Push(work, ordered) ==
  IF NextPushed(work, ordered) = {} THEN ordered
  ELSE Append(ordered, CHOOSE t \in NextPushed(work, ordered) : TRUE)

\* The loops end after at most one push per turn: without link errors no turn
\* is reached twice.
Ordered(work) ==
  LET n == Cardinality(TurnsOf(work))
      pushed[k \in 0 .. n] == IF k = 0 THEN << >> ELSE Push(work, pushed[k - 1])
  IN  pushed[n]

IndexIn(order, t) == CHOOSE i \in DOMAIN order : order[i] = t

\* Mutant: chronology is not checked.
ChronologyUnchecked(work, order) == FALSE

\* Interrupts taken in acceptance order must target ever later turns; the
\* code compares each one with the interrupt accepted just before it.
ChronologyReversed(work, order) ==
  \E t, u \in Interrupts(work) :
    /\ Pos(work, u) < Pos(work, t)
    /\ ~\E v \in Interrupts(work) :
          Pos(work, u) < Pos(work, v) /\ Pos(work, v) < Pos(work, t)
    /\ IndexIn(order, Pred(work, t)) <= IndexIn(order, Pred(work, u))

Failure(kind) == [error |-> kind, order |-> << >>]

(***************************************************************************)
(* derive_accepted_input_total_order: the first check that fails, in the   *)
(* order of the code, or the order.                                        *)
(***************************************************************************)
Derive(work) ==
  LET n     == Cardinality(DOMAIN work)
      order == Ordered(work)
  IN  IF Cardinality({work[i].session : i \in DOMAIN work}) > 1
      THEN Failure("MixedSessions")
      ELSE IF Cardinality(TurnsOf(work)) < n
      THEN Failure("DuplicateTurn")
      ELSE IF Cardinality(PositionsOf(work)) < n
      THEN Failure("DuplicateAcceptancePosition")
      ELSE IF LinkErrors(work) # {}
      THEN Failure(LinkError(work, Min(LinkErrors(work))))
      ELSE IF Len(order) # n
      THEN Failure("InterruptCycle")
      ELSE IF \E t \in Interrupts(work) : Pos(work, t) <= Pos(work, Pred(work, t))
      THEN Failure("InterruptPositionNotAfterPredecessor")
      ELSE IF ChronologyReversed(work, order)
      THEN Failure("InterruptPredecessorChronologyReversed")
      ELSE [error |-> "none", order |-> order]

---------------------------------------------------------------------------
(***************************************************************************)
(* What the facts say of an order, without building it: every turn once;   *)
(* ordinary turns by position; an interrupt immediately after its target,  *)
(* which was accepted before it; interrupts, and so their targets, in the  *)
(* order they were accepted in.                                            *)
(***************************************************************************)
OneFactPerTurn(work) ==
  \A i, j \in DOMAIN work :
    /\ work[i].session = work[j].session
    /\ work[i].turn = work[j].turn \/ work[i].pos = work[j].pos => i = j

Arranges(work, order) ==
  /\ order \in Seq(TurnsOf(work))
  /\ IsInjective(order)
  /\ ToSet(order) = TurnsOf(work)
  /\ \A i, j \in DOMAIN order :
       /\ order[i] \in Roots(work) /\ order[j] \in Roots(work)
       /\ Pos(work, order[i]) < Pos(work, order[j])
       => i < j
  /\ \A i \in DOMAIN order :
       order[i] \in Interrupts(work) => i > 1 /\ order[i - 1] = Pred(work, order[i])

IsTheOrder(work, order) ==
  /\ OneFactPerTurn(work)
  /\ Arranges(work, order)
  /\ \A t \in Interrupts(work) : Pos(work, Pred(work, t)) < Pos(work, t)
  /\ \A i, j \in DOMAIN order :
       /\ order[i] \in Interrupts(work) /\ order[j] \in Interrupts(work)
       /\ Pos(work, order[i]) < Pos(work, order[j])
       => i < j
=============================================================================
