---------------------------- MODULE MCQueueOrder ----------------------------
(***************************************************************************)
(* Facts are accepted one at a time and the order of the complete set is   *)
(* derived again after each, as every caller of the derivation does; the   *)
(* result is compared with a definition that never builds a chain.         *)
(***************************************************************************)
EXTENDS QueueOrder

CONSTANTS MaxAny,       \* bound: arbitrary facts in one list
          MaxDistinct,  \* bound: facts in one set with distinct turns and positions
          Sessions

ASSUME FactsAssumption == MaxAny \in Nat /\ MaxDistinct \in Nat

VARIABLES distinct,  \* TRUE: turns 1, 2, ... at positions not yet taken
          work, derived

orderVars == <<distinct, work, derived>>

MaxFacts == IF distinct THEN MaxDistinct ELSE MaxAny
Ids      == 1 .. MaxFacts

Facts ==
  [session : Sessions, turn : Ids, pos : Ids, pred : Ids \cup {NoPred}]

Fresh(fact) ==
  /\ fact.session = CHOOSE s \in Sessions : TRUE
  /\ fact.turn = Len(work) + 1
  /\ fact.pos \notin PositionsOf(work)

NoWork ==
  /\ distinct \in BOOLEAN
  /\ work = << >>
  /\ derived = Derive(<< >>)

Accept(fact) ==
  /\ Len(work) < MaxFacts
  /\ distinct => Fresh(fact)
  /\ work' = Append(work, fact)
  /\ derived' = Derive(work')
  /\ UNCHANGED distinct

AcceptAny == \E fact \in Facts : Accept(fact)

Accepting == NoWork /\ [][AcceptAny]_orderVars

---------------------------------------------------------------------------
Arrangements == [1 .. Cardinality(TurnsOf(work)) -> TurnsOf(work)]

Precedes(order, t, u) == IndexIn(order, t) < IndexIn(order, u)

(***************************************************************************)
(* derive_accepted_input_total_order returns an order exactly when some    *)
(* order respects the facts, and then the only one that does: ordinary     *)
(* turns by position, every interrupt immediately after its target, and    *)
(* interrupt targets in acceptance order.                                  *)
(***************************************************************************)
DeriveIsTheOrder ==
  LET good == {o \in Arrangements : IsTheOrder(work, o)}
  IN  IF derived.error = "none" THEN good = {derived.order} ELSE good = {}

(***************************************************************************)
(* Accepting more work never swaps two turns already ordered, whatever     *)
(* the new fact is: lineage recorded from an earlier derivation of the     *)
(* order is not contradicted by a later one.                               *)
(***************************************************************************)
NeverReorders ==
  [][(derived.error = "none" /\ derived'.error = "none")
       => \A t, u \in ToSet(derived.order) :
            Precedes(derived.order, t, u) => Precedes(derived'.order, t, u)]_orderVars
=============================================================================
