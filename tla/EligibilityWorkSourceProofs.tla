-------------------- MODULE EligibilityWorkSourceProofs --------------------
(***************************************************************************)
(* Proofs about the work source, for any finite set of sessions, any page  *)
(* size and any buffer.                                                    *)
(***************************************************************************)
EXTENDS EligibilityWorkSource, QueueLemmas

(* What a page of the query is: distinct eligible sessions, the last of    *)
(* them within the bound of the cycle.                                     *)
LEMMA PageFacts ==
  ASSUME SourceInv, NEW rows \in BoundedSeq(Candidates, PageSize), IsPage(rows)
  PROVE  /\ rows \in Seq(Sessions) /\ IsInjective(rows)
         /\ rows # << >> => /\ Last(rows) \in Sessions /\ Last(rows) <= ScanThrough
                            /\ ScanThrough \in Sessions
<1>1. /\ eligible \subseteq Sessions /\ Sessions \subseteq Nat \ {0}
      /\ IsFiniteSet(Sessions)
      /\ cursor \in [after : Sessions \cup {0}, through : Sessions \cup {0}]
  BY SourceAssumption DEF SourceInv, TypeOK, SourceAssumption
<1>2. PICK n \in Nat : rows \in [1 .. n -> Candidates]
  BY SourceAssumption DEF BoundedSeq, SeqOf, SourceAssumption
<1>3. rows \in Seq(Candidates) /\ Len(rows) = n
  BY <1>2, IsASeq
<1>4. Candidates \subseteq Sessions /\ Candidates \subseteq eligible
  BY <1>1 DEF Candidates
<1>5. rows \in Seq(Sessions)
  BY <1>3, <1>4, SeqMonotonic
<1>6. IsInjective(rows)
  <2> SUFFICES ASSUME NEW i \in DOMAIN rows, NEW j \in DOMAIN rows, rows[i] = rows[j]
               PROVE  i = j
    BY DEF IsInjective
  <2>1. i \in 1 .. n /\ j \in 1 .. n
    BY <1>2
  <2>2. rows[i] \in Candidates /\ rows[j] \in Candidates
    BY <1>2, <2>1
  <2>3. rows[i] \in Nat /\ rows[j] \in Nat
    BY <1>1, <1>4, <2>2
  <2>4. ~ (i < j) /\ ~ (j < i)
    BY <2>3 DEF IsPage
  <2>5. QED
    BY <2>1, <2>4
<1>7. ASSUME rows # << >>
      PROVE  Last(rows) \in Sessions /\ Last(rows) <= ScanThrough /\ ScanThrough \in Sessions
  <2>1. n \in 1 .. n
    BY <1>3, <1>7
  <2>2. Last(rows) \in Candidates
    BY <1>2, <1>3, <2>1 DEF Last
  <2>3. eligible # {} /\ Last(rows) \in Sessions /\ Last(rows) <= ScanThrough
    BY <1>4, <2>2 DEF Candidates
  <2>4. eligible \subseteq Nat /\ IsFiniteSet(eligible)
    BY <1>1, FS_Subset
  <2>5. Max(eligible) \in eligible
    BY <2>3, <2>4, GreatestExists
  <2>6. QED
    BY <1>1, <2>3, <2>5 DEF ScanThrough
<1>8. QED
  BY <1>5, <1>6, <1>7

(* The page that is completed joins the pending hints without repeating    *)
(* any of them.                                                            *)
LEMMA ExtendFacts ==
  ASSUME SourceInv, extend_pending_sweep_hints(page.sessions)
  PROVE  /\ hints' \in Seq(Sessions) /\ IsInjective(hints')
         /\ ToSet(hints') = ToSet(hints) \cup ToSet(page.sessions)
<1> DEFINE found == page.sessions
           fresh == ToSet(found) \ ToSet(hints)
<1>1. /\ found \in Seq(Sessions) /\ hints \in Seq(Sessions) /\ IsInjective(hints)
  BY DEF SourceInv, TypeOK
<1> HIDE DEF found
<1>2. PICK more \in BoundedSeq(fresh, Len(found)) :
        /\ IsInjective(more) /\ ToSet(more) = fresh /\ hints' = hints \o more
  BY DEF extend_pending_sweep_hints, found
<1>3. PICK n \in Nat : more \in [1 .. n -> fresh]
  <2>1. Len(found) \in Nat
    BY <1>1
  <2>2. QED
    BY <2>1 DEF BoundedSeq, SeqOf
<1>4. fresh \subseteq Sessions
  BY <1>1 DEF ToSet
<1>5. more \in Seq(Sessions)
  BY <1>3, <1>4, IsASeq, SeqMonotonic
<1>6. ToSet(hints) \cap ToSet(more) = {}
  BY <1>2
<1>7. /\ hints \o more \in Seq(Sessions) /\ IsInjective(hints \o more)
      /\ ToSet(hints \o more) = ToSet(hints) \cup ToSet(more)
  BY <1>1, <1>2, <1>5, <1>6, JoinQueues
<1>8. QED
  BY <1>2, <1>7 DEF found

(* The initial states satisfy the invariant ...                            *)
LEMMA SourceInit ==
  ASSUME Init
  PROVE  SourceInv
<1> USE SourceAssumption DEF SourceAssumption, Init
<1>1. /\ <<>> \in Seq(Sessions) /\ IsInjective(<<>>) /\ ToSet(<<>>) = {}
  BY EmptySeq DEF IsInjective, ToSet
<1>2. TypeOK
  <2>1. Len(channel) <= Capacity
    BY EmptySeq
  <2>2. page \in [sessions : Seq(Sessions), marks : SUBSET Sessions, more : BOOLEAN]
    BY <1>1 DEF NoPage
  <2>3. /\ flags \in [initialDue : BOOLEAN, nudgeFirst : BOOLEAN,
                      sweepFirst : BOOLEAN, continue : BOOLEAN]
        /\ flags.continue = FALSE
    OBVIOUS
  <2>4. /\ cursor \in [after : Sessions \cup {0}, through : Sessions \cup {0}]
        /\ cursor.after = 0
    OBVIOUS
  <2>5. late \in [Origins -> Nat]
    BY DEF Origins
  <2>6. QED
    BY <1>1, <2>1, <2>2, <2>3, <2>4, <2>5 DEF TypeOK, InProgress
<1>3. NoHintDropped /\ Alternates
  BY DEF NoHintDropped, Alternates
<1>4. PageInFuture /\ ContinuationKept /\ OvertakenIsNext
  BY <1>1 DEF PageInFuture, NoPage, ContinuationKept, OvertakenIsNext
<1>5. QED
  BY <1>2, <1>3, <1>4 DEF SourceInv

(* A nudge or a pending hint is returned: it is no longer owed, and the    *)
(* kind that had to wait is served next.                                   *)
LEMMA ReturnNudgeFacts ==
  ASSUME SourceInv, channel # <<>>
  PROVE  /\ Head(channel) \in Sessions /\ Tail(channel) \in Seq(Sessions)
         /\ IsInjective(Tail(channel))
         /\ ToSet(Tail(channel)) = ToSet(channel) \ {Head(channel)}
         /\ Len(Tail(channel)) <= Capacity
<1>1. channel \in Seq(Sessions) /\ IsInjective(channel) /\ Len(channel) <= Capacity
  BY DEF SourceInv, TypeOK
<1>2. Len(Tail(channel)) = Len(channel) - 1 /\ Len(channel) \in Nat
  BY <1>1
<1>3. Len(Tail(channel)) <= Capacity
  BY <1>1, <1>2, SourceAssumption DEF SourceAssumption
<1>4. QED
  BY <1>1, <1>3, TakeFront

(* The same for a pending sweep hint.                                      *)
LEMMA ReturnHintFacts ==
  ASSUME SourceInv, hints # <<>>
  PROVE  /\ Head(hints) \in Sessions /\ Tail(hints) \in Seq(Sessions)
         /\ IsInjective(Tail(hints))
         /\ ToSet(Tail(hints)) = ToSet(hints) \ {Head(hints)}
  BY TakeFront DEF SourceInv, TypeOK

(* The two ways a hint is returned beside pending sweep hints.             *)
LEMMA InterleavedStep ==
  ASSUME SourceInv, hints # <<>>, NEW b \in BOOLEAN,
         take_interleaved_pending_hint([flags EXCEPT !.sweepFirst = b]),
         UNCHANGED <<eligible, sweep, page, cursor, tick, unmonitored>>
  PROVE  SourceInv'
<1> DEFINE f == [flags EXCEPT !.sweepFirst = b]
<1>1. /\ flags \in [initialDue : BOOLEAN, nudgeFirst : BOOLEAN,
                    sweepFirst : BOOLEAN, continue : BOOLEAN]
      /\ late \in [Origins -> Nat] /\ late.nudge \in Nat /\ late.sweep \in Nat
  BY DEF SourceInv, TypeOK, Origins
<1>2. /\ f \in [initialDue : BOOLEAN, nudgeFirst : BOOLEAN,
                sweepFirst : BOOLEAN, continue : BOOLEAN]
      /\ f.continue = flags.continue /\ f.nudgeFirst = flags.nudgeFirst
  BY <1>1
<1> HIDE DEF f
<1>3. CASE /\ f.nudgeFirst /\ channel # <<>>
           /\ flags' = [f EXCEPT !.nudgeFirst = FALSE]
           /\ channel' = Tail(channel) /\ hints' = hints
           /\ Return(Head(channel), "nudge")
  <2>1. /\ Head(channel) \in Sessions /\ channel' \in Seq(Sessions)
        /\ IsInjective(channel') /\ Len(channel') <= Capacity
        /\ ToSet(channel') = ToSet(channel) \ {Head(channel)}
    BY <1>3, ReturnNudgeFacts
  <2>2. /\ next' = "none" /\ hand' = [session |-> Head(channel), from |-> "nudge"]
        /\ owed' = owed \ {Head(channel)}
        /\ late' = [nudge |-> 0, sweep |-> late.sweep + 1]
    BY <1>3 DEF Return
  <2>3. late.sweep = 0
    BY <1>1, <1>2, <1>3 DEF SourceInv, OvertakenIsNext
  <2>4. late' \in [Origins -> Nat] /\ late'.nudge = 0 /\ late'.sweep = 1
    BY <2>2, <2>3 DEF Origins
  <2>5. /\ flags' \in [initialDue : BOOLEAN, nudgeFirst : BOOLEAN,
                       sweepFirst : BOOLEAN, continue : BOOLEAN]
        /\ flags'.continue = flags.continue /\ ~ flags'.nudgeFirst
    BY <1>2, <1>3
  <2>6. hand' \in Hints
    BY <2>1, <2>2 DEF Hints, Origins
  <2>7. TypeOK'
    BY <1>3, <2>1, <2>2, <2>4, <2>5, <2>6 DEF SourceInv, TypeOK, InProgress
  <2>8. NoHintDropped' /\ Alternates'
    BY <1>3, <2>1, <2>2, <2>4 DEF SourceInv, NoHintDropped, Alternates
  <2>9. PageInFuture' /\ ContinuationKept' /\ OvertakenIsNext'
    BY <2>4, <2>5 DEF SourceInv, PageInFuture, ContinuationKept, OvertakenIsNext
  <2>10. QED
    BY <2>7, <2>8, <2>9 DEF SourceInv
<1>4. CASE /\ ~(f.nudgeFirst /\ channel # <<>>)
           /\ flags' = [f EXCEPT !.nudgeFirst = TRUE]
           /\ hints' = Tail(hints) /\ channel' = channel
           /\ Return(Head(hints), "sweep")
  <2>1. /\ Head(hints) \in Sessions /\ hints' \in Seq(Sessions) /\ IsInjective(hints')
        /\ ToSet(hints') = ToSet(hints) \ {Head(hints)}
    BY <1>4, ReturnHintFacts
  <2>2. /\ next' = "none" /\ hand' = [session |-> Head(hints), from |-> "sweep"]
        /\ owed' = owed \ {Head(hints)}
        /\ late' = [nudge |-> IF channel # <<>> THEN late.nudge + 1 ELSE 0, sweep |-> 0]
    BY <1>4 DEF Return
  <2>3. channel # <<>> => late.nudge = 0
    BY <1>1, <1>2, <1>4 DEF SourceInv, OvertakenIsNext
  <2>4. late' \in [Origins -> Nat] /\ late'.nudge \in {0, 1} /\ late'.sweep = 0
    BY <2>2, <2>3 DEF Origins
  <2>5. /\ flags' \in [initialDue : BOOLEAN, nudgeFirst : BOOLEAN,
                       sweepFirst : BOOLEAN, continue : BOOLEAN]
        /\ flags'.continue = flags.continue /\ flags'.nudgeFirst
    BY <1>2, <1>4
  <2>6. hand' \in Hints
    BY <2>1, <2>2 DEF Hints, Origins
  <2>7. TypeOK'
    BY <1>4, <2>1, <2>2, <2>4, <2>5, <2>6 DEF SourceInv, TypeOK, InProgress
  <2>8. NoHintDropped' /\ Alternates'
    BY <1>4, <2>1, <2>2, <2>4 DEF SourceInv, NoHintDropped, Alternates
  <2>9. PageInFuture' /\ ContinuationKept' /\ OvertakenIsNext'
    BY <2>4, <2>5 DEF SourceInv, PageInFuture, ContinuationKept, OvertakenIsNext
  <2>10. QED
    BY <2>7, <2>8, <2>9 DEF SourceInv
<1>5. QED
  BY <1>3, <1>4 DEF take_interleaved_pending_hint, f

(* ... and every step keeps it.                                            *)
LEMMA SourceStep ==
  ASSUME SourceInv, [Next]_vars
  PROVE  SourceInv'
<1> USE SourceAssumption DEF SourceAssumption
<1>1. ASSUME NEW s \in Sessions, BecomeEligible(s) \/ BecomeIneligible(s)
      PROVE  SourceInv'
  BY <1>1 DEF BecomeEligible, BecomeIneligible, SourceInv, TypeOK, NoHintDropped,
    Alternates, PageInFuture, ContinuationKept, OvertakenIsNext, InProgress, source
<1>2. ASSUME NEW s \in Sessions, Nudge(s) PROVE SourceInv'
  <2>1. /\ channel' \in Seq(Sessions) /\ IsInjective(channel')
        /\ ToSet(channel') = ToSet(channel) \cup {s}
    BY <1>2, AppendToQueue DEF Nudge, SourceInv, TypeOK
  <2>2. Len(channel') <= Capacity
    BY <1>2 DEF Nudge, SourceInv, TypeOK
  <2>3. TypeOK'
    BY <1>2, <2>1, <2>2 DEF Nudge, SourceInv, TypeOK, InProgress, source
  <2>4. QED
    BY <1>2, <2>1, <2>3 DEF Nudge, SourceInv, NoHintDropped, Alternates, PageInFuture,
      ContinuationKept, OvertakenIsNext, source
<1>3. CASE TickDue \/ CallNext \/ Poll \/ Cancel \/ Suspend
  <2>1. /\ UNCHANGED <<eligible, channel, sweep, page, cursor, flags, hints, unmonitored,
                       hand, owed, late>>
        /\ tick' \in BOOLEAN /\ next' \in {"none", "suspended", "running"}
    BY <1>3 DEF TickDue, CallNext, Poll, Cancel, Suspend, SourceInv, TypeOK, source
  <2>2. QED
    BY <2>1 DEF SourceInv, TypeOK, NoHintDropped, Alternates, PageInFuture,
      ContinuationKept, OvertakenIsNext, InProgress
<1>4. CASE SweepReads
  <2>1. PICK rows \in BoundedSeq(Candidates, PageSize) :
          /\ IsPage(rows) /\ cursor' = next_page_state(rows, ScanThrough)
          /\ page' = [sessions |-> rows, marks |-> ToSet(rows) \cap Unowned,
                      more |-> next_page_state(rows, ScanThrough).after # 0]
          /\ owed' = owed \cup ToSet(rows)
    BY <1>4 DEF SweepReads
  <2>2. /\ rows \in Seq(Sessions) /\ IsInjective(rows)
        /\ rows # << >> => /\ Last(rows) \in Sessions /\ Last(rows) <= ScanThrough
                           /\ ScanThrough \in Sessions
    BY <2>1, PageFacts
  <2>3. /\ cursor' \in [after : Sessions \cup {0}, through : Sessions \cup {0}]
        /\ cursor'.after # 0 => cursor'.after < cursor'.through
    <3>1. CASE rows # <<>> /\ Len(rows) = PageSize /\ Last(rows) # ScanThrough
      <4>1. cursor' = [after |-> Last(rows), through |-> ScanThrough]
        BY <2>1, <3>1 DEF next_page_state
      <4>2. Last(rows) \in Nat /\ ScanThrough \in Nat /\ Last(rows) < ScanThrough
        <5>1. Last(rows) \in Sessions /\ ScanThrough \in Sessions
          BY <2>2, <3>1, Zenon
        <5>2. Last(rows) \in Nat /\ ScanThrough \in Nat
          BY <5>1
        <5>3. Last(rows) <= ScanThrough /\ Last(rows) # ScanThrough
          BY <2>2, <3>1, Zenon
        <5>4. QED
          BY <5>2, <5>3
      <4>3. QED
        BY <2>2, <3>1, <4>1, <4>2
    <3>2. CASE ~ (rows # <<>> /\ Len(rows) = PageSize /\ Last(rows) # ScanThrough)
      <4>1. cursor' = [after |-> 0, through |-> 0]
        BY <2>1, <3>2 DEF next_page_state
      <4>2. QED
        BY <4>1
    <3>3. QED
      BY <3>1, <3>2
  <2>4. /\ page' \in [sessions : Seq(Sessions), marks : SUBSET Sessions, more : BOOLEAN]
        /\ page'.sessions = rows /\ (page'.more <=> cursor'.after # 0)
    BY <2>1, <2>2
  <2>5. /\ sweep = "reading" /\ sweep' = "read"
        /\ UNCHANGED <<eligible, channel, tick, flags, hints, unmonitored, next, hand, late>>
    BY <1>4 DEF SweepReads, source
  <2>6. ToSet(rows) \subseteq Sessions
    BY <2>2 DEF ToSet
  <2>7. TypeOK'
    BY <2>1, <2>3, <2>4, <2>5, <2>6 DEF SourceInv, TypeOK, InProgress
  <2>8. NoHintDropped'
    <3>1. page.sessions = <<>> /\ ToSet(<<>>) = {}
      BY <2>5 DEF SourceInv, PageInFuture, NoPage, ToSet
    <3>2. QED
      BY <2>1, <2>4, <2>5, <3>1 DEF SourceInv, NoHintDropped
  <2>9. QED
    BY <2>2, <2>4, <2>5, <2>7, <2>8 DEF SourceInv, Alternates, PageInFuture,
      ContinuationKept, OvertakenIsNext
<1>5. CASE SweepFails
  BY <1>5 DEF SweepFails, SourceInv, TypeOK, NoHintDropped, Alternates, PageInFuture,
    ContinuationKept, OvertakenIsNext, InProgress, source
<1>6. CASE StartInitial \/ Continue
  <2>1. /\ UNCHANGED <<eligible, channel, page, cursor, tick, hints, unmonitored, next,
                       hand, owed, late>>
        /\ sweep' \in {"reading", "failed", "read"} /\ (sweep' = "read" <=> sweep = "read")
    BY <1>6 DEF StartInitial, Continue, start_sweep, SourceInv, TypeOK
  <2>2. /\ flags' \in [initialDue : BOOLEAN, nudgeFirst : BOOLEAN,
                       sweepFirst : BOOLEAN, continue : BOOLEAN]
        /\ flags'.continue => flags.continue
        /\ flags'.nudgeFirst = flags.nudgeFirst
    BY <1>6 DEF StartInitial, Continue, SourceInv, TypeOK
  <2>3. QED
    BY <2>1, <2>2 DEF SourceInv, TypeOK, NoHintDropped, Alternates, PageInFuture,
      ContinuationKept, OvertakenIsNext, InProgress
<1>7. CASE ReturnPending
  <2>1. /\ hints # <<>> /\ take_interleaved_pending_hint([flags EXCEPT !.sweepFirst = TRUE])
        /\ UNCHANGED <<eligible, sweep, page, cursor, tick, unmonitored>>
    BY <1>7 DEF ReturnPending
  <2>2. QED
    BY <2>1, InterleavedStep
<1>8. CASE ReturnPendingAfterPoll
  <2>1. flags = [flags EXCEPT !.sweepFirst = TRUE]
    BY <1>8 DEF ReturnPendingAfterPoll, SourceInv, TypeOK
  <2>2. /\ hints # <<>> /\ take_interleaved_pending_hint([flags EXCEPT !.sweepFirst = TRUE])
        /\ UNCHANGED <<eligible, sweep, page, cursor, tick, unmonitored>>
    BY <1>8, <2>1 DEF ReturnPendingAfterPoll
  <2>3. QED
    BY <2>2, InterleavedStep
<1>9. CASE CompleteSweep
  <2>1. /\ sweep = "read" /\ sweep' = "idle" /\ page' = NoPage
        /\ unmonitored' = page.marks
        /\ flags' = [flags EXCEPT !.continue = page.more, !.sweepFirst = FALSE]
        /\ UNCHANGED <<eligible, channel, cursor, tick, next, hand, owed, late>>
    BY <1>9 DEF CompleteSweep
  <2>2. /\ hints' \in Seq(Sessions) /\ IsInjective(hints')
        /\ ToSet(hints') = ToSet(hints) \cup ToSet(page.sessions)
    BY <1>9, ExtendFacts DEF CompleteSweep
  <2>3. page.marks \subseteq Sessions /\ page.more \in BOOLEAN
    BY DEF SourceInv, TypeOK
  <2>4. /\ flags' \in [initialDue : BOOLEAN, nudgeFirst : BOOLEAN,
                       sweepFirst : BOOLEAN, continue : BOOLEAN]
        /\ flags'.continue = page.more /\ flags'.nudgeFirst = flags.nudgeFirst
    BY <2>1, <2>3 DEF SourceInv, TypeOK
  <2>5. page.more => cursor.after # 0
    BY <2>1 DEF SourceInv, PageInFuture
  <2>6. page' \in [sessions : Seq(Sessions), marks : SUBSET Sessions, more : BOOLEAN]
        /\ page'.sessions = <<>> /\ IsInjective(<<>>) /\ ToSet(<<>>) = {}
    BY <2>1, EmptySeq DEF NoPage, IsInjective, ToSet
  <2>7. TypeOK'
    BY <2>1, <2>2, <2>3, <2>4, <2>5, <2>6 DEF SourceInv, TypeOK, InProgress
  <2>8. NoHintDropped'
    BY <2>1, <2>2, <2>6 DEF SourceInv, NoHintDropped
  <2>9. QED
    BY <2>1, <2>4, <2>5, <2>6, <2>7, <2>8 DEF SourceInv, Alternates, PageInFuture,
      ContinuationKept, OvertakenIsNext
<1>10. CASE FailSweep
  BY <1>10 DEF FailSweep, SourceInv, TypeOK, NoHintDropped, Alternates, PageInFuture,
    ContinuationKept, OvertakenIsNext, InProgress, source
<1>11. CASE ReturnNudge
  <2>1. /\ Head(channel) \in Sessions /\ channel' \in Seq(Sessions)
        /\ IsInjective(channel') /\ Len(channel') <= Capacity
        /\ ToSet(channel') = ToSet(channel) \ {Head(channel)}
    BY <1>11, ReturnNudgeFacts DEF ReturnNudge
  <2>2. /\ next' = "none" /\ hand' = [session |-> Head(channel), from |-> "nudge"]
        /\ owed' = owed \ {Head(channel)} /\ late' = [nudge |-> 0, sweep |-> 0]
        /\ UNCHANGED <<eligible, sweep, page, cursor, tick, flags, hints, unmonitored>>
    BY <1>11 DEF ReturnNudge, Return, source
  <2>3. hand' \in Hints /\ late' \in [Origins -> Nat] /\ late'.nudge = 0 /\ late'.sweep = 0
    BY <2>1, <2>2 DEF Hints, Origins
  <2>4. TypeOK'
    BY <2>1, <2>2, <2>3 DEF SourceInv, TypeOK, InProgress
  <2>5. QED
    BY <2>1, <2>2, <2>3, <2>4 DEF SourceInv, NoHintDropped, Alternates, PageInFuture,
      ContinuationKept, OvertakenIsNext
<1>12. CASE StartByTick
  BY <1>12 DEF StartByTick, start_sweep, SourceInv, TypeOK, NoHintDropped, Alternates,
    PageInFuture, ContinuationKept, OvertakenIsNext, InProgress, source
<1>13. CASE Admit
  <2>1. /\ hand' = NoHint /\ unmonitored' \subseteq Sessions
        /\ UNCHANGED <<eligible, channel, sweep, page, cursor, tick, flags, hints, next,
                       owed, late>>
    BY <1>13 DEF Admit, SourceInv, TypeOK
  <2>2. QED
    BY <2>1 DEF SourceInv, TypeOK, NoHintDropped, Alternates, PageInFuture,
      ContinuationKept, OvertakenIsNext, InProgress
<1>14. CASE UNCHANGED vars
  BY <1>14 DEF vars, source, SourceInv, TypeOK, NoHintDropped, Alternates, PageInFuture,
    ContinuationKept, OvertakenIsNext, InProgress
<1>15. QED
  BY <1>1, <1>2, <1>3, <1>4, <1>5, <1>6, <1>7, <1>8, <1>9, <1>10, <1>11, <1>12, <1>13,
    <1>14 DEF Next, Iterate

(* The inductive invariant of the work source holds in every reachable     *)
(* state.                                                                  *)
THEOREM SourceInvariant == Spec => []SourceInv
  BY SourceInit, SourceStep, PTL DEF Spec

(* The source's fields keep their types; pending hints are distinct, a     *)
(* cycle of pages never goes on from beyond its bound, and a continuation  *)
(* that is due has a cursor.                                               *)
THEOREM SourceTypeCorrect == Spec => []TypeOK
<1>1. SourceInv => TypeOK
  BY DEF SourceInv
<1>2. QED
  BY <1>1, SourceInvariant, PTL

(* Dropping the future of next() at any await loses no hint: what a nudge  *)
(* enqueued or a sweep read is kept until next() has returned it.          *)
THEOREM SourceKeepsHints == Spec => []NoHintDropped
<1>1. SourceInv => NoHintDropped
  BY DEF SourceInv
<1>2. QED
  BY <1>1, SourceInvariant, PTL

(* While nudges and sweep hints both wait, next() returns them by turns.   *)
THEOREM SourceAlternates == Spec => []Alternates
<1>1. SourceInv => Alternates
  BY DEF SourceInv
<1>2. QED
  BY <1>1, SourceInvariant, PTL
============================================================================
