----------------------- MODULE EligibilityWorkSource -----------------------
(***************************************************************************)
(* The in-process work source of the scheduler (InProcessEligibilityWork-  *)
(* Source in crates/application/src/scheduler.rs) over the paged sweep of  *)
(* the durable rows (PostgresEligibilitySweep in                           *)
(* crates/persistence/src/scheduler.rs).                                   *)
(*                                                                         *)
(* next() is one future of the scheduler loop.  One turn of its loop is    *)
(* one action; it is dropped (Cancel) only while it is suspended, that is  *)
(* at the two selects that can wait.  The nudge channel is modelled in     *)
(* full by EligibilityNudge; here it is the queue of distinct sessions     *)
(* which that module shows it to be (TokensMatchMap), and recv with        *)
(* take_nudge is one step.  Sessions are ordered by their identity, as the *)
(* sweep's pages are.                                                      *)
(***************************************************************************)
EXTENDS Integers, SequencesExt

CONSTANTS
  Sessions,     \* a set of positive integers: session identities
  PageSize,     \* RECONCILIATION_PAGE_SIZE
  Capacity,     \* nudge_buffer_capacity
  Unowned,      \* sessions whose lifecycle row is not owned (unmonitored)
  NoHint        \* marks the absence of a hint in the loop's hands

ASSUME SourceAssumption ==
  /\ Sessions \subseteq Nat \ {0} /\ IsFiniteSet(Sessions)
  /\ PageSize \in Nat \ {0}
  /\ Capacity \in Nat \ {0}
  /\ Unowned \subseteq Sessions

VARIABLES
  eligible,     \* sessions that the sweep's query selects now
  channel,      \* sessions of the queued nudges, oldest first
  sweep,        \* "idle" (Some(sweep)), or the future: "reading", "failed", "read"
  page,         \* the batch the future holds when "read"
  cursor,       \* PostgresEligibilitySweep: after and scan_through, 0 for None
  tick,         \* the interval's next tick has come due
  flags,        \* the four booleans of the source
  hints,        \* pending_sweep_hints
  unmonitored,  \* unmonitored_sessions
  next,         \* the next() future: "none", "suspended", "running"
  hand,         \* the hint next() returned and the loop has not admitted
  owed,         \* history: hints accepted or read and not returned since
  late          \* history: hints of the other kind that overtook a waiting one

source == <<flags, hints, unmonitored>>
vars == <<eligible, channel, sweep, page, cursor, tick, source, next, hand,
          owed, late>>

NoPage == [sessions |-> <<>>, marks |-> {}, more |-> FALSE]
Origins == {"nudge", "sweep"}
Hints == [session : Sessions, from : Origins]

Init ==
  /\ eligible \in SUBSET Sessions
  /\ channel = <<>>
  /\ sweep = "idle" /\ page = NoPage
  /\ cursor = [after |-> 0, through |-> 0]
  /\ tick = FALSE
  /\ flags = [initialDue |-> TRUE, nudgeFirst |-> TRUE, sweepFirst |-> FALSE,
              continue |-> FALSE]
  /\ hints = <<>> /\ unmonitored = {}
  /\ next = "none" /\ hand = NoHint
  /\ owed = {} /\ late = [nudge |-> 0, sweep |-> 0]

(***************************************************************************)
(* The environment: rows become eligible or stop being so, clients nudge,  *)
(* time passes.                                                            *)
(***************************************************************************)

BecomeEligible(s) ==
  /\ s \notin eligible
  /\ eligible' = eligible \cup {s}
  /\ UNCHANGED <<channel, sweep, page, cursor, tick, source, next, hand, owed, late>>

BecomeIneligible(s) ==
  /\ s \in eligible
  /\ eligible' = eligible \ {s}
  /\ UNCHANGED <<channel, sweep, page, cursor, tick, source, next, hand, owed, late>>

\* nudge_session when the hint is enqueued; a coalesced or dropped nudge
\* changes nothing.
Nudge(s) ==
  /\ s \notin ToSet(channel)
  /\ Len(channel) < Capacity
  /\ channel' = Append(channel, s)
  /\ owed' = owed \cup {s}
  /\ UNCHANGED <<eligible, sweep, page, cursor, tick, source, next, hand, late>>

\* The interval (MissedTickBehavior::Delay) holds at most one due tick.
TickDue ==
  /\ ~tick
  /\ tick' = TRUE
  /\ UNCHANGED <<eligible, channel, sweep, page, cursor, source, next, hand, owed, late>>

(***************************************************************************)
(* The sweep's read: one page of the eligible sessions after the cursor,   *)
(* up to the bound fixed when the cycle began.                             *)
(***************************************************************************)

\* bounded.scan_through of the query.
ScanThrough ==
  IF cursor.through # 0 THEN cursor.through
  ELSE IF eligible = {} THEN 0 ELSE Max(eligible)

\* The rows the query selects from.
Candidates == {s \in eligible : s > cursor.after /\ s <= ScanThrough}

\* ORDER BY session_id LIMIT: the first PageSize candidates in order.
IsPage(rows) ==
  /\ \A i, j \in DOMAIN rows : i < j => rows[i] < rows[j]
  /\ Len(rows) = PageSize \/ ToSet(rows) = Candidates
  /\ \A s \in Candidates \ ToSet(rows), i \in DOMAIN rows : rows[i] < s

\* Mutant: the next page starts after the bound instead of the last row.
next_page_state_skips(rows, through) ==
  IF rows # <<>> /\ Len(rows) = PageSize /\ Last(rows) # through
  THEN [after |-> through, through |-> through]
  ELSE [after |-> 0, through |-> 0]

\* next_page_state: the cycle goes on after a full page that ends before the
\* bound, and starts over otherwise.
next_page_state(rows, through) ==
  IF rows # <<>> /\ Len(rows) = PageSize /\ Last(rows) # through
  THEN [after |-> Last(rows), through |-> through]
  ELSE [after |-> 0, through |-> 0]

\* find_sessions succeeds: the cursor moves with the read.
SweepReads ==
  /\ sweep = "reading"
  /\ \E rows \in BoundedSeq(Candidates, PageSize) :
       LET state == next_page_state(rows, ScanThrough)
       IN  /\ IsPage(rows)
           /\ cursor' = state
           /\ page' = [sessions |-> rows,
                       marks |-> ToSet(rows) \cap Unowned,
                       more |-> state.after # 0]
           /\ owed' = owed \cup ToSet(rows)
  /\ sweep' = "read"
  /\ UNCHANGED <<eligible, channel, tick, source, next, hand, late>>

\* find_sessions fails in the database and leaves the cursor.
SweepFails ==
  /\ sweep = "reading"
  /\ sweep' = "failed"
  /\ UNCHANGED <<eligible, channel, page, cursor, tick, source, next, hand, owed, late>>

(***************************************************************************)
(* next().                                                                 *)
(***************************************************************************)

\* The loop polls the source only with no hint in its hands.
CallNext ==
  /\ next = "none" /\ hand = NoHint
  /\ next' = "suspended"
  /\ UNCHANGED <<eligible, channel, sweep, page, cursor, tick, source, hand, owed, late>>

Poll ==
  /\ next = "suspended"
  /\ next' = "running"
  /\ UNCHANGED <<eligible, channel, sweep, page, cursor, tick, source, hand, owed, late>>

\* Mutant: the sweep under way dies with the future, as it would if it were
\* a local of next() and not a field of the source.
Cancel_drops_sweep ==
  /\ next = "suspended"
  /\ next' = "none"
  /\ sweep' = "idle" /\ page' = NoPage
  /\ UNCHANGED <<eligible, channel, cursor, tick, source, hand, owed, late>>

\* The loop leaves its polling wait and drops the future.
Cancel ==
  /\ next = "suspended"
  /\ next' = "none"
  /\ UNCHANGED <<eligible, channel, sweep, page, cursor, tick, source, hand, owed, late>>

InProgress == sweep # "idle"
Completed == sweep \in {"read", "failed"}

\* start_sweep, which does nothing while the sweep is away in its future.
start_sweep == sweep' = IF sweep = "idle" THEN "reading" ELSE sweep

StartInitial ==
  /\ next = "running" /\ flags.initialDue
  /\ flags' = [flags EXCEPT !.initialDue = FALSE]
  /\ start_sweep
  /\ UNCHANGED <<eligible, channel, page, cursor, tick, hints, unmonitored, next, hand, owed, late>>

\* next() answers with session s; hint kinds that wait meanwhile are overtaken.
Return(s, from) ==
  /\ next' = "none"
  /\ hand' = [session |-> s, from |-> from]
  /\ owed' = owed \ {s}
  /\ late' = [nudge |-> IF from = "sweep" /\ channel # <<>> THEN late.nudge + 1 ELSE 0,
              sweep |-> IF from = "nudge" /\ hints # <<>> THEN late.sweep + 1 ELSE 0]

\* Mutant: the preference is never handed back to the sweep hints.
take_interleaved_pending_hint_sticky(f) ==
  \/ /\ f.nudgeFirst /\ channel # <<>>
     /\ flags' = f
     /\ channel' = Tail(channel) /\ hints' = hints
     /\ Return(Head(channel), "nudge")
  \/ /\ ~(f.nudgeFirst /\ channel # <<>>)
     /\ flags' = [f EXCEPT !.nudgeFirst = TRUE]
     /\ hints' = Tail(hints) /\ channel' = channel
     /\ Return(Head(hints), "sweep")

\* take_interleaved_pending_hint with the flags f of the iteration: a nudge
\* and a sweep hint by turns while both wait.
take_interleaved_pending_hint(f) ==
  \/ /\ f.nudgeFirst /\ channel # <<>>
     /\ flags' = [f EXCEPT !.nudgeFirst = FALSE]
     /\ channel' = Tail(channel) /\ hints' = hints
     /\ Return(Head(channel), "nudge")
  \/ /\ ~(f.nudgeFirst /\ channel # <<>>)
     /\ flags' = [f EXCEPT !.nudgeFirst = TRUE]
     /\ hints' = Tail(hints) /\ channel' = channel
     /\ Return(Head(hints), "sweep")

\* Pending sweep hints, first turn: a hint before the sweep is looked at.
ReturnPending ==
  /\ next = "running" /\ ~flags.initialDue /\ hints # <<>>
  /\ ~flags.sweepFirst
  /\ take_interleaved_pending_hint([flags EXCEPT !.sweepFirst = TRUE])
  /\ UNCHANGED <<eligible, sweep, page, cursor, tick, unmonitored>>

\* Pending sweep hints, later turns: neither a completion nor a tick is ready.
ReturnPendingAfterPoll ==
  /\ next = "running" /\ ~flags.initialDue /\ hints # <<>>
  /\ flags.sweepFirst
  /\ IF InProgress THEN ~Completed ELSE ~tick
  /\ take_interleaved_pending_hint(flags)
  /\ UNCHANGED <<eligible, sweep, page, cursor, tick, unmonitored>>

\* Mutant: a session found again is queued again.
extend_pending_sweep_hints_repeats(found) == hints' = hints \o found

\* extend_pending_sweep_hints: the page without the hints already pending, in
\* the order of the page.
extend_pending_sweep_hints(found) ==
  \E more \in BoundedSeq(ToSet(found) \ ToSet(hints), Len(found)) :
    /\ IsInjective(more) /\ ToSet(more) = ToSet(found) \ ToSet(hints)
    /\ \A i, j \in DOMAIN more : i < j =>
         \E a, b \in DOMAIN found : a < b /\ found[a] = more[i] /\ found[b] = more[j]
    /\ hints' = hints \o more

\* complete_sweep after a successful read.  Both selects that poll the sweep
\* prefer it, the one beside pending hints only on its turn.
CompleteSweep ==
  /\ next = "running" /\ ~flags.initialDue
  /\ hints # <<>> => flags.sweepFirst
  /\ sweep = "read"
  /\ sweep' = "idle" /\ page' = NoPage
  /\ unmonitored' = page.marks
  /\ extend_pending_sweep_hints(page.sessions)
  /\ flags' = [flags EXCEPT !.continue = page.more, !.sweepFirst = FALSE]
  /\ UNCHANGED <<eligible, channel, cursor, tick, next, hand, owed, late>>

\* Mutant: the error return forgets to put the sweep back.
FailSweep_keeps_future ==
  /\ next = "running" /\ ~flags.initialDue
  /\ hints # <<>> => flags.sweepFirst
  /\ sweep = "failed"
  /\ next' = "none"
  /\ UNCHANGED <<eligible, channel, sweep, page, cursor, tick, source, hand, owed, late>>

\* complete_sweep after a failed read: next() answers the error, which the
\* loop logs, and the other fields keep their values.
FailSweep ==
  /\ next = "running" /\ ~flags.initialDue
  /\ hints # <<>> => flags.sweepFirst
  /\ sweep = "failed"
  /\ sweep' = "idle"
  /\ next' = "none"
  /\ UNCHANGED <<eligible, channel, page, cursor, tick, source, hand, owed, late>>

\* The next page of the cycle once the hints of the last one are out.
Continue ==
  /\ next = "running" /\ ~flags.initialDue /\ hints = <<>>
  /\ flags.continue /\ ~InProgress
  /\ flags' = [flags EXCEPT !.continue = FALSE]
  /\ start_sweep
  /\ UNCHANGED <<eligible, channel, page, cursor, tick, hints, unmonitored, next, hand, owed, late>>

\* Mutant: the final select prefers its tick.
ReturnNudge_last ==
  /\ next = "running" /\ ~flags.initialDue /\ hints = <<>>
  /\ IF InProgress THEN ~Completed ELSE ~flags.continue /\ ~tick
  /\ channel # <<>>
  /\ channel' = Tail(channel)
  /\ Return(Head(channel), "nudge")
  /\ UNCHANGED <<eligible, sweep, page, cursor, tick, source>>

\* A nudge arrives in either select: the one with the sweep under way prefers
\* a completed sweep, the one with the tick has no preference.
ReturnNudge ==
  /\ next = "running" /\ ~flags.initialDue /\ hints = <<>>
  /\ IF InProgress THEN ~Completed ELSE ~flags.continue
  /\ channel # <<>>
  /\ channel' = Tail(channel)
  /\ Return(Head(channel), "nudge")
  /\ UNCHANGED <<eligible, sweep, page, cursor, tick, source>>

\* A due tick starts a sweep, in the select beside pending hints (which
\* prefers it) or in the final one.
StartByTick ==
  /\ next = "running" /\ ~flags.initialDue /\ ~InProgress /\ tick
  /\ IF hints # <<>> THEN flags.sweepFirst ELSE ~flags.continue
  /\ tick' = FALSE
  /\ start_sweep
  /\ UNCHANGED <<eligible, channel, page, cursor, source, next, hand, owed, late>>

\* No branch is ready and next() waits.
Suspend ==
  /\ next = "running" /\ ~flags.initialDue
  /\ hints = <<>> /\ channel = <<>>
  /\ IF InProgress THEN ~Completed ELSE ~flags.continue /\ ~tick
  /\ next' = "suspended"
  /\ UNCHANGED <<eligible, channel, sweep, page, cursor, tick, source, hand, owed, late>>

\* The loop admits the hint: take_returned_unmonitored decides whether the
\* pass counts toward occupancy.
Admit ==
  /\ hand # NoHint
  /\ hand' = NoHint
  /\ unmonitored' = unmonitored \ {hand.session}
  /\ UNCHANGED <<eligible, channel, sweep, page, cursor, tick, flags, hints, next, owed, late>>

Iterate ==
  \/ StartInitial \/ ReturnPending \/ ReturnPendingAfterPoll
  \/ CompleteSweep \/ FailSweep \/ Continue \/ ReturnNudge \/ StartByTick
  \/ Suspend

Next ==
  \/ \E s \in Sessions : BecomeEligible(s) \/ BecomeIneligible(s) \/ Nudge(s)
  \/ TickDue \/ SweepReads \/ SweepFails
  \/ CallNext \/ Poll \/ Cancel \/ Iterate \/ Admit

Spec == Init /\ [][Next]_vars

(***************************************************************************)
(* Fairness.  The loop admits what it was given, calls next() again and,   *)
(* however often it drops the future, polls it again and again; a poll     *)
(* runs on.  Time passes.  The query does not fail for ever.  The final    *)
(* select, whose branches tokio polls in random order, takes the tick and  *)
(* takes the nudge in the end; nothing is assumed of the biased selects.   *)
(***************************************************************************)
FinalSelectNudge == ~InProgress /\ ReturnNudge
FinalSelectTick == hints = <<>> /\ StartByTick

Fairness ==
  /\ WF_vars(Admit) /\ WF_vars(CallNext) /\ SF_vars(Poll)
  /\ WF_vars(Iterate) /\ SF_vars(FinalSelectTick) /\ SF_vars(FinalSelectNudge)
  /\ WF_vars(TickDue) /\ SF_vars(SweepReads) /\ WF_vars(SweepReads \/ SweepFails)

FairSpec == Spec /\ Fairness

-----------------------------------------------------------------------------

\* The state has its type; pending hints are distinct; a cycle of pages never
\* goes on from beyond its own bound, and a continuation that is due has a
\* cursor to go on from.
TypeOK ==
  /\ eligible \subseteq Sessions
  /\ channel \in Seq(Sessions) /\ IsInjective(channel) /\ Len(channel) <= Capacity
  /\ sweep \in {"idle", "reading", "failed", "read"}
  /\ page \in [sessions : Seq(Sessions), marks : SUBSET Sessions, more : BOOLEAN]
  /\ cursor \in [after : Sessions \cup {0}, through : Sessions \cup {0}]
  /\ tick \in BOOLEAN
  /\ flags \in [initialDue : BOOLEAN, nudgeFirst : BOOLEAN,
                sweepFirst : BOOLEAN, continue : BOOLEAN]
  /\ hints \in Seq(Sessions) /\ IsInjective(hints)
  /\ unmonitored \subseteq Sessions
  /\ next \in {"none", "suspended", "running"}
  /\ hand \in Hints \cup {NoHint}
  /\ owed \subseteq Sessions
  /\ late \in [Origins -> Nat]
  /\ cursor.after # 0 => cursor.after < cursor.through
  /\ flags.continue /\ ~InProgress => cursor.after # 0

\* However the loop drops next(), a session that a nudge enqueued or that a
\* sweep read (and moved its cursor past) is still in the channel, among the
\* pending hints or in the sweep's future until next() has returned it.
NoHintDropped ==
  owed \subseteq ToSet(channel) \cup ToSet(hints) \cup ToSet(page.sessions)

\* A sweep with many pages does not starve nudges, nor nudges the pages: while
\* hints of both kinds wait, next() never returns two of one kind in a row
\* (take_interleaved_pending_hint and the two preference flags).
Alternates == late.nudge <= 1 /\ late.sweep <= 1

Found(s) == hand # NoHint /\ hand.session = s

\* A queued nudge is returned in the end.  And the sweep is the backup of lost
\* nudges: a session that stays eligible is returned in the end, whatever pages
\* it falls on, whatever sessions come and go around it and however often the
\* loop drops next().
WorkReturned ==
  \A s \in Sessions :
    /\ s \in ToSet(channel) ~> s \notin ToSet(channel)
    /\ s \in eligible ~> (s \notin eligible \/ Found(s))

-----------------------------------------------------------------------------
(* The parts of the inductive invariant.                                   *)

\* A read is in the hands of the future until next() completes it: its page
\* has no session twice and tells whether the cursor, which moved with the
\* read, has a place to go on from.
PageInFuture ==
  /\ IsInjective(page.sessions)
  /\ IF sweep = "read" THEN page.more <=> cursor.after # 0 ELSE page = NoPage

\* A continuation that is due survives a failed read and a sweep that a tick
\* started in its place.
ContinuationKept == flags.continue /\ sweep # "read" => cursor.after # 0

\* The kind that was overtaken is the one that is preferred next.
OvertakenIsNext ==
  /\ late.nudge > 0 => flags.nudgeFirst
  /\ late.sweep > 0 => ~flags.nudgeFirst

SourceInv ==
  /\ TypeOK /\ NoHintDropped /\ Alternates
  /\ PageInFuture /\ ContinuationKept /\ OvertakenIsNext
=============================================================================
