------------------------- MODULE EligibilityNudge -------------------------
(***************************************************************************)
(* The in-process nudge channel between command handlers and the           *)
(* scheduler (crates/application/src/scheduler.rs).                        *)
(*                                                                         *)
(* A nudge is a hint that a session may have eligible work.  Handlers call *)
(* `nudge' (never waits) or `nudge_waiting_for_capacity' (waits for a slot *)
(* of the bounded channel); the work source receives one token at a time.  *)
(* A map `pending', behind a mutex, deduplicates tokens per session.  The  *)
(* mutex is not held across the channel's await points, so handlers, the   *)
(* receiver, cancellations and the source's destructor interleave between  *)
(* the critical sections: each critical section is one action here.        *)
(*                                                                         *)
(* The tokio channel is external and modelled from its use: a FIFO of      *)
(* tokens plus a fair semaphore of `Capacity' permits whose released       *)
(* permits go to the oldest queued `reserve' first.                        *)
(***************************************************************************)
EXTENDS Integers, Sequences, FiniteSets

CONSTANTS Sessions,     \* session identities
          Callers,      \* concurrent nudge_waiting_for_capacity futures
          Cancellable,  \* the callers raced against a shutdown signal
          Capacity,     \* the configured nudge buffer capacity
          NoSession     \* "no token in hand"

ASSUME NudgeAssumption ==
  /\ Capacity \in Nat \ {0}
  /\ IsFiniteSet(Callers)
  /\ Cancellable \subseteq Callers
  /\ NoSession \notin Sessions

VARIABLES
  channel,  \* tokens sent and not yet received
  free,     \* free permits of the channel's semaphore
  waitq,    \* callers queued in `reserve', oldest first
  pending,  \* the deduplication map: absent, or queued_channel_tokens 0 or 1
  caller,   \* where each waiting nudge is, and for which session
  taken,    \* the token received whose map entry is not yet removed
  source,   \* the work source's destructor: clears the map, then closes
  owed      \* history: sessions whose accepted hint was not yet returned

vars == <<channel, free, waitq, pending, caller, taken, source, owed>>

Absent   == "absent"
Reserved == "reserved"   \* queued_channel_tokens = 0
Queued   == "queued"     \* queued_channel_tokens = 1

(***************************************************************************)
(* idle: not running.  recheck: the first attempt found the buffer full or *)
(* an entry.  reserving: about to call `reserve'.  waiting: queued in the  *)
(* semaphore.  permitted: owns a permit.  dropping: its outcome is decided *)
(* and the PendingNudgeReservation guard is about to run its destructor.   *)
(***************************************************************************)
CallerStates == {"idle", "recheck", "reserving", "waiting", "permitted",
                 "dropping"}

InChannel(s) == \E i \in DOMAIN channel : channel[i] = s

HasToken(s) == InChannel(s) \/ taken = s

(* A caller that has committed to putting a token in the channel. *)
Carried(s) == \E c \in Callers :
                /\ caller[c].session = s
                /\ caller[c].at \in {"reserving", "waiting", "permitted"}

TypeOK ==
  /\ channel \in Seq(Sessions)
  /\ free \in 0 .. Capacity
  /\ waitq \in Seq(Callers)
  /\ pending \in [Sessions -> {Absent, Reserved, Queued}]
  /\ caller \in [Callers -> [at : CallerStates,
                             session : Sessions \cup {NoSession}]]
  /\ taken \in Sessions \cup {NoSession}
  /\ source \in {"open", "cleared", "closed"}
  /\ owed \subseteq Sessions

Idle == [at |-> "idle", session |-> NoSession]

Init ==
  /\ channel = << >>
  /\ free = Capacity
  /\ waitq = << >>
  /\ pending = [s \in Sessions |-> Absent]
  /\ caller = [c \in Callers |-> Idle]
  /\ taken = NoSession
  /\ source = "open"
  /\ owed = {}

Goto(c, state) == caller' = [caller EXCEPT ![c].at = state]

---------------------------------------------------------------------------
(* nudge_session: the outcome, and what it does to the map and channel.    *)

Outcome(s) ==
  CASE pending[s] # Absent                                 -> "Coalesced"
    [] pending[s] = Absent /\ source = "closed"            -> "WorkSourceClosed"
    [] pending[s] = Absent /\ source # "closed" /\ free > 0 -> "Enqueued"
    [] OTHER                                               -> "DroppedAtCapacity"

(* Mutant: the entry of a hint dropped at capacity stays in the map.       *)
NudgeSessionLeavesEntry(s) ==
  /\ pending' = CASE Outcome(s) = "Enqueued"          ->
                        [pending EXCEPT ![s] = Queued]
                  [] Outcome(s) = "DroppedAtCapacity" ->
                        [pending EXCEPT ![s] = Reserved]
                  [] OTHER                            -> pending
  /\ channel' = IF Outcome(s) = "Enqueued" THEN Append(channel, s) ELSE channel
  /\ free' = IF Outcome(s) = "Enqueued" THEN free - 1 ELSE free
  /\ owed' = IF Outcome(s) \in {"Enqueued", "Coalesced"} /\ source = "open"
             THEN owed \cup {s} ELSE owed

(* An accepted hint (enqueued or coalesced) is one the scheduler owes.     *)
NudgeSession(s) ==
  /\ IF Outcome(s) = "Enqueued"
     THEN /\ pending' = [pending EXCEPT ![s] = Queued]
          /\ channel' = Append(channel, s)
          /\ free' = free - 1
     ELSE UNCHANGED <<pending, channel, free>>
  /\ owed' = IF Outcome(s) \in {"Enqueued", "Coalesced"} /\ source = "open"
             THEN owed \cup {s} ELSE owed

(* EligibilityNudge::nudge: never waits. *)
Nudge(s) ==
  /\ NudgeSession(s)
  /\ UNCHANGED <<waitq, caller, taken, source>>

(* nudge_waiting_for_capacity, first attempt: done when the token was      *)
(* enqueued or the source is closed, otherwise it goes on to reserve.      *)
NudgeWaiting(c, s) ==
  /\ caller[c].at = "idle"
  /\ NudgeSession(s)
  /\ IF Outcome(s) \in {"DroppedAtCapacity", "Coalesced"}
     THEN caller' = [caller EXCEPT ![c] = [at |-> "recheck", session |-> s]]
     ELSE UNCHANGED caller
  /\ UNCHANGED <<waitq, taken, source>>

(* Second critical section: coalesce with a token already in the channel,  *)
(* otherwise leave a zero-token entry and build the reservation guard.     *)
Recheck(c) ==
  LET s == caller[c].session IN
  /\ caller[c].at = "recheck"
  /\ IF pending[s] = Queued
     THEN caller' = [caller EXCEPT ![c] = Idle] /\ UNCHANGED pending
     ELSE Goto(c, "reserving") /\ pending' = [pending EXCEPT ![s] = Reserved]
  /\ UNCHANGED <<channel, free, waitq, taken, source, owed>>

(* sender.reserve().await, first poll. *)
Reserve(c) ==
  /\ caller[c].at = "reserving"
  /\ \/ /\ source = "closed"
        /\ Goto(c, "dropping")
        /\ UNCHANGED <<free, waitq>>
     \/ /\ source # "closed"
        /\ free > 0
        /\ free' = free - 1
        /\ Goto(c, "permitted")
        /\ UNCHANGED waitq
     \/ /\ source # "closed"
        /\ free = 0
        /\ waitq' = Append(waitq, c)
        /\ Goto(c, "waiting")
        /\ UNCHANGED free
  /\ UNCHANGED <<channel, pending, taken, source, owed>>

(* A permit is given back while callers `cs' is the caller map so far: the *)
(* oldest queued caller gets it.                                           *)
GiveBackPermit(cs) ==
  IF waitq = << >>
  THEN free' = free + 1 /\ caller' = cs /\ UNCHANGED waitq
  ELSE /\ waitq' = Tail(waitq)
       /\ caller' = [cs EXCEPT ![Head(waitq)].at = "permitted"]
       /\ UNCHANGED free

(* Mutant: the map is not read again after the wait.                       *)
SendUnchecked(c) ==
  LET s == caller[c].session IN
  /\ caller[c].at = "permitted"
  /\ pending' = [pending EXCEPT ![s] = Queued]
  /\ channel' = Append(channel, s)
  /\ Goto(c, "dropping")
  /\ owed' = IF source = "open" THEN owed \cup {s} ELSE owed
  /\ UNCHANGED <<free, waitq, taken, source>>

(* Mutant: a coalescing caller keeps the permit it does not use.           *)
SendLeaksPermit(c) ==
  LET s == caller[c].session IN
  /\ caller[c].at = "permitted"
  /\ pending' = [pending EXCEPT ![s] = Queued]
  /\ channel' = IF pending[s] = Queued THEN channel ELSE Append(channel, s)
  /\ Goto(c, "dropping")
  /\ owed' = IF source = "open" THEN owed \cup {s} ELSE owed
  /\ UNCHANGED <<free, waitq, taken, source>>

(* Third critical section, with a permit: coalesce with a token somebody   *)
(* queued meanwhile (the permit goes back) or send the session's token.    *)
Send(c) ==
  LET s == caller[c].session IN
  /\ caller[c].at = "permitted"
  /\ \/ /\ pending[s] = Queued
        /\ GiveBackPermit([caller EXCEPT ![c].at = "dropping"])
        /\ UNCHANGED <<pending, channel>>
     \/ /\ pending[s] # Queued
        /\ pending' = [pending EXCEPT ![s] = Queued]
        /\ channel' = Append(channel, s)
        /\ Goto(c, "dropping")
        /\ UNCHANGED <<free, waitq>>
  /\ owed' = IF source = "open" THEN owed \cup {s} ELSE owed
  /\ UNCHANGED <<taken, source>>

(* PendingNudgeReservation::drop: removes a zero-token entry, whoever left *)
(* it, after the call's outcome is already decided.                        *)
DropReservation(c) ==
  LET s == caller[c].session IN
  /\ caller[c].at = "dropping"
  /\ pending' = IF pending[s] = Reserved THEN [pending EXCEPT ![s] = Absent]
                                         ELSE pending
  /\ caller' = [caller EXCEPT ![c] = Idle]
  /\ UNCHANGED <<channel, free, waitq, taken, source, owed>>

(* The sequence without its k-th entry. *)
DropAt(q, k) == [i \in 1 .. Len(q) - 1 |-> IF i < k THEN q[i] ELSE q[i + 1]]

(* The future is dropped at its await point: it leaves the semaphore queue *)
(* or returns its permit, then its guard runs.                             *)
Cancel(c) ==
  LET dropped == [caller EXCEPT ![c].at = "dropping"] IN
  /\ c \in Cancellable
  /\ \/ /\ caller[c].at = "waiting"
        /\ \E k \in DOMAIN waitq : waitq[k] = c /\ waitq' = DropAt(waitq, k)
        /\ caller' = dropped
        /\ UNCHANGED free
     \/ /\ caller[c].at = "permitted"
        /\ GiveBackPermit(dropped)
  /\ UNCHANGED <<channel, pending, taken, source, owed>>

---------------------------------------------------------------------------
(* The work source's side.                                                 *)

(* nudges.recv(): takes the oldest token, which frees its permit. *)
Receive ==
  /\ source = "open"
  /\ taken = NoSession
  /\ channel # << >>
  /\ taken' = Head(channel)
  /\ channel' = Tail(channel)
  /\ GiveBackPermit(caller)
  /\ UNCHANGED <<pending, source, owed>>

(* take_nudge: removes the map entry and returns the session to the        *)
(* scheduler; a token without an entry is discarded.                       *)
TakeNudge ==
  /\ taken # NoSession
  /\ IF pending[taken] = Absent
     THEN UNCHANGED <<pending, owed>>
     ELSE /\ pending' = [pending EXCEPT ![taken] = Absent]
          /\ owed' = owed \ {taken}
  /\ taken' = NoSession
  /\ UNCHANGED <<channel, free, waitq, caller, source>>

(* Drop for the work source: its destructor clears the map ... *)
ClearPending ==
  /\ source = "open"
  /\ taken = NoSession
  /\ source' = "cleared"
  /\ pending' = [s \in Sessions |-> Absent]
  /\ UNCHANGED <<channel, free, waitq, caller, taken, owed>>

(* ... and then its receiver field is dropped, which closes the channel:   *)
(* queued `reserve' calls fail and the tokens left are discarded.          *)
CloseChannel ==
  /\ source = "cleared"
  /\ source' = "closed"
  /\ channel' = << >>
  /\ free' = free + Len(channel)
  /\ waitq' = << >>
  /\ caller' = [c \in Callers |-> IF caller[c].at = "waiting"
                                  THEN [caller[c] EXCEPT !.at = "dropping"]
                                  ELSE caller[c]]
  /\ UNCHANGED <<pending, taken, owed>>

Next ==
  \/ \E s \in Sessions : Nudge(s)
  \/ \E c \in Callers, s \in Sessions : NudgeWaiting(c, s)
  \/ \E c \in Callers : Recheck(c) \/ Reserve(c) \/ Send(c)
                          \/ DropReservation(c) \/ Cancel(c)
  \/ Receive
  \/ TakeNudge
  \/ ClearPending
  \/ CloseChannel

Spec == Init /\ [][Next]_vars

(* The receiver task and every nudging task keep running: each of their    *)
(* steps between two await points is taken once it is enabled.             *)
Fairness ==
  /\ WF_vars(Receive)
  /\ WF_vars(TakeNudge)
  /\ \A c \in Callers : WF_vars(Recheck(c) \/ Reserve(c) \/ Send(c)
                                   \/ DropReservation(c))

FairSpec == Spec /\ Fairness

---------------------------------------------------------------------------
(* Properties.                                                             *)

Permitted == {c \in Callers : caller[c].at = "permitted"}

(* While the source lives, the map and the channel agree: an entry says    *)
(* "one token" exactly when one token of that session is in the channel or *)
(* in the receiver's hand, and never two.  Hence take_nudge never discards *)
(* a token, and an equal nudge never uses a second buffer slot.            *)
TokensMatchMap ==
  source = "open" =>
    /\ \A i, j \in DOMAIN channel : channel[i] = channel[j] => i = j
    /\ \A s \in Sessions : HasToken(s) <=> pending[s] = Queued
    /\ ~ InChannel(taken)

(* No permit is lost or duplicated by sends, coalescing and cancellation,  *)
(* and none is free while a caller waits for one.                          *)
PermitAccounting ==
  /\ free + Len(channel) + Cardinality(Permitted) = Capacity
  /\ waitq # << >> => free = 0

(* The semaphore queues exactly the callers that wait, each once.          *)
WaitqMatchesCallers ==
  /\ \A i, j \in DOMAIN waitq : waitq[i] = waitq[j] => i = j
  /\ \A i \in DOMAIN waitq : caller[waitq[i]].at = "waiting"
  /\ \A c \in Callers : caller[c].at = "waiting" =>
                          \E i \in DOMAIN waitq : waitq[i] = c

(* Every call under way has its session.                                   *)
CallsHaveSessions ==
  \A c \in Callers : caller[c].at # "idle" => caller[c].session \in Sessions

(* Inductive invariant of the specification.                               *)
NudgeInv ==
  /\ TypeOK
  /\ WaitqMatchesCallers
  /\ CallsHaveSessions
  /\ PermitAccounting
  /\ TokensMatchMap

(* A hint reported Enqueued or Coalesced is still in the channel, in the   *)
(* receiver's hand, or carried by a caller that will send it.              *)
AcceptedHintKept ==
  source = "open" => \A s \in owed : HasToken(s) \/ Carried(s)

(* Every accepted hint is eventually returned by the work source.          *)
AcceptedHintReturned ==
  \A s \in Sessions : s \in owed ~> (s \notin owed \/ source # "open")
============================================================================
