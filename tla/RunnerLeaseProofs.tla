------------------------- MODULE RunnerLeaseProofs -------------------------
(***************************************************************************)
(* Proofs about the leases of a runner, for any number of leases, sockets, *)
(* faults and frames in flight.                                            *)
(***************************************************************************)
EXTENDS RunnerLease, FiniteSetTheorems, SequenceTheorems, TLAPS

(***************************************************************************)
(* Frames and the queues they travel in.                                   *)
(***************************************************************************)

(* The fields of a frame that the runner sends.                            *)
LEMMA UpFrameFields ==
  ASSUME NEW f \in UpFrames
  PROVE  /\ f.kind \in {"claim", "refusal", "result", "shutdown"}
         /\ f.kind # "shutdown" => f.lease \in Leases
         /\ f.kind = "shutdown" => f.lease = None
         /\ f.end \in Ends \cup {"none"}
         /\ f.kind = "result" <=> f.end # "none"
  BY DEF UpFrames, Frame, Ends, None

(* The fields of a frame that the daemon sends.                            *)
LEMMA DownFrameFields ==
  ASSUME NEW f \in DownFrames
  PROVE  /\ f.kind \in {"offer", "claimed", "dispatch", "recorded", "refusal_recorded",
                        "resumed", "shutdown"}
         /\ f.kind \notin {"shutdown", "resumed"} => f.lease \in Leases
         /\ f.lease \in Leases \cup {None}
         /\ f.kind = "shutdown" => f.lease = None
         /\ f.kind = "resumed" => /\ f.end \in {"empty", "recorded", "await", "lost"}
                                  /\ f.end = "await" => f.lease \in Leases
  BY DEF DownFrames, Frame, None

(* The frames that a step may send are of these types.                     *)
LEMMA FramesTyped ==
  /\ \A l \in Leases : /\ Frame("claim", l, "none") \in UpFrames
                       /\ Frame("refusal", l, "none") \in UpFrames
                       /\ \A e \in Ends : Frame("result", l, e) \in UpFrames
  /\ Frame("shutdown", None, "none") \in UpFrames
  /\ \A l \in Leases : /\ Frame("offer", l, "none") \in DownFrames
                       /\ Frame("claimed", l, "none") \in DownFrames
                       /\ Frame("dispatch", l, "none") \in DownFrames
                       /\ Frame("recorded", l, "none") \in DownFrames
                       /\ Frame("refusal_recorded", l, "none") \in DownFrames
                       /\ Frame("resumed", l, "await") \in DownFrames
  /\ \A l \in Leases \cup {None}, out \in {"empty", "recorded", "lost"} :
       Frame("resumed", l, out) \in DownFrames
  /\ Frame("shutdown", None, "none") \in DownFrames
  BY DEF UpFrames, DownFrames

(* The fields of the frame that is built.                                  *)
LEMMA FrameFields ==
  ASSUME NEW kind, NEW l, NEW end
  PROVE  /\ Frame(kind, l, end).kind = kind
         /\ Frame(kind, l, end).lease = l
         /\ Frame(kind, l, end).end = end
  BY DEF Frame

(* What is left when the first frame is read.                              *)
LEMMA TailOf ==
  ASSUME NEW S, NEW q \in Seq(S), q # << >>
  PROVE  /\ Head(q) = q[1] /\ Head(q) \in S /\ 1 \in DOMAIN q
         /\ Tail(q) \in Seq(S)
         /\ \A i \in DOMAIN Tail(q) : i \in Nat /\ i >= 1 /\ i + 1 \in DOMAIN q /\ Tail(q)[i] = q[i + 1]
         /\ \A i \in DOMAIN q : i \in Nat /\ i >= 1 /\ (i # 1 => i - 1 \in DOMAIN Tail(q))
<1>1. /\ Head(q) = q[1] /\ Head(q) \in S /\ Tail(q) \in Seq(S)
      /\ DOMAIN q = 1 .. Len(q) /\ Len(q) \in Nat /\ Len(q) # 0
      /\ Len(Tail(q)) = Len(q) - 1 /\ DOMAIN Tail(q) = 1 .. Len(Tail(q))
      /\ \A i \in 1 .. Len(q) - 1 : Tail(q)[i] = q[i + 1]
  BY HeadTailProperties, LenProperties, EmptySeq
<1>2. QED
  BY <1>1

(* One more frame is sent.                                                 *)
LEMMA SendOne ==
  ASSUME NEW S, NEW q \in Seq(S), NEW f \in S
  PROVE  /\ q \o <<f>> \in Seq(S)
         /\ Len(q) \in Nat /\ DOMAIN q = 1 .. Len(q)
         /\ DOMAIN (q \o <<f>>) = 1 .. Len(q) + 1
         /\ \A i \in 1 .. Len(q) : (q \o <<f>>)[i] = q[i]
         /\ (q \o <<f>>)[Len(q) + 1] = f
<1>1. <<f>> \in Seq(S) /\ Len(<<f>>) = 1 /\ <<f>>[1] = f
  OBVIOUS
<1>2. Len(q) \in Nat /\ DOMAIN q = 1 .. Len(q)
  BY LenProperties
<1>3. /\ q \o <<f>> \in Seq(S) /\ Len(q \o <<f>>) = Len(q) + 1
      /\ \A i \in 1 .. Len(q) + 1 :
           (q \o <<f>>)[i] = IF i <= Len(q) THEN q[i] ELSE <<f>>[i - Len(q)]
  BY <1>1, <1>2, ConcatProperties
<1>4. DOMAIN (q \o <<f>>) = 1 .. Len(q \o <<f>>)
  BY <1>3, LenProperties
<1>5. Len(q) + 1 - Len(q) = 1 /\ ~ (Len(q) + 1 <= Len(q))
  BY <1>2
<1>6. QED
  BY <1>1, <1>2, <1>3, <1>4, <1>5

(* Two frames are sent.                                                    *)
LEMMA SendTwo ==
  ASSUME NEW S, NEW q \in Seq(S), NEW f \in S, NEW g \in S
  PROVE  /\ q \o <<f, g>> \in Seq(S)
         /\ Len(q) \in Nat /\ DOMAIN q = 1 .. Len(q)
         /\ DOMAIN (q \o <<f, g>>) = 1 .. Len(q) + 2
         /\ \A i \in 1 .. Len(q) : (q \o <<f, g>>)[i] = q[i]
         /\ (q \o <<f, g>>)[Len(q) + 1] = f
         /\ (q \o <<f, g>>)[Len(q) + 2] = g
<1>1. <<f, g>> \in Seq(S) /\ Len(<<f, g>>) = 2 /\ <<f, g>>[1] = f /\ <<f, g>>[2] = g
  OBVIOUS
<1>2. Len(q) \in Nat /\ DOMAIN q = 1 .. Len(q)
  BY LenProperties
<1>3. /\ q \o <<f, g>> \in Seq(S) /\ Len(q \o <<f, g>>) = Len(q) + 2
      /\ \A i \in 1 .. Len(q) + 2 :
           (q \o <<f, g>>)[i] = IF i <= Len(q) THEN q[i] ELSE <<f, g>>[i - Len(q)]
  BY <1>1, <1>2, ConcatProperties
<1>4. DOMAIN (q \o <<f, g>>) = 1 .. Len(q \o <<f, g>>)
  BY <1>3, LenProperties
<1>5. /\ Len(q) + 1 - Len(q) = 1 /\ ~ (Len(q) + 1 <= Len(q))
      /\ Len(q) + 2 - Len(q) = 2 /\ ~ (Len(q) + 2 <= Len(q))
      /\ Len(q) + 1 \in 1 .. Len(q) + 2 /\ Len(q) + 2 \in 1 .. Len(q) + 2
  BY <1>2
<1>6. QED
  BY <1>1, <1>2, <1>3, <1>4, <1>5

(* What frames reach the runner ...                                        *)
LEMMA ToRunnerSends ==
  ASSUME FrameTypes, NEW s \in Sockets, NEW frames \in Seq(DownFrames), ToRunner(s, frames)
  PROVE  /\ down' \in [Sockets -> Seq(DownFrames)]
         /\ \A r \in Sockets : r # s \/ run.sock # s => down'[r] = down[r]
         /\ run.sock = s => down'[s] = down[s] \o frames
<1>1. down[s] \o frames \in Seq(DownFrames)
  BY ConcatProperties DEF FrameTypes
<1>2. QED
  BY <1>1 DEF FrameTypes, ToRunner

(* ... and which reach the daemon.                                         *)
LEMMA ToDaemonSends ==
  ASSUME FrameTypes, run.sock \in Sockets, NEW frames \in Seq(UpFrames), ToDaemon(frames)
  PROVE  /\ up' \in [Sockets -> Seq(UpFrames)]
         /\ \A r \in Sockets : r # run.sock => up'[r] = up[r]
         /\ IF hand[run.sock].at \notin {"none", "propagate"}
            THEN up'[run.sock] = up[run.sock] \o frames ELSE up' = up
<1>1. up[run.sock] \o frames \in Seq(UpFrames)
  BY ConcatProperties DEF FrameTypes
<1>2. QED
  BY <1>1 DEF FrameTypes, ToDaemon

(***************************************************************************)
(* What the daemon's steps do.                                             *)
(***************************************************************************)

(* The values that steps assign are of their types.                        *)
LEMMA TypedValues ==
  /\ Empty \in Inventories /\ Empty.lease = None /\ Empty.phase = "none" /\ Empty.end = "none"
  /\ NoHandler \in Handlers /\ NoHandler.at = "none" /\ NoHandler.inv = Empty
  /\ NoHandler.busy = None /\ NoHandler.out = "none"
  /\ [NoHandler EXCEPT !.at = "propagate"] \in Handlers
  /\ [NoHandler EXCEPT !.at = "propagate"].at = "propagate"
  /\ [NoHandler EXCEPT !.at = "propagate"].inv = Empty
  /\ [NoHandler EXCEPT !.at = "propagate"].busy = None
<1>1. /\ Empty \in Inventories /\ Empty.lease = None /\ Empty.phase = "none"
      /\ Empty.end = "none"
  BY DEF Empty, Inventories, Phases, None
<1>2. QED
  BY <1>1 DEF NoHandler, Handlers, Resuming

(* A runner that is not connected, or has just connected.                  *)
LEMMA NoConnectionTyped ==
  /\ NoConnection \in RunStates
  /\ NoConnection.sock = None /\ NoConnection.at = "idle" /\ NoConnection.offer = None
  /\ NoConnection.claimed = FALSE /\ NoConnection.resumed = None
  /\ NoConnection.deferred = None /\ NoConnection.exec = None /\ NoConnection.last = None
  /\ NoConnection.scanned = FALSE
  BY DEF NoConnection, RunStates, None

(* A lease that ends.                                                      *)
LEMMA SettledFields ==
  ASSUME NEW state \in Final, NEW end \in Ends \cup {"none"}
  PROVE  /\ Settled(state, end) \in LeaseRecords
         /\ Settled(state, end).state = state /\ Settled(state, end).end = end
         /\ Settled(state, end).fresh = FALSE /\ Settled(state, end).intact = FALSE
  BY DEF Settled, NoLease, LeaseRecords, Final, Lost

(* A connection that is lost takes every offer and claim with it.          *)
LEMMA LossDoes ==
  ASSUME DaemonTypes, NEW newconn, LossEpoch(newconn)
  PROVE  /\ lease' \in [Leases -> LeaseRecords] /\ pending' \in BOOLEAN
         /\ \A l \in Leases :
              /\ lease'[l].state = lease[l].state /\ lease'[l].end = lease[l].end
              /\ lease'[l].fresh = lease[l].fresh
              /\ lease'[l].intact => lease[l].intact
         /\ IF newconn.state = "lost" /\ conn.state # "lost"
            THEN pending' /\ \A l \in Leases : ~lease'[l].intact
            ELSE pending' = pending /\ lease' = lease
<1>1. lease \in [Leases -> LeaseRecords] /\ pending \in BOOLEAN
  BY DEF DaemonTypes
<1>2. CASE newconn.state = "lost" /\ conn.state # "lost"
  <2>1. /\ lease' = [l \in Leases |-> [lease[l] EXCEPT !.intact = FALSE]]
        /\ pending' = TRUE
    BY <1>2 DEF LossEpoch
  <2>2. \A l \in Leases : /\ [lease[l] EXCEPT !.intact = FALSE] \in LeaseRecords
                          /\ [lease[l] EXCEPT !.intact = FALSE].state = lease[l].state
                          /\ [lease[l] EXCEPT !.intact = FALSE].end = lease[l].end
                          /\ [lease[l] EXCEPT !.intact = FALSE].fresh = lease[l].fresh
                          /\ [lease[l] EXCEPT !.intact = FALSE].intact = FALSE
    BY <1>1 DEF LeaseRecords
  <2>3. QED
    BY <1>2, <2>1, <2>2
<1>3. CASE ~(newconn.state = "lost" /\ conn.state # "lost")
  BY <1>1, <1>3 DEF LossEpoch
<1>4. QED
  BY <1>2, <1>3

(* The end of a handler: the connection is settled, if it is the newest.   *)
LEMMA EndHandlerDoes ==
  ASSUME DaemonTypes, FrameTypes, NEW s \in Sockets, NEW to \in {"lost", "shutdown"},
         EndHandler(s, to)
  PROVE  /\ conn' \in Connections /\ conn'.owner = conn.owner
         /\ \/ conn'.state = conn.state
            \/ conn.state \in Up /\ conn'.state = "lost"
            \/ conn.state \in Up /\ conn'.state = "shutdown" /\ ~Outstanding
         /\ LossEpoch(conn')
         /\ hand' \in [Sockets -> Handlers]
         /\ \A r \in Sockets \ {s} : hand'[r] = hand[r]
         /\ hand'[s] \in {NoHandler, [NoHandler EXCEPT !.at = "propagate"]}
         /\ up' \in [Sockets -> Seq(UpFrames)]
         /\ \A r \in Sockets \ {s} : up'[r] = up[r]
         /\ up'[s] = << >>
<1>1. /\ conn' = Transitioned(s, to) /\ LossEpoch(conn')
      /\ hand' = [hand EXCEPT ![s] =
                    IF conn.owner = s /\ conn'.state = "lost"
                    THEN [NoHandler EXCEPT !.at = "propagate"] ELSE NoHandler]
      /\ up' = [up EXCEPT ![s] = <<>>]
  BY DEF EndHandler
<1>2. conn \in Connections /\ hand \in [Sockets -> Handlers] /\ up \in [Sockets -> Seq(UpFrames)]
  BY DEF DaemonTypes, FrameTypes
<1>3. /\ conn' \in Connections /\ conn'.owner = conn.owner
      /\ \/ conn'.state = conn.state
         \/ conn.state \in Up /\ conn'.state = "lost"
         \/ conn.state \in Up /\ conn'.state = "shutdown" /\ ~Outstanding
  BY <1>1, <1>2 DEF Transitioned, Connections, Up
<1>4. /\ hand' \in [Sockets -> Handlers]
      /\ \A r \in Sockets \ {s} : hand'[r] = hand[r]
      /\ hand'[s] \in {NoHandler, [NoHandler EXCEPT !.at = "propagate"]}
  BY <1>1, <1>2, TypedValues
<1>5. << >> \in Seq(UpFrames)
  BY EmptySeq
<1>6. /\ up' \in [Sockets -> Seq(UpFrames)]
      /\ \A r \in Sockets \ {s} : up'[r] = up[r]
      /\ up'[s] = << >>
  BY <1>1, <1>2, <1>5
<1>7. QED
  BY <1>1, <1>3, <1>4, <1>6

(* A handler that closes leaves nothing behind.                            *)
LEMMA CloseHandlerDoes ==
  ASSUME DaemonTypes, FrameTypes, NEW s \in Sockets, CloseHandler(s)
  PROVE  /\ hand' \in [Sockets -> Handlers]
         /\ \A r \in Sockets \ {s} : hand'[r] = hand[r]
         /\ hand'[s] = NoHandler
         /\ up' \in [Sockets -> Seq(UpFrames)]
         /\ \A r \in Sockets \ {s} : up'[r] = up[r]
         /\ up'[s] = << >>
  BY TypedValues, EmptySeq DEF CloseHandler, DaemonTypes, FrameTypes

(* The loss of a connection settles what was outstanding on it.            *)
LEMMA PropagatedDoes ==
  ASSUME DaemonTypes, lease' = Propagated
  PROVE  /\ lease' \in [Leases -> LeaseRecords]
         /\ \A l \in Leases :
              IF lease[l].state \in Live /\ ~lease[l].intact
              THEN /\ lease'[l].state = LostState(lease[l].state)
                   /\ lease'[l].end = "none" /\ lease'[l].state \in Lost
              ELSE lease'[l] = lease[l]
<1>1. lease \in [Leases -> LeaseRecords]
  BY DEF DaemonTypes
<1>2. \A l \in Leases : LostState(lease[l].state) \in Lost
  BY DEF LostState, Lost
<1>3. \A l \in Leases : /\ Settled(LostState(lease[l].state), "none") \in LeaseRecords
                        /\ Settled(LostState(lease[l].state), "none").state = LostState(lease[l].state)
                        /\ Settled(LostState(lease[l].state), "none").end = "none"
  BY <1>2, SettledFields DEF Final
<1>4. QED
  BY <1>1, <1>2, <1>3 DEF Propagated

(* What a resumed inventory records: evidence of a lease that is held, or  *)
(* evidence that is recorded already.                                      *)
LEMMA RecordedDoes ==
  ASSUME DaemonTypes, NEW inv \in Inventories, lease' = Recorded(inv)
  PROVE  /\ lease' \in [Leases -> LeaseRecords]
         /\ \A l \in Leases : l # inv.lease => lease'[l] = lease[l]
         /\ inv # Empty => inv.lease \in Leases /\ inv.phase # "none"
         /\ IF inv # Empty /\ Records(inv)
            THEN /\ lease'[inv.lease].state = IF inv.phase = "refused" THEN "refused" ELSE "completed"
                 /\ lease'[inv.lease].end = inv.end
                 /\ IF inv.phase = "refused"
                    THEN /\ inv.end = "none"
                         /\ lease[inv.lease].state \in {"offered", "refused", "lost_unclaimed"}
                    ELSE /\ inv.end # "none"
                         /\ \/ lease[inv.lease].state = "claimed"
                            \/ lease[inv.lease].state = "completed" /\ lease[inv.lease].end = inv.end
            ELSE lease' = lease
<1>1. lease \in [Leases -> LeaseRecords]
  BY DEF DaemonTypes
<1>2. /\ inv.lease \in Leases \cup {None} /\ inv.phase \in Phases /\ inv.end \in Ends \cup {"none"}
      /\ inv.phase = "none" => inv = Empty
      /\ inv.phase # "none" => inv.lease # None
      /\ inv.end # "none" => inv.phase = "may_have_started"
  BY DEF Inventories
<1>3. inv # Empty => inv.lease \in Leases /\ inv.phase # "none"
  BY <1>2
<1>4. CASE inv # Empty /\ Records(inv)
  <2> DEFINE st == IF inv.phase = "refused" THEN "refused" ELSE "completed"
  <2>1. /\ Settled(st, inv.end) \in LeaseRecords
        /\ Settled(st, inv.end).state = st /\ Settled(st, inv.end).end = inv.end
    BY <1>2, SettledFields DEF Final
  <2>2. lease' = [lease EXCEPT ![inv.lease] = Settled(st, inv.end)]
    BY <1>4 DEF Recorded
  <2>3. IF inv.phase = "refused"
        THEN /\ inv.end = "none"
             /\ lease[inv.lease].state \in {"offered", "refused", "lost_unclaimed"}
        ELSE /\ inv.end # "none"
             /\ \/ lease[inv.lease].state = "claimed"
                \/ lease[inv.lease].state = "completed" /\ lease[inv.lease].end = inv.end
    BY <1>2, <1>4 DEF Records, Of
  <2> HIDE DEF st
  <2>4. lease' \in [Leases -> LeaseRecords] /\ lease'[inv.lease] = Settled(st, inv.end)
        /\ \A l \in Leases : l # inv.lease => lease'[l] = lease[l]
    BY <1>1, <1>3, <1>4, <2>1, <2>2
  <2>5. QED
    BY <1>3, <1>4, <2>1, <2>3, <2>4 DEF st
<1>5. CASE ~(inv # Empty /\ Records(inv))
  BY <1>1, <1>3, <1>5 DEF Recorded
<1>6. QED
  BY <1>4, <1>5

(* The answer to a resumption, by the state it finds.                      *)
LEMMA OutcomeMeans ==
  ASSUME DaemonTypes, NEW inv \in Inventories
  PROVE  /\ Outcome(inv) \in {"invalid", "lose", "empty", "recorded", "await", "lost"}
         /\ Outcome(inv) \in {"empty", "recorded", "await", "lost"} => ~Omits(inv)
         /\ Outcome(inv) = "empty" => inv = Empty
         /\ Outcome(inv) \in {"recorded", "await", "lost"} =>
              inv # Empty /\ inv.lease \in Leases
         /\ Outcome(inv) = "recorded" => Records(inv)
         /\ Outcome(inv) \in {"empty", "await", "lost"} => inv = Empty \/ ~Records(inv)
         /\ Outcome(inv) = "await" =>
              /\ lease[inv.lease].state = "claimed" /\ lease[inv.lease].intact
              /\ conn.state \in Up /\ inv.phase \in {"waiting", "received"}
         /\ Outcome(inv) = "lost" => lease[inv.lease].state \in Lost
<1>1. inv # Empty => inv.lease \in Leases
  BY DEF Inventories
<1>2. QED
  BY <1>1 DEF Outcome, Awaits, Held, Of

(* An offer is made: the lease is outstanding, under the newest epoch.     *)
LEMMA OfferDoes ==
  ASSUME DaemonTypes, NEW l \in Leases, Offer(l)
  PROVE  /\ DaemonTypes'
         /\ lease'[l].state = "offered" /\ lease'[l].fresh /\ lease'[l].intact
         /\ lease'[l].end = "none"
         /\ \A m \in Leases \ {l} : lease'[m] = lease[m]
         /\ permit' = l
         /\ UNCHANGED <<conn, pending, boot, hand, up, down, runner, faults>>
<1> DEFINE made == [NoLease EXCEPT !.state = "offered", !.fresh = TRUE, !.intact = TRUE]
<1>1. /\ made \in LeaseRecords /\ made.state = "offered" /\ made.fresh /\ made.intact
      /\ made.end = "none"
  BY DEF NoLease, LeaseRecords, Live
<1>2. /\ lease' = [lease EXCEPT ![l] = made] /\ permit' = l
      /\ UNCHANGED <<conn, pending, boot, hand, up, down, runner, faults>>
  BY DEF Offer
<1> HIDE DEF made
<1>3. lease' \in [Leases -> LeaseRecords] /\ lease'[l] = made
      /\ \A m \in Leases \ {l} : lease'[m] = lease[m]
  BY <1>1, <1>2 DEF DaemonTypes
<1>4. DaemonTypes'
  BY <1>2, <1>3 DEF DaemonTypes
<1>5. QED
  BY <1>1, <1>2, <1>3, <1>4

(* The first reconciliation, or the second.                                *)
LEMMA ReconcileDoes ==
  ASSUME DaemonTypes, NEW s \in Sockets, Reconcile(s)
  PROVE  LET inv == hand[s].inv
         IN  /\ DaemonTypes' /\ inv \in Inventories
             /\ lease' = Recorded(inv)
             /\ \A r \in Sockets \ {s} : hand'[r] = hand[r]
             /\ \/ hand'[s] = NoHandler
                \/ /\ hand'[s].inv = inv /\ hand'[s].busy = hand[s].busy
                   /\ \/ hand'[s].at = "lose" /\ hand[s].at = "hello"
                      \/ /\ hand'[s].at = "open" /\ hand'[s].out = Outcome(inv)
                         /\ Outcome(inv) \in {"empty", "recorded", "await", "lost"}
             /\ UNCHANGED <<conn, pending, boot, permit, up, down, runner, faults>>
<1> DEFINE inv == hand[s].inv
           out == Outcome(inv)
           next == [hand[s] EXCEPT !.at = IF out = "lose" THEN "lose" ELSE "open", !.out = out]
<1>1. hand \in [Sockets -> Handlers] /\ hand[s] \in Handlers /\ inv \in Inventories
  BY DEF DaemonTypes, Handlers
<1>2. out \in {"invalid", "lose", "empty", "recorded", "await", "lost"}
  BY <1>1, OutcomeMeans
<1>3. /\ lease' = Recorded(inv)
      /\ hand' = [hand EXCEPT ![s] =
                    IF out = "invalid" \/ (out = "lose" /\ hand[s].at = "again")
                    THEN NoHandler ELSE next]
      /\ hand[s].at \in {"hello", "again"}
      /\ UNCHANGED <<conn, pending, boot, permit, up, down, runner, faults>>
  BY <1>1 DEF Reconcile
<1>4. lease' \in [Leases -> LeaseRecords]
  BY <1>1, <1>3, RecordedDoes
<1> HIDE DEF out
<1>5. out # "invalid" => /\ next \in Handlers /\ next.inv = inv /\ next.busy = hand[s].busy
                         /\ next.out = out
                         /\ next.at = IF out = "lose" THEN "lose" ELSE "open"
  BY <1>1, <1>2 DEF Handlers, Resuming
<1> HIDE DEF next, inv
<1>6. /\ hand' \in [Sockets -> Handlers]
      /\ \A r \in Sockets \ {s} : hand'[r] = hand[r]
      /\ hand'[s] = IF out = "invalid" \/ (out = "lose" /\ hand[s].at = "again")
                    THEN NoHandler ELSE next
  BY <1>1, <1>3, <1>5, TypedValues
<1>7. DaemonTypes'
  BY <1>3, <1>4, <1>6 DEF DaemonTypes
<1>8. \/ hand'[s] = NoHandler
      \/ /\ hand'[s].inv = inv /\ hand'[s].busy = hand[s].busy
         /\ \/ hand'[s].at = "lose" /\ hand[s].at = "hello"
            \/ /\ hand'[s].at = "open" /\ hand'[s].out = out
               /\ out \in {"empty", "recorded", "await", "lost"}
  BY <1>2, <1>3, <1>5, <1>6
<1>9. QED
  BY <1>1, <1>3, <1>6, <1>7, <1>8 DEF inv, out

(* The newest connection is lost for a resumption.                         *)
LEMMA ResolveLossDoes ==
  ASSUME DaemonTypes, NEW s \in Sockets, ResolveLoss(s)
  PROVE  /\ DaemonTypes' /\ LossEpoch(conn') /\ conn'.owner = conn.owner
         /\ hand[s].at = "lose"
         /\ conn'.state = conn.state \/ (conn.state \in Up /\ conn'.state = "lost")
         /\ \A r \in Sockets \ {s} : hand'[r] = hand[r]
         /\ \/ hand'[s] = NoHandler
            \/ /\ hand'[s].at = "resolve" /\ hand'[s].inv = hand[s].inv
               /\ hand'[s].busy = hand[s].busy
         /\ UNCHANGED <<boot, permit, up, down, runner, faults>>
<1> DEFINE next == [hand[s] EXCEPT !.at = "resolve"]
<1>1. conn \in Connections /\ hand \in [Sockets -> Handlers] /\ hand[s] \in Handlers
  BY DEF DaemonTypes
<1>2. /\ conn' = IF conn.state \in Up THEN [conn EXCEPT !.state = "lost"] ELSE conn
      /\ LossEpoch(conn') /\ hand[s].at = "lose"
      /\ hand' = [hand EXCEPT ![s] = IF conn'.state = "lost" THEN next ELSE NoHandler]
      /\ UNCHANGED <<boot, permit, up, down, runner, faults>>
  BY DEF ResolveLoss
<1>3. /\ conn' \in Connections /\ conn'.owner = conn.owner
      /\ conn'.state = conn.state \/ (conn.state \in Up /\ conn'.state = "lost")
  <2>1. CASE conn.state \in Up
    <3>1. conn' = [conn EXCEPT !.state = "lost"]
      BY <1>2, <2>1
    <3>2. QED
      BY <1>1, <2>1, <3>1 DEF Connections
  <2>2. CASE conn.state \notin Up
    <3>1. conn' = conn
      BY <1>2, <2>2, Zenon
    <3>2. QED
      BY <1>1, <3>1
  <2>3. QED
    BY <2>1, <2>2
<1>4. /\ next \in Handlers /\ next.at = "resolve" /\ next.inv = hand[s].inv
      /\ next.busy = hand[s].busy
  BY <1>1 DEF Handlers, Resuming
<1> HIDE DEF next
<1>5. /\ hand' \in [Sockets -> Handlers] /\ \A r \in Sockets \ {s} : hand'[r] = hand[r]
      /\ hand'[s] \in {next, NoHandler}
  BY <1>1, <1>2, <1>4, TypedValues
<1>6. lease' \in [Leases -> LeaseRecords] /\ pending' \in BOOLEAN
  BY <1>2, LossDoes
<1>7. DaemonTypes'
  BY <1>2, <1>3, <1>5, <1>6 DEF DaemonTypes
<1>8. QED
  BY <1>2, <1>3, <1>4, <1>5, <1>7

(* A handler that has just been admitted.                                  *)
LEMMA ServingDoes ==
  ASSUME NEW s, NEW out, out = "await" => hand[s].inv.lease \in Leases
  PROVE  /\ Serving(s, out) \in Handlers /\ Serving(s, out).at = "serving"
         /\ Serving(s, out).inv = Empty
         /\ Serving(s, out).busy = IF out = "await" THEN hand[s].inv.lease ELSE None
  BY TypedValues DEF Serving, Handlers, NoHandler

(* A new epoch fences every earlier offer.                                 *)
LEMMA OpenConnectionDoes ==
  ASSUME DaemonTypes, FrameTypes, NEW s \in Sockets, OpenConnection(s)
  PROVE  /\ DaemonTypes' /\ hand[s].at = "open"
         /\ conn'.state = "connected" /\ conn'.owner = s
         /\ \A l \in Leases :
              /\ lease'[l].state = lease[l].state /\ lease'[l].end = lease[l].end
              /\ lease'[l].intact = lease[l].intact /\ ~lease'[l].fresh
         /\ boot'.at = boot.at /\ boot'.captured = FALSE
         /\ \A r \in Sockets \ {s} : hand'[r] = hand[r]
         /\ IF hand[s].out = "await"
            THEN /\ hand'[s].at = "reread" /\ hand'[s].inv = hand[s].inv
                 /\ hand'[s].out = hand[s].out /\ hand'[s].busy = hand[s].busy
                 /\ down' = down
            ELSE /\ hand'[s].at = "serving" /\ hand'[s].inv = Empty /\ hand'[s].busy = None
                 /\ ToRunner(s, <<Frame("resumed", hand[s].inv.lease, hand[s].out)>>)
         /\ UNCHANGED <<pending, permit, up, runner, faults>>
<1>1. /\ hand \in [Sockets -> Handlers] /\ hand[s] \in Handlers
      /\ lease \in [Leases -> LeaseRecords]
      /\ boot \in [at : {"no", "reconcile", "finish"}, captured : BOOLEAN]
  BY DEF DaemonTypes
<1>2. /\ conn' = [state |-> "connected", owner |-> s] /\ hand[s].at = "open"
      /\ lease' = [l \in Leases |-> [lease[l] EXCEPT !.fresh = FALSE]]
      /\ boot' = [boot EXCEPT !.captured = FALSE]
      /\ UNCHANGED <<pending, permit, up, runner, faults>>
  BY DEF OpenConnection
<1>3. conn' \in Connections /\ conn'.state = "connected" /\ conn'.owner = s
  BY <1>2 DEF Connections, Up
<1>4. \A l \in Leases : /\ [lease[l] EXCEPT !.fresh = FALSE] \in LeaseRecords
                        /\ [lease[l] EXCEPT !.fresh = FALSE].state = lease[l].state
                        /\ [lease[l] EXCEPT !.fresh = FALSE].end = lease[l].end
                        /\ [lease[l] EXCEPT !.fresh = FALSE].intact = lease[l].intact
                        /\ [lease[l] EXCEPT !.fresh = FALSE].fresh = FALSE
  BY <1>1 DEF LeaseRecords
<1>5. /\ lease' \in [Leases -> LeaseRecords]
      /\ \A l \in Leases :
           /\ lease'[l].state = lease[l].state /\ lease'[l].end = lease[l].end
           /\ lease'[l].intact = lease[l].intact /\ ~lease'[l].fresh
  BY <1>2, <1>4
<1>6. /\ boot' \in [at : {"no", "reconcile", "finish"}, captured : BOOLEAN]
      /\ boot'.at = boot.at /\ boot'.captured = FALSE
  BY <1>1, <1>2
<1>7. /\ hand' \in [Sockets -> Handlers]
      /\ \A r \in Sockets \ {s} : hand'[r] = hand[r]
      /\ IF hand[s].out = "await"
         THEN /\ hand'[s].at = "reread" /\ hand'[s].inv = hand[s].inv
              /\ hand'[s].out = hand[s].out /\ hand'[s].busy = hand[s].busy
              /\ down' = down
         ELSE /\ hand'[s].at = "serving" /\ hand'[s].inv = Empty /\ hand'[s].busy = None
              /\ ToRunner(s, <<Frame("resumed", hand[s].inv.lease, hand[s].out)>>)
  <2>1. CASE hand[s].out = "await"
    <3> DEFINE next == [hand[s] EXCEPT !.at = "reread"]
    <3>1. hand' = [hand EXCEPT ![s] = next] /\ down' = down
      BY <2>1, <1>1 DEF OpenConnection
    <3>2. /\ next \in Handlers /\ next.at = "reread" /\ next.inv = hand[s].inv
          /\ next.out = hand[s].out /\ next.busy = hand[s].busy
      BY <1>1 DEF Handlers, Resuming
    <3> HIDE DEF next
    <3>3. QED
      BY <1>1, <2>1, <3>1, <3>2
  <2>2. CASE hand[s].out # "await"
    <3>1. /\ hand' = [hand EXCEPT ![s] = Serving(s, hand[s].out)]
          /\ ToRunner(s, <<Frame("resumed", hand[s].inv.lease, hand[s].out)>>)
      BY <2>2 DEF OpenConnection
    <3>2. QED
      BY <1>1, <2>2, <3>1, ServingDoes
  <2>3. QED
    BY <2>1, <2>2
<1>8. DaemonTypes'
  BY <1>2, <1>3, <1>5, <1>6, <1>7 DEF DaemonTypes
<1>9. QED
  BY <1>2, <1>3, <1>5, <1>6, <1>7, <1>8

(* The second read of an awaited lease.                                    *)
LEMMA RereadDoes ==
  ASSUME DaemonTypes, FrameTypes, NEW s \in Sockets, Reread(s)
  PROVE  /\ hand[s].at = "reread"
         /\ \/ /\ Outcome(hand[s].inv) \in {"await", "lost"} /\ DaemonTypes'
               /\ \A r \in Sockets \ {s} : hand'[r] = hand[r]
               /\ hand'[s].at = "serving" /\ hand'[s].inv = Empty
               /\ hand'[s].busy = IF Outcome(hand[s].inv) = "await" THEN hand[s].inv.lease ELSE None
               /\ ToRunner(s, <<Frame("resumed", hand[s].inv.lease, Outcome(hand[s].inv))>>)
               /\ UNCHANGED <<durable, up>>
            \/ EndHandler(s, "lost") /\ UNCHANGED down
            \/ CloseHandler(s) /\ UNCHANGED <<durable, down>>
         /\ UNCHANGED <<boot, permit, runner, faults>>
<1>1. hand \in [Sockets -> Handlers] /\ hand[s] \in Handlers /\ hand[s].inv \in Inventories
  BY DEF DaemonTypes, Handlers
<1> DEFINE out == Outcome(hand[s].inv)
<1>2. out = "await" => hand[s].inv.lease \in Leases
  BY <1>1, OutcomeMeans
<1> HIDE DEF out
<1>3. /\ hand[s].at = "reread"
      /\ \/ /\ out \in {"await", "lost"}
            /\ hand' = [hand EXCEPT ![s] = Serving(s, out)]
            /\ ToRunner(s, <<Frame("resumed", hand[s].inv.lease, out)>>)
            /\ UNCHANGED <<durable, up>>
         \/ EndHandler(s, "lost") /\ UNCHANGED down
         \/ CloseHandler(s) /\ UNCHANGED <<durable, down>>
      /\ UNCHANGED <<boot, permit, runner, faults>>
  BY DEF Reread, out
<1>4. CASE /\ out \in {"await", "lost"}
           /\ hand' = [hand EXCEPT ![s] = Serving(s, out)]
           /\ ToRunner(s, <<Frame("resumed", hand[s].inv.lease, out)>>)
           /\ UNCHANGED <<durable, up>>
  <2>1. /\ hand' \in [Sockets -> Handlers] /\ \A r \in Sockets \ {s} : hand'[r] = hand[r]
        /\ hand'[s].at = "serving" /\ hand'[s].inv = Empty
        /\ hand'[s].busy = IF out = "await" THEN hand[s].inv.lease ELSE None
    BY <1>1, <1>2, <1>4, ServingDoes
  <2>2. DaemonTypes'
    BY <1>3, <1>4, <2>1 DEF DaemonTypes, durable
  <2>3. QED
    BY <1>3, <1>4, <2>1, <2>2 DEF out
<1>5. QED
  BY <1>3, <1>4

(* An offer is sent, and keeps the handler busy.                           *)
LEMMA SendOfferDoes ==
  ASSUME DaemonTypes, FrameTypes, NEW s \in Sockets, SendOffer(s)
  PROVE  /\ DaemonTypes' /\ hand[s].at = "serving" /\ hand[s].busy = None /\ conn.owner = s
         /\ \A r \in Sockets \ {s} : hand'[r] = hand[r]
         /\ hand'[s].at = "serving" /\ hand'[s].inv = hand[s].inv
         /\ \E l \in Leases :
              /\ lease[l].state = "offered" /\ lease[l].fresh
              /\ hand'[s].busy = l
              /\ ToRunner(s, <<Frame("offer", l, "none")>>)
         /\ UNCHANGED <<durable, boot, permit, up, runner, faults>>
<1>1. hand \in [Sockets -> Handlers] /\ hand[s] \in Handlers
  BY DEF DaemonTypes
<1>2. PICK l \in Leases :
        /\ hand[s].at = "serving" /\ hand[s].busy = None
        /\ conn.owner = s /\ lease[l].state = "offered" /\ lease[l].fresh
        /\ hand' = [hand EXCEPT ![s].busy = l]
        /\ ToRunner(s, <<Frame("offer", l, "none")>>)
        /\ UNCHANGED <<durable, boot, permit, up, runner, faults>>
  BY DEF SendOffer
<1> DEFINE next == [hand[s] EXCEPT !.busy = l]
<1>3. /\ next \in Handlers /\ next.at = hand[s].at /\ next.inv = hand[s].inv /\ next.busy = l
  BY <1>1 DEF Handlers
<1>4. hand' = [hand EXCEPT ![s] = next]
  BY <1>1, <1>2
<1> HIDE DEF next
<1>5. /\ hand' \in [Sockets -> Handlers] /\ \A r \in Sockets \ {s} : hand'[r] = hand[r]
      /\ hand'[s] = next
  BY <1>1, <1>3, <1>4
<1>6. DaemonTypes'
  BY <1>2, <1>5 DEF DaemonTypes, durable
<1>7. QED
  BY <1>2, <1>3, <1>5, <1>6

(* The frame that a handler reads.                                         *)
LEMMA TakenDoes ==
  ASSUME FrameTypes, NEW s \in Sockets, up[s] # << >>, Taken(s)
  PROVE  /\ up' \in [Sockets -> Seq(UpFrames)]
         /\ \A r \in Sockets \ {s} : up'[r] = up[r]
         /\ up'[s] = Tail(up[s])
<1>1. Tail(up[s]) \in Seq(UpFrames)
  BY HeadTailProperties DEF FrameTypes
<1>2. QED
  BY <1>1 DEF FrameTypes, Taken

(* A claim is recorded and answered, or ends the connection.               *)
LEMMA TakeClaimDoes ==
  ASSUME DaemonTypes, FrameTypes, NEW s \in Sockets, up[s] # << >>, TakeClaim(s, Head(up[s]))
  PROVE  LET l == Head(up[s]).lease
         IN  /\ hand[s].at = "serving" /\ Head(up[s]).kind = "claim" /\ l \in Leases
             /\ \/ /\ DaemonTypes' /\ ValidConnection(s, l) /\ lease[l].state \in Live
                   /\ lease'[l].state = "claimed" /\ lease'[l].fresh = lease[l].fresh
                   /\ lease'[l].intact = lease[l].intact /\ lease'[l].end = lease[l].end
                   /\ \A m \in Leases \ {l} : lease'[m] = lease[m]
                   /\ ToRunner(s, <<Frame("claimed", l, "none"), Frame("dispatch", l, "none")>>)
                   /\ Taken(s)
                   /\ UNCHANGED <<conn, pending, hand>>
                \/ EndHandler(s, "lost") /\ UNCHANGED down
             /\ UNCHANGED <<boot, permit, runner, faults>>
<1> DEFINE f == Head(up[s])
           l == f.lease
<1>1. f \in UpFrames /\ hand[s].at = "serving" /\ f.kind = "claim"
  BY HeadTailProperties DEF FrameTypes, TakeClaim, Reads
<1>2. l \in Leases
  BY <1>1, UpFrameFields
<1>3. lease \in [Leases -> LeaseRecords] /\ lease[l] \in LeaseRecords
  BY <1>2 DEF DaemonTypes
<1>4. CASE EndHandler(s, "lost") /\ UNCHANGED down /\ UNCHANGED <<boot, permit, runner, faults>>
  BY <1>1, <1>2, <1>4
<1>5. CASE /\ Claims(s, l)
           /\ lease' = [lease EXCEPT ![l].state = "claimed"]
           /\ ToRunner(s, <<Frame("claimed", l, "none"), Frame("dispatch", l, "none")>>)
           /\ Taken(s)
           /\ UNCHANGED <<conn, pending, hand>>
           /\ UNCHANGED <<boot, permit, runner, faults>>
  <2> DEFINE next == [lease[l] EXCEPT !.state = "claimed"]
  <2>1. /\ next \in LeaseRecords /\ next.state = "claimed" /\ next.fresh = lease[l].fresh
        /\ next.intact = lease[l].intact /\ next.end = lease[l].end
    BY <1>3 DEF LeaseRecords, Live
  <2>2. lease' = [lease EXCEPT ![l] = next]
    BY <1>2, <1>3, <1>5
  <2> HIDE DEF next, l, f
  <2>3. /\ lease' \in [Leases -> LeaseRecords] /\ lease'[l] = next
        /\ \A m \in Leases \ {l} : lease'[m] = lease[m]
    BY <1>2, <1>3, <2>1, <2>2
  <2>4. DaemonTypes'
    BY <1>5, <2>3 DEF DaemonTypes
  <2>5. ValidConnection(s, l) /\ lease[l].state \in Live
    BY <1>5 DEF Claims, Live
  <2>6. QED
    BY <1>1, <1>2, <1>5, <2>1, <2>3, <2>4, <2>5 DEF f, l
<1>6. QED
  BY <1>4, <1>5 DEF TakeClaim

(* A result is recorded and acknowledged, or ends the connection.          *)
LEMMA TakeResultDoes ==
  ASSUME DaemonTypes, FrameTypes, NEW s \in Sockets, up[s] # << >>, TakeResult(s, Head(up[s]))
  PROVE  LET f == Head(up[s])
             l == f.lease
         IN  /\ hand[s].at = "serving" /\ f.kind = "result" /\ l \in Leases /\ f.end \in Ends
             /\ \/ /\ DaemonTypes'
                   /\ \/ lease[l].state = "completed" /\ lease[l].end = f.end
                      \/ lease[l].state = "claimed"
                   /\ lease'[l].state = "completed" /\ lease'[l].end = f.end
                   /\ \A m \in Leases \ {l} : lease'[m] = lease[m]
                   /\ \A r \in Sockets \ {s} : hand'[r] = hand[r]
                   /\ hand'[s].at = "serving" /\ hand'[s].inv = hand[s].inv
                   /\ hand'[s].busy = IF hand[s].busy = l THEN None ELSE hand[s].busy
                   /\ ToRunner(s, <<Frame("recorded", l, "none")>>)
                   /\ Taken(s)
                   /\ UNCHANGED <<conn, pending>>
                \/ EndHandler(s, "lost") /\ UNCHANGED down
             /\ UNCHANGED <<boot, permit, runner, faults>>
<1> DEFINE f == Head(up[s])
           l == f.lease
<1>1. f \in UpFrames /\ hand[s].at = "serving" /\ f.kind = "result"
  BY HeadTailProperties DEF FrameTypes, TakeResult, Reads
<1>2. l \in Leases /\ f.end \in Ends
  BY <1>1, UpFrameFields
<1>3. /\ lease \in [Leases -> LeaseRecords]
      /\ hand \in [Sockets -> Handlers] /\ hand[s] \in Handlers
  BY <1>2 DEF DaemonTypes
<1>4. CASE EndHandler(s, "lost") /\ UNCHANGED down /\ UNCHANGED <<boot, permit, runner, faults>>
  BY <1>1, <1>2, <1>4
<1>5. CASE /\ Completes(s, f)
           /\ lease' = [lease EXCEPT ![l] = Settled("completed", f.end)]
           /\ hand' = [hand EXCEPT ![s].busy = IF @ = l THEN None ELSE @]
           /\ ToRunner(s, <<Frame("recorded", l, "none")>>)
           /\ Taken(s)
           /\ UNCHANGED <<conn, pending>>
           /\ UNCHANGED <<boot, permit, runner, faults>>
  <2> DEFINE next == [hand[s] EXCEPT !.busy = IF hand[s].busy = l THEN None ELSE hand[s].busy]
  <2>1. /\ next \in Handlers /\ next.at = hand[s].at /\ next.inv = hand[s].inv
        /\ next.busy = IF hand[s].busy = l THEN None ELSE hand[s].busy
    BY <1>3 DEF Handlers
  <2>2. hand' = [hand EXCEPT ![s] = next]
    BY <1>3, <1>5
  <2>3. \/ lease[l].state = "completed" /\ lease[l].end = f.end
        \/ lease[l].state = "claimed"
    BY <1>5 DEF Completes
  <2> HIDE DEF next, l, f
  <2>4. /\ Settled("completed", f.end) \in LeaseRecords
        /\ Settled("completed", f.end).state = "completed"
        /\ Settled("completed", f.end).end = f.end
    <3>1. "completed" \in Final /\ f.end \in Ends \cup {"none"}
      BY <1>2 DEF Final
    <3> QED BY <3>1, SettledFields, Zenon
  <2>5. /\ lease' \in [Leases -> LeaseRecords] /\ lease'[l] = Settled("completed", f.end)
        /\ \A m \in Leases \ {l} : lease'[m] = lease[m]
    BY <1>2, <1>3, <1>5, <2>4
  <2>6. /\ hand' \in [Sockets -> Handlers] /\ hand'[s] = next
        /\ \A r \in Sockets \ {s} : hand'[r] = hand[r]
    BY <1>3, <2>1, <2>2
  <2>7. DaemonTypes'
    BY <1>5, <2>5, <2>6 DEF DaemonTypes
  <2>8. QED
    BY <1>1, <1>2, <1>5, <2>1, <2>3, <2>4, <2>5, <2>6, <2>7 DEF f, l
<1>6. QED
  BY <1>4, <1>5 DEF TakeResult

(* A refusal is recorded and acknowledged, or closes the socket.           *)
LEMMA TakeRefusalDoes ==
  ASSUME DaemonTypes, FrameTypes, NEW s \in Sockets, up[s] # << >>, TakeRefusal(s, Head(up[s]))
  PROVE  LET f == Head(up[s])
             l == f.lease
         IN  /\ hand[s].at = "serving" /\ f.kind = "refusal" /\ l \in Leases
             /\ \/ /\ DaemonTypes' /\ lease[l].state \in {"offered", "refused"}
                   /\ lease'[l].state = "refused" /\ lease'[l].end = "none"
                   /\ \A m \in Leases \ {l} : lease'[m] = lease[m]
                   /\ \A r \in Sockets \ {s} : hand'[r] = hand[r]
                   /\ hand'[s].at = "serving" /\ hand'[s].inv = hand[s].inv
                   /\ hand'[s].busy = IF hand[s].busy = l THEN None ELSE hand[s].busy
                   /\ ToRunner(s, <<Frame("refusal_recorded", l, "none")>>)
                   /\ Taken(s)
                \/ CloseHandler(s) /\ UNCHANGED <<lease, down>>
             /\ UNCHANGED <<conn, pending, boot, permit, runner, faults>>
<1> DEFINE f == Head(up[s])
           l == f.lease
<1>1. f \in UpFrames /\ hand[s].at = "serving" /\ f.kind = "refusal"
  BY HeadTailProperties DEF FrameTypes, TakeRefusal, Reads
<1>2. l \in Leases
  BY <1>1, UpFrameFields
<1>3. /\ lease \in [Leases -> LeaseRecords]
      /\ hand \in [Sockets -> Handlers] /\ hand[s] \in Handlers
  BY <1>2 DEF DaemonTypes
<1>4. CASE /\ CloseHandler(s) /\ UNCHANGED <<lease, down>>
           /\ UNCHANGED <<conn, pending, boot, permit, runner, faults>>
  BY <1>1, <1>2, <1>4
<1>5. CASE /\ lease[l].state \in {"offered", "refused"}
           /\ lease' = [lease EXCEPT ![l] = Settled("refused", "none")]
           /\ hand' = [hand EXCEPT ![s].busy = IF @ = l THEN None ELSE @]
           /\ ToRunner(s, <<Frame("refusal_recorded", l, "none")>>)
           /\ Taken(s)
           /\ UNCHANGED <<conn, pending, boot, permit, runner, faults>>
  <2> DEFINE next == [hand[s] EXCEPT !.busy = IF hand[s].busy = l THEN None ELSE hand[s].busy]
  <2>1. /\ next \in Handlers /\ next.at = hand[s].at /\ next.inv = hand[s].inv
        /\ next.busy = IF hand[s].busy = l THEN None ELSE hand[s].busy
    BY <1>3 DEF Handlers
  <2>2. hand' = [hand EXCEPT ![s] = next]
    BY <1>3, <1>5
  <2> HIDE DEF next, l, f
  <2>4. /\ Settled("refused", "none") \in LeaseRecords
        /\ Settled("refused", "none").state = "refused"
        /\ Settled("refused", "none").end = "none"
    BY SettledFields DEF Final
  <2>5. /\ lease' \in [Leases -> LeaseRecords] /\ lease'[l] = Settled("refused", "none")
        /\ \A m \in Leases \ {l} : lease'[m] = lease[m]
    BY <1>2, <1>3, <1>5, <2>4
  <2>6. /\ hand' \in [Sockets -> Handlers] /\ hand'[s] = next
        /\ \A r \in Sockets \ {s} : hand'[r] = hand[r]
    BY <1>3, <2>1, <2>2
  <2>7. DaemonTypes'
    BY <1>5, <2>5, <2>6 DEF DaemonTypes
  <2>8. QED
    BY <1>1, <1>2, <1>5, <2>1, <2>4, <2>5, <2>6, <2>7 DEF f, l
<1>6. QED
  BY <1>4, <1>5 DEF TakeRefusal

(* A loss is propagated by the handler that recorded it.                   *)
LEMMA PropagateDoes ==
  ASSUME DaemonTypes, NEW s \in Sockets, Propagate(s)
  PROVE  /\ DaemonTypes' /\ lease' = Propagated /\ pending' = FALSE
         /\ \A r \in Sockets \ {s} : hand'[r] = hand[r]
         /\ \/ hand'[s] = NoHandler
            \/ /\ hand[s].at = "resolve" /\ hand'[s].at = "again"
               /\ hand'[s].inv = hand[s].inv /\ hand'[s].busy = hand[s].busy
         /\ UNCHANGED <<conn, boot, permit, up, down, runner, faults>>
<1> DEFINE next == [hand[s] EXCEPT !.at = "again"]
<1>1. hand \in [Sockets -> Handlers] /\ hand[s] \in Handlers
  BY DEF DaemonTypes
<1>2. /\ lease' = Propagated /\ pending' = FALSE
      /\ hand' = [hand EXCEPT ![s] = IF hand[s].at = "resolve" THEN next ELSE NoHandler]
      /\ UNCHANGED <<conn, boot, permit, up, down, runner, faults>>
  BY <1>1 DEF Propagate
<1>3. /\ next \in Handlers /\ next.at = "again" /\ next.inv = hand[s].inv
      /\ next.busy = hand[s].busy
  BY <1>1 DEF Handlers, Resuming
<1> HIDE DEF next
<1>4. /\ hand' \in [Sockets -> Handlers] /\ \A r \in Sockets \ {s} : hand'[r] = hand[r]
      /\ hand'[s] = IF hand[s].at = "resolve" THEN next ELSE NoHandler
  BY <1>1, <1>2, <1>3, TypedValues
<1>5. lease' \in [Leases -> LeaseRecords]
  BY <1>2, PropagatedDoes
<1>6. DaemonTypes'
  BY <1>2, <1>4, <1>5 DEF DaemonTypes
<1>7. QED
  BY <1>2, <1>3, <1>4, <1>6

(* Startup closes the connections of the process before.                   *)
LEMMA BootSettledDoes ==
  ASSUME DaemonTypes, BootSettled
  PROVE  /\ DaemonTypes' /\ LossEpoch(conn') /\ conn'.owner = conn.owner
         /\ boot.at = "reconcile" /\ boot'.at = "finish"
         /\ IF boot.captured /\ conn.state \in Up THEN conn'.state = "lost" ELSE conn' = conn
         /\ UNCHANGED <<permit, hand, up, down, runner, faults>>
<1>1. conn \in Connections
  BY DEF DaemonTypes
<1>2. /\ conn' = IF boot.captured /\ conn.state \in Up
                 THEN [conn EXCEPT !.state = "lost"] ELSE conn
      /\ LossEpoch(conn') /\ boot.at = "reconcile"
      /\ boot' = [at |-> "finish", captured |-> FALSE]
      /\ UNCHANGED <<permit, hand, up, down, runner, faults>>
  BY DEF BootSettled
<1>3. /\ conn' \in Connections /\ conn'.owner = conn.owner
      /\ IF boot.captured /\ conn.state \in Up THEN conn'.state = "lost" ELSE conn' = conn
  <2>1. CASE boot.captured /\ conn.state \in Up
    <3>1. conn' = [conn EXCEPT !.state = "lost"]
      BY <1>2, <2>1
    <3>2. QED
      BY <1>1, <2>1, <3>1 DEF Connections
  <2>2. CASE ~(boot.captured /\ conn.state \in Up)
    BY <1>1, <1>2, <2>2
  <2>3. QED
    BY <2>1, <2>2
<1>4. lease' \in [Leases -> LeaseRecords] /\ pending' \in BOOLEAN
  BY <1>2, LossDoes
<1>5. DaemonTypes'
  BY <1>2, <1>3, <1>4 DEF DaemonTypes
<1>6. QED
  BY <1>2, <1>3, <1>5

(* The daemon dies.                                                        *)
LEMMA DaemonCrashDoes ==
  ASSUME DaemonTypes, DaemonCrash
  PROVE  /\ DaemonTypes' /\ FrameTypes'
         /\ \A s \in Sockets : hand'[s] = NoHandler /\ up'[s] = << >> /\ down'[s] = << >>
         /\ permit' = None /\ conn'.owner = None /\ conn'.state = conn.state
         /\ boot'.at = "reconcile" /\ (boot'.captured <=> conn.state \in Up)
         /\ UNCHANGED <<lease, pending, runner>>
<1>1. conn \in Connections
  BY DEF DaemonTypes
<1>2. /\ hand' = [s \in Sockets |-> NoHandler]
      /\ up' = [s \in Sockets |-> <<>>] /\ down' = [s \in Sockets |-> <<>>]
      /\ permit' = None /\ conn' = [conn EXCEPT !.owner = None]
      /\ boot' = [at |-> "reconcile", captured |-> conn.state \in Up]
      /\ UNCHANGED <<lease, pending, runner>>
  BY DEF DaemonCrash
<1>3. conn' \in Connections /\ conn'.owner = None /\ conn'.state = conn.state
  BY <1>1, <1>2 DEF Connections
<1>4. /\ boot' \in [at : {"no", "reconcile", "finish"}, captured : BOOLEAN]
      /\ boot'.at = "reconcile" /\ (boot'.captured <=> conn.state \in Up)
  <2> DEFINE c == conn.state \in Up
  <2>1. c \in BOOLEAN /\ boot' = [at |-> "reconcile", captured |-> c]
    BY <1>2
  <2> HIDE DEF c
  <2>2. /\ boot' \in [at : {"no", "reconcile", "finish"}, captured : BOOLEAN]
        /\ boot'.at = "reconcile" /\ boot'.captured = c
    BY <2>1
  <2>3. QED
    BY <2>2 DEF c
<1>5. hand' \in [Sockets -> Handlers]
  BY <1>2, TypedValues
<1>6. DaemonTypes'
  BY <1>2, <1>3, <1>4, <1>5 DEF DaemonTypes
<1>7. FrameTypes'
  BY <1>2, EmptySeq DEF FrameTypes
<1>8. QED
  BY <1>2, <1>3, <1>4, <1>6, <1>7

(* The runner connects: the new handler has the journal as its inventory.  *)
LEMMA ConnectDoes ==
  ASSUME DaemonTypes, RunnerTypes, NEW s \in Sockets, Connect(s)
  PROVE  /\ DaemonTypes' /\ RunnerTypes'
         /\ run.sock = None /\ hand[s].at = "none"
         /\ \A r \in Sockets \ {s} : hand'[r] = hand[r]
         /\ hand'[s].at = "hello" /\ hand'[s].inv = journal /\ hand'[s].busy = None
         /\ conn'.state = conn.state
         /\ conn'.owner = IF conn.owner = s THEN None ELSE conn.owner
         /\ run' = [NoConnection EXCEPT !.sock = s, !.at = "hello"]
         /\ run'.sock = s /\ run'.at = "hello" /\ run'.offer = None /\ run'.resumed = None
         /\ run'.deferred = None /\ run'.exec = None /\ run'.last = None
         /\ UNCHANGED <<lease, pending, boot, permit, up, down, journal, started, produced,
                        faults>>
<1> DEFINE next == [NoHandler EXCEPT !.at = "hello", !.inv = journal]
<1>1. /\ hand \in [Sockets -> Handlers] /\ conn \in Connections
      /\ journal \in Inventories /\ run \in RunStates
  BY DEF DaemonTypes, RunnerTypes
<1>2. /\ run.at = "idle" /\ hand[s].at = "none"
      /\ run' = [NoConnection EXCEPT !.sock = s, !.at = "hello"]
      /\ hand' = [hand EXCEPT ![s] = next]
      /\ conn' = [conn EXCEPT !.owner = IF conn.owner = s THEN None ELSE conn.owner]
      /\ UNCHANGED <<lease, pending, boot, permit, up, down, journal, started, produced,
                     faults>>
  BY <1>1 DEF Connect, Connections
<1>3. /\ next \in Handlers /\ next.at = "hello" /\ next.inv = journal /\ next.busy = None
  BY <1>1, TypedValues DEF Handlers, NoHandler
<1> HIDE DEF next
<1>4. /\ hand' \in [Sockets -> Handlers] /\ hand'[s] = next
      /\ \A r \in Sockets \ {s} : hand'[r] = hand[r]
  BY <1>1, <1>2, <1>3
<1>5. /\ conn' \in Connections /\ conn'.state = conn.state
      /\ conn'.owner = IF conn.owner = s THEN None ELSE conn.owner
  BY <1>1, <1>2 DEF Connections
<1>6. /\ run' \in RunStates /\ run'.sock = s /\ run'.at = "hello" /\ run'.offer = None
      /\ run'.resumed = None /\ run'.deferred = None /\ run'.exec = None /\ run'.last = None
  BY <1>2, NoConnectionTyped DEF RunStates
<1>7. DaemonTypes'
  BY <1>2, <1>4, <1>5 DEF DaemonTypes
<1>8. s # None
  BY RunnerAssumption DEF RunnerAssumption, None
<1>9. RunnerTypes'
  BY <1>1, <1>2, <1>6, <1>8 DEF RunnerTypes
<1>10. run.sock = None
  BY <1>2 DEF RunnerTypes
<1>11. QED
  BY <1>2, <1>3, <1>4, <1>5, <1>6, <1>7, <1>9, <1>10

(***************************************************************************)
(* What the runner's steps do.                                             *)
(***************************************************************************)

(* The runner reads a frame.                                               *)
LEMMA GetsDoes ==
  ASSUME FrameTypes, run.sock \in Sockets, down[run.sock] # << >>,
         NEW kind, Gets(kind, Head(down[run.sock]))
  PROVE  /\ Head(down[run.sock]) \in DownFrames /\ Head(down[run.sock]).kind = kind
         /\ down' \in [Sockets -> Seq(DownFrames)]
         /\ \A r \in Sockets \ {run.sock} : down'[r] = down[r]
         /\ down'[run.sock] = Tail(down[run.sock])
<1>1. Head(down[run.sock]) \in DownFrames /\ Tail(down[run.sock]) \in Seq(DownFrames)
  BY HeadTailProperties DEF FrameTypes
<1>2. QED
  BY <1>1 DEF FrameTypes, Gets

(* The runner's end of the connection goes.                                *)
LEMMA LeavesDoes ==
  ASSUME FrameTypes, RunnerTypes, run.sock \in Sockets, Leaves, journal' = journal
  PROVE  /\ RunnerTypes' /\ run' = NoConnection
         /\ run'.sock = None /\ run'.at = "idle" /\ run'.offer = None /\ run'.resumed = None
         /\ run'.deferred = None /\ run'.exec = None /\ run'.last = None
         /\ down' \in [Sockets -> Seq(DownFrames)]
         /\ \A r \in Sockets \ {run.sock} : down'[r] = down[r]
         /\ down'[run.sock] = << >>
<1>1. run' = NoConnection /\ down' = [down EXCEPT ![run.sock] = <<>>]
  BY DEF Leaves
<1>2. RunnerTypes'
  BY <1>1, NoConnectionTyped DEF RunnerTypes
<1>3. QED
  BY <1>1, <1>2, NoConnectionTyped, EmptySeq DEF FrameTypes

(* A runner that is connected has a socket.                                *)
LEMMA Connected ==
  ASSUME RunnerTypes, run.at # "idle"
  PROVE  run.sock \in Sockets
  BY NoConnectionTyped DEF RunnerTypes, RunStates

(* The answer to the resumption is applied.                                *)
LEMMA GetResumedDoes ==
  ASSUME FrameTypes, RunnerTypes, run.sock \in Sockets, down[run.sock] # << >>,
         GetResumed(Head(down[run.sock]))
  PROVE  LET f == Head(down[run.sock])
         IN  /\ RunnerTypes' /\ FrameTypes' /\ run.at = "hello"
             /\ Gets("resumed", f)
             /\ run'.sock = run.sock /\ run'.at = "serving" /\ run'.offer = run.offer
             /\ run'.claimed = run.claimed /\ run'.deferred = run.deferred
             /\ run'.exec = run.exec /\ run'.last = run.last /\ run'.scanned = run.scanned
             /\ run'.resumed = IF f.end = "await" THEN f.lease ELSE None
             /\ IF f.end = "await"
                THEN /\ ToDaemon(<<Frame("claim", f.lease, "none")>>) /\ f.lease \in Leases
                     /\ journal' = journal
                ELSE journal' = Empty /\ up' = up
             /\ UNCHANGED <<durable, boot, permit, hand, started, produced, faults>>
<1> DEFINE f == Head(down[run.sock])
           q == <<Frame("claim", f.lease, "none")>>
<1>1. /\ run.at = "hello" /\ Gets("resumed", f)
      /\ run' = [run EXCEPT !.at = "serving", !.resumed = IF f.end = "await" THEN f.lease ELSE None]
      /\ IF f.end = "await" THEN ToDaemon(q) /\ journal' = journal
         ELSE journal' = Empty /\ up' = up
      /\ UNCHANGED <<durable, boot, permit, hand, started, produced, faults>>
  BY DEF GetResumed, Answers
<1>2. f \in DownFrames /\ f.kind = "resumed" /\ down' \in [Sockets -> Seq(DownFrames)]
  BY <1>1, GetsDoes
<1>3. f.end = "await" => f.lease \in Leases
  BY <1>2, DownFrameFields
<1> HIDE DEF f
<1>4. f.end = "await" => q \in Seq(UpFrames)
  BY <1>3, FramesTyped
<1> HIDE DEF q
<1>5. FrameTypes'
  BY <1>1, <1>2, <1>4, ToDaemonSends DEF FrameTypes
<1>6. /\ run' \in RunStates
      /\ run'.sock = run.sock /\ run'.at = "serving" /\ run'.offer = run.offer
      /\ run'.claimed = run.claimed /\ run'.deferred = run.deferred
      /\ run'.exec = run.exec /\ run'.last = run.last /\ run'.scanned = run.scanned
      /\ run'.resumed = IF f.end = "await" THEN f.lease ELSE None
  BY <1>1, <1>3 DEF RunnerTypes, RunStates
<1>7. run.sock # None /\ run.exec = None
  BY <1>1, NoConnectionTyped DEF RunnerTypes
<1>8. journal' \in Inventories
  BY <1>1, TypedValues DEF RunnerTypes
<1>9. RunnerTypes'
  BY <1>6, <1>7, <1>8 DEF RunnerTypes
<1>10. QED
  BY <1>1, <1>3, <1>5, <1>6, <1>9 DEF f, q

(* A dispatch is taken: the first of the two phases is journalled.         *)
LEMMA DispatchesDoes ==
  ASSUME RunnerTypes, run.at = "serving", NEW l \in Leases, Dispatches(l)
  PROVE  /\ RunnerTypes' /\ Dispatchable(l)
         /\ journal'.lease = l /\ journal'.phase = "received" /\ journal'.end = "none"
         /\ journal.lease = l /\ journal.end = "none"
         /\ journal.phase = "waiting" \/ (run.resumed = l /\ journal.phase = "received")
         /\ run.exec = None /\ (run.resumed = l \/ run.offer = l)
         /\ run'.sock = run.sock /\ run'.at = "dispatching" /\ run'.offer = run.offer
         /\ run'.claimed = run.claimed /\ run'.deferred = None /\ run'.resumed = run.resumed
         /\ run'.exec = run.exec /\ run'.last = run.last /\ run'.scanned = TRUE
<1>1. /\ journal' = [journal EXCEPT !.phase = "received"]
      /\ run' = [run EXCEPT !.at = "dispatching", !.deferred = None, !.scanned = TRUE]
      /\ Dispatchable(l)
  BY DEF Dispatches
<1>2. /\ journal.lease = l /\ journal.end = "none" /\ run.exec = None
      /\ journal.phase = "waiting" \/ (run.resumed = l /\ journal.phase = "received")
      /\ run.resumed = l \/ run.offer = l
  BY <1>1 DEF Dispatchable
<1>3. /\ run' \in RunStates
      /\ run'.sock = run.sock /\ run'.at = "dispatching" /\ run'.offer = run.offer
      /\ run'.claimed = run.claimed /\ run'.deferred = None /\ run'.resumed = run.resumed
      /\ run'.exec = run.exec /\ run'.last = run.last /\ run'.scanned = TRUE
  BY <1>1 DEF RunnerTypes, RunStates
<1>4. l # None
  BY RunnerAssumption DEF RunnerAssumption, None
<1>5. /\ journal' \in Inventories
      /\ journal'.lease = l /\ journal'.phase = "received" /\ journal'.end = "none"
  BY <1>1, <1>2, <1>4 DEF RunnerTypes, Inventories, Phases
<1>6. run.sock # None
  BY NoConnectionTyped DEF RunnerTypes
<1>7. RunnerTypes'
  BY <1>2, <1>3, <1>5, <1>6 DEF RunnerTypes
<1>8. QED
  BY <1>1, <1>2, <1>3, <1>5, <1>7

(* The startup scan is complete.                                           *)
LEMMA ScanDoneDoes ==
  ASSUME FrameTypes, RunnerTypes, ScanDone
  PROVE  /\ RunnerTypes' /\ FrameTypes' /\ run.at = "serving" /\ run.sock \in Sockets
         /\ ~run.scanned
         /\ \/ /\ run.deferred \in Leases /\ Dispatches(run.deferred) /\ up' = up
            \/ /\ run.deferred = None /\ journal' = journal
               /\ run'.sock = run.sock /\ run'.at = run.at /\ run'.offer = run.offer
               /\ run'.deferred = run.deferred /\ run'.resumed = run.resumed
               /\ run'.exec = run.exec /\ run'.last = run.last /\ run'.scanned = TRUE
               /\ IF run.offer # None /\ ~run.claimed /\ journal = Empty
                  THEN /\ run'.claimed = TRUE /\ run.offer \in Leases
                       /\ ToDaemon(<<Frame("claim", run.offer, "none")>>)
                  ELSE run'.claimed = run.claimed /\ up' = up
         /\ UNCHANGED <<durable, boot, permit, hand, down, started, produced, faults>>
<1> DEFINE unclaimed == run.offer # None /\ ~run.claimed /\ journal = Empty
           q == <<Frame("claim", run.offer, "none")>>
<1>1. /\ run.at = "serving" /\ ~run.scanned
      /\ \/ run.deferred # None /\ Dispatches(run.deferred) /\ UNCHANGED up
         \/ /\ run.deferred = None
            /\ run' = [run EXCEPT !.scanned = TRUE, !.claimed = @ \/ unclaimed]
            /\ IF unclaimed THEN ToDaemon(q) ELSE UNCHANGED up
            /\ UNCHANGED journal
      /\ UNCHANGED <<durable, boot, permit, hand, down, started, produced, faults>>
  BY DEF ScanDone, Answers
<1>2. run.sock \in Sockets /\ run.sock # None /\ run \in RunStates
  BY <1>1, Connected, NoConnectionTyped DEF RunnerTypes
<1>3. CASE run.deferred # None /\ Dispatches(run.deferred) /\ UNCHANGED up
  <2>1. run.deferred \in Leases
    BY <1>2, <1>3 DEF RunStates
  <2>2. RunnerTypes'
    BY <1>1, <1>3, <2>1, DispatchesDoes
  <2>3. QED
    BY <1>1, <1>2, <1>3, <2>1, <2>2 DEF FrameTypes
<1>4. CASE /\ run.deferred = None
           /\ run' = [run EXCEPT !.scanned = TRUE, !.claimed = @ \/ unclaimed]
           /\ IF unclaimed THEN ToDaemon(q) ELSE UNCHANGED up
           /\ UNCHANGED journal
  <2>1. run.offer \in Leases \cup {None}
    BY <1>2 DEF RunStates
  <2>2. unclaimed => q \in Seq(UpFrames)
    BY <2>1, FramesTyped
  <2>3. unclaimed \in BOOLEAN
    OBVIOUS
  <2>4. run' = [run EXCEPT !.scanned = TRUE, !.claimed = run.claimed \/ unclaimed]
    BY <1>2, <1>4 DEF RunStates
  <2>5. (unclaimed => ~run.claimed) /\ (unclaimed => run.offer \in Leases)
    BY <2>1
  <2> HIDE DEF unclaimed, q
  <2>6. /\ run' \in RunStates
        /\ run'.sock = run.sock /\ run'.at = run.at /\ run'.offer = run.offer
        /\ run'.deferred = run.deferred /\ run'.resumed = run.resumed
        /\ run'.exec = run.exec /\ run'.last = run.last /\ run'.scanned = TRUE
        /\ run'.claimed = (run.claimed \/ unclaimed)
    BY <1>2, <2>3, <2>4 DEF RunStates
  <2>7. FrameTypes'
    BY <1>1, <1>2, <1>4, <2>2, ToDaemonSends DEF FrameTypes
  <2>8. RunnerTypes'
    BY <1>1, <1>2, <1>4, <2>6 DEF RunnerTypes
  <2>9. run.claimed \in BOOLEAN
    BY <1>2 DEF RunStates
  <2>10. IF unclaimed THEN run'.claimed = TRUE /\ run.offer \in Leases /\ ToDaemon(q)
         ELSE run'.claimed = run.claimed /\ up' = up
    BY <1>4, <2>5, <2>6, <2>9
  <2>11. QED
    BY <1>1, <1>2, <1>4, <2>6, <2>7, <2>8, <2>10 DEF unclaimed, q
<1>5. QED
  BY <1>1, <1>3, <1>4

(* An offer is refused durably, or admitted.                               *)
LEMMA GetOfferDoes ==
  ASSUME FrameTypes, RunnerTypes, run.sock \in Sockets, down[run.sock] # << >>,
         GetOffer(Head(down[run.sock]))
  PROVE  LET l == Head(down[run.sock]).lease
         IN  /\ RunnerTypes' /\ FrameTypes' /\ run.at = "serving" /\ l \in Leases
             /\ Gets("offer", Head(down[run.sock])) /\ run.offer = None /\ journal = Empty
             /\ \/ /\ journal'.lease = l /\ journal'.phase = "refused" /\ journal'.end = "none"
                   /\ ToDaemon(<<Frame("refusal", l, "none")>>)
                   /\ run' = run
                \/ /\ run'.sock = run.sock /\ run'.at = run.at /\ run'.offer = l
                   /\ run'.claimed = run.scanned /\ run'.deferred = run.deferred
                   /\ run'.resumed = run.resumed /\ run'.exec = run.exec
                   /\ run'.last = run.last /\ run'.scanned = run.scanned
                   /\ IF run.scanned THEN ToDaemon(<<Frame("claim", l, "none")>>) ELSE up' = up
                   /\ journal' = journal
             /\ UNCHANGED <<durable, boot, permit, hand, started, produced, faults>>
<1> DEFINE f == Head(down[run.sock])
           l == f.lease
           qr == <<Frame("refusal", l, "none")>>
           qc == <<Frame("claim", l, "none")>>
<1>1. /\ run.at = "serving" /\ Gets("offer", f) /\ run.offer = None /\ journal = Empty
      /\ \/ /\ journal' = [lease |-> l, phase |-> "refused", end |-> "none"]
            /\ ToDaemon(qr) /\ run' = run
         \/ /\ run' = [run EXCEPT !.offer = l, !.claimed = run.scanned]
            /\ IF run.scanned THEN ToDaemon(qc) ELSE up' = up
            /\ journal' = journal
      /\ UNCHANGED <<durable, boot, permit, hand, started, produced, faults>>
  BY DEF GetOffer, Answers
<1>2. f \in DownFrames /\ f.kind = "offer" /\ down' \in [Sockets -> Seq(DownFrames)]
  BY <1>1, GetsDoes
<1>3. l \in Leases
  BY <1>2, DownFrameFields
<1>4. qr \in Seq(UpFrames) /\ qc \in Seq(UpFrames)
  BY <1>3, FramesTyped
<1>5. l # None /\ run.sock # None
  BY <1>3, RunnerAssumption DEF RunnerAssumption, None
<1> HIDE DEF qr, qc, f, l
<1>6. FrameTypes'
  BY <1>1, <1>2, <1>4, ToDaemonSends DEF FrameTypes
<1>7. run.exec = None /\ run \in RunStates
  BY <1>1, TypedValues DEF RunnerTypes
<1>8. CASE /\ journal' = [lease |-> l, phase |-> "refused", end |-> "none"]
           /\ ToDaemon(qr) /\ run' = run
  <2>1. journal' \in Inventories
    BY <1>3, <1>5, <1>8 DEF Inventories, Phases
  <2>2. RunnerTypes'
    BY <1>1, <1>5, <1>7, <1>8, <2>1 DEF RunnerTypes
  <2>3. QED
    BY <1>1, <1>3, <1>6, <1>8, <2>2 DEF qr, qc, f, l
<1>9. CASE /\ run' = [run EXCEPT !.offer = l, !.claimed = run.scanned]
           /\ IF run.scanned THEN ToDaemon(qc) ELSE up' = up
           /\ journal' = journal
  <2>1. /\ run' \in RunStates
        /\ run'.sock = run.sock /\ run'.at = run.at /\ run'.offer = l
        /\ run'.claimed = run.scanned /\ run'.deferred = run.deferred
        /\ run'.resumed = run.resumed /\ run'.exec = run.exec
        /\ run'.last = run.last /\ run'.scanned = run.scanned
    BY <1>3, <1>7, <1>9 DEF RunStates
  <2>2. RunnerTypes'
    BY <1>1, <1>5, <1>7, <1>9, <2>1 DEF RunnerTypes
  <2>3. QED
    BY <1>1, <1>3, <1>6, <1>9, <2>1, <2>2 DEF qr, qc, f, l
<1>10. QED
  BY <1>1, <1>8, <1>9

(* The daemon has recorded the claim.                                      *)
LEMMA GetClaimedDoes ==
  ASSUME FrameTypes, RunnerTypes, run.sock \in Sockets, down[run.sock] # << >>,
         run.exec = None, GetClaimed(Head(down[run.sock]))
  PROVE  LET l == Head(down[run.sock]).lease
         IN  /\ RunnerTypes' /\ FrameTypes' /\ run.at = "serving" /\ l \in Leases
             /\ Gets("claimed", Head(down[run.sock]))
             /\ run.resumed = l \/ run.offer = l
             /\ IF run.resumed = l THEN journal' = journal
                ELSE /\ journal'.lease = l /\ journal'.phase = "waiting"
                     /\ journal'.end = "none"
             /\ UNCHANGED <<durable, boot, permit, hand, up, run, started, produced, faults>>
<1> DEFINE f == Head(down[run.sock])
           l == f.lease
<1>1. /\ run.at = "serving" /\ Gets("claimed", f) /\ (run.resumed = l \/ run.offer = l)
      /\ journal' = IF run.resumed = l THEN journal
                    ELSE [lease |-> l, phase |-> "waiting", end |-> "none"]
      /\ UNCHANGED <<durable, boot, permit, hand, up, run, started, produced, faults>>
  BY DEF GetClaimed
<1>2. f \in DownFrames /\ f.kind = "claimed" /\ down' \in [Sockets -> Seq(DownFrames)]
  BY <1>1, GetsDoes
<1>3. l \in Leases
  BY <1>2, DownFrameFields
<1>4. l # None /\ run.sock # None
  BY <1>3, RunnerAssumption DEF RunnerAssumption, None
<1> HIDE DEF f, l
<1>5. FrameTypes'
  BY <1>1, <1>2 DEF FrameTypes
<1>6. journal \in Inventories
  BY DEF RunnerTypes
<1>7. /\ journal' \in Inventories
      /\ IF run.resumed = l THEN journal' = journal
         ELSE journal'.lease = l /\ journal'.phase = "waiting" /\ journal'.end = "none"
  <2>1. CASE run.resumed = l
    BY <1>1, <1>6, <2>1
  <2>2. CASE run.resumed # l
    <3>1. journal' = [lease |-> l, phase |-> "waiting", end |-> "none"]
      BY <1>1, <2>2
    <3>2. QED
      BY <1>3, <1>4, <2>2, <3>1 DEF Inventories, Phases
  <2>3. QED
    BY <2>1, <2>2
<1>8. RunnerTypes'
  BY <1>1, <1>4, <1>7 DEF RunnerTypes
<1>9. QED
  BY <1>1, <1>3, <1>5, <1>7, <1>8 DEF f, l

(* A dispatch is taken, or deferred until the startup scan is complete.    *)
LEMMA GetDispatchDoes ==
  ASSUME FrameTypes, RunnerTypes, run.sock \in Sockets, down[run.sock] # << >>,
         GetDispatch(Head(down[run.sock]))
  PROVE  LET l == Head(down[run.sock]).lease
         IN  /\ RunnerTypes' /\ FrameTypes' /\ run.at = "serving" /\ l \in Leases
             /\ Gets("dispatch", Head(down[run.sock]))
             /\ \/ run.scanned /\ Dispatches(l)
                \/ /\ ~run.scanned /\ journal' = journal
                   /\ run'.sock = run.sock /\ run'.at = run.at /\ run'.offer = run.offer
                   /\ run'.claimed = run.claimed /\ run'.deferred = l
                   /\ run'.resumed = run.resumed /\ run'.exec = run.exec
                   /\ run'.last = run.last /\ run'.scanned = run.scanned
             /\ UNCHANGED <<durable, boot, permit, hand, up, started, produced, faults>>
<1> DEFINE f == Head(down[run.sock])
           l == f.lease
<1>1. /\ run.at = "serving" /\ Gets("dispatch", f)
      /\ \/ run.scanned /\ Dispatches(l)
         \/ ~run.scanned /\ run' = [run EXCEPT !.deferred = l] /\ journal' = journal
      /\ UNCHANGED <<durable, boot, permit, hand, up, started, produced, faults>>
  BY DEF GetDispatch
<1>2. f \in DownFrames /\ f.kind = "dispatch" /\ down' \in [Sockets -> Seq(DownFrames)]
  BY <1>1, GetsDoes
<1>3. l \in Leases
  BY <1>2, DownFrameFields
<1> HIDE DEF f, l
<1>4. FrameTypes'
  BY <1>1, <1>2 DEF FrameTypes
<1>5. run.sock # None
  BY RunnerAssumption DEF RunnerAssumption, None
<1>6. CASE run.scanned /\ Dispatches(l)
  <2>1. RunnerTypes'
    BY <1>1, <1>3, <1>6, DispatchesDoes
  <2>2. QED
    BY <1>1, <1>3, <1>4, <1>6, <2>1 DEF f, l
<1>7. CASE ~run.scanned /\ run' = [run EXCEPT !.deferred = l] /\ journal' = journal
  <2>1. /\ run' \in RunStates
        /\ run'.sock = run.sock /\ run'.at = run.at /\ run'.offer = run.offer
        /\ run'.claimed = run.claimed /\ run'.deferred = l
        /\ run'.resumed = run.resumed /\ run'.exec = run.exec
        /\ run'.last = run.last /\ run'.scanned = run.scanned
    BY <1>3, <1>7 DEF RunnerTypes, RunStates
  <2>2. RunnerTypes'
    BY <1>1, <1>5, <1>7, <2>1 DEF RunnerTypes
  <2>3. QED
    BY <1>1, <1>3, <1>4, <1>7, <2>1, <2>2 DEF f, l
<1>8. QED
  BY <1>1, <1>6, <1>7

(* The second phase of a dispatch is journalled.                           *)
LEMMA JournalStartDoes ==
  ASSUME RunnerTypes, JournalStart, journal.end = "none"
  PROVE  /\ RunnerTypes' /\ run.at = "dispatching" /\ run.sock \in Sockets
         /\ journal.phase = "received" /\ journal.lease \in Leases
         /\ journal'.lease = journal.lease /\ journal'.phase = "may_have_started"
         /\ journal'.end = journal.end
         /\ run'.sock = run.sock /\ run'.at = "starting" /\ run'.offer = run.offer
         /\ run'.claimed = run.claimed /\ run'.deferred = run.deferred
         /\ run'.resumed = run.resumed /\ run'.exec = run.exec
         /\ run'.last = run.last /\ run'.scanned = run.scanned
         /\ UNCHANGED <<durable, boot, permit, hand, up, down, started, produced, faults>>
<1>1. /\ run.at = "dispatching"
      /\ journal' = [journal EXCEPT !.phase = "may_have_started"]
      /\ run' = [run EXCEPT !.at = "starting"]
      /\ UNCHANGED <<durable, boot, permit, hand, up, down, started, produced, faults>>
  BY DEF JournalStart
<1>2. run.sock \in Sockets /\ run.sock # None
  BY <1>1, Connected, NoConnectionTyped DEF RunnerTypes
<1>3. /\ journal' \in Inventories /\ journal.phase = "received" /\ journal.lease \in Leases
      /\ journal'.lease = journal.lease /\ journal'.phase = "may_have_started"
      /\ journal'.end = journal.end
  BY <1>1 DEF RunnerTypes, Inventories, Phases
<1>4. /\ run' \in RunStates
      /\ run'.sock = run.sock /\ run'.at = "starting" /\ run'.offer = run.offer
      /\ run'.claimed = run.claimed /\ run'.deferred = run.deferred
      /\ run'.resumed = run.resumed /\ run'.exec = run.exec
      /\ run'.last = run.last /\ run'.scanned = run.scanned
  BY <1>1 DEF RunnerTypes, RunStates
<1>5. run.exec = None
  BY <1>1 DEF RunnerTypes
<1>6. RunnerTypes'
  BY <1>2, <1>3, <1>4, <1>5 DEF RunnerTypes
<1>7. QED
  BY <1>1, <1>2, <1>3, <1>4, <1>6

(* The executor is started.                                                *)
LEMMA StartDoes ==
  ASSUME RunnerTypes, Start
  PROVE  /\ RunnerTypes' /\ run.at = "starting" /\ run.sock \in Sockets
         /\ journal.lease \in Leases /\ journal.phase = "may_have_started"
         /\ run'.sock = run.sock /\ run'.at = "serving" /\ run'.offer = run.offer
         /\ run'.claimed = run.claimed /\ run'.deferred = run.deferred
         /\ run'.resumed = None /\ run'.exec = journal.lease
         /\ run'.last = run.last /\ run'.scanned = run.scanned
         /\ started' = [started EXCEPT ![journal.lease] = @ + 1]
         /\ UNCHANGED <<durable, boot, permit, hand, up, down, journal, produced, faults>>
<1>1. /\ run.at = "starting"
      /\ run' = [run EXCEPT !.at = "serving", !.exec = journal.lease, !.resumed = None]
      /\ started' = [started EXCEPT ![journal.lease] = @ + 1]
      /\ UNCHANGED <<durable, boot, permit, hand, up, down, journal, produced, faults>>
  BY DEF Start
<1>2. run.sock \in Sockets /\ run.sock # None
  BY <1>1, Connected, NoConnectionTyped DEF RunnerTypes
<1>3. journal.lease \in Leases /\ journal.phase = "may_have_started"
  BY <1>1 DEF RunnerTypes, Inventories
<1>4. /\ run' \in RunStates
      /\ run'.sock = run.sock /\ run'.at = "serving" /\ run'.offer = run.offer
      /\ run'.claimed = run.claimed /\ run'.deferred = run.deferred
      /\ run'.resumed = None /\ run'.exec = journal.lease
      /\ run'.last = run.last /\ run'.scanned = run.scanned
  BY <1>1, <1>3 DEF RunnerTypes, RunStates
<1>5. RunnerTypes'
  BY <1>1, <1>2, <1>3, <1>4 DEF RunnerTypes
<1>6. QED
  BY <1>1, <1>2, <1>3, <1>4, <1>5

(* The execution ends, and its end is journalled and sent.                 *)
LEMMA FinishDoes ==
  ASSUME FrameTypes, RunnerTypes, NEW e \in Ends, Finish(e)
  PROVE  LET l == run.exec
         IN  /\ RunnerTypes' /\ FrameTypes' /\ run.at = "serving" /\ run.sock \in Sockets
             /\ l \in Leases /\ journal.lease = l /\ journal.phase = "may_have_started"
             /\ journal'.lease = l /\ journal'.phase = "may_have_started" /\ journal'.end = e
             /\ produced' = [produced EXCEPT ![l] = e]
             /\ run'.sock = run.sock /\ run'.at = run.at /\ run'.offer = run.offer
             /\ run'.claimed = run.claimed /\ run'.deferred = run.deferred
             /\ run'.resumed = run.resumed /\ run'.exec = None
             /\ run'.last = run.last /\ run'.scanned = run.scanned
             /\ ToDaemon(<<Frame("result", l, e)>>)
             /\ UNCHANGED <<durable, boot, permit, hand, down, started, faults>>
<1> DEFINE l == run.exec
           q == <<Frame("result", l, e)>>
<1>1. /\ run.at = "serving" /\ l # None
      /\ journal' = [journal EXCEPT !.end = e]
      /\ produced' = [produced EXCEPT ![l] = e]
      /\ run' = [run EXCEPT !.exec = None]
      /\ ToDaemon(q)
      /\ UNCHANGED <<durable, boot, permit, hand, down, started, faults>>
  BY DEF Finish, Answers
<1>2. run.sock \in Sockets /\ run.sock # None
  BY <1>1, Connected, NoConnectionTyped DEF RunnerTypes
<1>3. l \in Leases /\ journal.lease = l /\ journal.phase = "may_have_started"
  BY <1>1 DEF RunnerTypes, RunStates
<1>4. q \in Seq(UpFrames)
  BY <1>3, FramesTyped
<1>5. /\ run' \in RunStates
      /\ run'.sock = run.sock /\ run'.at = run.at /\ run'.offer = run.offer
      /\ run'.claimed = run.claimed /\ run'.deferred = run.deferred
      /\ run'.resumed = run.resumed /\ run'.exec = None
      /\ run'.last = run.last /\ run'.scanned = run.scanned
  BY <1>1 DEF RunnerTypes, RunStates
<1>6. /\ journal' \in Inventories
      /\ journal'.lease = l /\ journal'.phase = "may_have_started" /\ journal'.end = e
  BY <1>1, <1>3 DEF RunnerTypes, Inventories
<1> HIDE DEF q
<1>7. FrameTypes'
  BY <1>1, <1>2, <1>4, ToDaemonSends DEF FrameTypes
<1>8. RunnerTypes'
  BY <1>1, <1>2, <1>5, <1>6 DEF RunnerTypes
<1>9. QED
  BY <1>1, <1>2, <1>3, <1>5, <1>6, <1>7, <1>8 DEF q

(* Evidence is acknowledged.                                               *)
LEMMA GetRecordedDoes ==
  ASSUME FrameTypes, RunnerTypes, run.sock \in Sockets, down[run.sock] # << >>,
         NEW kind \in Acks, GetRecorded(kind, Head(down[run.sock])),
         run.exec # None => journal.end = "none"
  PROVE  LET l == Head(down[run.sock]).lease
         IN  /\ RunnerTypes' /\ FrameTypes' /\ run.at = "serving" /\ l \in Leases
             /\ Gets(kind, Head(down[run.sock])) /\ Acknowledges(l)
             /\ \/ run.last = l /\ UNCHANGED <<journal, run>>
                \/ /\ run.last # l /\ journal' = Empty
                   /\ journal.lease = l /\ (journal.end # "none" \/ journal.phase = "refused")
                   /\ run'.sock = run.sock /\ run'.at = run.at
                   /\ run'.offer = IF kind = "recorded" THEN None ELSE run.offer
                   /\ run'.claimed = run.claimed /\ run'.deferred = run.deferred
                   /\ run'.resumed = run.resumed /\ run'.exec = run.exec
                   /\ run'.last = l /\ run'.scanned = run.scanned
             /\ UNCHANGED <<durable, boot, permit, hand, up, started, produced, faults>>
<1> DEFINE f == Head(down[run.sock])
           l == f.lease
<1>1. /\ run.at = "serving" /\ Gets(kind, f) /\ Acknowledges(l)
      /\ \/ run.last = l /\ UNCHANGED <<journal, run>>
         \/ /\ run.last # l /\ journal' = Empty
            /\ run' = [run EXCEPT !.last = l, !.offer = IF kind = "recorded" THEN None ELSE @]
      /\ UNCHANGED <<durable, boot, permit, hand, up, started, produced, faults>>
  BY DEF GetRecorded
<1>2. f \in DownFrames /\ f.kind = kind /\ down' \in [Sockets -> Seq(DownFrames)]
  BY <1>1, GetsDoes
<1>3. l \in Leases
  BY <1>2, DownFrameFields DEF Acks
<1> HIDE DEF f, l
<1>4. FrameTypes'
  BY <1>1, <1>2 DEF FrameTypes
<1>5. run.sock # None
  BY RunnerAssumption DEF RunnerAssumption, None
<1>6. CASE run.last = l /\ UNCHANGED <<journal, run>>
  <2>1. RunnerTypes'
    BY <1>6 DEF RunnerTypes
  <2>2. QED
    BY <1>1, <1>3, <1>4, <1>6, <2>1 DEF f, l
<1>7. CASE /\ run.last # l /\ journal' = Empty
           /\ run' = [run EXCEPT !.last = l, !.offer = IF kind = "recorded" THEN None ELSE @]
  <2>1. journal.lease = l /\ (journal.end # "none" \/ journal.phase = "refused")
    BY <1>1, <1>7 DEF Acknowledges
  <2>2. run' = [run EXCEPT !.last = l, !.offer = IF kind = "recorded" THEN None ELSE run.offer]
    BY <1>7 DEF RunnerTypes, RunStates
  <2>3. /\ run' \in RunStates
        /\ run'.sock = run.sock /\ run'.at = run.at
        /\ run'.offer = IF kind = "recorded" THEN None ELSE run.offer
        /\ run'.claimed = run.claimed /\ run'.deferred = run.deferred
        /\ run'.resumed = run.resumed /\ run'.exec = run.exec
        /\ run'.last = l /\ run'.scanned = run.scanned
    BY <1>3, <2>2 DEF RunnerTypes, RunStates
  <2>4. run.exec = None
    BY <2>1 DEF RunnerTypes
  <2>5. RunnerTypes'
    BY <1>1, <1>5, <1>7, <2>3, <2>4, TypedValues DEF RunnerTypes
  <2>6. QED
    BY <1>1, <1>3, <1>4, <1>7, <2>1, <2>3, <2>5 DEF f, l
<1>8. QED
  BY <1>1, <1>6, <1>7

(* Retained evidence is sent again.                                        *)
LEMMA ResendDoes ==
  ASSUME FrameTypes, RunnerTypes, Resend
  PROVE  /\ FrameTypes' /\ run.at = "serving" /\ run.sock \in Sockets
         /\ journal.lease \in Leases
         /\ \/ /\ journal.end \in Ends /\ ToDaemon(<<Frame("result", journal.lease, journal.end)>>)
            \/ /\ journal.phase = "refused"
               /\ ToDaemon(<<Frame("refusal", journal.lease, "none")>>)
         /\ UNCHANGED <<durable, boot, permit, hand, down, runner, faults>>
<1>1. /\ run.at = "serving"
      /\ \/ journal.end # "none" /\ ToDaemon(<<Frame("result", journal.lease, journal.end)>>)
         \/ journal.phase = "refused" /\ ToDaemon(<<Frame("refusal", journal.lease, "none")>>)
      /\ UNCHANGED <<durable, boot, permit, hand, down, runner, faults>>
  BY DEF Resend, Answers
<1>2. run.sock \in Sockets
  BY <1>1, Connected
<1>3. journal.lease \in Leases /\ journal.end \in Ends \cup {"none"}
  BY <1>1 DEF RunnerTypes, Inventories
<1>4. <<Frame("refusal", journal.lease, "none")>> \in Seq(UpFrames)
  BY <1>3, FramesTyped
<1>5. journal.end # "none" => <<Frame("result", journal.lease, journal.end)>> \in Seq(UpFrames)
  BY <1>3, FramesTyped
<1>6. up' \in [Sockets -> Seq(UpFrames)]
  BY <1>1, <1>2, <1>4, <1>5, ToDaemonSends
<1>7. FrameTypes'
  BY <1>1, <1>6 DEF FrameTypes
<1>8. QED
  BY <1>1, <1>2, <1>3, <1>7

(***************************************************************************)
(* The steps, by what they do: several actions end a handler, close one or *)
(* take the runner off its socket, and the handling of a frame has its     *)
(* outcomes.                                                               *)
(***************************************************************************)

EndStep(s) ==
  /\ hand[s].at \in {"serving", "reread"}
  /\ \E to \in {"lost", "shutdown"} : EndHandler(s, to)
  /\ down' = down \/ ToRunner(s, <<Frame("shutdown", None, "none")>>)
  /\ UNCHANGED <<boot, permit, runner>>

CloseStep(s) ==
  /\ hand[s].at \notin {"none", "hello"}
  /\ CloseHandler(s)
  /\ UNCHANGED <<durable, boot, permit, down, runner>>

LeaveStep ==
  /\ run.sock \in Sockets
  /\ Leaves
  /\ up' = up \/ (run.at = "serving" /\ ToDaemon(<<Frame("shutdown", None, "none")>>))
  /\ UNCHANGED <<durable, boot, permit, hand, journal, started, produced>>

ServeStep(s) ==
  /\ hand[s].at = "reread" /\ Outcome(hand[s].inv) \in {"await", "lost"} /\ DaemonTypes'
  /\ \A r \in Sockets \ {s} : hand'[r] = hand[r]
  /\ hand'[s].at = "serving" /\ hand'[s].inv = Empty
  /\ hand'[s].busy = IF Outcome(hand[s].inv) = "await" THEN hand[s].inv.lease ELSE None
  /\ ToRunner(s, <<Frame("resumed", hand[s].inv.lease, Outcome(hand[s].inv))>>)
  /\ UNCHANGED <<durable, boot, permit, up, runner>>

ClaimStep(s, l) ==
  /\ hand[s].at = "serving" /\ up[s] # << >> /\ Head(up[s]).kind = "claim"
  /\ l = Head(up[s]).lease /\ l \in Leases
  /\ DaemonTypes' /\ ValidConnection(s, l) /\ lease[l].state \in Live
  /\ lease'[l].state = "claimed" /\ lease'[l].fresh = lease[l].fresh
  /\ lease'[l].intact = lease[l].intact /\ lease'[l].end = lease[l].end
  /\ \A m \in Leases \ {l} : lease'[m] = lease[m]
  /\ ToRunner(s, <<Frame("claimed", l, "none"), Frame("dispatch", l, "none")>>)
  /\ Taken(s)
  /\ UNCHANGED <<conn, pending, hand, boot, permit, runner>>

RecordStep(s, l, state, kind) ==
  /\ hand[s].at = "serving" /\ up[s] # << >>
  /\ l = Head(up[s]).lease /\ l \in Leases
  /\ DaemonTypes'
  /\ lease'[l].state = state /\ lease'[l].end = Head(up[s]).end
  /\ \A m \in Leases \ {l} : lease'[m] = lease[m]
  /\ \A r \in Sockets \ {s} : hand'[r] = hand[r]
  /\ hand'[s].at = "serving" /\ hand'[s].inv = hand[s].inv
  /\ hand'[s].busy = IF hand[s].busy = l THEN None ELSE hand[s].busy
  /\ ToRunner(s, <<Frame(kind, l, "none")>>)
  /\ Taken(s)
  /\ UNCHANGED <<conn, pending, boot, permit, runner>>

ResultStep(s, l) ==
  /\ Head(up[s]).kind = "result" /\ Head(up[s]).end \in Ends
  /\ \/ lease[l].state = "claimed"
     \/ lease[l].state = "completed" /\ lease[l].end = Head(up[s]).end
  /\ RecordStep(s, l, "completed", "recorded")

RefusalStep(s, l) ==
  /\ Head(up[s]).kind = "refusal" /\ Head(up[s]).end = "none"
  /\ lease[l].state \in {"offered", "refused"}
  /\ RecordStep(s, l, "refused", "refusal_recorded")

GetStep(f) ==
  /\ run.sock \in Sockets /\ down[run.sock] # << >> /\ f = Head(down[run.sock])
  /\ \/ GetResumed(f) \/ GetOffer(f) \/ GetClaimed(f) \/ GetDispatch(f)
     \/ \E kind \in Acks : GetRecorded(kind, f)

DaemonStep ==
  \/ \E l \in Leases : Offer(l)
  \/ WaitForLease \/ BootPropagate \/ BootSettled \/ BootDone
  \/ \E s \in Sockets :
       \/ Reconcile(s) \/ ResolveLoss(s) \/ OpenConnection(s) \/ ServeStep(s)
       \/ Propagate(s) \/ SendOffer(s) \/ EndStep(s) \/ CloseStep(s)
       \/ \E l \in Leases : ClaimStep(s, l) \/ ResultStep(s, l) \/ RefusalStep(s, l)
       \/ Heartbeat(s)
  \/ DaemonCrash

(* The actions, in this form.                                              *)
LEMMA StepCases ==
  ASSUME DaemonTypes, FrameTypes, RunnerTypes, [Next]_vars
  PROVE  \/ DaemonStep
         \/ \E s \in Sockets : Connect(s)
         \/ \E f : GetStep(f)
         \/ ScanDone \/ JournalStart \/ Start \/ Resend \/ LeaveStep
         \/ \E e \in Ends : Finish(e)
         \/ UNCHANGED vars
<1>1. ASSUME NEW s \in Sockets, TakeFrame(s)
      PROVE  \/ EndStep(s) \/ CloseStep(s)
             \/ \E l \in Leases : ClaimStep(s, l) \/ ResultStep(s, l) \/ RefusalStep(s, l)
  <2>1. up[s] # << >>
    BY <1>1 DEF TakeFrame
  <2>2. Head(up[s]) \in UpFrames
    BY <2>1, HeadTailProperties DEF FrameTypes
  <2>3. CASE TakeClaim(s, Head(up[s]))
    BY <2>1, <2>3, TakeClaimDoes DEF ClaimStep, EndStep
  <2>4. CASE TakeResult(s, Head(up[s]))
    BY <2>1, <2>4, TakeResultDoes DEF ResultStep, RecordStep, EndStep
  <2>5. CASE TakeRefusal(s, Head(up[s]))
    <3>1. Head(up[s]).kind = "refusal"
      BY <2>5 DEF TakeRefusal, Reads
    <3>2. Head(up[s]).end = "none"
      BY <2>2, <3>1, UpFrameFields
    <3>3. QED
      BY <2>1, <2>5, <3>2, TakeRefusalDoes DEF RefusalStep, RecordStep, CloseStep, durable
  <2>6. CASE TakeShutdown(s, Head(up[s]))
    BY <2>6 DEF TakeShutdown, Reads, EndStep
  <2>7. QED
    BY <1>1, <2>3, <2>4, <2>5, <2>6 DEF TakeFrame
<1>2. ASSUME NEW s \in Sockets, Reread(s)
      PROVE  ServeStep(s) \/ EndStep(s) \/ CloseStep(s)
  BY <1>2, RereadDoes DEF ServeStep, EndStep, CloseStep
<1>3. ASSUME NEW s \in Sockets, HandlerEof(s) \/ HeartbeatTimeout(s) \/ DaemonShutdown(s)
      PROVE  EndStep(s)
  BY <1>3 DEF HandlerEof, HeartbeatTimeout, DaemonShutdown, EndStep
<1>4. ASSUME NEW s \in Sockets, HeartbeatStale(s) \/ HandlerFails(s)
      PROVE  CloseStep(s)
  BY <1>4 DEF HeartbeatStale, HandlerFails, CloseStep
<1>5. ASSUME NEW s \in Sockets, HandlerStep(s) \/ Heartbeat(s) \/ Faulty(s)
      PROVE  DaemonStep
  BY <1>1, <1>2, <1>3, <1>4, <1>5 DEF HandlerStep, Resume, Faulty, DaemonStep
<1>6. ASSUME GetFrame
      PROVE  (\E f : GetStep(f)) \/ LeaveStep
  <2>1. run.sock \in Sockets /\ down[run.sock] # << >>
    BY <1>6 DEF GetFrame, RunnerTypes, RunStates
  <2>2. CASE GetShutdown(Head(down[run.sock]))
    BY <2>1, <2>2 DEF GetShutdown, LeaveStep
  <2>3. CASE ~GetShutdown(Head(down[run.sock]))
    <3>1. GetStep(Head(down[run.sock]))
      BY <1>6, <2>1, <2>3 DEF GetFrame, GetStep, Acks
    <3>2. QED
      BY <3>1
  <2>4. QED
    BY <2>2, <2>3
<1>7. ASSUME RunnerShutdown \/ RunnerClosed \/ RunnerCrash
      PROVE  LeaveStep
  <2>1. run.sock \in Sockets
    BY <1>7, Connected DEF RunnerShutdown, RunnerClosed, RunnerCrash, RunnerTypes, RunStates
  <2>2. QED
    BY <1>7, <2>1 DEF RunnerShutdown, RunnerClosed, RunnerCrash, LeaveStep, Answers
<1>8. CASE UNCHANGED vars
  BY <1>8
<1>9. CASE Next
  BY <1>5, <1>6, <1>7, <1>9 DEF Next, Boot, RunnerStep, DaemonStep
<1>10. QED
  BY <1>8, <1>9

(***************************************************************************)
(* Types.                                                                  *)
(***************************************************************************)

(* Every step keeps the types of the daemon's state and of the frames.     *)
LEMMA DaemonStepTyped ==
  ASSUME DaemonTypes, FrameTypes, RunnerTypes, ResumeFits, DaemonStep
  PROVE  DaemonTypes' /\ FrameTypes' /\ RunnerTypes'
<1>1. (UNCHANGED <<journal, run>>) => RunnerTypes'
  BY DEF RunnerTypes
<1>2. (UNCHANGED <<up, down>>) => FrameTypes'
  BY DEF FrameTypes
<1>3. ASSUME NEW l \in Leases, Offer(l) PROVE DaemonTypes' /\ FrameTypes' /\ RunnerTypes'
  BY <1>1, <1>2, <1>3, OfferDoes DEF runner
<1>4. CASE WaitForLease
  <2>1. DaemonTypes'
    BY <1>4 DEF WaitForLease, DaemonTypes, durable
  <2>2. QED
    BY <1>1, <1>2, <1>4, <2>1 DEF WaitForLease, runner
<1>5. CASE BootPropagate
  <2>1. lease' \in [Leases -> LeaseRecords]
    BY <1>5, PropagatedDoes DEF BootPropagate
  <2>2. DaemonTypes'
    BY <1>5, <2>1 DEF BootPropagate, DaemonTypes
  <2>3. QED
    BY <1>1, <1>2, <1>5, <2>2 DEF BootPropagate, runner
<1>6. CASE BootSettled
  BY <1>1, <1>2, <1>6, BootSettledDoes DEF runner
<1>7. CASE BootDone
  <2>1. DaemonTypes'
    BY <1>7 DEF BootDone, DaemonTypes, durable
  <2>2. QED
    BY <1>1, <1>2, <1>7, <2>1 DEF BootDone, runner
<1>8. CASE DaemonCrash
  BY <1>1, <1>8, DaemonCrashDoes DEF runner
<1>9. ASSUME NEW s \in Sockets, Reconcile(s) PROVE DaemonTypes' /\ FrameTypes' /\ RunnerTypes'
  BY <1>1, <1>2, <1>9, ReconcileDoes DEF runner
<1>10. ASSUME NEW s \in Sockets, ResolveLoss(s) PROVE DaemonTypes' /\ FrameTypes' /\ RunnerTypes'
  BY <1>1, <1>2, <1>10, ResolveLossDoes DEF runner
<1>11. ASSUME NEW s \in Sockets, Propagate(s) PROVE DaemonTypes' /\ FrameTypes' /\ RunnerTypes'
  BY <1>1, <1>2, <1>11, PropagateDoes DEF runner
<1>12. ASSUME NEW s \in Sockets, NEW frames \in Seq(DownFrames), ToRunner(s, frames)
       PROVE  down' \in [Sockets -> Seq(DownFrames)]
  BY <1>12, ToRunnerSends
<1>13. ASSUME NEW f \in DownFrames PROVE <<f>> \in Seq(DownFrames)
  BY <1>13
<1>14. ASSUME NEW s \in Sockets, OpenConnection(s) PROVE DaemonTypes' /\ FrameTypes' /\ RunnerTypes'
  <2>1. /\ DaemonTypes' /\ up' = up /\ UNCHANGED <<journal, run>>
        /\ down' = down \/ (/\ hand[s].out # "await"
                            /\ ToRunner(s, <<Frame("resumed", hand[s].inv.lease, hand[s].out)>>))
    BY <1>14, OpenConnectionDoes DEF runner
  <2>2. hand[s].out # "await" => Frame("resumed", hand[s].inv.lease, hand[s].out) \in DownFrames
    <3>1. hand[s].inv.lease \in Leases \cup {None}
      BY DEF DaemonTypes, Handlers, Inventories
    <3>2. hand[s].out \in {"empty", "recorded", "await", "lost"}
      BY <1>14, OpenConnectionDoes DEF ResumeFits, Fits
    <3>3. QED
      BY <3>1, <3>2, FramesTyped
  <2>3. QED
    BY <1>1, <1>12, <1>13, <2>1, <2>2 DEF FrameTypes
<1>15. ASSUME NEW s \in Sockets, ServeStep(s) PROVE DaemonTypes' /\ FrameTypes' /\ RunnerTypes'
  <2>1. hand[s].inv \in Inventories
    BY DEF DaemonTypes, Handlers
  <2>2. Frame("resumed", hand[s].inv.lease, Outcome(hand[s].inv)) \in DownFrames
    BY <1>15, <2>1, OutcomeMeans, FramesTyped DEF ServeStep
  <2>3. QED
    BY <1>1, <1>12, <1>13, <1>15, <2>2 DEF ServeStep, FrameTypes, runner
<1>16. ASSUME NEW s \in Sockets, SendOffer(s) PROVE DaemonTypes' /\ FrameTypes' /\ RunnerTypes'
  <2>1. PICK l \in Leases : ToRunner(s, <<Frame("offer", l, "none")>>)
    BY <1>16, SendOfferDoes
  <2>2. down' \in [Sockets -> Seq(DownFrames)]
    BY <1>12, <1>13, <2>1, FramesTyped
  <2>3. QED
    BY <1>1, <1>16, <2>2, SendOfferDoes DEF FrameTypes, runner
<1>17. ASSUME NEW s \in Sockets, EndStep(s) PROVE DaemonTypes' /\ FrameTypes' /\ RunnerTypes'
  <2>1. PICK to \in {"lost", "shutdown"} : EndHandler(s, to)
    BY <1>17 DEF EndStep
  <2>2. /\ conn' \in Connections /\ LossEpoch(conn') /\ hand' \in [Sockets -> Handlers]
        /\ up' \in [Sockets -> Seq(UpFrames)]
    BY <2>1, EndHandlerDoes
  <2>3. lease' \in [Leases -> LeaseRecords] /\ pending' \in BOOLEAN
    BY <2>2, LossDoes
  <2>4. DaemonTypes'
    BY <1>17, <2>2, <2>3 DEF EndStep, DaemonTypes
  <2>5. down' \in [Sockets -> Seq(DownFrames)]
    BY <1>12, <1>13, <1>17, FramesTyped DEF EndStep, FrameTypes
  <2>6. QED
    BY <1>1, <1>17, <2>2, <2>4, <2>5 DEF EndStep, FrameTypes, runner
<1>18. ASSUME NEW s \in Sockets, CloseStep(s) PROVE DaemonTypes' /\ FrameTypes' /\ RunnerTypes'
  <2>1. hand' \in [Sockets -> Handlers] /\ up' \in [Sockets -> Seq(UpFrames)]
    BY <1>18, CloseHandlerDoes DEF CloseStep
  <2>2. QED
    BY <1>1, <1>18, <2>1 DEF CloseStep, FrameTypes, runner, DaemonTypes, durable
<1>19. ASSUME NEW s \in Sockets, NEW l \in Leases, ClaimStep(s, l)
       PROVE  DaemonTypes' /\ FrameTypes' /\ RunnerTypes'
  <2>1. up' \in [Sockets -> Seq(UpFrames)]
    BY <1>19, TakenDoes DEF ClaimStep
  <2>2. <<Frame("claimed", l, "none"), Frame("dispatch", l, "none")>> \in Seq(DownFrames)
    BY FramesTyped
  <2>3. QED
    BY <1>1, <1>12, <1>19, <2>1, <2>2 DEF ClaimStep, FrameTypes, runner
<1>20. ASSUME NEW s \in Sockets, NEW l \in Leases, ResultStep(s, l) \/ RefusalStep(s, l)
       PROVE  DaemonTypes' /\ FrameTypes' /\ RunnerTypes'
  <2>1. PICK state \in Final, kind \in Acks : RecordStep(s, l, state, kind)
    BY <1>20 DEF ResultStep, RefusalStep, Acks, Final
  <2>2. up' \in [Sockets -> Seq(UpFrames)]
    BY <2>1, TakenDoes DEF RecordStep
  <2>3. Frame(kind, l, "none") \in DownFrames
    BY FramesTyped DEF Acks
  <2>4. QED
    BY <1>1, <1>12, <1>13, <2>1, <2>2, <2>3 DEF RecordStep, FrameTypes, runner
<1>21. ASSUME NEW s \in Sockets, Heartbeat(s) PROVE DaemonTypes' /\ FrameTypes' /\ RunnerTypes'
  <2>1. conn' \in Connections
    BY <1>21 DEF Heartbeat, DaemonTypes, Connections, Up
  <2>2. DaemonTypes'
    BY <1>21, <2>1 DEF Heartbeat, DaemonTypes
  <2>3. QED
    BY <1>1, <1>2, <1>21, <2>2 DEF Heartbeat, runner
<1>22. QED
  BY <1>3, <1>4, <1>5, <1>6, <1>7, <1>8, <1>9, <1>10, <1>11, <1>14, <1>15, <1>16, <1>17,
     <1>18, <1>19, <1>20, <1>21 DEF DaemonStep

(* The runner's steps: a claim is acknowledged before the execution, and a *)
(* result after it.                                                        *)
LEMMA RunnerStepTyped ==
  ASSUME DaemonTypes, FrameTypes, RunnerTypes, JournalTells, OfferStage,
         \/ \E s \in Sockets : Connect(s)
         \/ \E f : GetStep(f)
         \/ ScanDone \/ JournalStart \/ Start \/ Resend \/ LeaveStep
         \/ \E e \in Ends : Finish(e)
         \/ UNCHANGED vars
  PROVE  DaemonTypes' /\ FrameTypes' /\ RunnerTypes'
<1>1. (UNCHANGED <<durable, boot, permit, hand>>) => DaemonTypes'
  BY DEF DaemonTypes, durable
<1>2. (UNCHANGED <<up, down>>) => FrameTypes'
  BY DEF FrameTypes
<1>3. ASSUME NEW s \in Sockets, Connect(s) PROVE DaemonTypes' /\ FrameTypes' /\ RunnerTypes'
  BY <1>2, <1>3, ConnectDoes
<1>4. ASSUME NEW f, GetStep(f) PROVE DaemonTypes' /\ FrameTypes' /\ RunnerTypes'
  <2>1. /\ run.sock \in Sockets /\ down[run.sock] # << >> /\ f = Head(down[run.sock])
        /\ UNCHANGED <<durable, boot, permit, hand>>
    BY <1>4 DEF GetStep, GetResumed, GetOffer, GetClaimed, GetDispatch, GetRecorded
  <2>2. CASE GetResumed(f)
    BY <1>1, <2>1, <2>2, GetResumedDoes
  <2>3. CASE GetOffer(f)
    BY <1>1, <2>1, <2>3, GetOfferDoes
  <2>4. CASE GetClaimed(f)
    <3>1. run.exec = None
      <4>1. f = down[run.sock][1] /\ 1 \in DOMAIN down[run.sock] /\ f \in DownFrames
        BY <2>1, TailOf DEF FrameTypes
      <4>2. f.kind = "claimed" /\ (run.resumed = f.lease \/ run.offer = f.lease)
        BY <2>4 DEF GetClaimed, Gets
      <4>3. f.lease \in Leases /\ f.lease # None
        BY <4>1, <4>2, DownFrameFields, RunnerAssumption DEF None
      <4>4. CASE run.resumed = f.lease
        BY <4>3, <4>4 DEF JournalTells
      <4>5. CASE run.offer = f.lease
        <5>1. Has(down[run.sock], "claimed", run.offer)
          BY <4>1, <4>2, <4>5 DEF Has
        <5>2. journal = Empty
          BY <4>3, <4>5, <5>1 DEF OfferStage
        <5>3. QED
          BY <5>2, TypedValues DEF RunnerTypes
      <4>6. QED
        BY <4>2, <4>4, <4>5
    <3>2. QED
      BY <1>1, <2>1, <2>4, <3>1, GetClaimedDoes
  <2>5. CASE GetDispatch(f)
    BY <1>1, <2>1, <2>5, GetDispatchDoes
  <2>6. ASSUME NEW kind \in Acks, GetRecorded(kind, f)
        PROVE  DaemonTypes' /\ FrameTypes' /\ RunnerTypes'
    <3>1. run.exec # None => journal.end = "none"
      BY DEF JournalTells
    <3>2. QED
      BY <1>1, <2>1, <2>6, <3>1, GetRecordedDoes
  <2>7. QED
    BY <1>4, <2>2, <2>3, <2>4, <2>5, <2>6 DEF GetStep
<1>5. CASE ScanDone
  BY <1>1, <1>5, ScanDoneDoes
<1>6. CASE JournalStart
  <2>1. journal.end = "none"
    BY <1>6 DEF JournalStart, JournalTells
  <2>2. QED
    BY <1>1, <1>2, <1>6, <2>1, JournalStartDoes
<1>7. CASE Start
  BY <1>1, <1>2, <1>7, StartDoes
<1>8. CASE Resend
  <2>1. FrameTypes' /\ UNCHANGED <<durable, boot, permit, hand, journal, run>>
    BY <1>8, ResendDoes DEF runner
  <2>2. RunnerTypes'
    BY <2>1 DEF RunnerTypes
  <2>3. QED
    BY <1>1, <2>1, <2>2
<1>9. CASE LeaveStep
  <2>1. RunnerTypes' /\ down' \in [Sockets -> Seq(DownFrames)]
    BY <1>9, LeavesDoes DEF LeaveStep
  <2>2. <<Frame("shutdown", None, "none")>> \in Seq(UpFrames)
    BY FramesTyped
  <2>3. up' \in [Sockets -> Seq(UpFrames)]
    BY <1>9, <2>2, ToDaemonSends DEF LeaveStep, FrameTypes
  <2>4. QED
    BY <1>1, <1>9, <2>1, <2>3 DEF LeaveStep, FrameTypes
<1>10. ASSUME NEW e \in Ends, Finish(e) PROVE DaemonTypes' /\ FrameTypes' /\ RunnerTypes'
  BY <1>1, <1>10, FinishDoes
<1>11. CASE UNCHANGED vars
  <2>1. RunnerTypes'
    BY <1>11 DEF RunnerTypes, vars, runner
  <2>2. QED
    BY <1>1, <1>2, <1>11, <2>1 DEF vars, runner
<1>12. QED
  BY <1>3, <1>4, <1>5, <1>6, <1>7, <1>8, <1>9, <1>10, <1>11

(***************************************************************************)
(* The leases.                                                             *)
(***************************************************************************)

\* No handler goes on to a stage of the resume admission that matters here.
Calm ==
  \A s \in Sockets :
    /\ hand'[s].at \in Resuming => hand[s].at \in Resuming
    /\ hand'[s].at \in {"open", "reread"} => hand[s].at \in {"open", "reread"}

(* A step that leaves the leases, the connection's state and the permit.   *)
LEMMA QuietRules ==
  ASSUME LeaseRules, UNCHANGED <<lease, pending, boot, permit>>, conn'.state = conn.state, Calm
  PROVE  LeaseRules'
<1>1. OneCurrentLease' /\ LossPending' /\ PermitHolds' /\ BootCloses' /\ RefusedHasNoEnd'
  BY DEF LeaseRules, OneCurrentLease, LossPending, PermitHolds, BootCloses, RefusedHasNoEnd
<1>2. AdmissionExclusive' /\ OffersFenced'
  BY DEF LeaseRules, AdmissionExclusive, OffersFenced, Calm
<1>3. QED
  BY <1>1, <1>2 DEF LeaseRules

(* A step that may lose the connection.                                    *)
LEMMA LossRules ==
  ASSUME DaemonTypes, LeaseRules, LossEpoch(conn'), UNCHANGED <<boot, permit>>, Calm,
         \/ conn'.state = conn.state
         \/ conn.state \in Up /\ conn'.state = "lost"
         \/ conn.state \in Up /\ conn'.state = "shutdown" /\ ~Outstanding
  PROVE  LeaseRules'
<1>1. /\ \A l \in Leases :
           /\ lease'[l].state = lease[l].state /\ lease'[l].end = lease[l].end
           /\ lease'[l].fresh = lease[l].fresh
           /\ lease'[l].intact => lease[l].intact
      /\ IF conn'.state = "lost" /\ conn.state # "lost"
         THEN pending' /\ \A l \in Leases : ~lease'[l].intact
         ELSE pending' = pending /\ lease' = lease
  BY LossDoes
<1>2. OneCurrentLease' /\ PermitHolds' /\ RefusedHasNoEnd'
  BY <1>1 DEF LeaseRules, OneCurrentLease, PermitHolds, RefusedHasNoEnd
<1>3. LossPending'
  BY <1>1 DEF LeaseRules, LossPending, Outstanding, Up
<1>4. BootCloses'
  BY <1>1 DEF LeaseRules, BootCloses, Up
<1>5. AdmissionExclusive'
  BY DEF LeaseRules, AdmissionExclusive, Calm
<1>6. OffersFenced'
  BY <1>1 DEF LeaseRules, OffersFenced, Calm
<1>7. QED
  BY <1>2, <1>3, <1>4, <1>5, <1>6 DEF LeaseRules

(* A loss is propagated.                                                   *)
LEMMA PropagationRules ==
  ASSUME DaemonTypes, LeaseRules, lease' = Propagated, pending' = FALSE,
         UNCHANGED <<conn, boot, permit>>, Calm
  PROVE  LeaseRules'
<1>1. \A l \in Leases :
        /\ lease'[l].state \in Live => lease[l].intact /\ lease'[l] = lease[l]
        /\ lease'[l].state = "offered" => lease'[l] = lease[l]
        /\ lease'[l].state = "refused" => lease'[l] = lease[l]
  BY PropagatedDoes DEF Live, Lost
<1>2. OneCurrentLease' /\ PermitHolds' /\ RefusedHasNoEnd' /\ OffersFenced'
  BY <1>1 DEF LeaseRules, OneCurrentLease, PermitHolds, RefusedHasNoEnd, OffersFenced, Calm
<1>3. LossPending' /\ BootCloses'
  BY <1>1 DEF LeaseRules, LossPending, BootCloses
<1>4. AdmissionExclusive'
  BY DEF LeaseRules, AdmissionExclusive, Calm
<1>5. QED
  BY <1>2, <1>3, <1>4 DEF LeaseRules

(* A lease that is settled leaves nothing outstanding.                     *)
LEMMA SettlingRules ==
  ASSUME LeaseRules, NEW l \in Leases, lease'[l].state \in Final,
         lease'[l].state = "refused" => lease'[l].end = "none",
         \A m \in Leases \ {l} : lease'[m] = lease[m],
         UNCHANGED <<conn, pending, boot, permit>>, Calm
  PROVE  LeaseRules'
<1>1. lease'[l].state \notin Live /\ lease'[l].state # "offered"
  BY DEF Final, Live, Lost
<1>2. OneCurrentLease' /\ PermitHolds' /\ RefusedHasNoEnd' /\ OffersFenced'
  BY <1>1 DEF LeaseRules, OneCurrentLease, PermitHolds, RefusedHasNoEnd, OffersFenced, Calm
<1>3. LossPending' /\ BootCloses'
  BY <1>1 DEF LeaseRules, LossPending, BootCloses
<1>4. AdmissionExclusive'
  BY DEF LeaseRules, AdmissionExclusive, Calm
<1>5. QED
  BY <1>2, <1>3, <1>4 DEF LeaseRules

(* A reconciliation that answers leaves no offer outstanding, and takes    *)
(* the admission lock when it is free.                                     *)
LEMMA ReconcileRules ==
  ASSUME DaemonTypes, LeaseRules, NEW s \in Sockets, Reconcile(s)
  PROVE  LeaseRules'
<1> DEFINE inv == hand[s].inv
<1>1. /\ inv \in Inventories /\ lease' = Recorded(inv)
      /\ \A r \in Sockets \ {s} : hand'[r] = hand[r]
      /\ \/ hand'[s] = NoHandler
         \/ /\ \/ hand'[s].at = "lose" /\ hand[s].at = "hello"
               \/ /\ hand'[s].at = "open" /\ hand'[s].out = Outcome(inv)
                  /\ Outcome(inv) \in {"empty", "recorded", "await", "lost"}
      /\ UNCHANGED <<conn, pending, boot, permit>>
  BY ReconcileDoes
<1> HIDE DEF inv
<1>2. \A r \in Sockets \ {s} : hand[r].at \notin Resuming
  BY DEF Reconcile, AdmissionFree, LeaseRules, AdmissionExclusive, Resuming
<1>3. boot.at # "finish"
  BY DEF Reconcile, AdmissionFree, LeaseRules, AdmissionExclusive, Resuming
<1>4. /\ \A l \in Leases : l # inv.lease => lease'[l] = lease[l]
      /\ lease' = lease \/ (/\ inv.lease \in Leases /\ lease'[inv.lease].state \in Final
                            /\ lease'[inv.lease].state = "refused" => lease'[inv.lease].end = "none")
      /\ inv # Empty /\ Records(inv) => lease'[inv.lease].state \in Final
  BY <1>1, RecordedDoes DEF Final
<1>5. OneCurrentLease' /\ LossPending' /\ PermitHolds' /\ BootCloses' /\ RefusedHasNoEnd'
  <2>1. \A l \in Leases : lease'[l] = lease[l]
           \/ (lease'[l].state \in Final /\ (lease'[l].state = "refused" => lease'[l].end = "none"))
    BY <1>4
  <2>2. \A l \in Leases : lease'[l] = lease[l] \/
          (/\ lease'[l].state \notin Live /\ lease'[l].state # "offered"
           /\ lease'[l].state = "refused" => lease'[l].end = "none")
    BY <2>1 DEF Final, Live, Lost
  <2>3. OneCurrentLease' /\ PermitHolds' /\ RefusedHasNoEnd'
    BY <1>1, <2>2 DEF LeaseRules, OneCurrentLease, PermitHolds, RefusedHasNoEnd
  <2>4. LossPending' /\ BootCloses'
    BY <1>1, <2>2 DEF LeaseRules, LossPending, BootCloses
  <2>5. QED
    BY <2>3, <2>4
<1>6. AdmissionExclusive'
  BY <1>1, <1>2, <1>3 DEF AdmissionExclusive
<1>7. OffersFenced'
  <2>1. CASE hand'[s].at \notin {"open", "reread"}
    BY <1>1, <1>2, <2>1 DEF OffersFenced, Resuming
  <2>2. CASE hand'[s].at \in {"open", "reread"}
    <3>1. Outcome(inv) \in {"empty", "recorded", "await", "lost"}
      BY <1>1, <2>2, TypedValues
    <3>2. ~Omits(inv)
      BY <1>1, <3>1, OutcomeMeans
    <3>3. \A l \in Leases : l # inv.lease => lease'[l].state # "offered"
      BY <1>4, <3>2 DEF Omits, Live
    <3>4. ASSUME inv.lease \in Leases PROVE lease'[inv.lease].state # "offered"
      <4>1. inv # Empty
        BY <3>4, RunnerAssumption DEF Empty, None
      <4>2. CASE Records(inv)
        BY <1>4, <4>1, <4>2 DEF Final, Lost
      <4>3. CASE ~Records(inv)
        <5>1. lease' = lease
          BY <1>1, <4>3 DEF Recorded
        <5>2. Outcome(inv) \in {"await", "lost"}
          BY <1>1, <3>1, <4>1, <4>3, OutcomeMeans
        <5>3. QED
          BY <1>1, <5>1, <5>2, OutcomeMeans DEF Lost
      <4>4. QED
        BY <4>2, <4>3
    <3>5. QED
      BY <3>3, <3>4 DEF OffersFenced
  <2>3. QED
    BY <2>1, <2>2
<1>8. QED
  BY <1>5, <1>6, <1>7 DEF LeaseRules

(* A new connection opens when no offer is left for it to fence.           *)
LEMMA OpenRules ==
  ASSUME DaemonTypes, FrameTypes, LeaseRules, NEW s \in Sockets, OpenConnection(s)
  PROVE  LeaseRules'
<1>1. /\ hand[s].at = "open" /\ conn'.state = "connected"
      /\ \A l \in Leases :
           /\ lease'[l].state = lease[l].state /\ lease'[l].end = lease[l].end
           /\ lease'[l].intact = lease[l].intact
      /\ boot'.at = boot.at
      /\ \A r \in Sockets \ {s} : hand'[r] = hand[r]
      /\ hand'[s].at \in {"reread", "serving"}
      /\ UNCHANGED <<pending, permit>>
  BY OpenConnectionDoes
<1>2. \A l \in Leases : lease[l].state # "offered"
  BY <1>1 DEF LeaseRules, OffersFenced
<1>3. Calm
  BY <1>1 DEF Calm, Resuming
<1>4. OneCurrentLease' /\ PermitHolds' /\ RefusedHasNoEnd' /\ OffersFenced'
  BY <1>1, <1>2 DEF LeaseRules, OneCurrentLease, PermitHolds, RefusedHasNoEnd, OffersFenced
<1>5. AdmissionExclusive'
  BY <1>1, <1>3 DEF LeaseRules, AdmissionExclusive, Calm
<1>6. LossPending'
  BY <1>1 DEF LeaseRules, LossPending
<1>7. BootCloses'
  BY <1>1, <1>2 DEF LeaseRules, BootCloses
<1>8. QED
  BY <1>4, <1>5, <1>6, <1>7 DEF LeaseRules

(* Startup: what it finds is propagated before dispatch begins again.      *)
LEMMA BootRules ==
  ASSUME DaemonTypes, LeaseRules, BootPropagate \/ BootSettled \/ BootDone \/ DaemonCrash
  PROVE  LeaseRules'
<1>1. hand' = hand => Calm
  BY DEF Calm
<1>2. CASE BootPropagate
  BY <1>1, <1>2, PropagationRules DEF BootPropagate
<1>3. CASE BootSettled
  <2>1. /\ LossEpoch(conn') /\ boot.at = "reconcile" /\ boot'.at = "finish"
        /\ IF boot.captured /\ conn.state \in Up THEN conn'.state = "lost" ELSE conn' = conn
        /\ UNCHANGED <<permit, hand>>
    BY <1>3, BootSettledDoes
  <2>2. /\ \A l \in Leases :
             /\ lease'[l].state = lease[l].state /\ lease'[l].end = lease[l].end
             /\ lease'[l].fresh = lease[l].fresh
             /\ lease'[l].intact => lease[l].intact
        /\ IF conn'.state = "lost" /\ conn.state # "lost"
           THEN pending' /\ \A l \in Leases : ~lease'[l].intact
           ELSE pending' = pending /\ lease' = lease
    BY <2>1, LossDoes
  <2>3. AdmissionFree /\ \A l \in Leases : lease[l].state # "claimed"
    BY <1>3 DEF BootSettled
  <2>4. OneCurrentLease' /\ RefusedHasNoEnd' /\ OffersFenced'
    BY <2>1, <2>2 DEF LeaseRules, OneCurrentLease, RefusedHasNoEnd, OffersFenced
  <2>5. PermitHolds' /\ AdmissionExclusive'
    BY <2>1, <2>3 DEF LeaseRules, PermitHolds, AdmissionExclusive, AdmissionFree
  <2>6. LossPending'
    BY <2>1, <2>2 DEF LeaseRules, LossPending, Up
  <2>7. \A l \in Leases : lease[l].state \in Live => ~lease'[l].intact
    <3>1. SUFFICES ASSUME NEW l \in Leases, lease[l].state \in Live PROVE ~lease'[l].intact
      OBVIOUS
    <3>2. lease[l].state = "offered"
      BY <2>3, <3>1 DEF Live
    <3>3. conn.state \in Up \cup {"shutdown", "lost"}
      BY DEF DaemonTypes, Connections
    <3>4. CASE conn.state \in Up /\ boot.captured
      BY <2>1, <2>2, <3>4 DEF Up
    <3>5. CASE conn.state \in Up /\ ~boot.captured
      BY <2>1, <2>2, <3>1, <3>2, <3>5 DEF LeaseRules, BootCloses
    <3>6. CASE conn.state \in {"shutdown", "lost"}
      BY <2>2, <3>1, <3>6 DEF LeaseRules, LossPending
    <3>7. QED
      BY <3>3, <3>4, <3>5, <3>6
  <2>8. BootCloses'
    BY <2>1, <2>2, <2>7 DEF BootCloses
  <2>9. QED
    BY <2>4, <2>5, <2>6, <2>8 DEF LeaseRules
<1>4. CASE BootDone
  <2>1. /\ boot.at = "finish" /\ boot'.at = "no" /\ ~pending
        /\ UNCHANGED <<lease, conn, pending, permit, hand>>
    BY <1>4 DEF BootDone, durable
  <2>2. \A l \in Leases : lease[l].state \notin Live
    BY <2>1 DEF LeaseRules, LossPending, BootCloses
  <2>3. OneCurrentLease' /\ LossPending' /\ PermitHolds' /\ BootCloses' /\ RefusedHasNoEnd'
    BY <2>1, <2>2 DEF LeaseRules, OneCurrentLease, LossPending, PermitHolds, BootCloses,
       RefusedHasNoEnd
  <2>4. AdmissionExclusive' /\ OffersFenced'
    BY <2>1 DEF LeaseRules, AdmissionExclusive, OffersFenced
  <2>5. QED
    BY <2>3, <2>4 DEF LeaseRules
<1>5. CASE DaemonCrash
  <2>1. /\ \A s \in Sockets : hand'[s].at = "none"
        /\ permit' = None /\ conn'.state = conn.state
        /\ boot'.at = "reconcile" /\ (boot'.captured <=> conn.state \in Up)
        /\ UNCHANGED <<lease, pending>>
    BY <1>5, DaemonCrashDoes, TypedValues
  <2>2. OneCurrentLease' /\ LossPending' /\ RefusedHasNoEnd'
    BY <2>1 DEF LeaseRules, OneCurrentLease, LossPending, RefusedHasNoEnd
  <2>3. PermitHolds' /\ BootCloses'
    BY <2>1 DEF PermitHolds, BootCloses
  <2>4. AdmissionExclusive' /\ OffersFenced'
    BY <2>1 DEF AdmissionExclusive, OffersFenced, Resuming
  <2>5. QED
    BY <2>2, <2>3, <2>4 DEF LeaseRules
<1>6. QED
  BY <1>2, <1>3, <1>4, <1>5

(* A lease is offered when none is outstanding, and given up when it ends. *)
LEMMA OfferRules ==
  ASSUME DaemonTypes, LeaseRules, (\E l \in Leases : Offer(l)) \/ WaitForLease
  PROVE  LeaseRules'
<1>1. hand' = hand => Calm
  BY DEF Calm
<1>2. ASSUME NEW l \in Leases, Offer(l) PROVE LeaseRules'
  <2>1. /\ lease'[l].state = "offered" /\ lease'[l].fresh /\ lease'[l].intact
        /\ \A m \in Leases \ {l} : lease'[m] = lease[m]
        /\ permit' = l
        /\ UNCHANGED <<conn, pending, boot, hand>>
    BY <1>2, OfferDoes
  <2>2. boot.at = "no" /\ permit = None /\ AdmissionFree /\ conn.state = "connected"
    BY <1>2 DEF Offer
  <2>3. \A m \in Leases : lease[m].state \notin Live
    BY <2>2, RunnerAssumption DEF LeaseRules, PermitHolds, None
  <2>4. OneCurrentLease' /\ PermitHolds' /\ RefusedHasNoEnd'
    BY <2>1, <2>2, <2>3 DEF LeaseRules, OneCurrentLease, PermitHolds, RefusedHasNoEnd, Live
  <2>5. LossPending' /\ BootCloses'
    BY <2>1, <2>2, <2>3 DEF LossPending, BootCloses, Live
  <2>6. AdmissionExclusive' /\ OffersFenced'
    BY <2>1, <2>2 DEF LeaseRules, AdmissionExclusive, OffersFenced, AdmissionFree, Resuming
  <2>7. QED
    BY <2>4, <2>5, <2>6 DEF LeaseRules
<1>3. CASE WaitForLease
  <2>1. /\ permit \in Leases /\ lease[permit].state \in Final /\ permit' = None
        /\ UNCHANGED <<lease, conn, pending, boot, hand>>
    BY <1>3 DEF WaitForLease, durable, DaemonTypes
  <2>2. PermitHolds'
    BY <2>1 DEF LeaseRules, PermitHolds, Final, Live, Lost
  <2>3. OneCurrentLease' /\ LossPending' /\ BootCloses' /\ RefusedHasNoEnd'
    BY <2>1 DEF LeaseRules, OneCurrentLease, LossPending, BootCloses, RefusedHasNoEnd
  <2>4. AdmissionExclusive' /\ OffersFenced'
    BY <2>1 DEF LeaseRules, AdmissionExclusive, OffersFenced
  <2>5. QED
    BY <2>2, <2>3, <2>4 DEF LeaseRules
<1>4. QED
  BY <1>2, <1>3

(* Every step of the daemon keeps the rules.                               *)
LEMMA DaemonStepRules ==
  ASSUME DaemonTypes, FrameTypes, LeaseRules, DaemonStep
  PROVE  LeaseRules'
<1>1. ASSUME NEW s \in Sockets, \A r \in Sockets \ {s} : hand'[r] = hand[r],
             \/ hand'[s].at \notin Resuming
             \/ hand[s].at \in Resuming /\ hand'[s].at \notin {"open", "reread"}
      PROVE  Calm
  BY <1>1 DEF Calm, Resuming
<1>2. ASSUME NEW s \in Sockets, ResolveLoss(s) PROVE LeaseRules'
  <2>1. Calm
    BY <1>1, <1>2, ResolveLossDoes, TypedValues DEF Resuming
  <2>2. QED
    BY <1>2, <2>1, ResolveLossDoes, LossRules
<1>3. ASSUME NEW s \in Sockets, ServeStep(s) \/ SendOffer(s) \/ CloseStep(s) PROVE LeaseRules'
  <2>1. CASE ServeStep(s)
    BY <1>1, <2>1, QuietRules DEF ServeStep, durable, Resuming
  <2>2. CASE SendOffer(s)
    BY <1>1, <2>2, QuietRules, SendOfferDoes DEF durable, Resuming
  <2>3. CASE CloseStep(s)
    BY <1>1, <2>3, QuietRules, CloseHandlerDoes, TypedValues DEF CloseStep, durable, Resuming
  <2>4. QED
    BY <1>3, <2>1, <2>2, <2>3
<1>4. ASSUME NEW s \in Sockets, Propagate(s) PROVE LeaseRules'
  <2>1. Calm
    BY <1>1, <1>4, PropagateDoes, TypedValues DEF Resuming
  <2>2. QED
    BY <1>4, <2>1, PropagateDoes, PropagationRules
<1>5. ASSUME NEW s \in Sockets, EndStep(s) PROVE LeaseRules'
  <2>1. PICK to \in {"lost", "shutdown"} : EndHandler(s, to)
    BY <1>5 DEF EndStep
  <2>2. Calm
    BY <1>1, <2>1, EndHandlerDoes, TypedValues DEF Resuming
  <2>3. QED
    BY <1>5, <2>1, <2>2, EndHandlerDoes, LossRules DEF EndStep
<1>6. ASSUME NEW s \in Sockets, NEW l \in Leases, ClaimStep(s, l) PROVE LeaseRules'
  <2>1. /\ lease[l].state \in Live /\ lease'[l].state = "claimed"
        /\ lease'[l].intact = lease[l].intact /\ lease'[l].end = lease[l].end
        /\ \A m \in Leases \ {l} : lease'[m] = lease[m]
        /\ UNCHANGED <<conn, pending, hand, boot, permit>>
    BY <1>6 DEF ClaimStep
  <2>2. OneCurrentLease' /\ PermitHolds' /\ RefusedHasNoEnd' /\ OffersFenced'
    BY <2>1 DEF LeaseRules, OneCurrentLease, PermitHolds, RefusedHasNoEnd, OffersFenced, Live
  <2>3. LossPending' /\ BootCloses'
    BY <2>1 DEF LeaseRules, LossPending, BootCloses, Live
  <2>4. AdmissionExclusive'
    BY <2>1 DEF LeaseRules, AdmissionExclusive
  <2>5. QED
    BY <2>2, <2>3, <2>4 DEF LeaseRules
<1>7. ASSUME NEW s \in Sockets, NEW l \in Leases, ResultStep(s, l) \/ RefusalStep(s, l)
      PROVE  LeaseRules'
  <2>1. /\ lease'[l].state \in {"completed", "refused"}
        /\ lease'[l].state = "refused" => lease'[l].end = "none"
        /\ \A m \in Leases \ {l} : lease'[m] = lease[m]
        /\ \A r \in Sockets \ {s} : hand'[r] = hand[r]
        /\ hand'[s].at = "serving"
        /\ UNCHANGED <<conn, pending, boot, permit>>
    BY <1>7 DEF ResultStep, RefusalStep, RecordStep
  <2>2. Calm
    BY <1>1, <2>1 DEF Resuming
  <2>3. QED
    BY <2>1, <2>2, SettlingRules DEF Final
<1>8. ASSUME NEW s \in Sockets, Heartbeat(s) PROVE LeaseRules'
  <2>1. conn.state \in Up /\ conn'.state \in Up /\ UNCHANGED <<lease, pending, boot, permit, hand>>
    BY <1>8 DEF Heartbeat, Up, DaemonTypes, Connections
  <2>2. OneCurrentLease' /\ LossPending' /\ PermitHolds' /\ BootCloses' /\ RefusedHasNoEnd'
    BY <2>1 DEF LeaseRules, OneCurrentLease, LossPending, PermitHolds, BootCloses,
       RefusedHasNoEnd, Up
  <2>3. AdmissionExclusive' /\ OffersFenced'
    BY <2>1 DEF LeaseRules, AdmissionExclusive, OffersFenced
  <2>4. QED
    BY <2>2, <2>3 DEF LeaseRules
<1>9. QED
  BY <1>2, <1>3, <1>4, <1>5, <1>6, <1>7, <1>8, ReconcileRules, OpenRules, BootRules, OfferRules
     DEF DaemonStep

(* What the runner does leaves the daemon alone, until it connects.        *)
LEMMA RunnerQuiet ==
  ASSUME \/ \E f : GetStep(f)
         \/ ScanDone \/ JournalStart \/ Start \/ Resend \/ LeaveStep
         \/ \E e \in Ends : Finish(e)
         \/ UNCHANGED vars
  PROVE  UNCHANGED <<durable, boot, permit, hand>>
<1>1. ASSUME NEW f, GetStep(f) PROVE UNCHANGED <<durable, boot, permit, hand>>
  BY <1>1 DEF GetStep, GetResumed, GetOffer, GetClaimed, GetDispatch, GetRecorded
<1>2. CASE ScanDone
  BY <1>2 DEF ScanDone
<1>3. CASE JournalStart \/ Start \/ Resend \/ LeaveStep
  BY <1>3 DEF JournalStart, Start, Resend, LeaveStep
<1>4. ASSUME NEW e \in Ends, Finish(e) PROVE UNCHANGED <<durable, boot, permit, hand>>
  BY <1>4 DEF Finish
<1>5. CASE UNCHANGED vars
  BY <1>5 DEF vars
<1>6. QED
  BY <1>1, <1>2, <1>3, <1>4, <1>5

(* So the rules of the leases outlast every step.                          *)
LEMMA LeaseRulesStep ==
  ASSUME DaemonTypes, FrameTypes, RunnerTypes, LeaseRules, [Next]_vars
  PROVE  LeaseRules'
<1>1. CASE DaemonStep
  BY <1>1, DaemonStepRules
<1>2. ASSUME NEW s \in Sockets, Connect(s) PROVE LeaseRules'
  <2>1. Calm
    BY <1>2, ConnectDoes DEF Calm, Resuming
  <2>2. QED
    BY <1>2, <2>1, ConnectDoes, QuietRules
<1>3. CASE \/ \E f : GetStep(f)
           \/ ScanDone \/ JournalStart \/ Start \/ Resend \/ LeaveStep
           \/ \E e \in Ends : Finish(e)
           \/ UNCHANGED vars
  <2>1. UNCHANGED <<durable, boot, permit, hand>>
    BY <1>3, RunnerQuiet
  <2>2. Calm
    BY <2>1 DEF Calm
  <2>3. QED
    BY <2>1, <2>2, QuietRules DEF durable
<1>4. QED
  BY <1>1, <1>2, <1>3, StepCases

\* How a lease moves on in a step.
Moves(l) ==
  \/ lease'[l].state = lease[l].state /\ lease'[l].end = lease[l].end
  \/ lease[l].state = "none" /\ lease'[l].state = "offered"
  \/ lease[l].state = "offered" /\ lease'[l].state \in {"claimed", "refused", "lost_unclaimed"}
  \/ lease[l].state = "claimed" /\ lease'[l].state \in {"completed", "lost_claimed"}
  \/ lease[l].state = "lost_unclaimed" /\ lease'[l].state = "refused"

(* A lease never goes back.                                                *)
LEMMA LeaseMoves ==
  ASSUME DaemonTypes, FrameTypes, RunnerTypes, LeaseRules, [Next]_vars, NEW l \in Leases
  PROVE  Moves(l)
<1>1. lease' = lease => Moves(l)
  BY DEF Moves
<1>2. CASE DaemonStep
  <2>1. lease' = Propagated => Moves(l)
    BY PropagatedDoes DEF Moves, Live, LostState
  <2>2. LossEpoch(conn') => Moves(l)
    BY LossDoes DEF Moves
  <2>3. ASSUME NEW m \in Leases, Offer(m) PROVE Moves(l)
    <3>1. lease[m].state = "none"
      BY <2>3 DEF Offer
    <3>2. QED
      BY <2>3, <3>1, OfferDoes DEF Moves
  <2>4. CASE WaitForLease \/ BootPropagate \/ BootSettled \/ BootDone \/ DaemonCrash
    BY <1>1, <2>1, <2>2, <2>4, BootSettledDoes, DaemonCrashDoes
       DEF WaitForLease, BootPropagate, BootDone, durable
  <2>5. ASSUME NEW s \in Sockets, Reconcile(s) PROVE Moves(l)
    <3>1. hand[s].inv \in Inventories /\ lease' = Recorded(hand[s].inv)
      BY <2>5, ReconcileDoes
    <3>2. CASE hand[s].inv # Empty /\ Records(hand[s].inv) /\ hand[s].inv.lease = l
      BY <3>1, <3>2, RecordedDoes DEF Moves, LeaseRules, RefusedHasNoEnd
    <3>3. CASE ~(hand[s].inv # Empty /\ Records(hand[s].inv) /\ hand[s].inv.lease = l)
      BY <3>1, <3>3, RecordedDoes DEF Moves
    <3>4. QED
      BY <3>2, <3>3
  <2>6. ASSUME NEW s \in Sockets, ResolveLoss(s) \/ EndStep(s) PROVE Moves(l)
    BY <2>2, <2>6, ResolveLossDoes, EndHandlerDoes DEF EndStep
  <2>7. ASSUME NEW s \in Sockets, OpenConnection(s) PROVE Moves(l)
    BY <2>7, OpenConnectionDoes DEF Moves
  <2>8. ASSUME NEW s \in Sockets, ServeStep(s) \/ CloseStep(s) \/ Heartbeat(s) PROVE Moves(l)
    BY <1>1, <2>8 DEF ServeStep, CloseStep, Heartbeat, durable
  <2>9. ASSUME NEW s \in Sockets, SendOffer(s) PROVE Moves(l)
    BY <1>1, <2>9, SendOfferDoes DEF durable
  <2>10. ASSUME NEW s \in Sockets, Propagate(s) PROVE Moves(l)
    BY <2>1, <2>10, PropagateDoes
  <2>11. ASSUME NEW s \in Sockets, NEW m \in Leases, ClaimStep(s, m) PROVE Moves(l)
    BY <2>11 DEF ClaimStep, Moves, Live
  <2>12. ASSUME NEW s \in Sockets, NEW m \in Leases, ResultStep(s, m) PROVE Moves(l)
    BY <2>12 DEF ResultStep, RecordStep, Moves
  <2>13. ASSUME NEW s \in Sockets, NEW m \in Leases, RefusalStep(s, m) PROVE Moves(l)
    BY <2>13 DEF RefusalStep, RecordStep, Moves, LeaseRules, RefusedHasNoEnd
  <2>14. QED
    BY <1>2, <2>3, <2>4, <2>5, <2>6, <2>7, <2>8, <2>9, <2>10, <2>11, <2>12, <2>13 DEF DaemonStep
<1>3. ASSUME NEW s \in Sockets, Connect(s) PROVE Moves(l)
  BY <1>1, <1>3, ConnectDoes
<1>4. CASE \/ \E f : GetStep(f)
           \/ ScanDone \/ JournalStart \/ Start \/ Resend \/ LeaveStep
           \/ \E e \in Ends : Finish(e)
           \/ UNCHANGED vars
  BY <1>1, <1>4, RunnerQuiet DEF durable
<1>5. QED
  BY <1>2, <1>3, <1>4, StepCases

(***************************************************************************)
(* The frames in flight.                                                   *)
(***************************************************************************)

\* Queue r holds frames of q and of F, and repeats nothing new.
Grown(q, r, F) ==
  /\ \A i \in DOMAIN r : (\E j \in DOMAIN q : q[j] = r[i]) \/ r[i] \in F
  /\ \A kind, l : Once(q, kind, l) /\ (\A f \in F : ~(f.kind = kind /\ f.lease = l))
       => Once(r, kind, l)
  /\ \A kind, l : ~Has(q, kind, l) => Once(r, kind, l)

\* What a step adds to the frames on their way to the daemon and the runner.
UpNew(F) ==
  \A r \in Sockets :
    Grown(up[r], up'[r], IF r = run.sock /\ hand[r].at \notin {"none", "propagate"} THEN F ELSE {})

DownNew(s, F) ==
  \A r \in Sockets : Grown(down[r], down'[r], IF r = s /\ r = run.sock THEN F ELSE {})

(* A frame of the grown queue is an old one or a new one.                  *)
LEMMA HasGrown ==
  ASSUME NEW q, NEW r, NEW F, Grown(q, r, F), NEW kind, NEW l, Has(r, kind, l)
  PROVE  Has(q, kind, l) \/ \E f \in F : f.kind = kind /\ f.lease = l
BY DEF Grown, Has

(* A queue that is left alone, and one that is dropped.                    *)
LEMMA GrownSame ==
  ASSUME NEW q, NEW F
  PROVE  Grown(q, q, F) /\ Grown(q, << >>, F)
<1>1. DOMAIN << >> = {}
  OBVIOUS
<1>2. \A kind, l : Once(<< >>, kind, l)
  BY <1>1 DEF Once
<1>3. \A kind, l : ~Has(q, kind, l) => Once(q, kind, l)
  BY DEF Has, Once
<1>4. QED
  BY <1>1, <1>2, <1>3 DEF Grown

(* A queue from which one frame is read.                                   *)
LEMMA GrownTail ==
  ASSUME NEW S, NEW q \in Seq(S), q # << >>, NEW F
  PROVE  /\ Grown(q, Tail(q), F)
         /\ \A kind, l :
              Once(q, kind, l) /\ Head(q).kind = kind /\ Head(q).lease = l => ~Has(Tail(q), kind, l)
<1>1. /\ Head(q) = q[1] /\ 1 \in DOMAIN q
      /\ \A i \in DOMAIN Tail(q) : i \in Nat /\ i >= 1 /\ i + 1 \in DOMAIN q /\ Tail(q)[i] = q[i + 1]
  BY TailOf
<1>2. \A kind, l : Once(q, kind, l) => Once(Tail(q), kind, l)
  <2>1. SUFFICES ASSUME NEW kind, NEW l, Once(q, kind, l),
                        NEW i \in DOMAIN Tail(q), NEW j \in DOMAIN Tail(q),
                        Tail(q)[i].kind = kind, Tail(q)[i].lease = l,
                        Tail(q)[j].kind = kind, Tail(q)[j].lease = l
                 PROVE  i = j
    BY DEF Once
  <2>2. i + 1 = j + 1
    BY <1>1, <2>1 DEF Once
  <2>3. QED
    BY <1>1, <2>2
<1>3. ASSUME NEW kind, NEW l, Once(q, kind, l), Head(q).kind = kind, Head(q).lease = l
      PROVE  ~Has(Tail(q), kind, l)
  <2>1. SUFFICES ASSUME NEW i \in DOMAIN Tail(q), Tail(q)[i].kind = kind, Tail(q)[i].lease = l
                 PROVE  FALSE
    BY DEF Has
  <2>2. 1 = i + 1
    BY <1>1, <1>3, <2>1 DEF Once
  <2>3. QED
    BY <1>1, <2>1, <2>2
<1>4. \A i \in DOMAIN Tail(q) : \E j \in DOMAIN q : q[j] = Tail(q)[i]
  BY <1>1
<1>5. \A kind, l : ~Has(q, kind, l) => Once(Tail(q), kind, l)
  BY <1>2 DEF Has, Once
<1>6. Grown(q, Tail(q), F)
  BY <1>2, <1>4, <1>5 DEF Grown
<1>7. QED
  BY <1>3, <1>6

(* A queue to which one frame is sent.                                     *)
LEMMA GrownOne ==
  ASSUME NEW S, NEW q \in Seq(S), NEW f \in S
  PROVE  Grown(q, q \o <<f>>, {f})
<1> DEFINE r == q \o <<f>>
           n == Len(q)
<1>1. /\ n \in Nat /\ DOMAIN q = 1 .. n /\ DOMAIN r = 1 .. n + 1
      /\ \A i \in 1 .. n : r[i] = q[i]
      /\ r[n + 1] = f
  BY SendOne
<1> HIDE DEF r, n
<1>2. \A i \in DOMAIN r : (i \in DOMAIN q /\ r[i] = q[i]) \/ (i = n + 1 /\ r[i] = f)
  BY <1>1
<1>3. ASSUME NEW kind, NEW l, Once(q, kind, l), ~(f.kind = kind /\ f.lease = l)
      PROVE  Once(r, kind, l)
  BY <1>2, <1>3 DEF Once
<1>4. ASSUME NEW kind, NEW l, ~Has(q, kind, l)
      PROVE  Once(r, kind, l)
  BY <1>2, <1>4 DEF Once, Has
<1>5. Grown(q, r, {f})
  BY <1>2, <1>3, <1>4 DEF Grown
<1>6. QED
  BY <1>5 DEF r

(* A queue to which two frames are sent.                                   *)
LEMMA GrownTwo ==
  ASSUME NEW S, NEW q \in Seq(S), NEW f \in S, NEW g \in S, f.kind # g.kind
  PROVE  Grown(q, q \o <<f, g>>, {f, g})
<1> DEFINE r == q \o <<f, g>>
           n == Len(q)
<1>1. /\ n \in Nat /\ DOMAIN q = 1 .. n /\ DOMAIN r = 1 .. n + 2
      /\ \A i \in 1 .. n : r[i] = q[i]
      /\ r[n + 1] = f /\ r[n + 2] = g
  BY SendTwo
<1> HIDE DEF r, n
<1>2. \A i \in DOMAIN r : \/ i \in DOMAIN q /\ r[i] = q[i]
                          \/ i = n + 1 /\ r[i] = f
                          \/ i = n + 2 /\ r[i] = g
  BY <1>1
<1>3. ASSUME NEW kind, NEW l, Once(q, kind, l), ~(f.kind = kind /\ f.lease = l),
             ~(g.kind = kind /\ g.lease = l)
      PROVE  Once(r, kind, l)
  BY <1>2, <1>3 DEF Once
<1>4. ASSUME NEW kind, NEW l, ~Has(q, kind, l)
      PROVE  Once(r, kind, l)
  BY <1>2, <1>4 DEF Once, Has
<1>5. Grown(q, r, {f, g})
  BY <1>2, <1>3, <1>4 DEF Grown
<1>6. QED
  BY <1>5 DEF r

(* What the runner sends.                                                  *)
LEMMA RunnerSends ==
  ASSUME FrameTypes, run.sock \in Sockets, NEW f \in UpFrames, ToDaemon(<<f>>)
  PROVE  UpNew({f})
<1>1. <<f>> \in Seq(UpFrames)
  OBVIOUS
<1>2. /\ \A r \in Sockets : r # run.sock => up'[r] = up[r]
      /\ IF hand[run.sock].at \notin {"none", "propagate"}
         THEN up'[run.sock] = up[run.sock] \o <<f>> ELSE up' = up
  BY <1>1, ToDaemonSends
<1>3. up[run.sock] \in Seq(UpFrames)
  BY DEF FrameTypes
<1>4. Grown(up[run.sock], up[run.sock] \o <<f>>, {f})
  BY <1>3, GrownOne
<1>5. QED
  BY <1>2, <1>4, GrownSame DEF UpNew

(* What the daemon sends.                                                  *)
LEMMA DaemonSends ==
  ASSUME FrameTypes, NEW s \in Sockets, NEW f \in DownFrames, ToRunner(s, <<f>>)
  PROVE  DownNew(s, {f})
<1>1. <<f>> \in Seq(DownFrames)
  OBVIOUS
<1>2. /\ \A r \in Sockets : r # s \/ run.sock # s => down'[r] = down[r]
      /\ run.sock = s => down'[s] = down[s] \o <<f>>
  BY <1>1, ToRunnerSends
<1>3. down[s] \in Seq(DownFrames)
  BY DEF FrameTypes
<1>4. Grown(down[s], down[s] \o <<f>>, {f})
  BY <1>3, GrownOne
<1>5. QED
  BY <1>2, <1>4, GrownSame DEF DownNew

(* The claim is answered with two frames.                                  *)
LEMMA DaemonSendsTwo ==
  ASSUME FrameTypes, NEW s \in Sockets, NEW f \in DownFrames, NEW g \in DownFrames,
         f.kind # g.kind, ToRunner(s, <<f, g>>)
  PROVE  DownNew(s, {f, g})
<1>1. <<f, g>> \in Seq(DownFrames)
  OBVIOUS
<1>2. /\ \A r \in Sockets : r # s \/ run.sock # s => down'[r] = down[r]
      /\ run.sock = s => down'[s] = down[s] \o <<f, g>>
  BY <1>1, ToRunnerSends
<1>3. down[s] \in Seq(DownFrames)
  BY DEF FrameTypes
<1>4. Grown(down[s], down[s] \o <<f, g>>, {f, g})
  BY <1>3, GrownTwo
<1>5. QED
  BY <1>2, <1>4, GrownSame DEF DownNew

(***************************************************************************)
(* What the daemon's steps have in common.                                 *)
(***************************************************************************)

(* The daemon only takes frames of the runner, and leaves the runner alone. *)
LEMMA DaemonReads ==
  ASSUME DaemonTypes, FrameTypes, DaemonStep
  PROVE  UpNew({}) /\ UNCHANGED runner
<1>1. up' = up => UpNew({})
  BY GrownSame DEF UpNew
<1>2. ASSUME NEW s \in Sockets, up'[s] = << >>, \A r \in Sockets \ {s} : up'[r] = up[r]
      PROVE  UpNew({})
  BY <1>2, GrownSame DEF UpNew
<1>3. ASSUME NEW s \in Sockets, up[s] # << >>, Taken(s) PROVE UpNew({})
  <2>1. up'[s] = Tail(up[s]) /\ \A r \in Sockets \ {s} : up'[r] = up[r]
    BY <1>3, TakenDoes
  <2>2. Grown(up[s], up'[s], {})
    BY <1>3, <2>1, GrownTail DEF FrameTypes
  <2>3. QED
    BY <2>1, <2>2, GrownSame DEF UpNew
<1>4. ASSUME NEW l \in Leases, Offer(l) PROVE UpNew({}) /\ UNCHANGED runner
  BY <1>1, <1>4 DEF Offer
<1>5. CASE WaitForLease \/ BootPropagate \/ BootSettled \/ BootDone
  BY <1>1, <1>5 DEF WaitForLease, BootPropagate, BootSettled, BootDone
<1>6. CASE DaemonCrash
  BY <1>6, DaemonCrashDoes, GrownSame DEF UpNew
<1>7. ASSUME NEW s \in Sockets,
             \/ Reconcile(s) \/ ResolveLoss(s) \/ OpenConnection(s) \/ Propagate(s)
             \/ SendOffer(s) \/ ServeStep(s) \/ Heartbeat(s)
      PROVE  UpNew({}) /\ UNCHANGED runner
  BY <1>1, <1>7 DEF Reconcile, ResolveLoss, OpenConnection, Propagate, SendOffer, ServeStep,
     Heartbeat
<1>8. ASSUME NEW s \in Sockets, EndStep(s) \/ CloseStep(s) PROVE UpNew({}) /\ UNCHANGED runner
  BY <1>2, <1>8, EndHandlerDoes, CloseHandlerDoes DEF EndStep, CloseStep
<1>9. ASSUME NEW s \in Sockets, NEW l \in Leases,
             ClaimStep(s, l) \/ ResultStep(s, l) \/ RefusalStep(s, l)
      PROVE  UpNew({}) /\ UNCHANGED runner
  BY <1>3, <1>9 DEF ClaimStep, ResultStep, RefusalStep, RecordStep
<1>10. QED
  BY <1>4, <1>5, <1>6, <1>7, <1>8, <1>9 DEF DaemonStep

\* What a step of the daemon does to a handler.
HandMoves(r) ==
  /\ hand'[r].inv \in {hand[r].inv, Empty}
  /\ hand'[r].at \in {"hello"} \cup Resuming =>
       hand[r].at \in {"hello"} \cup Resuming /\ hand'[r].inv = hand[r].inv
  /\ hand'[r].at = "none" => hand'[r] = NoHandler \/ hand'[r] = hand[r]
  /\ hand'[r].at # "serving" => up'[r] = << >> \/ (hand[r].at # "serving" /\ up'[r] = up[r])
  /\ hand'[r].at = "serving" => hand[r].at \in {"serving", "open", "reread"}
  /\ \/ hand'[r].busy \in {hand[r].busy, None, hand[r].inv.lease}
     \/ hand'[r].busy \in Leases /\ lease[hand'[r].busy].state = "offered"
  /\ hand[r].at = "serving" /\ hand'[r].at = "serving" =>
       \/ hand'[r].busy = hand[r].busy
       \/ hand[r].busy = None
       \/ hand[r].busy \in Leases /\ lease'[hand[r].busy].state \in Final
  /\ conn'.owner = r => conn.owner = r \/ hand[r].at = "open"

(* Every handler moves so.                                                 *)
LEMMA DaemonHands ==
  ASSUME DaemonTypes, FrameTypes, DaemonStep, NEW r \in Sockets
  PROVE  HandMoves(r)
<1>1. hand'[r] = hand[r] /\ up'[r] = up[r] /\ (conn'.owner = conn.owner \/ conn'.owner # r)
        => HandMoves(r)
  BY DEF HandMoves
<1>2. ASSUME hand'[r] \in {NoHandler, [NoHandler EXCEPT !.at = "propagate"]}, up'[r] = << >>,
             conn'.owner = conn.owner \/ conn'.owner # r
      PROVE  HandMoves(r)
  <2>1. /\ hand'[r].at \in {"none", "propagate"} /\ hand'[r].inv = Empty /\ hand'[r].busy = None
        /\ hand'[r].at = "none" => hand'[r] = NoHandler
    BY <1>2, TypedValues
  <2>2. QED
    BY <1>2, <2>1 DEF HandMoves, Resuming
<1>3. ASSUME NEW l \in Leases, Offer(l) PROVE HandMoves(r)
  BY <1>1, <1>3 DEF Offer
<1>4. CASE WaitForLease \/ BootPropagate \/ BootSettled \/ BootDone
  BY <1>1, <1>4, BootSettledDoes DEF WaitForLease, BootPropagate, BootDone, durable
<1>5. CASE DaemonCrash
  BY <1>2, <1>5, DaemonCrashDoes, RunnerAssumption DEF None
<1>6. ASSUME NEW s \in Sockets, Reconcile(s) PROVE HandMoves(r)
  <2>1. CASE r # s
    BY <1>1, <1>6, <2>1, ReconcileDoes
  <2>2. CASE r = s
    <3>1. hand[s].at \in {"hello", "again"}
      BY <1>6 DEF Reconcile
    <3>2. /\ up' = up /\ conn' = conn
          /\ \/ hand'[s] = NoHandler
             \/ /\ hand'[s].inv = hand[s].inv /\ hand'[s].busy = hand[s].busy
                /\ hand'[s].at \in {"lose", "open"}
      BY <1>6, ReconcileDoes
    <3>3. QED
      BY <2>2, <3>1, <3>2, TypedValues DEF HandMoves, Resuming
  <2>3. QED
    BY <2>1, <2>2
<1>7. ASSUME NEW s \in Sockets, ResolveLoss(s) PROVE HandMoves(r)
  <2>1. CASE r # s
    BY <1>1, <1>7, <2>1, ResolveLossDoes
  <2>2. CASE r = s
    BY <1>7, <2>2, ResolveLossDoes, TypedValues DEF HandMoves, Resuming
  <2>3. QED
    BY <2>1, <2>2
<1>8. ASSUME NEW s \in Sockets, OpenConnection(s) PROVE HandMoves(r)
  <2>1. CASE r # s
    <3>1. hand'[r] = hand[r] /\ up' = up /\ conn'.owner = s
      BY <1>8, <2>1, OpenConnectionDoes
    <3>2. QED
      BY <1>1, <2>1, <3>1
  <2>2. CASE r = s
    <3>1. /\ hand[s].at = "open" /\ up' = up
          /\ \/ /\ hand'[s].at = "reread" /\ hand'[s].inv = hand[s].inv
                /\ hand'[s].busy = hand[s].busy
             \/ hand'[s].at = "serving" /\ hand'[s].inv = Empty /\ hand'[s].busy = None
      BY <1>8, OpenConnectionDoes
    <3>2. QED
      BY <2>2, <3>1 DEF HandMoves, Resuming
  <2>3. QED
    BY <2>1, <2>2
<1>9. ASSUME NEW s \in Sockets, ServeStep(s) PROVE HandMoves(r)
  <2>1. CASE r # s
    BY <1>1, <1>9, <2>1 DEF ServeStep, durable
  <2>2. CASE r = s
    <3>1. /\ hand[s].at = "reread" /\ hand'[s].at = "serving" /\ hand'[s].inv = Empty
          /\ hand'[s].busy \in {None, hand[s].inv.lease} /\ up' = up /\ conn' = conn
      BY <1>9 DEF ServeStep, durable
    <3>2. QED
      BY <2>2, <3>1 DEF HandMoves, Resuming
  <2>3. QED
    BY <2>1, <2>2
<1>10. ASSUME NEW s \in Sockets, Propagate(s) PROVE HandMoves(r)
  <2>1. CASE r # s
    BY <1>1, <1>10, <2>1, PropagateDoes
  <2>2. CASE r = s
    <3>1. hand[s].at \in {"propagate", "resolve"}
      BY <1>10 DEF Propagate
    <3>2. QED
      BY <1>10, <2>2, <3>1, PropagateDoes, TypedValues DEF HandMoves, Resuming
  <2>3. QED
    BY <2>1, <2>2
<1>11. ASSUME NEW s \in Sockets, SendOffer(s) PROVE HandMoves(r)
  <2>1. CASE r # s
    BY <1>1, <1>11, <2>1, SendOfferDoes DEF durable
  <2>2. CASE r = s
    BY <1>11, <2>2, SendOfferDoes DEF HandMoves, Resuming, durable
  <2>3. QED
    BY <2>1, <2>2
<1>12. ASSUME NEW s \in Sockets, EndStep(s) PROVE HandMoves(r)
  <2>1. PICK to \in {"lost", "shutdown"} : EndHandler(s, to)
    BY <1>12 DEF EndStep
  <2>2. QED
    BY <1>1, <1>2, <2>1, EndHandlerDoes
<1>13. ASSUME NEW s \in Sockets, CloseStep(s) PROVE HandMoves(r)
  BY <1>1, <1>2, <1>13, CloseHandlerDoes DEF CloseStep, durable
<1>14. ASSUME NEW s \in Sockets, NEW l \in Leases, ClaimStep(s, l) PROVE HandMoves(r)
  <2>1. /\ hand' = hand /\ conn' = conn /\ hand[s].at = "serving"
        /\ \A q \in Sockets \ {s} : up'[q] = up[q]
    BY <1>14, TakenDoes DEF ClaimStep
  <2>2. QED
    BY <2>1 DEF HandMoves
<1>15. ASSUME NEW s \in Sockets, NEW l \in Leases, ResultStep(s, l) \/ RefusalStep(s, l)
       PROVE  HandMoves(r)
  <2>1. PICK state \in {"completed", "refused"}, kind \in Acks : RecordStep(s, l, state, kind)
    BY <1>15 DEF ResultStep, RefusalStep, Acks
  <2>2. /\ \A q \in Sockets \ {s} : hand'[q] = hand[q] /\ up'[q] = up[q]
        /\ hand[s].at = "serving" /\ hand'[s].at = "serving" /\ hand'[s].inv = hand[s].inv
        /\ hand'[s].busy = IF hand[s].busy = l THEN None ELSE hand[s].busy
        /\ lease'[l].state \in Final /\ conn' = conn
    BY <2>1, TakenDoes DEF RecordStep, Final
  <2>3. CASE r # s
    BY <1>1, <2>2, <2>3
  <2>4. CASE r = s
    BY <2>2, <2>4 DEF HandMoves, Resuming
  <2>5. QED
    BY <2>3, <2>4
<1>16. ASSUME NEW s \in Sockets, Heartbeat(s) PROVE HandMoves(r)
  BY <1>1, <1>16 DEF Heartbeat, DaemonTypes, Connections
<1>17. QED
  BY <1>3, <1>4, <1>5, <1>6, <1>7, <1>8, <1>9, <1>10, <1>11, <1>12, <1>13, <1>14, <1>15, <1>16
     DEF DaemonStep

\* A frame that the daemon sends on socket s.
NewFrame(s, f) ==
  \/ f.kind = "shutdown"
  \/ /\ f.kind = "resumed" /\ hand[s].at \in {"open", "reread"}
     /\ f.lease = hand[s].inv.lease /\ Fits(hand[s].inv, f.end)
     /\ hand'[s].busy = IF f.end = "await" THEN f.lease ELSE None
  \/ /\ f.kind = "offer" /\ hand[s].at = "serving" /\ hand[s].busy = None /\ conn.owner = s
     /\ lease[f.lease].state = "offered" /\ lease[f.lease].fresh
     /\ hand'[s].busy = f.lease /\ UNCHANGED durable
  \/ /\ f.kind \in {"claimed", "dispatch"} /\ hand[s].at = "serving"
     /\ lease'[f.lease].state = "claimed" /\ Has(up[s], "claim", f.lease)
     /\ Once(up[s], "claim", f.lease) => ~Has(up'[s], "claim", f.lease)
  \/ /\ f.kind = "recorded" /\ hand[s].at = "serving"
     /\ lease'[f.lease].state = "completed" /\ Has(up[s], "result", f.lease)
  \/ /\ f.kind = "refusal_recorded" /\ hand[s].at = "serving"
     /\ lease'[f.lease].state = "refused" /\ Has(up[s], "refusal", f.lease)

\* What a step of the daemon sends, on a socket whose handler serves.
Sends(s, F) ==
  /\ F \subseteq DownFrames /\ DownNew(s, F)
  /\ \A f \in F : NewFrame(s, f) /\ hand'[s].at \notin {"hello"} \cup Resuming

(* The frames that each step sends.                                        *)
LEMMA DaemonSent ==
  ASSUME DaemonTypes, FrameTypes, ResumeFits, DaemonStep
  PROVE  \E s \in Sockets, F \in SUBSET DownFrames : Sends(s, F)
<1>1. ASSUME NEW s \in Sockets, down' = down PROVE Sends(s, {})
  <2>1. DownNew(s, {})
    BY <1>1, GrownSame DEF DownNew
  <2>2. QED
    BY <2>1 DEF Sends
<1>2. ASSUME NEW s \in Sockets, NEW f \in DownFrames, ToRunner(s, <<f>>), NewFrame(s, f),
             hand'[s].at \notin {"hello"} \cup Resuming
      PROVE  Sends(s, {f})
  <2>1. DownNew(s, {f})
    BY <1>2, DaemonSends
  <2>2. QED
    BY <1>2, <2>1 DEF Sends
<1>3. \E s \in Sockets : TRUE
  <2>1. Cardinality({}) = 0
    BY FS_EmptySet
  <2>2. ~(0 > 1)
    OBVIOUS
  <2>3. Sockets # {}
    BY <2>1, <2>2, RunnerAssumption
  <2>4. QED
    BY <2>3
<1>4. down' = down => \E s \in Sockets : \E F : Sends(s, F)
  BY <1>1, <1>3
<1>5. ASSUME NEW l \in Leases, Offer(l) PROVE down' = down
  BY <1>5 DEF Offer
<1>6. ASSUME WaitForLease \/ BootPropagate \/ BootSettled \/ BootDone
      PROVE  down' = down
  BY <1>6 DEF WaitForLease, BootPropagate, BootSettled, BootDone
<1>7. ASSUME NEW s \in Sockets,
             Reconcile(s) \/ ResolveLoss(s) \/ Propagate(s) \/ CloseStep(s) \/ Heartbeat(s)
      PROVE  down' = down
  BY <1>7 DEF Reconcile, ResolveLoss, Propagate, CloseStep, Heartbeat
<1>8. CASE DaemonCrash
  <2>1. \A s \in Sockets : down'[s] = << >>
    BY <1>8, DaemonCrashDoes
  <2>2. ASSUME NEW s \in Sockets PROVE DownNew(s, {})
    BY <2>1, GrownSame DEF DownNew
  <2>3. QED
    BY <1>3, <2>2 DEF Sends
<1>9. ASSUME NEW s \in Sockets, OpenConnection(s) PROVE \E F : Sends(s, F)
  <2>1. CASE hand[s].out = "await"
    BY <1>1, <1>9, <2>1, OpenConnectionDoes
  <2>2. CASE hand[s].out # "await"
    <3> DEFINE f == Frame("resumed", hand[s].inv.lease, hand[s].out)
    <3>1. /\ hand[s].at = "open" /\ ToRunner(s, <<f>>)
          /\ hand'[s].at = "serving" /\ hand'[s].busy = None
      BY <1>9, <2>2, OpenConnectionDoes
    <3>2. Fits(hand[s].inv, hand[s].out)
      BY <3>1 DEF ResumeFits
    <3>3. hand[s].inv.lease \in Leases \cup {None} /\ hand[s].out \in {"empty", "recorded", "lost"}
      BY <2>2, <3>2 DEF Fits, DaemonTypes, Handlers, Inventories
    <3>4. f \in DownFrames
      BY <3>3, FramesTyped
    <3>5. f.kind = "resumed" /\ f.lease = hand[s].inv.lease /\ f.end = hand[s].out
      BY FrameFields
    <3> HIDE DEF f
    <3>6. NewFrame(s, f)
      BY <2>2, <3>1, <3>2, <3>5 DEF NewFrame
    <3>7. QED
      BY <1>2, <3>1, <3>4, <3>6 DEF Resuming
  <2>3. QED
    BY <2>1, <2>2
<1>10. ASSUME NEW s \in Sockets, ServeStep(s) PROVE \E F : Sends(s, F)
  <2> DEFINE out == Outcome(hand[s].inv)
             f == Frame("resumed", hand[s].inv.lease, out)
  <2>1. /\ hand[s].at = "reread" /\ ToRunner(s, <<f>>) /\ out \in {"await", "lost"}
        /\ hand'[s].at = "serving"
        /\ hand'[s].busy = IF out = "await" THEN hand[s].inv.lease ELSE None
    BY <1>10 DEF ServeStep
  <2>2. hand[s].inv \in Inventories
    BY DEF DaemonTypes, Handlers
  <2>3. /\ hand[s].inv # Empty /\ hand[s].inv.lease \in Leases
        /\ out = "await" => hand[s].inv.phase \in {"waiting", "received"}
        /\ out = "lost" => lease[hand[s].inv.lease].state \in Lost
    BY <2>1, <2>2, OutcomeMeans
  <2> HIDE DEF out
  <2>4. Fits(hand[s].inv, out)
    BY <2>1, <2>3 DEF Fits, Final
  <2>5. f \in DownFrames
    BY <2>1, <2>3, FramesTyped
  <2>6. f.kind = "resumed" /\ f.lease = hand[s].inv.lease /\ f.end = out
    BY FrameFields
  <2> HIDE DEF f
  <2>7. NewFrame(s, f)
    BY <2>1, <2>4, <2>6 DEF NewFrame
  <2>8. QED
    BY <1>2, <2>1, <2>5, <2>7 DEF Resuming
<1>11. ASSUME NEW s \in Sockets, SendOffer(s) PROVE \E F : Sends(s, F)
  <2>1. PICK l \in Leases : /\ lease[l].state = "offered" /\ lease[l].fresh
                            /\ hand'[s].busy = l
                            /\ ToRunner(s, <<Frame("offer", l, "none")>>)
    BY <1>11, SendOfferDoes
  <2>2. /\ hand[s].at = "serving" /\ hand[s].busy = None /\ conn.owner = s
        /\ hand'[s].at = "serving" /\ UNCHANGED durable
    BY <1>11, SendOfferDoes
  <2> DEFINE f == Frame("offer", l, "none")
  <2>3. f.kind = "offer" /\ f.lease = l /\ f \in DownFrames
    BY FrameFields, FramesTyped
  <2>4. ToRunner(s, <<f>>)
    BY <2>1
  <2> HIDE DEF f
  <2>5. NewFrame(s, f)
    BY <2>1, <2>2, <2>3 DEF NewFrame
  <2>6. QED
    BY <1>2, <2>2, <2>3, <2>4, <2>5 DEF Resuming
<1>12. ASSUME NEW s \in Sockets, EndStep(s) PROVE \E F : Sends(s, F)
  <2> DEFINE f == Frame("shutdown", None, "none")
  <2>1. f.kind = "shutdown" /\ f \in DownFrames
    BY FrameFields, FramesTyped
  <2>2. down' = down \/ ToRunner(s, <<f>>)
    BY <1>12 DEF EndStep
  <2> HIDE DEF f
  <2>3. hand'[s].at \in {"none", "propagate"}
    BY <1>12, EndHandlerDoes, TypedValues DEF EndStep
  <2>4. NewFrame(s, f)
    BY <2>1 DEF NewFrame
  <2>5. QED
    BY <1>1, <1>2, <2>1, <2>2, <2>3, <2>4 DEF Resuming
<1>13. ASSUME NEW s \in Sockets, NEW l \in Leases, ClaimStep(s, l) PROVE \E F : Sends(s, F)
  <2> DEFINE f == Frame("claimed", l, "none")
             g == Frame("dispatch", l, "none")
  <2>1. f.kind = "claimed" /\ f.lease = l /\ f \in DownFrames
    BY FrameFields, FramesTyped
  <2>2. g.kind = "dispatch" /\ g.lease = l /\ g \in DownFrames
    BY FrameFields, FramesTyped
  <2>3. ToRunner(s, <<f, g>>) /\ hand[s].at = "serving" /\ hand' = hand /\ lease'[l].state = "claimed"
    BY <1>13 DEF ClaimStep
  <2> HIDE DEF f, g
  <2>4. /\ Has(up[s], "claim", l)
        /\ Once(up[s], "claim", l) => ~Has(up'[s], "claim", l)
    <3>1. /\ up[s] \in Seq(UpFrames) /\ up[s] # << >>
          /\ Head(up[s]).kind = "claim" /\ Head(up[s]).lease = l
      BY <1>13 DEF ClaimStep, FrameTypes
    <3>2. Head(up[s]) = up[s][1] /\ 1 \in DOMAIN up[s]
      BY <3>1, TailOf
    <3>3. up'[s] = Tail(up[s])
      BY <1>13, <3>1, TakenDoes DEF ClaimStep
    <3>4. Once(up[s], "claim", l) => ~Has(Tail(up[s]), "claim", l)
      BY <3>1, GrownTail
    <3>5. QED
      BY <3>1, <3>2, <3>3, <3>4 DEF Has
  <2>5. NewFrame(s, f) /\ NewFrame(s, g)
    BY <2>1, <2>2, <2>3, <2>4 DEF NewFrame
  <2>6. DownNew(s, {f, g})
    BY <2>1, <2>2, <2>3, DaemonSendsTwo
  <2>7. QED
    BY <2>1, <2>2, <2>3, <2>5, <2>6 DEF Sends, Resuming
<1>14. ASSUME NEW s \in Sockets, NEW l \in Leases, ResultStep(s, l) \/ RefusalStep(s, l)
       PROVE  \E F : Sends(s, F)
  <2>1. PICK state \in {"completed", "refused"}, kind \in Acks :
          /\ RecordStep(s, l, state, kind)
          /\ \/ kind = "recorded" /\ state = "completed" /\ Head(up[s]).kind = "result"
             \/ kind = "refusal_recorded" /\ state = "refused" /\ Head(up[s]).kind = "refusal"
    BY <1>14 DEF ResultStep, RefusalStep, Acks
  <2> DEFINE f == Frame(kind, l, "none")
  <2>2. f.kind = kind /\ f.lease = l /\ f \in DownFrames
    BY FrameFields, FramesTyped DEF Acks
  <2>3. /\ hand[s].at = "serving" /\ ToRunner(s, <<f>>) /\ hand'[s].at = "serving"
        /\ lease'[l].state = state
    BY <2>1 DEF RecordStep
  <2> HIDE DEF f
  <2>4. Has(up[s], Head(up[s]).kind, l)
    <3>1. up[s] \in Seq(UpFrames) /\ up[s] # << >> /\ Head(up[s]).lease = l
      BY <2>1 DEF RecordStep, FrameTypes
    <3>2. Head(up[s]) = up[s][1] /\ 1 \in DOMAIN up[s]
      BY <3>1, TailOf
    <3>3. QED
      BY <3>1, <3>2 DEF Has
  <2>5. NewFrame(s, f)
    BY <2>1, <2>2, <2>3, <2>4 DEF NewFrame
  <2>6. QED
    BY <1>2, <2>2, <2>3, <2>5 DEF Resuming
<1>15. \A s \in Sockets : \A F : Sends(s, F) => F \in SUBSET DownFrames
  BY DEF Sends
<1>16. \E s \in Sockets : \E F : Sends(s, F)
  BY <1>4, <1>5, <1>6, <1>7, <1>8, <1>9, <1>10, <1>11, <1>12, <1>13, <1>14 DEF DaemonStep
<1>17. QED
  BY <1>15, <1>16

\* What lets a lease be settled or claimed, and what a fresh offer was.
Caused(l) ==
  /\ lease'[l].state = "refused" =>
       \/ lease[l].state = "refused"
       \/ \E s \in Sockets : \/ hand[s].inv.lease = l /\ hand[s].inv.phase = "refused"
                             \/ Has(up[s], "refusal", l)
  /\ lease'[l].state = "claimed" =>
       lease[l].state = "claimed" \/ \E s \in Sockets : Has(up[s], "claim", l)
  /\ lease'[l].state = "completed" =>
       \/ lease[l].state = "completed" /\ lease'[l].end = lease[l].end
       \/ \E s \in Sockets :
            \/ hand[s].inv.lease = l /\ hand[s].inv.end # "none" /\ lease'[l].end = hand[s].inv.end
            \/ \E i \in DOMAIN up[s] : /\ up[s][i].kind = "result" /\ up[s][i].lease = l
                                       /\ up[s][i].end \in Ends /\ lease'[l].end = up[s][i].end
  /\ lease'[l].state = "offered" =>
       \/ lease[l].state = "none"
       \/ lease[l].state = "offered" /\ (lease'[l].fresh => lease[l].fresh)

(* Every lease is settled and claimed on evidence.                         *)
LEMMA LeaseCause ==
  ASSUME DaemonTypes, FrameTypes, DaemonStep, NEW l \in Leases
  PROVE  Caused(l)
<1>1. lease'[l] = lease[l] => Caused(l)
  BY DEF Caused
<1>2. lease' = Propagated => Caused(l)
  BY PropagatedDoes DEF Caused, Lost
<1>3. LossEpoch(conn') => Caused(l)
  BY LossDoes DEF Caused
<1>4. ASSUME NEW m \in Leases, Offer(m) PROVE Caused(l)
  <2>1. lease[m].state = "none"
    BY <1>4 DEF Offer
  <2>2. CASE l = m
    BY <1>4, <2>1, <2>2, OfferDoes DEF Caused
  <2>3. CASE l # m
    BY <1>1, <1>4, <2>3, OfferDoes
  <2>4. QED
    BY <2>2, <2>3
<1>5. CASE WaitForLease \/ BootPropagate \/ BootSettled \/ BootDone \/ DaemonCrash
  BY <1>1, <1>2, <1>3, <1>5, BootSettledDoes, DaemonCrashDoes
     DEF WaitForLease, BootPropagate, BootDone, durable
<1>6. ASSUME NEW s \in Sockets, Reconcile(s) PROVE Caused(l)
  <2> DEFINE inv == hand[s].inv
  <2>1. inv \in Inventories /\ lease' = Recorded(inv)
    BY <1>6, ReconcileDoes
  <2>2. CASE inv # Empty /\ Records(inv) /\ inv.lease = l
    <3>1. /\ lease'[l].state = IF inv.phase = "refused" THEN "refused" ELSE "completed"
          /\ lease'[l].end = inv.end
          /\ inv.phase # "refused" => inv.end # "none"
      BY <2>1, <2>2, RecordedDoes
    <3>2. QED
      BY <2>2, <3>1 DEF Caused
  <2>3. CASE ~(inv # Empty /\ Records(inv) /\ inv.lease = l)
    BY <1>1, <2>1, <2>3, RecordedDoes
  <2>4. QED
    BY <2>2, <2>3
<1>7. ASSUME NEW s \in Sockets, ResolveLoss(s) \/ EndStep(s) PROVE Caused(l)
  BY <1>3, <1>7, ResolveLossDoes, EndHandlerDoes DEF EndStep
<1>8. ASSUME NEW s \in Sockets, OpenConnection(s) PROVE Caused(l)
  BY <1>8, OpenConnectionDoes DEF Caused
<1>9. ASSUME NEW s \in Sockets, ServeStep(s) \/ CloseStep(s) \/ Heartbeat(s) PROVE Caused(l)
  BY <1>1, <1>9 DEF ServeStep, CloseStep, Heartbeat, durable
<1>10. ASSUME NEW s \in Sockets, SendOffer(s) PROVE Caused(l)
  BY <1>1, <1>10, SendOfferDoes DEF durable
<1>11. ASSUME NEW s \in Sockets, Propagate(s) PROVE Caused(l)
  BY <1>2, <1>11, PropagateDoes
<1>12. ASSUME NEW s \in Sockets, NEW m \in Leases,
              ClaimStep(s, m) \/ ResultStep(s, m) \/ RefusalStep(s, m)
       PROVE  Caused(l)
  <2>1. up[s] # << >> /\ Head(up[s]).lease = m
    BY <1>12 DEF ClaimStep, ResultStep, RefusalStep, RecordStep
  <2>2. Head(up[s]) = up[s][1] /\ 1 \in DOMAIN up[s]
    BY <2>1, TailOf DEF FrameTypes
  <2>3. CASE l # m
    BY <1>1, <1>12, <2>3 DEF ClaimStep, ResultStep, RefusalStep, RecordStep
  <2>4. CASE l = m /\ ClaimStep(s, m)
    BY <2>1, <2>2, <2>4 DEF ClaimStep, Caused, Has
  <2>5. CASE l = m /\ ResultStep(s, m)
    BY <2>1, <2>2, <2>5 DEF ResultStep, RecordStep, Caused
  <2>6. CASE l = m /\ RefusalStep(s, m)
    BY <2>1, <2>2, <2>6 DEF RefusalStep, RecordStep, Caused, Has
  <2>7. QED
    BY <1>12, <2>3, <2>4, <2>5, <2>6
<1>13. QED
  BY <1>4, <1>5, <1>6, <1>7, <1>8, <1>9, <1>10, <1>11, <1>12 DEF DaemonStep

(***************************************************************************)
(* The journal and the runner's connection.                                *)
(***************************************************************************)

(* The journal goes on telling what was started and produced.              *)
LEMMA JournalTellsStep ==
  ASSUME ExecInv, [Next]_vars
  PROVE  JournalTells'
<1>1. /\ DaemonTypes /\ FrameTypes /\ RunnerTypes /\ JournalTells /\ OfferStage /\ ClosedEnds
      /\ ResumeFits
  BY DEF ExecInv, LeaseInv
<1>2. (UNCHANGED runner) => JournalTells'
  BY <1>1 DEF JournalTells, runner
<1>3. None \notin Leases
  BY RunnerAssumption DEF None
<1>4. ASSUME NEW s \in Sockets, Connect(s) PROVE JournalTells'
  <2>1. /\ run'.at = "hello" /\ run'.exec = None /\ run'.resumed = None
        /\ UNCHANGED <<journal, started, produced>>
    BY <1>1, <1>4, ConnectDoes
  <2>2. QED
    BY <1>1, <2>1 DEF JournalTells
<1>5. CASE LeaveStep
  <2>1. /\ run'.at = "idle" /\ run'.exec = None /\ run'.resumed = None
        /\ UNCHANGED <<journal, started, produced>>
    BY <1>1, <1>5, LeavesDoes DEF LeaveStep
  <2>2. QED
    BY <1>1, <2>1 DEF JournalTells
<1>6. ASSUME run.at = "serving", NEW l \in Leases, Dispatches(l), UNCHANGED <<started, produced>>
      PROVE  JournalTells'
  <2>1. /\ journal'.lease = l /\ journal'.phase = "received" /\ journal'.end = "none"
        /\ journal.lease = l /\ journal.end = "none" /\ journal.phase \in {"waiting", "received"}
        /\ run'.at = "dispatching" /\ run'.offer = run.offer /\ run'.resumed = run.resumed
        /\ run'.exec = run.exec /\ run.exec = None
    BY <1>1, <1>6, DispatchesDoes
  <2>2. QED
    BY <1>1, <1>6, <2>1 DEF JournalTells
<1>7. CASE ScanDone
  <2>1. CASE run.deferred \in Leases /\ Dispatches(run.deferred)
    BY <1>1, <1>6, <1>7, <2>1, ScanDoneDoes
  <2>2. CASE ~(run.deferred \in Leases /\ Dispatches(run.deferred))
    <3>1. /\ UNCHANGED <<journal, started, produced>>
          /\ run'.at = run.at /\ run'.offer = run.offer /\ run'.resumed = run.resumed
          /\ run'.exec = run.exec
      BY <1>1, <1>7, <2>2, ScanDoneDoes
    <3>2. QED
      BY <1>1, <3>1 DEF JournalTells
  <2>3. QED
    BY <2>1, <2>2
<1>8. CASE JournalStart
  <2>1. /\ journal.phase = "received" /\ journal.end = "none"
        /\ journal'.lease = journal.lease /\ journal'.phase = "may_have_started"
        /\ journal'.end = journal.end
        /\ run'.at = "starting" /\ run'.offer = run.offer /\ run'.resumed = run.resumed
        /\ run'.exec = run.exec /\ UNCHANGED <<started, produced>>
    <3>1. journal.end = "none"
      BY <1>1, <1>8 DEF JournalTells, JournalStart
    <3>2. QED
      BY <1>1, <1>8, <3>1, JournalStartDoes
  <2>2. QED
    BY <1>1, <2>1 DEF JournalTells
<1>9. CASE Start
  <2>1. /\ run.at = "starting" /\ journal.lease \in Leases
        /\ journal.phase = "may_have_started"
        /\ run'.at = "serving" /\ run'.resumed = None /\ run'.exec = journal.lease
        /\ started' = [started EXCEPT ![journal.lease] = @ + 1]
        /\ UNCHANGED <<journal, produced>>
    BY <1>1, <1>9, StartDoes
  <2>2. started[journal.lease] = 0 /\ started \in [Leases -> 0 .. 1] /\ journal.end = "none"
    BY <1>1, <2>1 DEF JournalTells
  <2>3. produced[journal.lease] = "none"
    BY <1>1, <2>1, <2>2 DEF JournalTells
  <2>4. /\ started' \in [Leases -> 0 .. 1] /\ started'[journal.lease] = 1
        /\ \A l \in Leases : started[l] = 1 => started'[l] = 1
    BY <2>1, <2>2
  <2>5. QED
    BY <1>1, <2>1, <2>2, <2>3, <2>4 DEF JournalTells
<1>10. ASSUME NEW e \in Ends, Finish(e) PROVE JournalTells'
  <2>1. /\ run.exec \in Leases /\ journal.lease = run.exec /\ run.at = "serving"
        /\ journal'.lease = run.exec /\ journal'.phase = "may_have_started" /\ journal'.end = e
        /\ produced' = [produced EXCEPT ![run.exec] = e]
        /\ run'.at = run.at /\ run'.resumed = run.resumed /\ run'.exec = None
        /\ started' = started
    BY <1>1, <1>10, FinishDoes
  <2>2. /\ run.resumed = None /\ started[run.exec] = 1
        /\ started \in [Leases -> 0 .. 1] /\ produced \in [Leases -> Ends \cup {"none"}]
        /\ \A l \in Leases : produced[l] # "none" => started[l] = 1
    BY <1>1, <1>3, <2>1 DEF JournalTells
  <2>3. /\ produced' \in [Leases -> Ends \cup {"none"}] /\ produced'[run.exec] = e
        /\ \A l \in Leases : produced'[l] # "none" => started[l] = 1
    BY <2>1, <2>2
  <2>4. QED
    BY <2>1, <2>2, <2>3 DEF JournalTells
<1>11. ASSUME NEW f, GetStep(f) PROVE JournalTells'
  <2>1. run.sock \in Sockets /\ down[run.sock] # << >> /\ f = Head(down[run.sock])
    BY <1>11 DEF GetStep
  <2>2. f = down[run.sock][1] /\ 1 \in DOMAIN down[run.sock] /\ f \in DownFrames
    BY <1>1, <2>1, TailOf DEF FrameTypes
  <2>3. CASE GetResumed(f)
    <3>1. /\ run.at = "hello" /\ f.kind = "resumed" /\ run'.at = "serving"
          /\ run'.offer = run.offer /\ run'.exec = run.exec
          /\ run'.resumed = IF f.end = "await" THEN f.lease ELSE None
          /\ IF f.end = "await" THEN journal' = journal ELSE journal' = Empty
          /\ UNCHANGED <<started, produced>>
      BY <1>1, <2>1, <2>3, GetResumedDoes DEF Gets
    <3>2. run.offer = None /\ run.exec = None
      <4>1. run = [NoConnection EXCEPT !.sock = run.sock, !.at = "hello"]
        BY <1>1, <3>1 DEF ClosedEnds
      <4>2. QED
        BY <4>1 DEF NoConnection
    <3>3. f.lease = journal.lease /\ Fits(journal, f.end)
      BY <1>1, <2>2, <3>1 DEF ResumeFits
    <3>4. CASE f.end = "await"
      <4>1. journal.phase \in {"waiting", "received"}
        BY <3>3, <3>4 DEF Fits
      <4>2. journal.end = "none"
        BY <1>1, <4>1 DEF RunnerTypes, Inventories
      <4>3. QED
        BY <1>1, <3>1, <3>2, <3>3, <3>4, <4>1, <4>2 DEF JournalTells
    <3>5. CASE f.end # "await"
      BY <1>1, <3>1, <3>2, <3>5, TypedValues DEF JournalTells
    <3>6. QED
      BY <3>4, <3>5
  <2>4. CASE GetOffer(f)
    <3>1. /\ run.at = "serving" /\ run.offer = None /\ journal = Empty
          /\ run'.at = run.at /\ run'.resumed = run.resumed /\ run'.exec = run.exec
          /\ \/ journal'.phase = "refused" /\ journal'.end = "none"
             \/ journal' = journal
          /\ UNCHANGED <<started, produced>>
      BY <1>1, <2>1, <2>4, GetOfferDoes
    <3>2. run.resumed = None /\ run.exec = None
      BY <1>1, <3>1, TypedValues DEF JournalTells, RunnerTypes
    <3>3. QED
      BY <1>1, <3>1, <3>2, TypedValues DEF JournalTells
  <2>5. CASE GetClaimed(f)
    <3>1. /\ f.kind = "claimed" /\ (run.resumed = f.lease \/ run.offer = f.lease)
          /\ run.at = "serving" /\ UNCHANGED <<run, started, produced>>
      BY <2>5 DEF GetClaimed, Gets
    <3>2. f.lease \in Leases
      BY <2>2, <3>1, DownFrameFields
    <3>3. CASE run.resumed = f.lease
      <4>1. journal' = journal
        BY <2>5, <3>3 DEF GetClaimed
      <4>2. QED
        BY <1>1, <3>1, <4>1 DEF JournalTells
    <3>4. CASE run.resumed # f.lease
      <4>1. run.offer = f.lease /\ journal' = [lease |-> f.lease, phase |-> "waiting", end |-> "none"]
        BY <2>5, <3>1, <3>4 DEF GetClaimed
      <4>2. journal'.lease = f.lease /\ journal'.phase = "waiting" /\ journal'.end = "none"
        BY <4>1
      <4>3. Has(down[run.sock], "claimed", run.offer)
        BY <2>2, <3>1, <4>1 DEF Has
      <4>4. journal = Empty /\ started[f.lease] = 0
        BY <1>1, <1>3, <3>2, <4>1, <4>3 DEF OfferStage
      <4>5. run.resumed = None /\ run.exec = None
        BY <1>1, <1>3, <3>2, <4>1, <4>4, TypedValues DEF JournalTells, RunnerTypes
      <4>6. QED
        BY <1>1, <3>1, <4>2, <4>4, <4>5 DEF JournalTells
    <3>5. QED
      BY <3>3, <3>4
  <2>6. CASE GetDispatch(f)
    <3>1. CASE run.scanned /\ Dispatches(f.lease)
      BY <1>1, <1>6, <2>1, <2>6, <3>1, GetDispatchDoes
    <3>2. CASE ~(run.scanned /\ Dispatches(f.lease))
      <4>1. /\ UNCHANGED <<journal, started, produced>>
            /\ run'.at = run.at /\ run'.offer = run.offer /\ run'.resumed = run.resumed
            /\ run'.exec = run.exec
        BY <1>1, <2>1, <2>6, <3>2, GetDispatchDoes
      <4>2. QED
        BY <1>1, <4>1 DEF JournalTells
    <3>3. QED
      BY <3>1, <3>2
  <2>7. ASSUME NEW kind \in Acks, GetRecorded(kind, f) PROVE JournalTells'
    <3>1. run.exec # None => journal.end = "none"
      BY <1>1 DEF JournalTells
    <3>2. /\ run.at = "serving" /\ UNCHANGED <<started, produced>>
          /\ \/ UNCHANGED <<journal, run>>
             \/ /\ journal' = Empty /\ (journal.end # "none" \/ journal.phase = "refused")
                /\ run'.at = run.at /\ run'.resumed = run.resumed /\ run'.exec = run.exec
      BY <1>1, <2>1, <2>7, <3>1, GetRecordedDoes
    <3>3. CASE UNCHANGED <<journal, run>>
      BY <1>1, <3>2, <3>3 DEF JournalTells
    <3>4. CASE ~UNCHANGED <<journal, run>>
      <4>1. journal.phase \in {"waiting", "received"} => journal.end = "none"
        BY <1>1 DEF RunnerTypes, Inventories
      <4>2. run.resumed = None /\ run.exec = None
        BY <1>1, <3>1, <3>2, <3>4, <4>1 DEF JournalTells, RunnerTypes
      <4>3. QED
        BY <1>1, <3>2, <3>4, <4>2, TypedValues DEF JournalTells
    <3>5. QED
      BY <3>3, <3>4
  <2>8. QED
    BY <1>11, <2>3, <2>4, <2>5, <2>6, <2>7 DEF GetStep
<1>12. CASE Resend
  BY <1>2, <1>12 DEF Resend
<1>13. CASE DaemonStep
  BY <1>1, <1>2, <1>13, DaemonReads
<1>14. CASE UNCHANGED vars
  BY <1>2, <1>14 DEF vars
<1>15. QED
  BY <1>1, <1>4, <1>5, <1>7, <1>8, <1>9, <1>10, <1>11, <1>12, <1>13, <1>14, StepCases

(***************************************************************************)
(* What the runner's steps have in common.                                 *)
(***************************************************************************)

\* A frame that the runner sends is about what it has then.
NewUp(f) ==
  \/ /\ f.kind = "claim" /\ f.lease \in Leases
     /\ \/ f.lease = run'.resumed
        \/ /\ f.lease = run'.offer /\ run'.claimed /\ journal = Empty
           /\ run.offer = f.lease => ~run.claimed
  \/ f.kind = "refusal" /\ f.lease = journal'.lease /\ journal'.phase = "refused"
  \/ /\ f.kind = "result" /\ f.lease = journal'.lease /\ f.end = journal'.end
     /\ f.end # "none"

\* The runner has taken the frame of that kind about lease l.
Took(kind, l) ==
  /\ Has(down[run.sock], kind, l)
  /\ Once(down[run.sock], kind, l) => ~Has(down'[run.sock], kind, l)

\* How the journal moves on.
Clears ==
  /\ journal' = Empty
  /\ \/ /\ run.at = "hello"
        /\ \E i \in DOMAIN down[run.sock] :
             down[run.sock][i].kind = "resumed" /\ down[run.sock][i].end # "await"
     \/ /\ Has(down[run.sock], "recorded", journal.lease) /\ journal.lease \in Leases
        /\ run'.offer = None
     \/ Has(down[run.sock], "refusal_recorded", journal.lease) /\ journal.lease \in Leases

JournalMoves ==
  \/ journal' = journal
  \/ Clears
  \/ /\ journal'.lease = journal.lease /\ journal.end = "none"
     /\ journal.phase \in ClaimPhases /\ journal'.phase \in ClaimPhases
  \/ /\ run.offer \in Leases /\ Took("claimed", run.offer)
     /\ journal'.lease = run.offer /\ journal'.phase = "waiting" /\ run' = run
  \/ /\ journal'.lease \in Leases /\ Took("offer", journal'.lease)
     /\ journal'.phase = "refused" /\ journal = Empty /\ run.offer = None /\ run' = run

\* The leases that the runner knows of, before and after a step.
Known == {run.offer, run.resumed, run.deferred, run.last, journal.lease}

RunnerMoves ==
  /\ run.sock \in Sockets /\ run'.sock = run.sock /\ run'.at # "hello"
  /\ run.at # "hello" \/ down[run.sock] # << >>
  /\ UNCHANGED <<durable, boot, permit, hand>>
  /\ \A s : DownNew(s, {})
  /\ \E F \in SUBSET UpFrames : UpNew(F) /\ \A f \in F : NewUp(f)
  /\ \/ run'.offer \in {run.offer, None}
     \/ /\ Took("offer", run'.offer)
        /\ run.offer = None /\ journal = Empty /\ journal' = Empty
  /\ run'.offer = run.offer /\ run.claimed => run'.claimed
  /\ JournalMoves
  /\ \A l \in Known' \ Known : l = None \/ \E kind : Took(kind, l)
  /\ \A l \in Leases :
       started'[l] = started[l] \/ (journal.lease = l /\ journal.phase = "may_have_started")
  /\ \A l \in Leases :
       \/ produced'[l] = produced[l]
       \/ journal.lease = l /\ run.exec = l /\ journal'.lease = l /\ journal'.end # "none"

(* Every step of a connected runner moves it so.                           *)
LEMMA RunnerStepMoves ==
  ASSUME ExecInv,
         \/ \E f : GetStep(f)
         \/ ScanDone \/ JournalStart \/ Start \/ Resend
         \/ \E e \in Ends : Finish(e)
  PROVE  RunnerMoves
<1>1. /\ DaemonTypes /\ FrameTypes /\ RunnerTypes /\ JournalTells /\ OfferStage
  BY DEF ExecInv, LeaseInv
<1>2. UNCHANGED <<durable, boot, permit, hand>>
  BY RunnerQuiet
<1>3. down' = down => \A s : DownNew(s, {})
  BY GrownSame DEF DownNew
<1>4. up' = up => \E F \in SUBSET UpFrames : UpNew(F) /\ \A f \in F : NewUp(f)
  <2>1. up' = up => UpNew({})
    BY GrownSame DEF UpNew
  <2>2. QED
    BY <2>1
<1>5. ASSUME run.sock \in Sockets, NEW f \in UpFrames, ToDaemon(<<f>>), NewUp(f)
      PROVE  \E F \in SUBSET UpFrames : UpNew(F) /\ \A g \in F : NewUp(g)
  <2>1. UpNew({f})
    BY <1>1, <1>5, RunnerSends
  <2>2. QED
    BY <1>5, <2>1
<1>6. /\ run.offer \in Leases \cup {None} /\ run.resumed \in Leases \cup {None}
      /\ run.deferred \in Leases \cup {None}
  BY <1>1 DEF RunnerTypes, RunStates
<1>7. None \notin Leases
  BY RunnerAssumption DEF None
<1>8. CASE Start
  <2>1. /\ run.at = "starting" /\ run.sock \in Sockets /\ journal.lease \in Leases
        /\ journal.phase = "may_have_started"
        /\ run'.sock = run.sock /\ run'.at = "serving" /\ run'.offer = run.offer
        /\ run'.deferred = run.deferred /\ run'.resumed = None /\ run'.last = run.last
        /\ run'.claimed = run.claimed /\ started' = [started EXCEPT ![journal.lease] = @ + 1]
        /\ UNCHANGED <<up, down, journal, produced>>
    BY <1>1, <1>8, StartDoes
  <2>2. \A l \in Leases : l # journal.lease => started'[l] = started[l]
    BY <1>1, <2>1 DEF JournalTells
  <2>3. JournalMoves
    BY <2>1 DEF JournalMoves
  <2>4. \A l \in Known' \ Known : l = None
    BY <2>1 DEF Known
  <2>5. QED
    BY <1>2, <1>3, <1>4, <2>1, <2>2, <2>3, <2>4 DEF RunnerMoves
<1>9. CASE JournalStart
  <2>1. journal.end = "none"
    BY <1>1, <1>9 DEF JournalTells, JournalStart
  <2>2. /\ run.at = "dispatching" /\ run.sock \in Sockets
        /\ journal.phase = "received"
        /\ journal'.lease = journal.lease /\ journal'.phase = "may_have_started"
        /\ run'.sock = run.sock /\ run'.at = "starting" /\ run'.offer = run.offer
        /\ run'.deferred = run.deferred /\ run'.resumed = run.resumed /\ run'.last = run.last
        /\ run'.claimed = run.claimed /\ UNCHANGED <<up, down, started, produced>>
    BY <1>1, <1>9, <2>1, JournalStartDoes
  <2>3. JournalMoves
    BY <2>1, <2>2 DEF JournalMoves, ClaimPhases
  <2>4. \A l \in Known' \ Known : l = None
    BY <2>2 DEF Known
  <2>5. QED
    BY <1>2, <1>3, <1>4, <2>2, <2>3, <2>4 DEF RunnerMoves
<1>10. CASE Resend
  <2>1. /\ run.at = "serving" /\ run.sock \in Sockets /\ journal.lease \in Leases
        /\ \/ /\ journal.end \in Ends /\ ToDaemon(<<Frame("result", journal.lease, journal.end)>>)
           \/ /\ journal.phase = "refused"
              /\ ToDaemon(<<Frame("refusal", journal.lease, "none")>>)
        /\ UNCHANGED <<down, journal, run, started, produced>>
    BY <1>1, <1>10, ResendDoes DEF runner
  <2>2. PICK f \in UpFrames : ToDaemon(<<f>>) /\ NewUp(f)
    <3>1. CASE journal.end \in Ends /\ ToDaemon(<<Frame("result", journal.lease, journal.end)>>)
      <4> DEFINE f == Frame("result", journal.lease, journal.end)
      <4>1. /\ f \in UpFrames /\ f.kind = "result" /\ f.lease = journal.lease /\ f.end = journal.end
        BY <2>1, <3>1, FramesTyped, FrameFields
      <4>2. ToDaemon(<<f>>)
        BY <3>1
      <4> HIDE DEF f
      <4>3. NewUp(f)
        BY <2>1, <3>1, <4>1 DEF NewUp, Ends
      <4>4. QED
        BY <4>1, <4>2, <4>3
    <3>2. CASE journal.phase = "refused" /\ ToDaemon(<<Frame("refusal", journal.lease, "none")>>)
      <4> DEFINE f == Frame("refusal", journal.lease, "none")
      <4>1. f \in UpFrames /\ f.kind = "refusal" /\ f.lease = journal.lease
        BY <2>1, FramesTyped, FrameFields
      <4>2. ToDaemon(<<f>>)
        BY <3>2
      <4> HIDE DEF f
      <4>3. NewUp(f)
        BY <2>1, <3>2, <4>1 DEF NewUp
      <4>4. QED
        BY <4>1, <4>2, <4>3
    <3>3. QED
      BY <2>1, <3>1, <3>2
  <2>3. JournalMoves
    BY <2>1 DEF JournalMoves
  <2>4. Known' = Known
    BY <2>1 DEF Known
  <2>5. QED
    BY <1>2, <1>3, <1>5, <2>1, <2>2, <2>3, <2>4 DEF RunnerMoves
<1>11. ASSUME NEW e \in Ends, Finish(e) PROVE RunnerMoves
  <2> DEFINE f == Frame("result", run.exec, e)
  <2>1. /\ run.at = "serving" /\ run.sock \in Sockets /\ run.exec \in Leases
        /\ journal.lease = run.exec /\ journal.phase = "may_have_started"
        /\ journal'.lease = run.exec /\ journal'.phase = "may_have_started" /\ journal'.end = e
        /\ produced' = [produced EXCEPT ![run.exec] = e]
        /\ run'.sock = run.sock /\ run'.at = run.at /\ run'.offer = run.offer
        /\ run'.deferred = run.deferred /\ run'.resumed = run.resumed /\ run'.last = run.last
        /\ run'.claimed = run.claimed /\ ToDaemon(<<f>>)
        /\ UNCHANGED <<down, started>>
    BY <1>1, <1>11, FinishDoes
  <2>2. f \in UpFrames /\ f.kind = "result" /\ f.lease = run.exec /\ f.end = e
    BY <2>1, FramesTyped, FrameFields
  <2> HIDE DEF f
  <2>3. NewUp(f)
    BY <2>1, <2>2 DEF NewUp, Ends
  <2>4. /\ \A l \in Leases : l # run.exec => produced'[l] = produced[l]
        /\ journal.end = "none" /\ e # "none"
    BY <1>1, <1>7, <2>1 DEF JournalTells, Ends
  <2>5. JournalMoves
    BY <2>1, <2>4 DEF JournalMoves, ClaimPhases
  <2>6. \A l \in Known' \ Known : l = None
    BY <2>1 DEF Known
  <2>7. QED
    BY <1>2, <1>3, <1>5, <2>1, <2>2, <2>3, <2>4, <2>5, <2>6 DEF RunnerMoves
<1>12. ASSUME run.at = "serving", NEW l \in Leases, Dispatches(l),
              UNCHANGED <<durable, boot, permit, hand, up, started, produced>>,
              \A s : DownNew(s, {})
       PROVE  RunnerMoves
  <2>1. run.sock \in Sockets
    BY <1>1, <1>12, Connected
  <2>2. /\ journal'.lease = l /\ journal'.phase = "received" /\ journal.lease = l
        /\ journal.phase \in {"waiting", "received"} /\ journal.end = "none"
        /\ run'.claimed = run.claimed
        /\ run'.sock = run.sock /\ run'.at = "dispatching" /\ run'.offer = run.offer
        /\ run'.deferred = None /\ run'.resumed = run.resumed /\ run'.last = run.last
    BY <1>1, <1>12, DispatchesDoes
  <2>3. JournalMoves
    BY <2>2 DEF JournalMoves, ClaimPhases
  <2>4. \A m \in Known' \ Known : m = None
    BY <2>2 DEF Known
  <2>5. QED
    BY <1>4, <1>12, <2>1, <2>2, <2>3, <2>4 DEF RunnerMoves
<1>13. CASE ScanDone
  <2>1. run.at = "serving" /\ run.sock \in Sockets /\ UNCHANGED <<down, started, produced>>
    BY <1>1, <1>13, ScanDoneDoes
  <2>2. CASE run.deferred \in Leases /\ Dispatches(run.deferred)
    <3>1. up' = up
      BY <1>1, <1>7, <1>13, <2>2, ScanDoneDoes
    <3>2. QED
      BY <1>2, <1>3, <1>12, <2>1, <2>2, <3>1
  <2>3. CASE ~(run.deferred \in Leases /\ Dispatches(run.deferred))
    <3>1. /\ journal' = journal
          /\ run'.sock = run.sock /\ run'.at = run.at /\ run'.offer = run.offer
          /\ run'.deferred = run.deferred /\ run'.resumed = run.resumed /\ run'.last = run.last
          /\ \/ /\ run.offer \in Leases /\ ToDaemon(<<Frame("claim", run.offer, "none")>>)
                /\ ~run.claimed /\ run'.claimed /\ journal = Empty
             \/ run'.claimed = run.claimed /\ up' = up
      BY <1>1, <1>13, <2>3, ScanDoneDoes
    <3>2. \E F \in SUBSET UpFrames : UpNew(F) /\ \A f \in F : NewUp(f)
      <4>1. CASE /\ run.offer \in Leases /\ ToDaemon(<<Frame("claim", run.offer, "none")>>)
                 /\ ~run.claimed /\ run'.claimed /\ journal = Empty
        <5> DEFINE f == Frame("claim", run.offer, "none")
        <5>1. f \in UpFrames /\ f.kind = "claim" /\ f.lease = run.offer /\ ToDaemon(<<f>>)
          BY <4>1, FramesTyped, FrameFields
        <5> HIDE DEF f
        <5>2. NewUp(f)
          BY <3>1, <4>1, <5>1 DEF NewUp
        <5>3. QED
          BY <1>5, <2>1, <5>1, <5>2
      <4>2. QED
        BY <1>4, <3>1, <4>1
    <3>3. JournalMoves
      BY <3>1 DEF JournalMoves
    <3>4. Known' = Known
      BY <3>1 DEF Known
    <3>5. QED
      BY <1>2, <1>3, <2>1, <3>1, <3>2, <3>3, <3>4 DEF RunnerMoves
  <2>4. QED
    BY <2>2, <2>3
<1>14. ASSUME NEW f, GetStep(f) PROVE RunnerMoves
  <2>1. run.sock \in Sockets /\ down[run.sock] # << >> /\ f = Head(down[run.sock])
    BY <1>14 DEF GetStep
  <2>2. f = down[run.sock][1] /\ 1 \in DOMAIN down[run.sock] /\ f \in DownFrames
    BY <1>1, <2>1, TailOf DEF FrameTypes
  <2>3. ASSUME NEW kind, Gets(kind, f) PROVE (\A s : DownNew(s, {})) /\ Took(kind, f.lease)
    <3>1. /\ \A r \in Sockets \ {run.sock} : down'[r] = down[r]
          /\ down'[run.sock] = Tail(down[run.sock])
      BY <1>1, <2>1, <2>3, GetsDoes
    <3>2. /\ Grown(down[run.sock], Tail(down[run.sock]), {})
          /\ Once(down[run.sock], f.kind, f.lease) => ~Has(Tail(down[run.sock]), f.kind, f.lease)
      BY <1>1, <2>1, GrownTail DEF FrameTypes
    <3>3. kind = f.kind
      BY <2>3 DEF Gets
    <3>4. Has(down[run.sock], kind, f.lease)
      BY <2>2, <3>3 DEF Has
    <3>5. \A s : DownNew(s, {})
      BY <3>1, <3>2, GrownSame DEF DownNew
    <3>6. QED
      BY <3>1, <3>2, <3>3, <3>4, <3>5 DEF Took
  <2>5. ASSUME run'.sock = run.sock, run'.at # "hello", UNCHANGED <<started, produced>>,
               \A s : DownNew(s, {}),
               \E F \in SUBSET UpFrames : UpNew(F) /\ \A g \in F : NewUp(g),
               \/ run'.offer \in {run.offer, None}
               \/ /\ Took("offer", run'.offer)
                  /\ run.offer = None /\ journal = Empty /\ journal' = Empty,
               run'.offer = run.offer /\ run.claimed => run'.claimed,
               JournalMoves, NEW kind, Gets(kind, f),
               {run'.offer, run'.resumed, run'.deferred, run'.last, journal'.lease}
                 \subseteq Known \cup {None, f.lease}
        PROVE  RunnerMoves
    <3>1. \A l \in Known' \ Known : l = None \/ \E k : Took(k, l)
      BY <2>3, <2>5 DEF Known
    <3>2. QED
      BY <1>2, <2>1, <2>5, <3>1 DEF RunnerMoves
  <2>6. CASE GetResumed(f)
    <3>1. /\ Gets("resumed", f) /\ f.kind = "resumed" /\ run.at = "hello"
          /\ run'.claimed = run.claimed
          /\ run'.sock = run.sock /\ run'.at = "serving" /\ run'.offer = run.offer
          /\ run'.deferred = run.deferred /\ run'.last = run.last
          /\ run'.resumed = IF f.end = "await" THEN f.lease ELSE None
          /\ IF f.end = "await"
             THEN /\ ToDaemon(<<Frame("claim", f.lease, "none")>>) /\ f.lease \in Leases
                  /\ journal' = journal
             ELSE journal' = Empty /\ up' = up
          /\ UNCHANGED <<started, produced>>
      BY <1>1, <2>1, <2>6, GetResumedDoes DEF Gets
    <3>2. \E F \in SUBSET UpFrames : UpNew(F) /\ \A g \in F : NewUp(g)
      <4>1. CASE f.end = "await"
        <5> DEFINE g == Frame("claim", f.lease, "none")
        <5>1. g \in UpFrames /\ g.kind = "claim" /\ g.lease = f.lease /\ ToDaemon(<<g>>)
          BY <3>1, <4>1, FramesTyped, FrameFields
        <5> HIDE DEF g
        <5>2. NewUp(g)
          BY <3>1, <4>1, <5>1 DEF NewUp
        <5>3. QED
          BY <1>5, <2>1, <5>1, <5>2
      <4>2. QED
        BY <1>4, <3>1, <4>1
    <3>3. JournalMoves
      BY <2>2, <3>1 DEF JournalMoves, Clears
    <3>4. {run'.offer, run'.resumed, run'.deferred, run'.last, journal'.lease}
            \subseteq Known \cup {None, f.lease}
      BY <3>1, TypedValues DEF Known
    <3>5. QED
      BY <2>3, <2>5, <3>1, <3>2, <3>3, <3>4
  <2>7. CASE GetOffer(f)
    <3>1. /\ f.kind = "offer" /\ f.lease \in Leases /\ Gets("offer", f)
          /\ run.offer = None /\ journal = Empty
      BY <1>1, <2>1, <2>7, GetOfferDoes DEF Gets
    <3>2. /\ UNCHANGED <<started, produced>> /\ run.at = "serving"
          /\ \/ /\ journal'.lease = f.lease /\ journal'.phase = "refused"
                /\ ToDaemon(<<Frame("refusal", f.lease, "none")>>) /\ run' = run
             \/ /\ run'.sock = run.sock /\ run'.at = run.at /\ run'.offer = f.lease
                /\ run'.deferred = run.deferred /\ run'.resumed = run.resumed
                /\ run'.last = run.last
                /\ (ToDaemon(<<Frame("claim", f.lease, "none")>>) /\ run'.claimed) \/ up' = up
                /\ journal' = journal
      BY <1>1, <2>1, <2>7, GetOfferDoes
    <3>3. CASE journal'.phase = "refused" /\ run' = run
      <4> DEFINE g == Frame("refusal", f.lease, "none")
      <4>1. ToDaemon(<<g>>) /\ journal'.lease = f.lease
        BY <1>1, <2>1, <2>7, <3>3, GetOfferDoes, TypedValues
      <4>2. g \in UpFrames /\ g.kind = "refusal" /\ g.lease = f.lease
        BY <3>1, FramesTyped, FrameFields
      <4> HIDE DEF g
      <4>3. NewUp(g)
        BY <3>3, <4>1, <4>2 DEF NewUp
      <4>4. JournalMoves
        BY <2>3, <3>1, <3>3, <4>1 DEF JournalMoves
      <4>5. {run'.offer, run'.resumed, run'.deferred, run'.last, journal'.lease}
              \subseteq Known \cup {None, f.lease}
        BY <3>3, <4>1 DEF Known
      <4>6. \E F \in SUBSET UpFrames : UpNew(F) /\ \A h \in F : NewUp(h)
        BY <1>5, <2>1, <4>1, <4>2, <4>3
      <4>7. QED
        BY <2>3, <2>5, <3>1, <3>2, <3>3, <4>4, <4>5, <4>6
    <3>4. CASE journal' = journal /\ run'.offer = f.lease
      <4>1. /\ run'.sock = run.sock /\ run'.at = run.at
            /\ run'.deferred = run.deferred /\ run'.resumed = run.resumed
            /\ run'.last = run.last
            /\ (ToDaemon(<<Frame("claim", f.lease, "none")>>) /\ run'.claimed) \/ up' = up
        <5>1. journal'.phase # "refused"
          BY <1>1, <2>1, <2>7, <3>4, GetOfferDoes, TypedValues
        <5>2. QED
          BY <3>2, <5>1
      <4>2. \E F \in SUBSET UpFrames : UpNew(F) /\ \A h \in F : NewUp(h)
        <5>1. CASE ToDaemon(<<Frame("claim", f.lease, "none")>>) /\ run'.claimed
          <6> DEFINE g == Frame("claim", f.lease, "none")
          <6>1. g \in UpFrames /\ g.kind = "claim" /\ g.lease = f.lease /\ ToDaemon(<<g>>)
            BY <3>1, <5>1, FramesTyped, FrameFields
          <6> HIDE DEF g
          <6>2. NewUp(g)
            BY <1>7, <3>1, <3>4, <5>1, <6>1 DEF NewUp
          <6>3. QED
            BY <1>5, <2>1, <6>1, <6>2
        <5>2. QED
          BY <1>4, <4>1, <5>1
      <4>3. JournalMoves
        BY <3>4 DEF JournalMoves
      <4>4. {run'.offer, run'.resumed, run'.deferred, run'.last, journal'.lease}
              \subseteq Known \cup {None, f.lease}
        BY <3>4, <4>1 DEF Known
      <4>5. QED
        BY <1>7, <2>3, <2>5, <3>1, <3>2, <3>4, <4>1, <4>2, <4>3, <4>4
    <3>5. QED
      BY <3>2, <3>3, <3>4
  <2>8. CASE GetClaimed(f)
    <3>1. /\ Gets("claimed", f) /\ f.kind = "claimed" /\ run.at = "serving"
          /\ (run.resumed = f.lease \/ run.offer = f.lease)
          /\ journal' = (IF run.resumed = f.lease THEN journal
                         ELSE [lease |-> f.lease, phase |-> "waiting", end |-> "none"])
          /\ UNCHANGED <<up, run, started, produced>>
      BY <2>8 DEF GetClaimed, Gets
    <3>2. f.lease \in Leases
      BY <2>2, <3>1, DownFrameFields
    <3>3. JournalMoves
      <4>1. CASE run.resumed = f.lease
        BY <3>1, <4>1 DEF JournalMoves
      <4>2. CASE run.resumed # f.lease
        <5>1. run.offer = f.lease /\ journal'.lease = f.lease /\ journal'.phase = "waiting"
          BY <3>1, <4>2
        <5>2. Took("claimed", run.offer) /\ run' = run
          BY <2>3, <3>1, <5>1
        <5>3. QED
          BY <3>2, <5>1, <5>2 DEF JournalMoves
      <4>3. QED
        BY <4>1, <4>2
    <3>4. {run'.offer, run'.resumed, run'.deferred, run'.last, journal'.lease}
            \subseteq Known \cup {None, f.lease}
      BY <3>1 DEF Known
    <3>5. QED
      BY <1>4, <2>3, <2>5, <3>1, <3>3, <3>4
  <2>9. CASE GetDispatch(f)
    <3>1. /\ Gets("dispatch", f) /\ run.at = "serving" /\ f.lease \in Leases
          /\ UNCHANGED <<up, started, produced>>
      BY <1>1, <2>1, <2>9, GetDispatchDoes
    <3>2. CASE run.scanned /\ Dispatches(f.lease)
      BY <1>2, <1>12, <2>3, <3>1, <3>2
    <3>3. CASE ~(run.scanned /\ Dispatches(f.lease))
      <4>1. /\ journal' = journal /\ run'.sock = run.sock /\ run'.at = run.at
            /\ run'.offer = run.offer /\ run'.deferred = f.lease
            /\ run'.resumed = run.resumed /\ run'.last = run.last /\ run'.claimed = run.claimed
        BY <1>1, <2>1, <2>9, <3>3, GetDispatchDoes
      <4>2. JournalMoves
        BY <4>1 DEF JournalMoves
      <4>3. {run'.offer, run'.resumed, run'.deferred, run'.last, journal'.lease}
              \subseteq Known \cup {None, f.lease}
        BY <4>1 DEF Known
      <4>4. QED
        BY <1>4, <2>3, <2>5, <3>1, <4>1, <4>2, <4>3
    <3>4. QED
      BY <3>2, <3>3
  <2>10. ASSUME NEW kind \in Acks, GetRecorded(kind, f) PROVE RunnerMoves
    <3>1. run.exec # None => journal.end = "none"
      BY <1>1 DEF JournalTells
    <3>2. /\ Gets(kind, f) /\ run.at = "serving"
          /\ \/ UNCHANGED <<journal, run>>
             \/ /\ journal' = Empty /\ journal.lease = f.lease
                /\ run'.sock = run.sock /\ run'.at = run.at
                /\ run'.offer = (IF kind = "recorded" THEN None ELSE run.offer)
                /\ run'.claimed = run.claimed /\ run'.deferred = run.deferred
                /\ run'.resumed = run.resumed /\ run'.last = f.lease
          /\ f.lease \in Leases /\ UNCHANGED <<up, started, produced>>
      BY <1>1, <2>1, <2>10, <3>1, GetRecordedDoes
    <3>3. JournalMoves
      <4>1. Has(down[run.sock], kind, f.lease)
        BY <2>3, <3>2 DEF Took
      <4>2. QED
        BY <3>2, <4>1 DEF JournalMoves, Clears, Acks
    <3>4. {run'.offer, run'.resumed, run'.deferred, run'.last, journal'.lease}
            \subseteq Known \cup {None, f.lease}
      BY <3>2, TypedValues DEF Known
    <3>5. /\ run'.sock = run.sock /\ run'.at # "hello" /\ run'.offer \in {run.offer, None}
          /\ run'.offer = run.offer /\ run.claimed => run'.claimed
      BY <3>2
    <3>6. QED
      BY <1>4, <2>3, <2>5, <3>2, <3>3, <3>4, <3>5
  <2>11. QED
    BY <1>14, <2>6, <2>7, <2>8, <2>9, <2>10 DEF GetStep
<1>15. QED
  BY <1>8, <1>9, <1>10, <1>11, <1>13, <1>14

(* The runner leaves: its journal stays.                                   *)
LEMMA LeaveMoves ==
  ASSUME FrameTypes, RunnerTypes, LeaveStep
  PROVE  /\ run.sock \in Sockets /\ run'.sock = None /\ run'.at = "idle" /\ run'.offer = None
         /\ run'.resumed = None /\ run'.deferred = None /\ run'.exec = None /\ run'.last = None
         /\ \A s \in Sockets : down'[s] = IF s = run.sock THEN << >> ELSE down[s]
         /\ \A s : DownNew(s, {})
         /\ \E F \in SUBSET UpFrames :
              UpNew(F) /\ \A f \in F : f.kind = "shutdown" /\ f.lease = None /\ run.at = "serving"
         /\ UNCHANGED <<durable, boot, permit, hand, journal, started, produced>>
<1>1. /\ run.sock \in Sockets /\ run'.sock = None /\ run'.at = "idle" /\ run'.offer = None
      /\ run'.resumed = None /\ run'.deferred = None /\ run'.exec = None /\ run'.last = None
      /\ \A s \in Sockets : down'[s] = IF s = run.sock THEN << >> ELSE down[s]
      /\ UNCHANGED <<durable, boot, permit, hand, journal, started, produced>>
  BY LeavesDoes DEF LeaveStep
<1>2. \A s : DownNew(s, {})
  BY <1>1, GrownSame DEF DownNew
<1>3. CASE up' = up
  <2>1. UpNew({})
    BY <1>3, GrownSame DEF UpNew
  <2>2. QED
    BY <1>1, <1>2, <2>1
<1>4. CASE up' # up
  <2> DEFINE f == Frame("shutdown", None, "none")
  <2>1. f \in UpFrames /\ f.kind = "shutdown" /\ f.lease = None
    BY FramesTyped, FrameFields
  <2>2. run.at = "serving" /\ ToDaemon(<<f>>)
    BY <1>4 DEF LeaveStep
  <2> HIDE DEF f
  <2>3. UpNew({f})
    BY <1>1, <2>1, <2>2, RunnerSends
  <2>4. QED
    BY <1>1, <1>2, <2>1, <2>2, <2>3
<1>5. QED
  BY <1>3, <1>4

\* The steps of a runner that is connected and stays so.
RunnerActs ==
  \/ \E f : GetStep(f)
  \/ ScanDone \/ JournalStart \/ Start \/ Resend
  \/ \E e \in Ends : Finish(e)

(* The cases in which the rest of the invariant is taken.                  *)
LEMMA ExecCases ==
  ASSUME ExecInv, [Next]_vars
  PROVE  \/ DaemonStep
         \/ \E s \in Sockets : Connect(s)
         \/ RunnerActs /\ RunnerMoves
         \/ LeaveStep
         \/ UNCHANGED vars
<1>1. DaemonTypes /\ FrameTypes /\ RunnerTypes
  BY DEF ExecInv, LeaseInv
<1>2. RunnerActs => RunnerMoves
  BY RunnerStepMoves DEF RunnerActs
<1>3. QED
  BY <1>1, <1>2, StepCases DEF RunnerActs

(* Nothing grows out of an empty queue when nothing is sent.               *)
LEMMA GrownEmpty ==
  ASSUME NEW S, NEW q, NEW r \in Seq(S), q = << >>, Grown(q, r, {})
  PROVE  r = << >>
<1>1. DOMAIN q = {}
  OBVIOUS
<1>2. DOMAIN r = {}
  BY <1>1 DEF Grown
<1>3. QED
  BY <1>2, EmptySeq

(* Both types, from the invariant.                                         *)
LEMMA TypesStep ==
  ASSUME ExecInv, [Next]_vars
  PROVE  DaemonTypes' /\ FrameTypes' /\ RunnerTypes'
<1>1. /\ DaemonTypes /\ FrameTypes /\ RunnerTypes /\ JournalTells /\ OfferStage /\ ResumeFits
  BY DEF ExecInv, LeaseInv
<1>2. QED
  BY <1>1, StepCases, DaemonStepTyped, RunnerStepTyped

(* A closed end stays closed, and a runner that waits stays silent.        *)
LEMMA ClosedEndsStep ==
  ASSUME ExecInv, [Next]_vars
  PROVE  ClosedEnds'
<1>1. DaemonTypes /\ FrameTypes /\ RunnerTypes /\ ClosedEnds /\ ResumeFits
  BY DEF ExecInv, LeaseInv
<1>2. up' \in [Sockets -> Seq(UpFrames)] /\ down' \in [Sockets -> Seq(DownFrames)]
  BY TypesStep DEF FrameTypes
<1>3. ASSUME NEW r \in Sockets, up[r] = << >>, Grown(up[r], up'[r], {}) PROVE up'[r] = << >>
  BY <1>2, <1>3, GrownEmpty
<1>4. ASSUME NEW r \in Sockets, down[r] = << >>, Grown(down[r], down'[r], {}) PROVE down'[r] = << >>
  BY <1>2, <1>4, GrownEmpty
<1>5. None \notin Sockets
  BY RunnerAssumption DEF None
<1>6. \A s \in Sockets : hand[s].at \in {"none", "hello", "serving", "propagate"} \cup Resuming
  BY <1>1 DEF DaemonTypes, Handlers
<1>7. CASE DaemonStep
  <2>1. PICK z \in Sockets, F \in SUBSET DownFrames : Sends(z, F)
    BY <1>1, <1>7, DaemonSent
  <2>2. UNCHANGED <<journal, run>> /\ UpNew({})
    BY <1>1, <1>7, DaemonReads DEF runner
  <2>3. \A r \in Sockets : HandMoves(r)
    BY <1>1, <1>7, DaemonHands
  <2>4. \A r \in Sockets : Grown(up[r], up'[r], {})
    BY <2>2 DEF UpNew
  <2>5. ASSUME NEW r \in Sockets, r # run.sock \/ hand'[r].at \in {"hello"} \cup Resuming
        PROVE  Grown(down[r], down'[r], {})
    <3>1. CASE r = z /\ r = run.sock
      <4>1. F = {}
        BY <2>1, <2>5, <3>1 DEF Sends
      <4>2. QED
        BY <2>1, <3>1, <4>1 DEF Sends, DownNew
    <3>2. CASE ~(r = z /\ r = run.sock)
      BY <2>1, <3>2 DEF Sends, DownNew
    <3>3. QED
      BY <3>1, <3>2
  <2>6. ASSUME NEW s \in Sockets PROVE s # run'.sock => down'[s] = << >>
    BY <1>1, <1>4, <2>2, <2>5, <2>6 DEF ClosedEnds
  <2>7. ASSUME NEW s \in Sockets PROVE hand'[s].at # "serving" => up'[s] = << >>
    BY <1>1, <2>3 DEF ClosedEnds, HandMoves
  <2>8. ASSUME NEW s \in Sockets PROVE hand'[s].at = "none" => hand'[s] = NoHandler
    BY <1>1, <2>3 DEF ClosedEnds, HandMoves
  <2>9. ASSUME NEW s \in Sockets, run'.sock = s, hand'[s].at \in {"hello"} \cup Resuming
        PROVE  run'.at = "hello" /\ hand'[s].inv = journal' /\ down'[s] = << >>
    <3>1. hand[s].at \in {"hello"} \cup Resuming /\ hand'[s].inv = hand[s].inv
      BY <2>3, <2>9 DEF HandMoves
    <3>2. run.at = "hello" /\ hand[s].inv = journal /\ down[s] = << >>
      BY <1>1, <2>2, <2>9, <3>1 DEF ClosedEnds
    <3>3. QED
      BY <1>4, <2>2, <2>5, <2>9, <3>1, <3>2
  <2>10. ASSUME run'.at = "hello"
         PROVE  /\ run' = [NoConnection EXCEPT !.sock = run'.sock, !.at = "hello"]
                /\ up'[run'.sock] = << >>
    <3>1. run.sock \in Sockets
      BY <1>1, <2>2, <2>10, Connected
    <3>2. QED
      BY <1>1, <1>3, <2>2, <2>4, <2>10, <3>1 DEF ClosedEnds
  <2>11. QED
    BY <2>6, <2>7, <2>8, <2>9, <2>10 DEF ClosedEnds
<1>8. ASSUME NEW s \in Sockets, Connect(s) PROVE ClosedEnds'
  <2>1. /\ run.sock = None /\ hand[s].at = "none"
        /\ \A r \in Sockets \ {s} : hand'[r] = hand[r]
        /\ hand'[s].at = "hello" /\ hand'[s].inv = journal
        /\ run' = [NoConnection EXCEPT !.sock = s, !.at = "hello"]
        /\ run'.sock = s /\ run'.at = "hello"
        /\ UNCHANGED <<up, down, journal>>
    BY <1>1, <1>8, ConnectDoes
  <2>2. \A r \in Sockets : down[r] = << >>
    BY <1>1, <1>5, <2>1 DEF ClosedEnds
  <2>3. up[s] = << >>
    BY <1>1, <2>1 DEF ClosedEnds
  <2>4. QED
    BY <1>1, <2>1, <2>2, <2>3 DEF ClosedEnds
<1>9. ASSUME hand' = hand, NEW F, UpNew(F), F # {} => run.at # "hello" \/ down[run.sock] # << >>
      PROVE  \A s \in Sockets : hand'[s].at # "serving" => up'[s] = << >>
  <2>1. SUFFICES ASSUME NEW s \in Sockets, hand[s].at # "serving" PROVE up'[s] = << >>
    BY <1>9
  <2>2. up[s] = << >>
    BY <1>1, <2>1 DEF ClosedEnds
  <2>3. CASE s = run.sock /\ hand[s].at \notin {"none", "propagate"}
    <3>1. run.at = "hello" /\ down[s] = << >>
      BY <1>1, <1>6, <2>1, <2>3 DEF ClosedEnds
    <3>2. F = {}
      BY <1>9, <2>3, <3>1
    <3>3. QED
      BY <1>3, <1>9, <2>2, <2>3, <3>2 DEF UpNew
  <2>4. CASE ~(s = run.sock /\ hand[s].at \notin {"none", "propagate"})
    BY <1>3, <1>9, <2>2, <2>4 DEF UpNew
  <2>5. QED
    BY <2>3, <2>4
<1>10. CASE RunnerMoves
  <2>1. /\ run.sock \in Sockets /\ run'.sock = run.sock /\ run'.at # "hello"
        /\ run.at # "hello" \/ down[run.sock] # << >>
        /\ hand' = hand /\ \A s : DownNew(s, {})
    BY <1>10 DEF RunnerMoves
  <2>2. PICK F : UpNew(F)
    BY <1>10 DEF RunnerMoves
  <2>3. \A s \in Sockets : hand'[s].at # "serving" => up'[s] = << >>
    BY <1>9, <2>1, <2>2
  <2>4. hand[run.sock].at \notin {"hello"} \cup Resuming
    BY <1>1, <2>1 DEF ClosedEnds
  <2>5. ASSUME NEW s \in Sockets, s # run.sock PROVE down'[s] = << >>
    <3>1. Grown(down[s], down'[s], {})
      BY <2>1, <2>5 DEF DownNew
    <3>2. QED
      BY <1>1, <1>4, <2>5, <3>1 DEF ClosedEnds
  <2>6. QED
    BY <1>1, <2>1, <2>3, <2>4, <2>5 DEF ClosedEnds
<1>11. CASE LeaveStep
  <2>1. /\ run.sock \in Sockets /\ run'.sock = None /\ run'.at = "idle"
        /\ \A s \in Sockets : down'[s] = IF s = run.sock THEN << >> ELSE down[s]
        /\ UNCHANGED <<hand, journal>>
    BY <1>1, <1>11, LeaveMoves
  <2>2. PICK F \in SUBSET UpFrames : UpNew(F) /\ \A f \in F : run.at = "serving"
    BY <1>1, <1>11, LeaveMoves
  <2>3. \A s \in Sockets : hand'[s].at # "serving" => up'[s] = << >>
    BY <1>9, <2>1, <2>2
  <2>4. QED
    BY <1>1, <1>5, <2>1, <2>3 DEF ClosedEnds
<1>12. CASE UNCHANGED vars
  BY <1>1, <1>12 DEF ClosedEnds, vars, runner
<1>13. QED
  BY <1>7, <1>8, <1>10, <1>11, <1>12, ExecCases

(* What a lease is known by keeps telling the truth.                       *)
LEMMA ClaimRecordedStep ==
  ASSUME ExecInv, [Next]_vars
  PROVE  ClaimRecorded'
<1>1. /\ DaemonTypes /\ FrameTypes /\ RunnerTypes /\ LeaseRules /\ ClaimRecorded /\ ResumeFits
      /\ JournalTells
  BY DEF ExecInv, LeaseInv
<1>2. ASSUME NEW l \in Leases, lease[l].state \in MayRun PROVE lease'[l].state \in MayRun
  <2>1. Moves(l)
    BY <1>1, LeaseMoves
  <2>2. QED
    BY <1>2, <2>1 DEF Moves, MayRun
<1>3. SUFFICES ASSUME NEW l \in Leases, lease'[l].state \notin MayRun
               PROVE  /\ started'[l] = 0
                      /\ ~(journal'.lease = l /\ journal'.phase \in ClaimPhases)
                      /\ \A s \in Sockets :
                           /\ ~(hand'[s].inv.lease = l /\ hand'[s].inv.phase \in ClaimPhases)
                           /\ ~Has(down'[s], "claimed", l)
  BY DEF ClaimRecorded
<1>4. /\ started[l] = 0
      /\ ~(journal.lease = l /\ journal.phase \in ClaimPhases)
      /\ \A s \in Sockets :
           /\ ~(hand[s].inv.lease = l /\ hand[s].inv.phase \in ClaimPhases)
           /\ ~Has(down[s], "claimed", l)
  BY <1>1, <1>2, <1>3 DEF ClaimRecorded
<1>5. (\A s : DownNew(s, {})) => \A s \in Sockets : ~Has(down'[s], "claimed", l)
  BY <1>4, HasGrown DEF DownNew
<1>6. CASE DaemonStep
  <2>1. PICK z \in Sockets, F \in SUBSET DownFrames : Sends(z, F)
    BY <1>1, <1>6, DaemonSent
  <2>2. UNCHANGED <<journal, started>>
    BY <1>1, <1>6, DaemonReads DEF runner
  <2>3. \A r \in Sockets : HandMoves(r)
    BY <1>1, <1>6, DaemonHands
  <2>4. \A f \in F : ~(f.kind = "claimed" /\ f.lease = l)
    BY <1>3, <2>1 DEF Sends, NewFrame, MayRun
  <2>5. \A s \in Sockets : ~Has(down'[s], "claimed", l)
    BY <1>4, <2>1, <2>4, HasGrown DEF Sends, DownNew
  <2>6. \A s \in Sockets : ~(hand'[s].inv.lease = l /\ hand'[s].inv.phase \in ClaimPhases)
    BY <1>4, <2>3, TypedValues DEF HandMoves, ClaimPhases
  <2>7. QED
    BY <1>4, <2>2, <2>5, <2>6
<1>7. ASSUME NEW s \in Sockets, Connect(s)
      PROVE  /\ started'[l] = 0
             /\ ~(journal'.lease = l /\ journal'.phase \in ClaimPhases)
             /\ \A r \in Sockets :
                  /\ ~(hand'[r].inv.lease = l /\ hand'[r].inv.phase \in ClaimPhases)
                  /\ ~Has(down'[r], "claimed", l)
  <2>1. /\ \A r \in Sockets \ {s} : hand'[r] = hand[r]
        /\ hand'[s].inv = journal /\ UNCHANGED <<down, journal, started>>
    BY <1>1, <1>7, ConnectDoes
  <2>2. QED
    BY <1>4, <2>1
<1>8. CASE RunnerMoves
  <2>1. /\ run.sock \in Sockets /\ hand' = hand /\ JournalMoves /\ \A s : DownNew(s, {})
        /\ started'[l] = started[l] \/ (journal.lease = l /\ journal.phase = "may_have_started")
    BY <1>8 DEF RunnerMoves
  <2>2. ~(journal'.lease = l /\ journal'.phase \in ClaimPhases)
    BY <1>4, <2>1, TypedValues DEF JournalMoves, ClaimPhases, Clears, Took
  <2>3. QED
    BY <1>4, <1>5, <2>1, <2>2 DEF ClaimPhases
<1>9. CASE LeaveStep
  <2>1. UNCHANGED <<hand, journal, started>> /\ \A s : DownNew(s, {})
    BY <1>1, <1>9, LeaveMoves
  <2>2. QED
    BY <1>4, <1>5, <2>1
<1>10. CASE UNCHANGED vars
  BY <1>4, <1>10 DEF vars, runner
<1>11. QED
  BY <1>6, <1>7, <1>8, <1>9, <1>10, ExecCases

(***************************************************************************)
(* The offer.                                                              *)
(***************************************************************************)

(* A lease that the runner knows nothing of becomes known by its offer.    *)
LEMMA KnownByOffer ==
  ASSUME ExecInv, [Next]_vars, NEW l \in Leases, Untouched(l), l \in Known'
  PROVE  RunnerMoves /\ run.sock \in Sockets /\ Took("offer", l)
<1>1. DaemonTypes /\ FrameTypes /\ RunnerTypes
  BY DEF ExecInv, LeaseInv
<1>2. l # None
  BY RunnerAssumption DEF None
<1>3. l \notin Known
  BY DEF Untouched, Known
<1>4. CASE DaemonStep
  <2>1. UNCHANGED <<journal, run>>
    BY <1>1, <1>4, DaemonReads DEF runner
  <2>2. QED
    BY <1>3, <2>1 DEF Known
<1>5. ASSUME NEW s \in Sockets, Connect(s) PROVE FALSE
  BY <1>1, <1>2, <1>3, <1>5, ConnectDoes DEF Known
<1>6. CASE RunnerMoves
  <2>1. run.sock \in Sockets
    BY <1>6 DEF RunnerMoves
  <2>2. PICK kind : Took(kind, l)
    BY <1>2, <1>3, <1>6 DEF RunnerMoves
  <2>3. kind = "offer"
    BY <2>1, <2>2 DEF Took, Has, Untouched
  <2>4. QED
    BY <1>6, <2>1, <2>2, <2>3
<1>7. CASE LeaveStep
  BY <1>1, <1>2, <1>3, <1>7, LeaveMoves DEF Known
<1>8. CASE UNCHANGED vars
  BY <1>3, <1>8 DEF Known, vars, runner
<1>9. QED
  BY <1>4, <1>5, <1>6, <1>7, <1>8, ExecCases

(* Until then nothing comes of it.                                         *)
LEMMA UntouchedStep ==
  ASSUME ExecInv, [Next]_vars, NEW l \in Leases, Untouched(l), l \notin Known'
  PROVE  Untouched(l)'
<1>1. /\ DaemonTypes /\ FrameTypes /\ RunnerTypes /\ ResumeFits
  BY DEF ExecInv, LeaseInv
<1>2. l # None
  BY RunnerAssumption DEF None
<1>3. /\ started[l] = 0 /\ produced[l] = "none" /\ journal.lease # l
      /\ \A s \in Sockets :
           /\ hand[s].inv.lease # l
           /\ \A i \in DOMAIN up[s] : up[s][i].lease # l
           /\ \A i \in DOMAIN down[s] : down[s][i].lease = l => down[s][i].kind = "offer"
  BY DEF Untouched
<1>4. journal'.lease # l /\ l \notin {run'.offer, run'.resumed, run'.deferred, run'.last}
  BY DEF Known
<1>5. ASSUME started'[l] = 0, produced'[l] = "none",
             \A s \in Sockets : hand'[s].inv.lease # l,
             NEW F, UpNew(F), \A f \in F : f.lease # l,
             NEW G, NEW z, DownNew(z, G), \A f \in G : f.lease = l => f.kind = "offer"
      PROVE  Untouched(l)'
  <2>1. ASSUME NEW s \in Sockets, NEW i \in DOMAIN up'[s] PROVE up'[s][i].lease # l
    BY <1>3, <1>5, <2>1 DEF UpNew, Grown
  <2>2. ASSUME NEW s \in Sockets, NEW i \in DOMAIN down'[s], down'[s][i].lease = l
        PROVE  down'[s][i].kind = "offer"
    BY <1>3, <1>5, <2>2 DEF DownNew, Grown
  <2>3. QED
    BY <1>4, <1>5, <2>1, <2>2 DEF Untouched
<1>6. CASE DaemonStep
  <2>1. PICK z \in Sockets, F \in SUBSET DownFrames : Sends(z, F)
    BY <1>1, <1>6, DaemonSent
  <2>2. UNCHANGED <<started, produced>> /\ UpNew({})
    BY <1>1, <1>6, DaemonReads DEF runner
  <2>3. \A s \in Sockets : hand'[s].inv.lease # l
    <3>1. \A r \in Sockets : HandMoves(r)
      BY <1>1, <1>6, DaemonHands
    <3>2. QED
      BY <1>2, <1>3, <3>1, TypedValues DEF HandMoves
  <2>4. ASSUME NEW f \in F, f.lease = l PROVE f.kind = "offer"
    <3>1. f \in DownFrames /\ NewFrame(z, f)
      BY <2>1 DEF Sends
    <3>2. f.kind # "shutdown"
      BY <1>2, <2>4, <3>1, DownFrameFields
    <3>3. \A kind : ~Has(up[z], kind, l)
      BY <1>3 DEF Has
    <3>4. QED
      BY <1>3, <2>4, <3>1, <3>2, <3>3 DEF NewFrame
  <2>5. DownNew(z, F)
    BY <2>1 DEF Sends
  <2>6. QED
    BY <1>3, <1>5, <2>2, <2>3, <2>4, <2>5
<1>7. ASSUME NEW s \in Sockets, Connect(s) PROVE Untouched(l)'
  <2>1. /\ \A r \in Sockets \ {s} : hand'[r] = hand[r]
        /\ hand'[s].inv = journal /\ UNCHANGED <<up, down, started, produced>>
    BY <1>1, <1>7, ConnectDoes
  <2>2. UpNew({}) /\ DownNew(s, {})
    BY <2>1, GrownSame DEF UpNew, DownNew
  <2>3. QED
    BY <1>3, <1>5, <2>1, <2>2
<1>8. CASE RunnerMoves
  <2>1. /\ hand' = hand /\ (\A s : DownNew(s, {}))
        /\ started'[l] = started[l] /\ produced'[l] = produced[l]
    BY <1>3, <1>8 DEF RunnerMoves
  <2>2. PICK F \in SUBSET UpFrames : UpNew(F) /\ \A f \in F : NewUp(f)
    BY <1>8 DEF RunnerMoves
  <2>3. \A f \in F : f.lease # l
    BY <1>4, <2>2 DEF NewUp
  <2>4. QED
    BY <1>3, <1>5, <2>1, <2>2, <2>3
<1>9. CASE LeaveStep
  <2>1. UNCHANGED <<hand, started, produced>> /\ (\A s : DownNew(s, {}))
    BY <1>1, <1>9, LeaveMoves
  <2>2. PICK F \in SUBSET UpFrames : UpNew(F) /\ \A f \in F : f.lease = None
    BY <1>1, <1>9, LeaveMoves
  <2>3. QED
    BY <1>2, <1>3, <1>5, <2>1, <2>2
<1>10. CASE UNCHANGED vars
  BY <1>10 DEF Untouched, vars, runner
<1>11. QED
  BY <1>6, <1>7, <1>8, <1>9, <1>10, ExecCases

(* A lease is offered once.                                                *)
LEMMA OfferedOnceStep ==
  ASSUME ExecInv, [Next]_vars
  PROVE  OfferedOnce'
<1>1. /\ DaemonTypes /\ FrameTypes /\ RunnerTypes /\ LeaseRules /\ OfferedOnce /\ ResumeFits
      /\ ClosedEnds /\ OffersFenced
  BY DEF ExecInv, LeaseInv, LeaseRules
<1>2. ClosedEnds'
  BY ClosedEndsStep
<1>3. SUFFICES ASSUME NEW l \in Leases
               PROVE  /\ lease'[l].state = "none" =>
                           /\ Untouched(l)'
                           /\ \A s \in Sockets : hand'[s].busy # l /\ ~Has(down'[s], "offer", l)
                      /\ \A s \in Sockets :
                           /\ Has(down'[s], "offer", l) =>
                                /\ Untouched(l)' /\ Once(down'[s], "offer", l)
                                /\ lease'[l].state \notin MayRun
                           /\ /\ lease'[l].state = "offered" /\ lease'[l].fresh
                              /\ conn'.owner = s /\ hand'[s].at = "serving" /\ hand'[s].busy # l
                              => /\ Untouched(l)'
                                 /\ \A r \in Sockets : ~Has(down'[r], "offer", l)
  BY DEF OfferedOnce
<1>4. l # None
  BY RunnerAssumption DEF None
<1>5. Moves(l)
  BY <1>1, LeaseMoves
<1>6. ASSUME Untouched(l), \A s \in Sockets : ~Has(down[s], "offer", l)
      PROVE  Untouched(l)'
  <2>1. l \notin Known'
    BY <1>6, KnownByOffer DEF Took
  <2>2. QED
    BY <1>6, <2>1, UntouchedStep
\* The lease was not offered before.
<1>7. ASSUME NEW z, NEW F, DownNew(z, F), \A f \in F : f.kind = "offer" => f.lease # l,
             NEW s \in Sockets, Has(down'[s], "offer", l)
      PROVE  Has(down[s], "offer", l) /\ (Once(down[s], "offer", l) => Once(down'[s], "offer", l))
  <2>1. PICK G : G \subseteq F /\ Grown(down[s], down'[s], G)
    BY <1>7 DEF DownNew
  <2>2. Has(down[s], "offer", l)
    BY <1>7, <2>1, HasGrown
  <2>3. Once(down[s], "offer", l) => Once(down'[s], "offer", l)
    BY <1>7, <2>1 DEF Grown
  <2>4. QED
    BY <2>2, <2>3
\* An offer that is still on its way.
<1>8. ASSUME NEW s \in Sockets, Has(down[s], "offer", l), Has(down'[s], "offer", l)
      PROVE  Untouched(l)'
  <2>1. Untouched(l) /\ Once(down[s], "offer", l)
    BY <1>1, <1>8 DEF OfferedOnce
  <2>2. ASSUME l \in Known' PROVE FALSE
    <3>1. RunnerMoves /\ run.sock \in Sockets /\ Took("offer", l)
      BY <2>1, <2>2, KnownByOffer
    <3>2. s = run.sock
      BY <1>1, <1>8 DEF ClosedEnds, Has
    <3>3. QED
      BY <1>8, <2>1, <3>1, <3>2 DEF Took
  <2>3. QED
    BY <2>1, <2>2, UntouchedStep
<1>9. CASE DaemonStep
  <2>1. PICK z \in Sockets, F \in SUBSET DownFrames : Sends(z, F)
    BY <1>1, <1>9, DaemonSent
  <2>2. \A r \in Sockets : HandMoves(r)
    BY <1>1, <1>9, DaemonHands
  <2>3. Caused(l)
    BY <1>1, <1>9, LeaseCause
  <2>4. ASSUME NEW f \in F, f.kind = "offer", f.lease = l
        PROVE  /\ hand[z].at = "serving" /\ hand[z].busy = None /\ conn.owner = z
               /\ lease[l].state = "offered" /\ lease[l].fresh
               /\ hand'[z].busy = l /\ lease' = lease
               /\ Untouched(l) /\ \A r \in Sockets : ~Has(down[r], "offer", l)
    <3>1. /\ hand[z].at = "serving" /\ hand[z].busy = None /\ conn.owner = z
          /\ lease[l].state = "offered" /\ lease[l].fresh
          /\ hand'[z].busy = l /\ lease' = lease
      BY <2>1, <2>4 DEF Sends, NewFrame, durable
    <3>2. QED
      BY <1>1, <1>4, <3>1 DEF OfferedOnce
  <2>5. DownNew(z, F)
    BY <2>1 DEF Sends
  <2>6. ASSUME lease'[l].state = "none"
        PROVE  Untouched(l)' /\ \A s \in Sockets : hand'[s].busy # l /\ ~Has(down'[s], "offer", l)
    <3>1. lease[l].state = "none"
      BY <1>5, <2>6 DEF Moves
    <3>2. Untouched(l) /\ \A s \in Sockets : hand[s].busy # l /\ ~Has(down[s], "offer", l)
      BY <1>1, <3>1 DEF OfferedOnce
    <3>3. \A f \in F : f.kind = "offer" => f.lease # l
      BY <2>4, <3>1
    <3>4. \A s \in Sockets : ~Has(down'[s], "offer", l)
      BY <1>7, <2>5, <3>2, <3>3
    <3>5. \A s \in Sockets : hand[s].inv.lease # l
      BY <3>2 DEF Untouched
    <3>6. \A s \in Sockets : hand'[s].busy # l
      BY <1>4, <2>2, <3>1, <3>2, <3>5 DEF HandMoves
    <3>7. QED
      BY <1>6, <3>2, <3>4, <3>6
  <2>7. ASSUME NEW s \in Sockets, Has(down'[s], "offer", l)
        PROVE  Untouched(l)' /\ Once(down'[s], "offer", l) /\ lease'[l].state \notin MayRun
    <3>1. CASE \E f \in F : f.kind = "offer" /\ f.lease = l
      <4>1. /\ lease[l].state = "offered" /\ lease' = lease
            /\ Untouched(l) /\ \A r \in Sockets : ~Has(down[r], "offer", l)
        BY <2>4, <3>1
      <4>2. Once(down'[s], "offer", l)
        BY <2>5, <4>1 DEF DownNew, Grown
      <4>3. QED
        BY <1>6, <4>1, <4>2 DEF MayRun
    <3>2. CASE \A f \in F : f.kind = "offer" => f.lease # l
      <4>1. Has(down[s], "offer", l)
        BY <1>7, <2>5, <2>7, <3>2
      <4>2. Untouched(l) /\ Once(down[s], "offer", l) /\ lease[l].state \notin MayRun
        BY <1>1, <4>1 DEF OfferedOnce
      <4>3. Once(down'[s], "offer", l)
        BY <1>7, <2>5, <2>7, <3>2, <4>2
      <4>4. \A r \in Sockets : ~Has(up[r], "claim", l)
        BY <4>2 DEF Untouched, Has
      <4>5. lease'[l].state # "claimed"
        BY <2>3, <4>2, <4>4 DEF Caused, MayRun
      <4>6. lease'[l].state \notin MayRun
        BY <1>5, <4>2, <4>5 DEF Moves, MayRun
      <4>7. QED
        BY <1>8, <2>7, <4>1, <4>3, <4>6
    <3>3. QED
      BY <3>1, <3>2
  <2>8. ASSUME NEW s \in Sockets, lease'[l].state = "offered", lease'[l].fresh,
               conn'.owner = s, hand'[s].at = "serving", hand'[s].busy # l
        PROVE  Untouched(l)' /\ \A r \in Sockets : ~Has(down'[r], "offer", l)
    <3>1. CASE lease[l].state = "none"
      <4>1. Untouched(l) /\ \A r \in Sockets : ~Has(down[r], "offer", l)
        BY <1>1, <3>1 DEF OfferedOnce
      <4>2. \A f \in F : f.kind = "offer" => f.lease # l
        BY <2>4, <3>1
      <4>3. QED
        BY <1>6, <1>7, <2>5, <4>1, <4>2
    <3>2. CASE lease[l].state # "none"
      <4>1. lease[l].state = "offered" /\ lease[l].fresh
        BY <2>3, <2>8, <3>2 DEF Caused
      <4>2. hand[s].at \notin {"open", "reread"}
        BY <1>1, <4>1 DEF OffersFenced
      <4>3. conn.owner = s /\ hand[s].at = "serving"
        BY <2>2, <2>8, <4>2 DEF HandMoves
      <4>4. hand[s].busy # l
        BY <1>4, <2>2, <2>8, <4>3 DEF HandMoves, Final, Lost
      <4>5. Untouched(l) /\ \A r \in Sockets : ~Has(down[r], "offer", l)
        BY <1>1, <4>1, <4>3, <4>4 DEF OfferedOnce
      <4>6. \A f \in F : f.kind = "offer" => f.lease # l
        BY <2>4, <2>8, <4>3
      <4>7. QED
        BY <1>6, <1>7, <2>5, <4>5, <4>6
    <3>3. QED
      BY <3>1, <3>2
  <2>9. QED
    BY <2>6, <2>7, <2>8
\* The runner's steps leave the daemon's part alone.
<1>10. ASSUME lease' = lease, \A s : DownNew(s, {}),
              \A s \in Sockets : hand'[s].busy \in {hand[s].busy, None},
              \A s \in Sockets : conn'.owner = s /\ hand'[s].at = "serving" =>
                conn.owner = s /\ hand'[s] = hand[s]
       PROVE  /\ lease'[l].state = "none" =>
                   /\ Untouched(l)'
                   /\ \A s \in Sockets : hand'[s].busy # l /\ ~Has(down'[s], "offer", l)
              /\ \A s \in Sockets :
                   /\ Has(down'[s], "offer", l) =>
                        /\ Untouched(l)' /\ Once(down'[s], "offer", l)
                        /\ lease'[l].state \notin MayRun
                   /\ /\ lease'[l].state = "offered" /\ lease'[l].fresh
                      /\ conn'.owner = s /\ hand'[s].at = "serving" /\ hand'[s].busy # l
                      => /\ Untouched(l)'
                         /\ \A r \in Sockets : ~Has(down'[r], "offer", l)
  <2>1. ASSUME NEW s \in Sockets, Has(down'[s], "offer", l)
        PROVE  Has(down[s], "offer", l) /\ (Once(down[s], "offer", l) => Once(down'[s], "offer", l))
    BY <1>7, <1>10, <2>1
  <2>2. ASSUME lease'[l].state = "none"
        PROVE  Untouched(l)' /\ \A s \in Sockets : hand'[s].busy # l /\ ~Has(down'[s], "offer", l)
    <3>1. Untouched(l) /\ \A s \in Sockets : hand[s].busy # l /\ ~Has(down[s], "offer", l)
      BY <1>1, <1>10, <2>2 DEF OfferedOnce
    <3>2. QED
      BY <1>4, <1>6, <1>10, <2>1, <3>1
  <2>3. ASSUME NEW s \in Sockets, Has(down'[s], "offer", l)
        PROVE  Untouched(l)' /\ Once(down'[s], "offer", l) /\ lease'[l].state \notin MayRun
    <3>1. Has(down[s], "offer", l) /\ (Once(down[s], "offer", l) => Once(down'[s], "offer", l))
      BY <2>1, <2>3
    <3>2. Once(down[s], "offer", l) /\ lease[l].state \notin MayRun
      BY <1>1, <3>1 DEF OfferedOnce
    <3>3. QED
      BY <1>8, <1>10, <2>3, <3>1, <3>2
  <2>4. ASSUME NEW s \in Sockets, lease'[l].state = "offered", lease'[l].fresh,
               conn'.owner = s, hand'[s].at = "serving", hand'[s].busy # l
        PROVE  Untouched(l)' /\ \A r \in Sockets : ~Has(down'[r], "offer", l)
    <3>1. Untouched(l) /\ \A r \in Sockets : ~Has(down[r], "offer", l)
      BY <1>1, <1>10, <2>4 DEF OfferedOnce
    <3>2. QED
      BY <1>6, <2>1, <3>1
  <2>5. QED
    BY <2>2, <2>3, <2>4
<1>11. ASSUME NEW s \in Sockets, Connect(s)
       PROVE  /\ lease' = lease /\ \A r : DownNew(r, {})
              /\ \A r \in Sockets : hand'[r].busy \in {hand[r].busy, None}
              /\ \A r \in Sockets : conn'.owner = r /\ hand'[r].at = "serving" =>
                   conn.owner = r /\ hand'[r] = hand[r]
  <2>1. /\ \A r \in Sockets \ {s} : hand'[r] = hand[r]
        /\ hand'[s].at = "hello" /\ hand'[s].busy = None
        /\ conn'.owner = (IF conn.owner = s THEN None ELSE conn.owner)
        /\ UNCHANGED <<lease, down>>
    BY <1>1, <1>11, ConnectDoes
  <2>2. \A r : DownNew(r, {})
    BY <2>1, GrownSame DEF DownNew
  <2>3. None \notin Sockets
    BY RunnerAssumption DEF None
  <2>4. QED
    BY <2>1, <2>2, <2>3
<1>12. CASE RunnerMoves
  <2>1. UNCHANGED <<lease, conn, hand>> /\ \A r : DownNew(r, {})
    BY <1>12 DEF RunnerMoves, durable
  <2>2. QED
    BY <1>10, <2>1
<1>13. CASE LeaveStep
  <2>1. UNCHANGED <<lease, conn, hand>> /\ \A r : DownNew(r, {})
    BY <1>1, <1>13, LeaveMoves DEF durable
  <2>2. QED
    BY <1>10, <2>1
<1>14. CASE UNCHANGED vars
  <2>1. UNCHANGED <<lease, conn, hand, down>>
    BY <1>14 DEF vars, durable
  <2>2. \A r : DownNew(r, {})
    BY <2>1, GrownSame DEF DownNew
  <2>3. QED
    BY <1>10, <2>1, <2>2
<1>15. QED
  BY <1>9, <1>10, <1>11, <1>12, <1>13, <1>14, ExecCases

(* A refusal stands.                                                       *)
LEMMA RefusalStandsStep ==
  ASSUME ExecInv, [Next]_vars
  PROVE  RefusalStands'
<1>1. /\ DaemonTypes /\ FrameTypes /\ RunnerTypes /\ LeaseRules /\ OfferedOnce /\ ResumeFits
      /\ ClosedEnds /\ RefusalStands
  BY DEF ExecInv, LeaseInv
<1>2. ClosedEnds' /\ OfferedOnce' /\ JournalTells' /\ RunnerTypes'
  BY ClosedEndsStep, OfferedOnceStep, JournalTellsStep, TypesStep
<1>3. SUFFICES ASSUME NEW l \in Leases, Refused(l)', Admitted(l)' PROVE FALSE
  BY DEF RefusalStands
<1>4. ~(Refused(l) /\ Admitted(l))
  BY <1>1 DEF RefusalStands
<1>5. l # None
  BY RunnerAssumption DEF None
<1>6. Moves(l)
  BY <1>1, LeaseMoves
<1>7. ASSUME lease'[l].state = "refused" => Refused(l),
             journal'.lease = l /\ journal'.phase = "refused" => Refused(l),
             \A s \in Sockets : hand'[s].inv.lease = l /\ hand'[s].inv.phase = "refused" => Refused(l),
             \A s \in Sockets : Has(up'[s], "refusal", l) => Refused(l),
             \A s \in Sockets : Has(down'[s], "refusal_recorded", l) => Refused(l)
      PROVE  Refused(l)
  BY <1>3, <1>7 DEF Refused
<1>8. ASSUME lease'[l].state \in MayRun => Admitted(l),
             journal'.lease = l /\ journal'.phase \in ClaimPhases => Admitted(l),
             run'.offer = l => Admitted(l),
             started'[l] > 0 => Admitted(l),
             \A s \in Sockets :
               hand'[s].inv.lease = l /\ hand'[s].inv.phase \in ClaimPhases => Admitted(l),
             \A s \in Sockets : Has(up'[s], "claim", l) => Admitted(l),
             \A s \in Sockets : Has(down'[s], "offer", l) => Admitted(l)
      PROVE  Admitted(l)
  BY <1>3, <1>8 DEF Admitted
<1>9. /\ \A s \in Sockets : Has(up[s], "refusal", l) => Refused(l)
      /\ \A s \in Sockets : Has(down[s], "refusal_recorded", l) => Refused(l)
      /\ \A s \in Sockets : hand[s].inv.lease = l /\ hand[s].inv.phase = "refused" => Refused(l)
      /\ journal.lease = l /\ journal.phase = "refused" => Refused(l)
      /\ lease[l].state = "refused" => Refused(l)
  BY DEF Refused
<1>10. /\ \A s \in Sockets : Has(up[s], "claim", l) => Admitted(l)
       /\ \A s \in Sockets : Has(down[s], "offer", l) => Admitted(l)
       /\ \A s \in Sockets :
            hand[s].inv.lease = l /\ hand[s].inv.phase \in ClaimPhases => Admitted(l)
       /\ journal.lease = l /\ journal.phase \in ClaimPhases => Admitted(l)
       /\ lease[l].state \in MayRun => Admitted(l)
       /\ run.offer = l => Admitted(l)
       /\ started[l] > 0 => Admitted(l)
  BY DEF Admitted
<1>11. ASSUME NEW F, UpNew(F), NEW s \in Sockets, NEW kind, Has(up'[s], kind, l)
       PROVE  Has(up[s], kind, l) \/ \E f \in F : f.kind = kind /\ f.lease = l
  BY <1>11, HasGrown DEF UpNew
<1>12. ASSUME NEW F, NEW z, DownNew(z, F), NEW s \in Sockets, NEW kind, Has(down'[s], kind, l)
       PROVE  Has(down[s], kind, l) \/ \E f \in F : f.kind = kind /\ f.lease = l
  BY <1>12, HasGrown DEF DownNew
<1>13. CASE DaemonStep
  <2>1. PICK z \in Sockets, F \in SUBSET DownFrames : Sends(z, F)
    BY <1>1, <1>13, DaemonSent
  <2>2. \A r \in Sockets : HandMoves(r)
    BY <1>1, <1>13, DaemonHands
  <2>3. Caused(l)
    BY <1>1, <1>13, LeaseCause
  <2>4. UNCHANGED <<journal, run, started>> /\ UpNew({})
    BY <1>1, <1>13, DaemonReads DEF runner
  <2>5. DownNew(z, F) /\ \A f \in F : NewFrame(z, f)
    BY <2>1 DEF Sends
  <2>6. \A s \in Sockets : \A kind : Has(up'[s], kind, l) => Has(up[s], kind, l)
    BY <1>11, <2>4
  <2>7. \A s \in Sockets : hand'[s].inv.lease = l => hand'[s].inv = hand[s].inv
    BY <1>5, <2>2, TypedValues DEF HandMoves
  <2>8. Refused(l)
    <3>1. lease'[l].state = "refused" => Refused(l)
      BY <1>9, <2>3 DEF Caused
    <3>2. \A s \in Sockets : Has(down'[s], "refusal_recorded", l) => Refused(l)
      <4>1. ASSUME NEW f \in F, f.kind = "refusal_recorded", f.lease = l PROVE Refused(l)
        BY <1>9, <2>5, <4>1 DEF NewFrame
      <4>2. QED
        BY <1>9, <1>12, <2>5, <4>1
    <3>3. QED
      BY <1>7, <1>9, <2>4, <2>6, <2>7, <3>1, <3>2
  <2>9. CASE \E f \in F : f.kind = "offer" /\ f.lease = l
    <3>1. PICK f \in F : f.kind = "offer" /\ f.lease = l
      BY <2>9
    <3>2. /\ hand[z].at = "serving" /\ hand[z].busy # l /\ conn.owner = z
          /\ lease[l].state = "offered" /\ lease[l].fresh
      BY <1>5, <2>5, <3>1 DEF NewFrame
    <3>3. Untouched(l)
      BY <1>1, <3>2 DEF OfferedOnce
    <3>4. QED
      BY <2>8, <3>2, <3>3 DEF Refused, Untouched, Has
  <2>10. CASE ~\E f \in F : f.kind = "offer" /\ f.lease = l
    <3>1. lease'[l].state \in MayRun => Admitted(l)
      BY <1>6, <1>10, <2>3 DEF Caused, Moves, MayRun
    <3>2. \A s \in Sockets : Has(down'[s], "offer", l) => Admitted(l)
      BY <1>10, <1>12, <2>5, <2>10
    <3>3. Admitted(l)
      BY <1>8, <1>10, <2>4, <2>6, <2>7, <3>1, <3>2
    <3>4. QED
      BY <1>4, <2>8, <3>3
  <2>11. QED
    BY <2>9, <2>10
<1>14. ASSUME NEW s \in Sockets, Connect(s) PROVE FALSE
  <2>1. /\ \A r \in Sockets \ {s} : hand'[r] = hand[r]
        /\ hand'[s].inv = journal /\ run'.offer = None
        /\ UNCHANGED <<lease, journal, up, down, started>>
    BY <1>1, <1>14, ConnectDoes
  <2>2. Refused(l)
    BY <1>7, <1>9, <2>1
  <2>3. Admitted(l)
    BY <1>5, <1>8, <1>10, <2>1
  <2>4. QED
    BY <1>4, <2>2, <2>3
<1>15. CASE RunnerMoves
  <2>1. /\ UNCHANGED <<lease, hand>> /\ (\A s : DownNew(s, {})) /\ JournalMoves
        /\ run.sock \in Sockets /\ run'.sock = run.sock
        /\ \/ run'.offer \in {run.offer, None}
           \/ Took("offer", run'.offer)
        /\ started'[l] = started[l] \/ (journal.lease = l /\ journal.phase = "may_have_started")
    BY <1>15 DEF RunnerMoves, durable
  <2>2. PICK F \in SUBSET UpFrames : UpNew(F) /\ \A f \in F : NewUp(f)
    BY <1>15 DEF RunnerMoves
  <2>3. \A s \in Sockets : \A kind : Has(down'[s], kind, l) => Has(down[s], kind, l)
    BY <1>12, <2>1
  <2>4. run'.resumed = l => journal'.lease = l /\ journal'.phase \in ClaimPhases
    BY <1>2, <1>5 DEF JournalTells, RunnerTypes, ClaimPhases
  <2>5. Admitted(l)
    <3>1. journal'.lease = l /\ journal'.phase \in ClaimPhases => Admitted(l)
      BY <1>10, <2>1, TypedValues DEF JournalMoves, Clears, ClaimPhases
    <3>2. run'.offer = l => Admitted(l)
      BY <1>5, <1>10, <2>1 DEF Took
    <3>3. started'[l] > 0 => Admitted(l)
      BY <1>10, <2>1 DEF ClaimPhases
    <3>4. \A s \in Sockets : Has(up'[s], "claim", l) => Admitted(l)
      <4>1. ASSUME NEW f \in F, f.kind = "claim", f.lease = l PROVE Admitted(l)
        <5>1. l = run'.resumed \/ l = run'.offer
          BY <2>2, <4>1 DEF NewUp
        <5>2. QED
          BY <2>4, <3>1, <3>2, <5>1
      <4>2. QED
        BY <1>10, <1>11, <2>2, <4>1
    <3>5. QED
      BY <1>8, <1>10, <2>1, <2>3, <3>1, <3>2, <3>3, <3>4
  <2>6. CASE /\ Took("offer", l) /\ journal'.lease = l /\ journal'.phase = "refused"
             /\ journal = Empty /\ run.offer = None /\ run' = run
    <3>1. Untouched(l) /\ lease[l].state \notin MayRun /\ Once(down[run.sock], "offer", l)
      BY <1>1, <2>1, <2>6 DEF OfferedOnce, Took
    <3>2. /\ started[l] = 0 /\ run.resumed # l
          /\ \A s \in Sockets : hand[s].inv.lease # l /\ ~Has(up[s], "claim", l)
      BY <3>1 DEF Untouched, Has
    <3>3. started'[l] = 0
      BY <1>5, <2>1, <2>6, <3>2, TypedValues
    <3>4. \A s \in Sockets : ~Has(up'[s], "claim", l)
      <4>1. \A f \in F : ~(f.kind = "claim" /\ f.lease = l)
        BY <1>5, <2>2, <2>6, <3>2 DEF NewUp
      <4>2. QED
        BY <1>11, <2>2, <3>2, <4>1
    <3>5. \A s \in Sockets : ~Has(down'[s], "offer", l)
      <4>1. ~Has(down'[run.sock], "offer", l)
        BY <2>6, <3>1 DEF Took
      <4>2. QED
        BY <1>2, <2>1, <4>1 DEF ClosedEnds, Has
    <3>6. ~Admitted(l)'
      BY <1>5, <2>1, <2>6, <3>1, <3>2, <3>3, <3>4, <3>5 DEF Admitted, ClaimPhases
    <3>7. QED
      BY <1>3, <3>6
  <2>7. CASE ~(/\ Took("offer", l) /\ journal'.lease = l /\ journal'.phase = "refused"
               /\ journal = Empty /\ run.offer = None /\ run' = run)
    <3>1. journal'.lease = l /\ journal'.phase = "refused" => Refused(l)
      BY <1>9, <2>1, <2>7, TypedValues DEF JournalMoves, Clears, ClaimPhases
    <3>2. \A s \in Sockets : Has(up'[s], "refusal", l) => Refused(l)
      <4>1. ASSUME NEW f \in F, f.kind = "refusal", f.lease = l PROVE Refused(l)
        BY <2>2, <3>1, <4>1 DEF NewUp
      <4>2. QED
        BY <1>9, <1>11, <2>2, <4>1
    <3>3. Refused(l)
      BY <1>7, <1>9, <2>1, <2>3, <3>1, <3>2
    <3>4. QED
      BY <1>4, <2>5, <3>3
  <2>8. QED
    BY <2>6, <2>7
<1>16. CASE LeaveStep
  <2>1. /\ UNCHANGED <<lease, hand, journal, started>> /\ (\A s : DownNew(s, {}))
        /\ run'.offer = None
    BY <1>1, <1>16, LeaveMoves DEF durable
  <2>2. PICK F \in SUBSET UpFrames : UpNew(F) /\ \A f \in F : f.kind = "shutdown"
    BY <1>1, <1>16, LeaveMoves
  <2>3. \A s \in Sockets : \A kind : Has(down'[s], kind, l) => Has(down[s], kind, l)
    BY <1>12, <2>1
  <2>4. \A s \in Sockets : /\ Has(up'[s], "claim", l) => Has(up[s], "claim", l)
                           /\ Has(up'[s], "refusal", l) => Has(up[s], "refusal", l)
    BY <1>11, <2>2
  <2>5. Refused(l)
    BY <1>7, <1>9, <2>1, <2>3, <2>4
  <2>6. Admitted(l)
    BY <1>5, <1>8, <1>10, <2>1, <2>3, <2>4
  <2>7. QED
    BY <1>4, <2>5, <2>6
<1>17. CASE UNCHANGED vars
  <2>1. Refused(l) /\ Admitted(l)
    BY <1>3, <1>17 DEF vars, durable, runner, Refused, Admitted
  <2>2. QED
    BY <1>4, <2>1
<1>18. QED
  BY <1>13, <1>14, <1>15, <1>16, <1>17, ExecCases

(* An admitted offer is claimed once, and journalled once.                 *)
LEMMA OfferStageStep ==
  ASSUME ExecInv, [Next]_vars
  PROVE  OfferStage'
<1>1. /\ DaemonTypes /\ FrameTypes /\ RunnerTypes /\ LeaseRules /\ OfferedOnce /\ ResumeFits
      /\ ClosedEnds /\ RefusalStands /\ OfferStage
  BY DEF ExecInv, LeaseInv
<1>2. RunnerTypes' /\ JournalTells'
  BY TypesStep, JournalTellsStep
<1>3. SUFFICES ASSUME run'.offer # None
               PROVE  LET l == run'.offer
                          s == run'.sock
                      IN  /\ journal' # Empty => journal'.lease = l
                          /\ journal' = Empty => started'[l] = 0
                          /\ ~run'.claimed =>
                               /\ journal' = Empty /\ ~Has(up'[s], "claim", l)
                               /\ ~Has(down'[s], "claimed", l)
                          /\ Has(up'[s], "claim", l) =>
                               /\ journal' = Empty /\ ~Has(down'[s], "claimed", l)
                               /\ Once(up'[s], "claim", l)
                          /\ Has(down'[s], "claimed", l) =>
                               journal' = Empty /\ Once(down'[s], "claimed", l)
  BY DEF OfferStage, Empty
<1> DEFINE l == run'.offer
           s == run.sock
<1>4. l \in Leases /\ run'.sock \in Sockets /\ run'.resumed = None
  <2>1. l \in Leases
    BY <1>2, <1>3 DEF RunnerTypes, RunStates
  <2>2. run'.sock # None
    BY <1>2, <1>3, NoConnectionTyped DEF RunnerTypes
  <2>3. run'.sock \in Sockets
    BY <1>2, <2>2 DEF RunnerTypes, RunStates
  <2>4. run'.resumed = None
    BY <1>2, <1>3 DEF JournalTells
  <2>5. QED
    BY <2>1, <2>3, <2>4
<1>5. l # None
  BY <1>3
<1>6. Empty.lease = None /\ Empty.phase = "none"
  BY TypedValues
<1>7. run.offer = l =>
        /\ journal # Empty => journal.lease = l
        /\ journal = Empty => started[l] = 0
        /\ ~run.claimed => /\ journal = Empty /\ ~Has(up[s], "claim", l)
                           /\ ~Has(down[s], "claimed", l)
        /\ Has(up[s], "claim", l) =>
             journal = Empty /\ ~Has(down[s], "claimed", l) /\ Once(up[s], "claim", l)
        /\ Has(down[s], "claimed", l) => journal = Empty /\ Once(down[s], "claimed", l)
  BY <1>1, <1>3 DEF OfferStage
<1> HIDE DEF l
\* What the socket holds when nothing is sent on it but F and G.
<1>8. ASSUME NEW F, NEW G, run'.sock = s, UpNew(F), DownNew(s, G)
      PROVE  /\ Has(up'[s], "claim", l) =>
                  Has(up[s], "claim", l) \/ \E f \in F : f.kind = "claim" /\ f.lease = l
             /\ Has(down'[s], "claimed", l) =>
                  Has(down[s], "claimed", l) \/ \E f \in G : f.kind = "claimed" /\ f.lease = l
             /\ Once(up[s], "claim", l) /\ (\A f \in F : ~(f.kind = "claim" /\ f.lease = l))
                  => Once(up'[s], "claim", l)
             /\ Once(down[s], "claimed", l) /\ (\A f \in G : ~(f.kind = "claimed" /\ f.lease = l))
                  => Once(down'[s], "claimed", l)
             /\ ~Has(up[s], "claim", l) => Once(up'[s], "claim", l)
             /\ ~Has(down[s], "claimed", l) => Once(down'[s], "claimed", l)
  <2>1. PICK H \in SUBSET F : Grown(up[s], up'[s], H)
    BY <1>4, <1>8 DEF UpNew
  <2>2. Grown(down[s], down'[s], G)
    BY <1>4, <1>8 DEF DownNew
  <2>3. /\ Has(up'[s], "claim", l) =>
             Has(up[s], "claim", l) \/ \E f \in F : f.kind = "claim" /\ f.lease = l
        /\ Has(down'[s], "claimed", l) =>
             Has(down[s], "claimed", l) \/ \E f \in G : f.kind = "claimed" /\ f.lease = l
    BY <2>1, <2>2, HasGrown
  <2>4. /\ Once(up[s], "claim", l) /\ (\A f \in F : ~(f.kind = "claim" /\ f.lease = l))
             => Once(up'[s], "claim", l)
        /\ ~Has(up[s], "claim", l) => Once(up'[s], "claim", l)
    BY <2>1 DEF Grown
  <2>5. /\ Once(down[s], "claimed", l) /\ (\A f \in G : ~(f.kind = "claimed" /\ f.lease = l))
             => Once(down'[s], "claimed", l)
        /\ ~Has(down[s], "claimed", l) => Once(down'[s], "claimed", l)
    BY <2>2 DEF Grown
  <2>6. QED
    BY <2>3, <2>4, <2>5
<1>9. CASE DaemonStep
  <2>1. PICK z \in Sockets, F \in SUBSET DownFrames : Sends(z, F)
    BY <1>1, <1>9, DaemonSent
  <2>2. UNCHANGED <<journal, run, started>> /\ UpNew({})
    BY <1>1, <1>9, DaemonReads DEF runner
  <2>3. run.offer = l /\ run'.sock = s
    BY <2>2 DEF l
  <2>4. PICK G : DownNew(s, G) /\ \A f \in G : NewFrame(s, f)
    <3>1. CASE z = s
      BY <2>1, <3>1 DEF Sends
    <3>2. CASE z # s
      <4>1. DownNew(s, {})
        BY <2>1, <3>2 DEF Sends, DownNew
      <4>2. QED
        BY <4>1
    <3>3. QED
      BY <3>1, <3>2
  <2>5. /\ Has(up'[s], "claim", l) => Has(up[s], "claim", l)
        /\ Once(up[s], "claim", l) => Once(up'[s], "claim", l)
    BY <1>8, <2>2, <2>3, <2>4
  <2>6. ASSUME NEW f \in G, f.kind = "claimed", f.lease = l
        PROVE  /\ Has(up[s], "claim", l)
               /\ Once(up[s], "claim", l) => ~Has(up'[s], "claim", l)
    BY <2>4, <2>6 DEF NewFrame
  <2>7. Has(down'[s], "claimed", l) => Has(down[s], "claimed", l) \/ Has(up[s], "claim", l)
    BY <1>8, <2>2, <2>3, <2>4, <2>6
  <2>8. ASSUME Has(up'[s], "claim", l)
        PROVE  journal' = Empty /\ ~Has(down'[s], "claimed", l) /\ Once(up'[s], "claim", l)
    <3>1. journal = Empty /\ ~Has(down[s], "claimed", l) /\ Once(up[s], "claim", l)
      BY <1>7, <2>3, <2>5, <2>8
    <3>2. \A f \in G : ~(f.kind = "claimed" /\ f.lease = l)
      BY <2>6, <2>8, <3>1
    <3>3. ~Has(down'[s], "claimed", l)
      BY <1>8, <2>2, <2>3, <2>4, <3>1, <3>2
    <3>4. QED
      BY <2>2, <2>5, <3>1, <3>3
  <2>9. ASSUME Has(down'[s], "claimed", l)
        PROVE  journal' = Empty /\ Once(down'[s], "claimed", l)
    <3>1. CASE Has(down[s], "claimed", l)
      <4>1. journal = Empty /\ Once(down[s], "claimed", l) /\ ~Has(up[s], "claim", l)
        BY <1>7, <2>3, <3>1
      <4>2. \A f \in G : ~(f.kind = "claimed" /\ f.lease = l)
        BY <2>6, <4>1
      <4>3. QED
        BY <1>8, <2>2, <2>3, <2>4, <4>1, <4>2
    <3>2. CASE ~Has(down[s], "claimed", l)
      <4>1. journal = Empty
        BY <1>7, <2>3, <2>7, <2>9, <3>2
      <4>2. QED
        BY <1>8, <2>2, <2>3, <2>4, <3>2, <4>1
    <3>3. QED
      BY <3>1, <3>2
  <2>10. ~run'.claimed =>
           journal' = Empty /\ ~Has(up'[s], "claim", l) /\ ~Has(down'[s], "claimed", l)
    BY <1>7, <2>2, <2>3, <2>5, <2>7
  <2>11. /\ journal' # Empty => journal'.lease = l
         /\ journal' = Empty => started'[l] = 0
    BY <1>7, <2>2, <2>3
  <2>12. QED
    BY <2>3, <2>8, <2>9, <2>10, <2>11 DEF l
<1>10. ASSUME NEW r \in Sockets, Connect(r) PROVE FALSE
  BY <1>1, <1>3, <1>10, ConnectDoes
<1>11. CASE RunnerMoves
  <2>1. /\ (\A r : DownNew(r, {})) /\ JournalMoves
        /\ run.sock \in Sockets /\ run'.sock = s
        /\ \/ l \in {run.offer, None}
           \/ /\ Took("offer", l)
              /\ run.offer = None /\ journal = Empty /\ journal' = Empty
        /\ l = run.offer /\ run.claimed => run'.claimed
        /\ started'[l] = started[l] \/ (journal.lease = l /\ journal.phase = "may_have_started")
    BY <1>4, <1>11 DEF RunnerMoves, l
  <2>2. PICK F \in SUBSET UpFrames : UpNew(F) /\ \A f \in F : NewUp(f)
    BY <1>11 DEF RunnerMoves
  <2>3. ASSUME NEW f \in F, f.kind = "claim", f.lease = l
        PROVE  run'.claimed /\ (run.offer = l => ~run.claimed)
    BY <1>4, <1>5, <2>2, <2>3 DEF NewUp
  <2>4. DownNew(s, {})
    BY <2>1
  <2>5. /\ Has(up'[s], "claim", l) =>
             Has(up[s], "claim", l) \/ (run'.claimed /\ (run.offer = l => ~run.claimed))
        /\ Has(down'[s], "claimed", l) => Has(down[s], "claimed", l)
        /\ Once(down[s], "claimed", l) => Once(down'[s], "claimed", l)
        /\ ~Has(up[s], "claim", l) => Once(up'[s], "claim", l)
    BY <1>8, <2>1, <2>2, <2>3, <2>4
  <2>6. Once(up[s], "claim", l) /\ run.offer = l /\ run.claimed => Once(up'[s], "claim", l)
    BY <1>8, <2>1, <2>2, <2>3, <2>4
  <2>7. CASE l = run.offer
    <3>1. run.at # "hello"
      <4>1. run = [NoConnection EXCEPT !.sock = run.sock, !.at = "hello"] => run.offer = None
        BY DEF NoConnection, None
      <4>2. QED
        BY <1>1, <1>5, <2>7, <4>1 DEF ClosedEnds
    <3>2. ~Clears
      <4>1. SUFFICES ASSUME Clears PROVE FALSE
        OBVIOUS
      <4>2. journal.lease \in Leases /\ Has(down[s], "refusal_recorded", journal.lease)
        BY <1>5, <2>7, <3>1, <4>1 DEF Clears, l
      <4>3. journal.lease = l
        BY <1>4, <1>5, <1>6, <1>7, <2>7, <4>2, RunnerAssumption DEF None
      <4>4. Refused(l) /\ Admitted(l)
        BY <2>1, <2>7, <4>2, <4>3 DEF Refused, Admitted
      <4>5. QED
        BY <1>1, <1>4, <4>4 DEF RefusalStands
    <3>3. \/ journal' = journal
          \/ /\ journal'.lease = journal.lease
             /\ journal.phase \in ClaimPhases /\ journal'.phase \in ClaimPhases
          \/ /\ Took("claimed", l) /\ journal'.lease = l /\ journal'.phase = "waiting"
      BY <1>5, <2>1, <2>7, <3>2 DEF JournalMoves
    <3>4. journal' # Empty => journal'.lease = l
      BY <1>6, <1>7, <2>7, <3>3 DEF ClaimPhases
    <3>5. journal' = Empty => started'[l] = 0
      <4>1. journal' = Empty => journal = Empty
        BY <1>6, <3>3 DEF ClaimPhases
      <4>2. QED
        BY <1>5, <1>6, <1>7, <2>1, <2>7, <4>1
    <3>6. journal = Empty /\ ~Has(down[s], "claimed", l) => journal' = Empty
      BY <1>6, <3>3 DEF ClaimPhases, Took
    <3>7. Has(down'[s], "claimed", l) => journal' = Empty /\ Once(down'[s], "claimed", l)
      <4>1. SUFFICES ASSUME Has(down'[s], "claimed", l)
                     PROVE  journal' = Empty /\ Once(down'[s], "claimed", l)
        OBVIOUS
      <4>2. Has(down[s], "claimed", l) /\ journal = Empty /\ Once(down[s], "claimed", l)
        BY <1>7, <2>5, <2>7, <4>1
      <4>3. QED
        BY <1>6, <2>5, <3>3, <4>1, <4>2 DEF Took, ClaimPhases
    <3>8. ~run'.claimed =>
            journal' = Empty /\ ~Has(up'[s], "claim", l) /\ ~Has(down'[s], "claimed", l)
      BY <1>7, <2>1, <2>5, <2>7, <3>6
    <3>9. Has(up'[s], "claim", l) =>
            journal' = Empty /\ ~Has(down'[s], "claimed", l) /\ Once(up'[s], "claim", l)
      BY <1>7, <2>5, <2>6, <2>7, <3>6
    <3>10. QED
      BY <2>1, <3>4, <3>5, <3>7, <3>8, <3>9 DEF l
  <2>8. CASE l # run.offer
    <3>1. /\ Took("offer", l) /\ journal = Empty /\ journal' = Empty
      BY <1>5, <2>1, <2>8
    <3>2. Untouched(l)
      BY <1>1, <1>4, <2>1, <3>1 DEF OfferedOnce, Took
    <3>3. started[l] = 0 /\ ~Has(up[s], "claim", l) /\ ~Has(down[s], "claimed", l)
      BY <2>1, <3>2 DEF Untouched, Has
    <3>4. started'[l] = 0
      BY <1>5, <1>6, <2>1, <3>1, <3>3
    <3>5. QED
      BY <2>1, <2>5, <3>1, <3>3, <3>4 DEF l
  <2>9. QED
    BY <2>7, <2>8
<1>12. CASE LeaveStep
  BY <1>1, <1>3, <1>12, LeaveMoves
<1>13. CASE UNCHANGED vars
  <2>1. UNCHANGED <<journal, run, started, up, down>>
    BY <1>13 DEF vars, runner
  <2>2. QED
    BY <1>7, <2>1 DEF l
<1>14. QED
  BY <1>9, <1>10, <1>11, <1>12, <1>13, ExecCases

(***************************************************************************)
(* Evidence.                                                               *)
(***************************************************************************)

(* An execution ends once.                                                 *)
LEMMA ProducedStays ==
  ASSUME ExecInv, [Next]_vars, NEW l \in Leases, produced[l] # "none"
  PROVE  produced'[l] = produced[l]
<1>1. DaemonTypes /\ FrameTypes /\ RunnerTypes /\ JournalTells
  BY DEF ExecInv, LeaseInv
<1>2. CASE DaemonStep
  BY <1>1, <1>2, DaemonReads DEF runner
<1>3. ASSUME NEW s \in Sockets, Connect(s) PROVE produced'[l] = produced[l]
  BY <1>1, <1>3, ConnectDoes
<1>4. CASE RunnerMoves
  <2>1. l # None
    BY RunnerAssumption DEF None
  <2>2. produced'[l] = produced[l] \/ run.exec = l
    BY <1>4 DEF RunnerMoves
  <2>3. run.exec # l
    BY <1>1, <2>1 DEF JournalTells
  <2>4. QED
    BY <2>2, <2>3
<1>5. CASE LeaveStep
  BY <1>1, <1>5, LeaveMoves
<1>6. CASE UNCHANGED vars
  BY <1>6 DEF vars, runner
<1>7. QED
  BY <1>2, <1>3, <1>4, <1>5, <1>6, ExecCases

(* Evidence and the answers to it stay true.                               *)
LEMMA EvidenceTrueStep ==
  ASSUME ExecInv, [Next]_vars
  PROVE  EvidenceTrue'
<1>1. /\ DaemonTypes /\ FrameTypes /\ RunnerTypes /\ LeaseRules /\ ResumeFits
      /\ JournalTells /\ EvidenceTrue
  BY DEF ExecInv, LeaseInv
<1>2. JournalTells' /\ FrameTypes' /\ DaemonTypes'
  BY TypesStep, JournalTellsStep
<1>3. \A l \in Leases : Moves(l)
  BY <1>1, LeaseMoves
<1>4. \A l \in Leases : produced[l] # "none" => produced'[l] = produced[l]
  BY ProducedStays
<1>5. ASSUME NEW l \in Leases, lease'[l].state = "completed" PROVE lease'[l].end # "none"
  <2>1. CASE DaemonStep
    <3>1. Caused(l)
      BY <1>1, <2>1, LeaseCause
    <3>2. QED
      BY <1>1, <1>5, <3>1 DEF Caused, EvidenceTrue, Ends
  <2>2. CASE lease' = lease
    BY <1>1, <1>5, <2>2 DEF EvidenceTrue
  <2>3. ASSUME NEW s \in Sockets, Connect(s) PROVE lease' = lease
    BY <1>1, <2>3, ConnectDoes
  <2>4. LeaveStep => lease' = lease
    BY <1>1, LeaveMoves DEF durable
  <2>5. RunnerMoves => lease' = lease
    BY DEF RunnerMoves, durable
  <2>6. QED
    BY <2>1, <2>2, <2>3, <2>4, <2>5, ExecCases DEF vars, durable
<1>6. ASSUME NEW F, UpNew(F),
             \A f \in F : f.kind = "result" => /\ f.lease = journal'.lease
                                               /\ f.end = journal'.end /\ f.end # "none"
      PROVE  \A s \in Sockets : \A i \in DOMAIN up'[s] : up'[s][i].kind = "result" =>
               up'[s][i].end # "none" /\ produced'[up'[s][i].lease] = up'[s][i].end
  <2>1. SUFFICES ASSUME NEW s \in Sockets, NEW i \in DOMAIN up'[s], up'[s][i].kind = "result"
                 PROVE  up'[s][i].end # "none" /\ produced'[up'[s][i].lease] = up'[s][i].end
    OBVIOUS
  <2> DEFINE f == up'[s][i]
  <2>2. (\E j \in DOMAIN up[s] : up[s][j] = f) \/ f \in F
    BY <1>6 DEF UpNew, Grown
  <2>3. CASE \E j \in DOMAIN up[s] : up[s][j] = f
    <3>1. PICK j \in DOMAIN up[s] : up[s][j] = f
      BY <2>3
    <3>2. f \in UpFrames
      BY <1>1, <3>1 DEF FrameTypes
    <3>3. f.lease \in Leases
      BY <2>1, <3>2, UpFrameFields
    <3>4. f.end # "none" /\ produced[f.lease] = f.end
      BY <1>1, <2>1, <3>1 DEF EvidenceTrue
    <3>5. QED
      BY <1>4, <3>3, <3>4
  <2>4. CASE f \in F
    BY <1>2, <1>6, <2>1, <2>4 DEF JournalTells
  <2>5. QED
    BY <2>2, <2>3, <2>4
<1>7. ASSUME NEW inv \in Inventories, inv.end # "none", produced[inv.lease] = inv.end
      PROVE  produced'[inv.lease] = inv.end
  <2>1. inv.lease \in Leases
    BY <1>7 DEF Inventories
  <2>2. QED
    BY <1>4, <1>7, <2>1
<1>8. \A s \in Sockets : hand[s].inv \in Inventories
  BY <1>1 DEF DaemonTypes, Handlers
<1>9. ASSUME NEW z, NEW F, F \subseteq DownFrames, DownNew(z, F),
             \A f \in F : /\ f.kind = "recorded" => lease'[f.lease].state = "completed"
                          /\ f.kind = "refusal_recorded" => lease'[f.lease].state = "refused"
      PROVE  \A s \in Sockets : \A i \in DOMAIN down'[s] :
               /\ down'[s][i].kind = "recorded" => lease'[down'[s][i].lease].state = "completed"
               /\ down'[s][i].kind = "refusal_recorded" =>
                    lease'[down'[s][i].lease].state = "refused"
  <2>1. SUFFICES ASSUME NEW s \in Sockets, NEW i \in DOMAIN down'[s]
                 PROVE  /\ down'[s][i].kind = "recorded" =>
                             lease'[down'[s][i].lease].state = "completed"
                        /\ down'[s][i].kind = "refusal_recorded" =>
                             lease'[down'[s][i].lease].state = "refused"
    OBVIOUS
  <2> DEFINE f == down'[s][i]
  <2>2. (\E j \in DOMAIN down[s] : down[s][j] = f) \/ f \in F
    BY <1>9 DEF DownNew, Grown
  <2>3. CASE \E j \in DOMAIN down[s] : down[s][j] = f
    <3>1. PICK j \in DOMAIN down[s] : down[s][j] = f
      BY <2>3
    <3>2. f \in DownFrames
      BY <1>1, <3>1 DEF FrameTypes
    <3>3. f.kind \in {"recorded", "refusal_recorded"} => f.lease \in Leases
      BY <3>2, DownFrameFields
    <3>4. /\ f.kind = "recorded" => lease[f.lease].state = "completed"
          /\ f.kind = "refusal_recorded" => lease[f.lease].state = "refused"
      BY <1>1, <3>1 DEF EvidenceTrue
    <3>5. QED
      BY <1>3, <3>3, <3>4 DEF Moves
  <2>4. CASE f \in F
    BY <1>9, <2>4
  <2>5. QED
    BY <2>2, <2>3, <2>4
<1>10. ASSUME NEW F, UpNew(F),
              \A f \in F : f.kind = "result" => /\ f.lease = journal'.lease
                                                /\ f.end = journal'.end /\ f.end # "none",
              \A s \in Sockets : hand'[s].inv \in {hand[s].inv, Empty, journal},
              NEW z, NEW G, G \subseteq DownFrames, DownNew(z, G),
              \A f \in G : /\ f.kind = "recorded" => lease'[f.lease].state = "completed"
                           /\ f.kind = "refusal_recorded" => lease'[f.lease].state = "refused"
       PROVE  EvidenceTrue'
  <2>1. \A s \in Sockets : \A i \in DOMAIN up'[s] : up'[s][i].kind = "result" =>
          up'[s][i].end # "none" /\ produced'[up'[s][i].lease] = up'[s][i].end
    BY <1>6, <1>10
  <2>2. \A s \in Sockets : \A i \in DOMAIN down'[s] :
          /\ down'[s][i].kind = "recorded" => lease'[down'[s][i].lease].state = "completed"
          /\ down'[s][i].kind = "refusal_recorded" => lease'[down'[s][i].lease].state = "refused"
    BY <1>9, <1>10
  <2>3. ASSUME NEW s \in Sockets, hand'[s].inv.end # "none"
        PROVE  produced'[hand'[s].inv.lease] = hand'[s].inv.end
    <3>1. CASE hand'[s].inv = hand[s].inv
      BY <1>1, <1>7, <1>8, <2>3, <3>1 DEF EvidenceTrue
    <3>2. CASE hand'[s].inv = journal
      BY <1>1, <1>7, <2>3, <3>2 DEF JournalTells, RunnerTypes
    <3>3. CASE hand'[s].inv = Empty
      BY <2>3, <3>3, TypedValues
    <3>4. QED
      BY <1>10, <3>1, <3>2, <3>3
  <2>4. QED
    BY <1>5, <2>1, <2>2, <2>3 DEF EvidenceTrue
<1>11. CASE DaemonStep
  <2>1. PICK z \in Sockets, F \in SUBSET DownFrames : Sends(z, F)
    BY <1>1, <1>11, DaemonSent
  <2>2. UpNew({})
    BY <1>1, <1>11, DaemonReads
  <2>3. \A r \in Sockets : HandMoves(r)
    BY <1>1, <1>11, DaemonHands
  <2>4. \A s \in Sockets : hand'[s].inv \in {hand[s].inv, Empty, journal}
    BY <2>3 DEF HandMoves
  <2>5. F \subseteq DownFrames /\ DownNew(z, F)
    BY <2>1 DEF Sends
  <2>6. \A f \in F : /\ f.kind = "recorded" => lease'[f.lease].state = "completed"
                     /\ f.kind = "refusal_recorded" => lease'[f.lease].state = "refused"
    BY <2>1 DEF Sends, NewFrame
  <2>7. QED
    BY <1>10, <2>2, <2>4, <2>5, <2>6
<1>12. ASSUME NEW s \in Sockets, Connect(s) PROVE EvidenceTrue'
  <2>1. /\ \A r \in Sockets : hand'[r].inv \in {hand[r].inv, Empty, journal}
        /\ UNCHANGED <<up, down>>
    BY <1>1, <1>12, ConnectDoes
  <2>2. UpNew({}) /\ DownNew(s, {})
    BY <2>1, GrownSame DEF UpNew, DownNew
  <2>3. QED
    BY <1>10, <2>1, <2>2
<1>13. CASE RunnerMoves
  <2>1. hand' = hand /\ (\A s : DownNew(s, {}))
    BY <1>13 DEF RunnerMoves
  <2>2. PICK F \in SUBSET UpFrames : UpNew(F) /\ \A f \in F : NewUp(f)
    BY <1>13 DEF RunnerMoves
  <2>3. \A f \in F : f.kind = "result" => /\ f.lease = journal'.lease
                                          /\ f.end = journal'.end /\ f.end # "none"
    BY <2>2 DEF NewUp
  <2>4. QED
    BY <1>10, <2>1, <2>2, <2>3
<1>14. CASE LeaveStep
  <2>1. hand' = hand /\ (\A s : DownNew(s, {}))
    BY <1>1, <1>14, LeaveMoves
  <2>2. PICK F \in SUBSET UpFrames : UpNew(F) /\ \A f \in F : f.kind = "shutdown"
    BY <1>1, <1>14, LeaveMoves
  <2>3. QED
    BY <1>10, <2>1, <2>2
<1>15. CASE UNCHANGED vars
  BY <1>1, <1>15 DEF vars, durable, runner, EvidenceTrue
<1>16. QED
  BY <1>11, <1>12, <1>13, <1>14, <1>15, ExecCases

(* Evidence leaves the journal only for a settled lease.                   *)
LEMMA EvidenceKeptStep ==
  ASSUME ExecInv, [Next]_vars
  PROVE  EvidenceKept'
<1>1. /\ DaemonTypes /\ FrameTypes /\ RunnerTypes /\ LeaseRules /\ ResumeFits /\ OfferStage
      /\ JournalTells /\ EvidenceTrue /\ EvidenceKept /\ RefusalStands /\ ClaimRecorded
  BY DEF ExecInv, LeaseInv
<1>2. \A l \in Leases : Moves(l)
  BY <1>1, LeaseMoves
<1>3. SUFFICES ASSUME NEW l \in Leases
               PROVE  /\ lease'[l].state = "completed" => lease'[l].end = produced'[l]
                      /\ produced'[l] # "none" /\ ~(journal'.lease = l /\ journal'.end # "none")
                           => lease'[l].state \in {"completed", "lost_claimed"}
  BY DEF EvidenceKept
<1>4. /\ lease[l].state = "completed" => lease[l].end = produced[l] /\ produced[l] # "none"
      /\ produced[l] # "none" /\ ~(journal.lease = l /\ journal.end # "none")
           => lease[l].state \in {"completed", "lost_claimed"}
  BY <1>1 DEF EvidenceKept, EvidenceTrue
<1>5. produced[l] # "none" => produced'[l] = produced[l]
  BY ProducedStays
<1>6. CASE DaemonStep
  <2>1. UNCHANGED <<journal, produced>>
    BY <1>1, <1>6, DaemonReads DEF runner
  <2>2. Caused(l)
    BY <1>1, <1>6, LeaseCause
  <2>3. lease'[l].state = "completed" => lease'[l].end = produced'[l]
    <3>1. SUFFICES ASSUME lease'[l].state = "completed" PROVE lease'[l].end = produced[l]
      BY <2>1
    <3>2. ASSUME NEW s \in Sockets, hand[s].inv.lease = l, hand[s].inv.end # "none",
                 lease'[l].end = hand[s].inv.end
          PROVE  lease'[l].end = produced[l]
      BY <1>1, <3>2 DEF EvidenceTrue
    <3>3. ASSUME NEW s \in Sockets, NEW i \in DOMAIN up[s], up[s][i].kind = "result",
                 up[s][i].lease = l, lease'[l].end = up[s][i].end
          PROVE  lease'[l].end = produced[l]
      BY <1>1, <3>3 DEF EvidenceTrue
    <3>4. QED
      BY <1>4, <2>2, <3>1, <3>2, <3>3 DEF Caused
  <2>4. lease[l].state \in {"completed", "lost_claimed"} =>
          lease'[l].state \in {"completed", "lost_claimed"}
    BY <1>2 DEF Moves
  <2>5. QED
    BY <1>4, <2>1, <2>3, <2>4
<1>7. ASSUME NEW s \in Sockets, Connect(s) PROVE UNCHANGED <<lease, journal, produced>>
  BY <1>1, <1>7, ConnectDoes
<1>8. CASE RunnerMoves
  <2>1. /\ lease' = lease /\ JournalMoves /\ run.sock \in Sockets
        /\ \/ produced'[l] = produced[l]
           \/ journal'.lease = l /\ journal'.end # "none"
    BY <1>8 DEF RunnerMoves, durable
  <2>2. lease'[l].state = "completed" => lease'[l].end = produced'[l]
    BY <1>4, <1>5, <2>1
  <2>3. ASSUME produced'[l] # "none", ~(journal'.lease = l /\ journal'.end # "none")
        PROVE  lease[l].state \in {"completed", "lost_claimed"}
    <3>1. produced[l] # "none" /\ started[l] = 1
      BY <1>1, <2>1, <2>3 DEF JournalTells
    <3>2. SUFFICES ASSUME journal.lease = l, journal.end # "none"
                   PROVE  lease[l].state \in {"completed", "lost_claimed"}
      BY <1>4, <3>1
    <3>3. journal # Empty
      BY <3>2, TypedValues
    <3>4. lease[l].state \in MayRun /\ Admitted(l)
      BY <1>1, <3>1 DEF ClaimRecorded, Admitted
    <3>5. ~(run.offer \in Leases /\ Took("claimed", run.offer))
      <4>1. run.offer \in Leases => run.offer # None
        BY RunnerAssumption DEF None
      <4>2. QED
        BY <1>1, <3>3, <4>1 DEF OfferStage, Took
    <3>6. Clears
      BY <2>1, <2>3, <3>2, <3>3, <3>5 DEF JournalMoves
    <3>7. CASE /\ run.at = "hello"
               /\ \E i \in DOMAIN down[run.sock] :
                    down[run.sock][i].kind = "resumed" /\ down[run.sock][i].end # "await"
      <4>1. PICK i \in DOMAIN down[run.sock] :
                   down[run.sock][i].kind = "resumed" /\ down[run.sock][i].end # "await"
        BY <3>7
      <4>2. Fits(journal, down[run.sock][i].end)
        BY <1>1, <3>7, <4>1 DEF ResumeFits
      <4>3. lease[l].state \in Final
        BY <3>2, <3>3, <4>1, <4>2 DEF Fits
      <4>4. QED
        BY <3>4, <4>3 DEF MayRun, Final, Lost
    <3>8. CASE Has(down[run.sock], "recorded", l)
      BY <1>1, <2>1, <3>8 DEF EvidenceTrue, Has
    <3>9. CASE Has(down[run.sock], "refusal_recorded", l)
      <4>1. Refused(l)
        BY <2>1, <3>9 DEF Refused
      <4>2. QED
        BY <1>1, <3>4, <4>1 DEF RefusalStands
    <3>10. QED
      BY <3>2, <3>6, <3>7, <3>8, <3>9 DEF Clears
  <2>4. QED
    BY <2>1, <2>2, <2>3
<1>9. LeaveStep => UNCHANGED <<lease, journal, produced>>
  BY <1>1, LeaveMoves DEF durable
<1>10. CASE UNCHANGED <<lease, journal, produced>>
  BY <1>4, <1>10
<1>11. UNCHANGED vars => UNCHANGED <<lease, journal, produced>>
  BY DEF vars, durable, runner
<1>12. QED
  BY <1>6, <1>7, <1>8, <1>9, <1>10, <1>11, ExecCases

(* A resumption keeps the answer that its reconciliation found.            *)
LEMMA HandFits ==
  ASSUME DaemonTypes, FrameTypes, DaemonStep, NEW r \in Sockets,
         hand'[r].at \in {"open", "reread"}
  PROVE  \/ /\ hand[r].at \in {"open", "reread"}
            /\ hand'[r].inv = hand[r].inv /\ hand'[r].out = hand[r].out
         \/ Reconcile(r)
<1> DEFINE Kept == /\ hand[r].at \in {"open", "reread"}
                   /\ hand'[r].inv = hand[r].inv /\ hand'[r].out = hand[r].out
<1>1. hand'[r] = hand[r] => Kept
  OBVIOUS
<1>2. hand'[r] # NoHandler /\ hand'[r] # [NoHandler EXCEPT !.at = "propagate"]
  BY TypedValues
<1>3. CASE \/ \E l \in Leases : Offer(l)
           \/ WaitForLease \/ BootPropagate \/ BootSettled \/ BootDone
  BY <1>1, <1>3 DEF Offer, WaitForLease, BootPropagate, BootSettled, BootDone
<1>4. CASE DaemonCrash
  BY <1>2, <1>4, DaemonCrashDoes
<1>5. ASSUME NEW s \in Sockets, Reconcile(s) PROVE Kept \/ Reconcile(r)
  <2>1. CASE r # s
    BY <1>1, <1>5, <2>1, ReconcileDoes
  <2>2. QED
    BY <1>5, <2>1
<1>6. ASSUME NEW s \in Sockets, ResolveLoss(s) \/ Propagate(s) \/ SendOffer(s) PROVE Kept
  <2>1. CASE r # s
    BY <1>1, <1>6, <2>1, ResolveLossDoes, PropagateDoes, SendOfferDoes
  <2>2. CASE r = s
    BY <1>2, <1>6, <2>2, ResolveLossDoes, PropagateDoes, SendOfferDoes
  <2>3. QED
    BY <2>1, <2>2
<1>7. ASSUME NEW s \in Sockets, OpenConnection(s) PROVE Kept
  <2>1. CASE r # s
    BY <1>1, <1>7, <2>1, OpenConnectionDoes
  <2>2. CASE r = s
    <3>1. /\ hand[r].at = "open"
          /\ \/ hand'[r].inv = hand[r].inv /\ hand'[r].out = hand[r].out
             \/ hand'[r].at = "serving"
      BY <1>7, <2>2, OpenConnectionDoes
    <3>2. QED
      BY <3>1
  <2>3. QED
    BY <2>1, <2>2
<1>8. ASSUME NEW s \in Sockets, ServeStep(s) PROVE Kept
  BY <1>1, <1>8 DEF ServeStep
<1>9. ASSUME NEW s \in Sockets, EndStep(s) \/ CloseStep(s) PROVE Kept
  <2>1. \A q \in Sockets \ {s} : hand'[q] = hand[q]
    BY <1>9, EndHandlerDoes, CloseHandlerDoes DEF EndStep, CloseStep
  <2>2. hand'[s] \in {NoHandler, [NoHandler EXCEPT !.at = "propagate"]}
    BY <1>9, EndHandlerDoes, CloseHandlerDoes DEF EndStep, CloseStep
  <2>3. QED
    BY <1>1, <1>2, <2>1, <2>2
<1>10. ASSUME NEW s \in Sockets, NEW l \in Leases,
              ClaimStep(s, l) \/ ResultStep(s, l) \/ RefusalStep(s, l)
       PROVE  Kept
  BY <1>1, <1>10 DEF ClaimStep, ResultStep, RefusalStep, RecordStep
<1>11. ASSUME NEW s \in Sockets, Heartbeat(s) PROVE Kept
  BY <1>1, <1>11 DEF Heartbeat
<1>12. QED
  BY <1>3, <1>4, <1>5, <1>6, <1>7, <1>8, <1>9, <1>10, <1>11 DEF DaemonStep

(* The answer to a resumption goes on fitting.                             *)
LEMMA ResumeFitsStep ==
  ASSUME ExecInv, [Next]_vars
  PROVE  ResumeFits'
<1>1. /\ DaemonTypes /\ FrameTypes /\ RunnerTypes /\ LeaseRules /\ ResumeFits /\ ClosedEnds
  BY DEF ExecInv, LeaseInv
<1>2. \A l \in Leases : Moves(l)
  BY <1>1, LeaseMoves
<1>3. ASSUME NEW j \in Inventories, NEW out, Fits(j, out) PROVE Fits(j, out)'
  <2>1. j # Empty => j.lease \in Leases
    BY DEF Inventories
  <2>2. j # Empty /\ lease[j.lease].state \in Final => lease'[j.lease].state \in Final
    BY <1>2, <2>1 DEF Moves, Final, Lost
  <2>3. QED
    BY <1>3, <2>2 DEF Fits
<1>4. /\ \A s \in Sockets : hand[s].inv \in Inventories
      /\ journal \in Inventories
  BY <1>1 DEF DaemonTypes, Handlers, RunnerTypes
<1>5. CASE DaemonStep
  <2>1. PICK z \in Sockets, F \in SUBSET DownFrames : Sends(z, F)
    BY <1>1, <1>5, DaemonSent
  <2>2. UNCHANGED <<journal, run>>
    BY <1>1, <1>5, DaemonReads DEF runner
  <2>3. ASSUME NEW s \in Sockets, hand'[s].at \in {"open", "reread"}
        PROVE  Fits(hand[s].inv, hand[s].out)'
    <3>1. CASE /\ hand[s].at \in {"open", "reread"}
               /\ hand'[s].inv = hand[s].inv /\ hand'[s].out = hand[s].out
      <4>1. Fits(hand[s].inv, hand[s].out)
        BY <1>1, <3>1 DEF ResumeFits
      <4>2. hand'[s].inv \in Inventories /\ Fits(hand'[s].inv, hand'[s].out)
        BY <1>4, <3>1, <4>1
      <4>3. QED
        BY <1>3, <4>2 DEF Fits
    <3>2. CASE Reconcile(s)
      <4> DEFINE inv == hand[s].inv
                 out == Outcome(inv)
      <4>1. /\ inv \in Inventories /\ lease' = Recorded(inv) /\ hand'[s].inv = inv
            /\ hand'[s].out = out /\ out \in {"empty", "recorded", "await", "lost"}
        BY <1>1, <2>3, <3>2, ReconcileDoes, TypedValues
      <4>2. /\ out = "empty" => inv = Empty
            /\ out = "await" => inv.phase \in {"waiting", "received"}
            /\ out \in {"recorded", "lost"} => inv # Empty /\ inv.lease \in Leases
            /\ out = "recorded" => Records(inv)
            /\ out = "lost" => lease[inv.lease].state \in Lost
        BY <1>1, <4>1, OutcomeMeans
      <4>3. out = "recorded" => lease'[inv.lease].state \in {"refused", "completed"}
        BY <1>1, <4>1, <4>2, RecordedDoes
      <4>4. out = "lost" => lease'[inv.lease].state \in Final
        BY <1>2, <4>2 DEF Moves, Final, Lost
      <4> HIDE DEF out
      <4>5. QED
        BY <4>1, <4>2, <4>3, <4>4 DEF Fits, Final
    <3>3. QED
      BY <1>1, <1>5, <2>3, <3>1, <3>2, HandFits
  <2>4. ASSUME run'.at = "hello", NEW i \in DOMAIN down'[run'.sock],
               down'[run'.sock][i].kind = "resumed"
        PROVE  /\ down'[run'.sock][i].lease = journal'.lease
               /\ Fits(journal, down[run.sock][i].end)'
    <3> DEFINE f == down'[run'.sock][i]
    <3>1. run.at = "hello" /\ run.sock \in Sockets /\ run'.sock = run.sock
      BY <1>1, <2>2, <2>4, Connected
    <3>2. (\E k \in DOMAIN down[run.sock] : down[run.sock][k] = f) \/ (f \in F /\ z = run.sock)
      BY <2>1, <3>1 DEF Sends, DownNew, Grown
    <3>3. f.lease = journal.lease /\ Fits(journal, f.end)
      <4>1. CASE \E k \in DOMAIN down[run.sock] : down[run.sock][k] = f
        BY <1>1, <2>4, <3>1, <4>1 DEF ResumeFits
      <4>2. CASE f \in F /\ z = run.sock
        <5>1. /\ hand[z].at \in {"open", "reread"} /\ f.lease = hand[z].inv.lease
              /\ Fits(hand[z].inv, f.end)
          BY <2>1, <2>4, <4>2 DEF Sends, NewFrame
        <5>2. hand[z].inv = journal
          BY <1>1, <4>2, <5>1 DEF ClosedEnds, Resuming
        <5>3. QED
          BY <5>1, <5>2
      <4>3. QED
        BY <3>2, <4>1, <4>2
    <3>4. Fits(journal', f.end)
      BY <2>2, <3>3
    <3>5. Fits(journal, down[run.sock][i].end)'
      BY <1>3, <1>4, <2>2, <3>4 DEF Fits
    <3>6. QED
      BY <2>2, <3>3, <3>5
  <2>5. QED
    BY <2>3, <2>4 DEF ResumeFits
<1>6. ASSUME NEW s \in Sockets, Connect(s) PROVE ResumeFits'
  <2>1. /\ run.sock = None /\ \A r \in Sockets \ {s} : hand'[r] = hand[r]
        /\ hand'[s].at = "hello" /\ run'.sock = s
        /\ UNCHANGED <<lease, down>>
    BY <1>1, <1>6, ConnectDoes
  <2>2. down'[run'.sock] = << >>
    BY <1>1, <2>1, RunnerAssumption DEF ClosedEnds, None
  <2>3. QED
    BY <1>1, <2>1, <2>2 DEF ResumeFits, Fits
<1>7. ASSUME UNCHANGED <<lease, hand>>, run'.at # "hello" PROVE ResumeFits'
  BY <1>1, <1>7 DEF ResumeFits, Fits
<1>8. CASE RunnerMoves
  BY <1>7, <1>8 DEF RunnerMoves, durable
<1>9. CASE LeaveStep
  <2>1. UNCHANGED <<lease, hand>> /\ run'.at = "idle"
    BY <1>1, <1>9, LeaveMoves DEF durable
  <2>2. QED
    BY <1>7, <2>1
<1>10. CASE UNCHANGED vars
  <2>1. UNCHANGED <<lease, hand, run, journal, down>>
    BY <1>10 DEF vars, durable, runner
  <2>2. QED
    BY <1>1, <2>1 DEF ResumeFits, Fits
<1>11. QED
  BY <1>5, <1>6, <1>8, <1>9, <1>10, ExecCases

(***************************************************************************)
(* The theorems.                                                           *)
(***************************************************************************)

(* The first connection satisfies the invariant.                           *)
LEMMA ExecInit ==
  ASSUME Init
  PROVE  ExecInv
<1>1. \E s \in Sockets : TRUE
  <2>1. Cardinality({}) = 0
    BY FS_EmptySet
  <2>2. ~(0 > 1)
    OBVIOUS
  <2>3. Sockets # {}
    BY <2>1, <2>2, RunnerAssumption
  <2>4. QED
    BY <2>3
<1>2. PICK s \in Sockets :
        /\ conn = [state |-> "connected", owner |-> s]
        /\ hand = [[r \in Sockets |-> NoHandler] EXCEPT ![s].at = "serving"]
        /\ run = [NoConnection EXCEPT !.sock = s, !.at = "serving"]
  BY <1>1 DEF Init
<1>3. /\ lease = [l \in Leases |-> NoLease] /\ pending = FALSE
      /\ boot = [at |-> "no", captured |-> FALSE] /\ permit = None
      /\ up = [r \in Sockets |-> <<>>] /\ down = [r \in Sockets |-> <<>>]
      /\ journal = Empty /\ started = [l \in Leases |-> 0]
      /\ produced = [l \in Leases |-> "none"]
  BY DEF Init
<1>4. s # None /\ \A l \in Leases : l # None
  BY RunnerAssumption DEF None
<1>5. /\ NoLease \in LeaseRecords /\ NoLease.state = "none" /\ NoLease.fresh = FALSE
  BY DEF NoLease, LeaseRecords
<1>6. /\ \A l \in Leases : lease[l].state = "none"
      /\ lease \in [Leases -> LeaseRecords]
  BY <1>3, <1>5
<1>7. /\ run \in RunStates /\ run.sock = s /\ run.at = "serving" /\ run.offer = None
      /\ run.resumed = None /\ run.deferred = None /\ run.exec = None /\ run.last = None
  BY <1>2 DEF NoConnection, RunStates, None
<1>8. /\ [NoHandler EXCEPT !.at = "serving"] \in Handlers
      /\ [NoHandler EXCEPT !.at = "serving"].at = "serving"
      /\ [NoHandler EXCEPT !.at = "serving"].inv = Empty
      /\ [NoHandler EXCEPT !.at = "serving"].busy = None
  BY TypedValues DEF NoHandler, Handlers, Resuming
<1>9. /\ hand \in [Sockets -> Handlers]
      /\ \A r \in Sockets : /\ hand[r].at \in {"none", "serving"} /\ hand[r].inv = Empty
                            /\ hand[r].at = "none" => hand[r] = NoHandler
                            /\ hand[r].busy = None
  <2>1. hand[s] = [NoHandler EXCEPT !.at = "serving"]
    BY <1>2
  <2>2. \A r \in Sockets \ {s} : hand[r] = NoHandler
    BY <1>2
  <2>3. hand = [r \in Sockets |-> IF r = s THEN [NoHandler EXCEPT !.at = "serving"] ELSE NoHandler]
    BY <1>2
  <2>4. hand \in [Sockets -> Handlers]
    BY <1>8, <2>3, TypedValues
  <2>5. QED
    BY <1>8, <2>1, <2>2, <2>4, TypedValues
<1>10. DaemonTypes
  BY <1>2, <1>3, <1>6, <1>9 DEF DaemonTypes, Connections, Up
<1>11. /\ \A r \in Sockets : up[r] = << >> /\ down[r] = << >> /\ DOMAIN up[r] = {} /\ DOMAIN down[r] = {}
  BY <1>3
<1>12. FrameTypes
  BY <1>3, EmptySeq DEF FrameTypes
<1>13. RunnerTypes
  BY <1>3, <1>4, <1>7, TypedValues DEF RunnerTypes
<1>14. LeaseRules
  BY <1>3, <1>6, <1>9 DEF LeaseRules, OneCurrentLease, AdmissionExclusive, LossPending, PermitHolds,
     BootCloses, OffersFenced, RefusedHasNoEnd, Live, Resuming
<1>15. ClosedEnds
  BY <1>7, <1>9, <1>11 DEF ClosedEnds, Resuming
<1>16. \A l \in Leases : started[l] = 0 /\ produced[l] = "none"
  BY <1>3
<1>17. \A r \in Sockets : \A kind, l : ~Has(up[r], kind, l) /\ ~Has(down[r], kind, l)
  BY <1>11 DEF Has
<1>18. OfferedOnce
  <2>1. \A l \in Leases : Untouched(l)
    BY <1>3, <1>4, <1>7, <1>9, <1>11, <1>16, TypedValues DEF Untouched
  <2>2. QED
    BY <1>4, <1>6, <1>9, <1>17, <2>1 DEF OfferedOnce
<1>19. RefusalStands
  BY <1>3, <1>4, <1>6, <1>9, <1>17, TypedValues DEF RefusalStands, Refused
<1>20. ClaimRecorded
  BY <1>3, <1>4, <1>9, <1>16, <1>17, TypedValues DEF ClaimRecorded
<1>21. JournalTells
  BY <1>3, <1>7, <1>16, TypedValues DEF JournalTells
<1>22. OfferStage
  BY <1>7 DEF OfferStage
<1>23. EvidenceTrue /\ EvidenceKept
  BY <1>6, <1>9, <1>11, <1>16, TypedValues DEF EvidenceTrue, EvidenceKept
<1>24. ResumeFits
  BY <1>7, <1>9 DEF ResumeFits
<1>25. QED
  BY <1>10, <1>12, <1>13, <1>14, <1>15, <1>18, <1>19, <1>20, <1>21, <1>22, <1>23, <1>24
     DEF ExecInv, LeaseInv

(* Every step keeps it.                                                    *)
LEMMA ExecStep ==
  ASSUME ExecInv, [Next]_vars
  PROVE  ExecInv'
<1>1. DaemonTypes /\ FrameTypes /\ RunnerTypes /\ LeaseRules
  BY DEF ExecInv, LeaseInv
<1>2. LeaseRules'
  BY <1>1, LeaseRulesStep
<1>3. QED
  BY <1>2, TypesStep, ClosedEndsStep, OfferedOnceStep, RefusalStandsStep, ClaimRecordedStep,
     JournalTellsStep, OfferStageStep, EvidenceTrueStep, EvidenceKeptStep, ResumeFitsStep
     DEF ExecInv, LeaseInv

(* The leases, the frames and the runner keep the inductive invariant.     *)
THEOREM RunnerInvariant == Spec => []ExecInv
<1>1. Init => ExecInv
  BY ExecInit
<1>2. ExecInv /\ [Next]_vars => ExecInv'
  BY ExecStep
<1>3. QED
  BY <1>1, <1>2, PTL DEF Spec

(* A fault is counted or the count is left alone.                          *)
LEMMA FaultsCounted ==
  ASSUME [Next]_vars
  PROVE  faults' = faults \/ Fault
<1>1. ASSUME NEW l \in Leases, Offer(l) PROVE faults' = faults
  BY <1>1 DEF Offer
<1>2. CASE WaitForLease \/ Boot
  BY <1>2 DEF WaitForLease, Boot, BootPropagate, BootSettled, BootDone
<1>3. CASE RunnerStep
  <2>1. CASE GetFrame
    BY <2>1 DEF GetFrame, GetResumed, GetOffer, GetClaimed, GetDispatch, GetRecorded, GetShutdown
  <2>2. CASE ScanDone \/ JournalStart \/ Start \/ RunnerClosed \/ \E e \in Ends : Finish(e)
    BY <2>2 DEF ScanDone, JournalStart, Start, RunnerClosed, Finish
  <2>3. QED
    BY <1>3, <2>1, <2>2 DEF RunnerStep
<1>4. CASE Resend
  BY <1>4 DEF Resend
<1>5. ASSUME NEW s \in Sockets, HandlerStep(s) PROVE faults' = faults
  <2>1. CASE Resume(s)
    BY <2>1 DEF Resume, Reconcile, ResolveLoss, OpenConnection, Reread
  <2>2. CASE Propagate(s) \/ SendOffer(s) \/ HandlerEof(s) \/ HeartbeatStale(s)
    BY <2>2 DEF Propagate, SendOffer, HandlerEof, HeartbeatStale
  <2>3. CASE TakeFrame(s)
    BY <2>3 DEF TakeFrame, TakeClaim, TakeResult, TakeRefusal, TakeShutdown
  <2>4. QED
    BY <1>5, <2>1, <2>2, <2>3 DEF HandlerStep
<1>6. ASSUME NEW s \in Sockets, Heartbeat(s) \/ Faulty(s) \/ Connect(s)
      PROVE  faults' = faults \/ Fault
  BY <1>6 DEF Heartbeat, Faulty, HeartbeatTimeout, HandlerFails, DaemonShutdown, Connect
<1>7. CASE DaemonCrash \/ RunnerShutdown \/ RunnerCrash
  BY <1>7 DEF DaemonCrash, RunnerShutdown, RunnerCrash
<1>8. CASE UNCHANGED vars
  BY <1>8 DEF vars
<1>9. QED
  BY <1>1, <1>2, <1>3, <1>4, <1>5, <1>6, <1>7, <1>8 DEF Next

(* Type correctness: every value the daemon stores, every frame in flight  *)
(* and the runner's journal and connection stay in their ranges, an ended  *)
(* handler leaves nothing behind, and a running executor is the journalled *)
(* lease's (runner_protocol_runtime.rs, journal.rs, protocol.rs).          *)
THEOREM RunnerTypeCorrect == Spec => []TypeOK
<1> DEFINE Counted == faults \in 0 .. MaxFaults
<1>1. Init => Counted
  BY RunnerAssumption DEF Init
<1>2. Counted /\ [Next]_vars => Counted'
  <2>1. SUFFICES ASSUME Counted, [Next]_vars PROVE Counted'
    OBVIOUS
  <2>2. faults' = faults \/ Fault
    BY <2>1, FaultsCounted
  <2>3. QED
    BY <2>1, <2>2, RunnerAssumption DEF Fault
<1>3. ExecInv /\ Counted => TypeOK
  <2>1. SUFFICES ASSUME ExecInv, Counted PROVE TypeOK
    OBVIOUS
  <2>2. DaemonTypes /\ FrameTypes /\ RunnerTypes /\ ClosedEnds /\ JournalTells
    BY <2>1 DEF ExecInv, LeaseInv
  <2>3. ASSUME NEW s \in Sockets
        PROVE  /\ hand[s].at \in {"none", "hello", "serving", "propagate"} \cup Resuming
               /\ hand[s].at = "none" => hand[s] = NoHandler
               /\ hand[s].busy \in Leases \cup {None}
    BY <2>2 DEF DaemonTypes, Handlers, ClosedEnds
  <2>4. ASSUME NEW s \in Sockets, NEW i \in DOMAIN up[s] PROVE up[s][i].kind \in Kinds
    <3>1. up[s][i] \in UpFrames
      BY <2>2 DEF FrameTypes
    <3>2. QED
      BY <3>1, UpFrameFields DEF Kinds
  <2>5. ASSUME NEW s \in Sockets, NEW i \in DOMAIN down[s] PROVE down[s][i].kind \in Kinds
    <3>1. down[s][i] \in DownFrames
      BY <2>2 DEF FrameTypes
    <3>2. QED
      BY <3>1, DownFrameFields DEF Kinds
  <2>6. /\ journal \in [lease : Leases \cup {None}, phase : Phases, end : Ends \cup {"none"}]
        /\ journal.phase = "none" => journal = Empty
        /\ journal.end # "none" => journal.phase = "may_have_started"
    BY <2>2 DEF RunnerTypes, Inventories
  <2>7. /\ run.at = "idle" => run = NoConnection
        /\ run.exec # None => journal.lease = run.exec
        /\ run.at \in {"idle", "hello", "serving", "dispatching", "starting"}
    BY <2>2 DEF RunnerTypes, RunStates
  <2>8. started \in [Leases -> 0 .. 2] /\ produced \in [Leases -> Ends \cup {"none"}]
    BY <2>2 DEF JournalTells
  <2>9. /\ lease \in [Leases -> [state : {"none"} \cup Live \cup Final, fresh : BOOLEAN,
                                 intact : BOOLEAN, end : Ends \cup {"none"}]]
        /\ conn \in [state : Up \cup {"shutdown", "lost"}, owner : Sockets \cup {None}]
        /\ pending \in BOOLEAN
        /\ boot \in [at : {"no", "reconcile", "finish"}, captured : BOOLEAN]
        /\ permit \in Leases \cup {None}
    BY <2>2 DEF DaemonTypes, LeaseRecords, Connections
  <2>10. QED
    BY <2>1, <2>3, <2>4, <2>5, <2>6, <2>7, <2>8, <2>9 DEF TypeOK
<1> HIDE DEF Counted
<1>4. QED
  BY <1>1, <1>2, <1>3, RunnerInvariant, PTL DEF Spec

(* At most one execution: whatever frames are repeated, delayed or lost    *)
(* and whichever side dies during a dispatch (dispatch and the journal's   *)
(* two phases, protocol.rs), a lease starts at most once, and only one     *)
(* whose claim the daemon has recorded.                                    *)
THEOREM RunnerClaimedRunsOnce == Spec => []ClaimedRunsOnce
<1>1. ExecInv => ClaimedRunsOnce
  <2>1. SUFFICES ASSUME ExecInv, NEW l \in Leases
                 PROVE  /\ started[l] <= 1
                        /\ started[l] > 0 =>
                             lease[l].state \in {"claimed", "completed", "lost_claimed"}
    BY DEF ClaimedRunsOnce
  <2>2. JournalTells /\ ClaimRecorded
    BY <2>1 DEF ExecInv
  <2>3. started[l] \in 0 .. 1
    BY <2>2 DEF JournalTells
  <2>4. started[l] # 0 => lease[l].state \in {"claimed", "completed", "lost_claimed"}
    BY <2>2 DEF ClaimRecorded, MayRun
  <2>5. QED
    BY <2>3, <2>4
<1>2. QED
  BY <1>1, RunnerInvariant, PTL

(* Evidence is kept: the end that the daemon records is the one that the   *)
(* execution produced, and the runner's journal gives it up only when it   *)
(* is recorded or the loss of its lease is.                                *)
THEOREM RunnerEvidenceKept == Spec => []EvidenceKept
<1>1. ExecInv => EvidenceKept
  BY DEF ExecInv
<1>2. QED
  BY <1>1, RunnerInvariant, PTL

(* One lease is outstanding at a time, across resumptions and restarts of  *)
(* the daemon, and an offer still to be taken is of the newest connection. *)
THEOREM RunnerOneCurrentLease == Spec => []OneCurrentLease
<1>1. ExecInv => OneCurrentLease
  BY DEF ExecInv, LeaseInv, LeaseRules
<1>2. QED
  BY <1>1, RunnerInvariant, PTL

(* A settled lease stays as it was settled: losses, resumptions and late   *)
(* frames change it no more, but for the refusal of an unclaimed lease     *)
(* that was lost.                                                          *)
THEOREM RunnerSettledIsFinal == Spec => SettledIsFinal
<1> DEFINE Stays ==
      \A l \in Leases : lease[l].state \in Final =>
        \/ lease'[l].state = lease[l].state /\ lease'[l].end = lease[l].end
        \/ lease[l].state = "lost_unclaimed" /\ lease'[l].state = "refused"
<1>1. ExecInv /\ [Next]_vars => [Stays]_vars
  <2>1. SUFFICES ASSUME ExecInv, [Next]_vars, NEW l \in Leases, lease[l].state \in Final
                 PROVE  \/ lease'[l].state = lease[l].state /\ lease'[l].end = lease[l].end
                        \/ lease[l].state = "lost_unclaimed" /\ lease'[l].state = "refused"
    OBVIOUS
  <2>2. DaemonTypes /\ FrameTypes /\ RunnerTypes /\ LeaseRules
    BY <2>1 DEF ExecInv, LeaseInv
  <2>3. Moves(l)
    BY <2>1, <2>2, LeaseMoves
  <2>4. QED
    BY <2>1, <2>3 DEF Moves, Final, Lost
<1> HIDE DEF Stays
<1>2. Spec => [][Stays]_vars
  BY <1>1, RunnerInvariant, PTL DEF Spec
<1>3. QED
  BY <1>2 DEF SettledIsFinal, Stays

(***************************************************************************)
(* The order of the frames on the runner's connection.                     *)
(***************************************************************************)

\* Queue t holds no frames of these kinds but q's, in their order.
Within(q, t, K) ==
  \E d \in {0, 1} :
    \A i \in DOMAIN t : t[i].kind \in K => i + d \in DOMAIN q /\ t[i] = q[i + d]

\* Queue t holds q's frames of these kinds, all of them and no others, in order.
Keeps(q, t, K) ==
  \E d \in {0, 1} :
    /\ \A i \in DOMAIN t : t[i].kind \in K => i + d \in DOMAIN q /\ t[i] = q[i + d]
    /\ \A i \in DOMAIN q : q[i].kind \in K => i - d \in DOMAIN t /\ t[i - d] = q[i]

(* The indices of a queue.                                                 *)
LEMMA Indices ==
  ASSUME NEW S, NEW q \in Seq(S)
  PROVE  /\ Len(q) \in Nat /\ DOMAIN q = 1 .. Len(q)
         /\ \A i \in DOMAIN q : i \in Nat /\ i >= 1 /\ q[i] \in S
BY LenProperties

(* A queue that is left alone.                                             *)
LEMMA KeepsSame ==
  ASSUME NEW S, NEW q \in Seq(S), NEW K
  PROVE  Keeps(q, q, K)
<1>1. \A i \in DOMAIN q : i + 0 = i /\ i - 0 = i
  BY Indices
<1> QED BY <1>1 DEF Keeps

(* A frame of another kind is read.                                        *)
LEMMA KeepsTail ==
  ASSUME NEW S, NEW q \in Seq(S), q # << >>, NEW K, Head(q).kind \notin K
  PROVE  Keeps(q, Tail(q), K)
<1> DEFINE t == Tail(q)
<1>1. /\ Head(q) = q[1]
      /\ \A i \in DOMAIN t : i \in Nat /\ i + 1 \in DOMAIN q /\ t[i] = q[i + 1]
      /\ \A i \in DOMAIN q : i \in Nat /\ (i # 1 => i - 1 \in DOMAIN t)
  BY TailOf
<1> HIDE DEF t
<1>2. \A i \in DOMAIN q : i # 1 => t[i - 1] = q[i]
  BY <1>1
<1>3. Keeps(q, t, K)
  BY <1>1, <1>2 DEF Keeps
<1> QED BY <1>3 DEF t

(* A frame of another kind is sent.                                        *)
LEMMA KeepsSent ==
  ASSUME NEW S, NEW q \in Seq(S), NEW f \in S, NEW K, f.kind \notin K
  PROVE  Keeps(q, q \o <<f>>, K)
<1> DEFINE t == q \o <<f>>
           n == Len(q)
<1>1. /\ n \in Nat /\ DOMAIN q = 1 .. n /\ DOMAIN t = 1 .. n + 1
      /\ \A i \in 1 .. n : t[i] = q[i]
      /\ t[n + 1] = f
  BY SendOne
<1> HIDE DEF t, n
<1>2. \A i \in DOMAIN t : t[i].kind \in K => i + 0 \in DOMAIN q /\ t[i] = q[i + 0]
  BY <1>1
<1>3. \A i \in DOMAIN q : i - 0 \in DOMAIN t /\ t[i - 0] = q[i]
  BY <1>1
<1>4. Keeps(q, t, K)
  BY <1>2, <1>3 DEF Keeps
<1> QED BY <1>4 DEF t

(* Nothing is left.                                                        *)
LEMMA WithinEmpty ==
  ASSUME NEW q, NEW K
  PROVE  Within(q, << >>, K)
<1>1. DOMAIN << >> = {}
  OBVIOUS
<1> QED BY <1>1 DEF Within

(* What keeps the frames of some kinds adds none.                          *)
LEMMA KeepsWithin ==
  ASSUME NEW q, NEW t, NEW K, Keeps(q, t, K)
  PROVE  Within(q, t, K)
BY DEF Keeps, Within

(* A kind that is kept is there or not, as before.                         *)
LEMMA KeepsSome ==
  ASSUME NEW q, NEW t, NEW K, Keeps(q, t, K), NEW kind \in K
  PROVE  Some(t, kind) <=> Some(q, kind)
BY DEF Keeps, Some

(* A queue that keeps a kind keeps whose frames of that kind they are.     *)
LEMMA KeepsOwn ==
  ASSUME NEW q, NEW t, NEW K, Keeps(q, t, K), NEW kind \in K, NEW r, Own(q, kind, r)
  PROVE  Own(t, kind, r)
BY DEF Keeps, Own

(* Two frames of a queue stay as they are to one another.                  *)
LEMMA WithinPairs ==
  ASSUME NEW S, NEW q \in Seq(S), NEW t \in Seq(S), NEW K, Within(q, t, K)
  PROVE  \A i, k \in DOMAIN t : t[i].kind \in K /\ t[k].kind \in K =>
           \E a, b \in DOMAIN q : /\ t[i] = q[a] /\ t[k] = q[b]
                                  /\ a < b <=> i < k
                                  /\ a = b <=> i = k
<1>1. /\ \A i \in DOMAIN q : i \in Nat
      /\ \A i \in DOMAIN t : i \in Nat
  BY Indices
<1>2. PICK d \in {0, 1} :
        \A i \in DOMAIN t : t[i].kind \in K => i + d \in DOMAIN q /\ t[i] = q[i + d]
  BY DEF Within
<1>3. SUFFICES ASSUME NEW i \in DOMAIN t, NEW k \in DOMAIN t, t[i].kind \in K, t[k].kind \in K
               PROVE  \E a, b \in DOMAIN q : /\ t[i] = q[a] /\ t[k] = q[b]
                                             /\ a < b <=> i < k
                                             /\ a = b <=> i = k
  OBVIOUS
<1>4. /\ i + d \in DOMAIN q /\ k + d \in DOMAIN q /\ t[i] = q[i + d] /\ t[k] = q[k + d]
  BY <1>2, <1>3
<1>5. (i + d < k + d <=> i < k) /\ (i + d = k + d <=> i = k)
  BY <1>1
<1> QED BY <1>4, <1>5

(* A queue that keeps a kind has at most one frame of it if it had.        *)
LEMMA KeepsSingle ==
  ASSUME NEW S, NEW q \in Seq(S), NEW t \in Seq(S), NEW K, Keeps(q, t, K), NEW kind \in K,
         Single(q, kind)
  PROVE  Single(t, kind)
BY KeepsWithin, WithinPairs DEF Single

(* What is left of a queue is of it, in its order.                         *)
LEMMA WithinTail ==
  ASSUME NEW S, NEW q \in Seq(S), q # << >>, NEW K
  PROVE  Within(q, Tail(q), K)
<1> DEFINE t == Tail(q)
<1>1. \A i \in DOMAIN t : i + 1 \in DOMAIN q /\ t[i] = q[i + 1]
  BY TailOf
<1> HIDE DEF t
<1>2. Within(q, t, K)
  BY <1>1 DEF Within
<1> QED BY <1>2 DEF t

(* What is in a part of a queue is in the queue.                           *)
LEMMA WithinSome ==
  ASSUME NEW q, NEW t, NEW K, Within(q, t, K)
  PROVE  \A i \in DOMAIN t : t[i].kind \in K => \E a \in DOMAIN q : q[a] = t[i]
BY DEF Within

(* Answers and evidence are about a lease.                                 *)
LEMMA AboutLeases ==
  ASSUME NEW q \in Seq(DownFrames), NEW u \in Seq(UpFrames)
  PROVE  /\ None \notin Leases
         /\ \A i \in DOMAIN q : q[i].kind \in Acks => q[i].lease \in Leases
         /\ \A i \in DOMAIN u : u[i].kind \in Evidence => u[i].lease \in Leases
<1>1. /\ \A i \in DOMAIN q : q[i] \in DownFrames
      /\ \A i \in DOMAIN u : u[i] \in UpFrames
  BY Indices
<1>2. \A i \in DOMAIN q : q[i].kind \in Acks => q[i].lease \in Leases
  BY <1>1, DownFrameFields DEF Acks
<1>3. \A i \in DOMAIN u : u[i].kind \in Evidence => u[i].lease \in Leases
  BY <1>1, UpFrameFields DEF Evidence
<1> QED BY <1>2, <1>3, RunnerAssumption DEF None

(* Evidence and answers that are read or lost leave the order of the rest. *)
LEMMA AcksKept ==
  ASSUME NEW q \in Seq(DownFrames), NEW u \in Seq(UpFrames), NEW r, NEW j,
         NEW t \in Seq(DownFrames), NEW v \in Seq(UpFrames), NEW r2, NEW j2,
         AcksInOrder(q, u, r, j), Within(q, t, Acks), Within(u, v, Evidence),
         r2.last = r.last, r2.last \notin Holds(r2, j2),
         \A l \in Leases : Retains(r, j, l) => Retains(r2, j2, l),
         \/ j2.lease = j.lease
         \/ /\ \A i \in DOMAIN q : ~AckAt(q, i, j2.lease)
            /\ \A i \in DOMAIN u : ~ProofAt(u, i, j2.lease)
  PROVE  AcksInOrder(t, v, r2, j2)
<1>1. /\ \A i \in DOMAIN q : q[i].kind \in Acks => q[i].lease \in Leases /\ Retains(r, j, q[i].lease)
      /\ \A i \in DOMAIN u : u[i].kind \in Evidence => u[i].lease \in Leases /\ Retains(r, j, u[i].lease)
  BY AboutLeases DEF AcksInOrder
<1>2. /\ \A i \in DOMAIN t : t[i].kind \in Acks => \E a \in DOMAIN q : q[a] = t[i]
      /\ \A i \in DOMAIN v : v[i].kind \in Evidence => \E a \in DOMAIN u : u[a] = v[i]
  BY WithinSome
<1>3. /\ \A i \in DOMAIN t : t[i].kind \in Acks => Retains(r2, j2, t[i].lease)
      /\ \A i \in DOMAIN v : v[i].kind \in Evidence => Retains(r2, j2, v[i].lease)
  BY <1>1, <1>2
<1>4. ASSUME NEW i \in DOMAIN t, NEW k \in DOMAIN t, AckAt(t, i, r2.last), AckAt(t, k, j2.lease)
      PROVE  i < k
  <2>1. PICK a \in DOMAIN q, b \in DOMAIN q : t[i] = q[a] /\ t[k] = q[b] /\ (a < b <=> i < k)
    BY <1>4, WithinPairs DEF AckAt
  <2>2. AckAt(q, a, r.last) /\ AckAt(q, b, j2.lease)
    BY <1>4, <2>1 DEF AckAt
  <2>3. j2.lease = j.lease
    BY <2>2
  <2> QED BY <2>1, <2>2, <2>3 DEF AcksInOrder
<1>5. ASSUME NEW i \in DOMAIN v, NEW k \in DOMAIN v, ProofAt(v, i, r2.last), ProofAt(v, k, j2.lease)
      PROVE  i < k
  <2>1. PICK a \in DOMAIN u, b \in DOMAIN u : v[i] = u[a] /\ v[k] = u[b] /\ (a < b <=> i < k)
    BY <1>5, WithinPairs DEF ProofAt
  <2>2. ProofAt(u, a, r.last) /\ ProofAt(u, b, j2.lease)
    BY <1>5, <2>1 DEF ProofAt
  <2>3. j2.lease = j.lease
    BY <2>2
  <2> QED BY <2>1, <2>2, <2>3 DEF AcksInOrder
<1>6. ASSUME NEW i \in DOMAIN v, NEW k \in DOMAIN t, ProofAt(v, i, r2.last), AckAt(t, k, j2.lease)
      PROVE  FALSE
  <2>1. PICK a \in DOMAIN u, b \in DOMAIN q : v[i] = u[a] /\ t[k] = q[b]
    BY <1>2, <1>6 DEF ProofAt, AckAt
  <2>2. ProofAt(u, a, r.last) /\ AckAt(q, b, j2.lease)
    BY <1>6, <2>1 DEF ProofAt, AckAt
  <2>3. j2.lease = j.lease
    BY <2>2
  <2> QED BY <2>2, <2>3 DEF AcksInOrder
<1> QED BY <1>3, <1>4, <1>5, <1>6 DEF AcksInOrder

(* The runner sends the evidence that its journal retains.                 *)
LEMMA EvidenceSent ==
  ASSUME NEW q \in Seq(DownFrames), NEW u \in Seq(UpFrames), NEW r, NEW j, NEW f \in UpFrames,
         AcksInOrder(q, u, r, j), f.kind \in Evidence, f.lease = j.lease,
         j.end # "none" \/ j.phase = "refused", r.last # j.lease
  PROVE  AcksInOrder(q, u \o <<f>>, r, j)
<1> DEFINE v == u \o <<f>>
           n == Len(u)
<1>1. /\ n \in Nat /\ DOMAIN u = 1 .. n /\ DOMAIN v = 1 .. n + 1
      /\ \A i \in 1 .. n : v[i] = u[i]
      /\ v[n + 1] = f
  BY SendOne
<1> HIDE DEF v, n
<1>2. \A i \in DOMAIN v : i = n + 1 \/ (i \in DOMAIN u /\ i < n + 1 /\ v[i] = u[i])
  BY <1>1
<1>3. \A i \in DOMAIN v : ProofAt(v, i, r.last) => i \in DOMAIN u /\ i < n + 1 /\ ProofAt(u, i, r.last)
  BY <1>1, <1>2 DEF ProofAt
<1>4. \A i \in DOMAIN v : ProofAt(v, i, j.lease) => i = n + 1 \/ (i \in DOMAIN u /\ ProofAt(u, i, j.lease))
  BY <1>1, <1>2 DEF ProofAt
<1>5. \A i \in DOMAIN v : v[i].kind \in Evidence => Retains(r, j, v[i].lease)
  BY <1>1, <1>2 DEF AcksInOrder, Retains
<1>6. AcksInOrder(q, v, r, j)
  BY <1>3, <1>4, <1>5 DEF AcksInOrder
<1> QED BY <1>6 DEF v

(* Evidence is read and answered.                                          *)
LEMMA EvidenceAnswered ==
  ASSUME NEW q \in Seq(DownFrames), NEW u \in Seq(UpFrames), NEW r, NEW j, NEW f \in DownFrames,
         AcksInOrder(q, u, r, j), u # << >>, Head(u).kind \in Evidence,
         f.kind \in Acks, f.lease = Head(u).lease
  PROVE  AcksInOrder(q \o <<f>>, Tail(u), r, j)
<1> DEFINE t == q \o <<f>>
           v == Tail(u)
           n == Len(q)
<1>1. /\ n \in Nat /\ DOMAIN q = 1 .. n /\ DOMAIN t = 1 .. n + 1
      /\ \A i \in 1 .. n : t[i] = q[i]
      /\ t[n + 1] = f
  BY SendOne
<1>2. /\ Head(u) = u[1] /\ 1 \in DOMAIN u
      /\ \A i \in DOMAIN v : i \in Nat /\ i >= 1 /\ i + 1 \in DOMAIN u /\ v[i] = u[i + 1]
  BY TailOf
<1>3. ProofAt(u, 1, f.lease) /\ f.lease # None
  BY <1>2, AboutLeases DEF ProofAt
<1> HIDE DEF t, v, n
<1>4. Retains(r, j, f.lease)
  BY <1>2, <1>3 DEF AcksInOrder, ProofAt
<1>5. \A i \in DOMAIN t : i = n + 1 \/ (i \in DOMAIN q /\ i < n + 1 /\ t[i] = q[i])
  BY <1>1
<1>6. \A i \in DOMAIN t : t[i].kind \in Acks => Retains(r, j, t[i].lease)
  BY <1>1, <1>4, <1>5 DEF AcksInOrder
<1>7. \A i \in DOMAIN v : v[i].kind \in Evidence => Retains(r, j, v[i].lease)
  BY <1>2 DEF AcksInOrder
<1>8. ASSUME NEW i \in DOMAIN t, NEW k \in DOMAIN t, AckAt(t, i, r.last), AckAt(t, k, j.lease)
      PROVE  i < k
  <2>1. CASE i = n + 1 /\ k = n + 1
    BY <1>1, <1>3, <1>8, <2>1 DEF AckAt, AcksInOrder, Holds
  <2>2. CASE i = n + 1 /\ k # n + 1
    <3>1. AckAt(q, k, j.lease) /\ k \in DOMAIN q
      BY <1>5, <1>8, <2>2 DEF AckAt
    <3>2. ProofAt(u, 1, r.last)
      BY <1>1, <1>3, <1>8, <2>2 DEF AckAt
    <3> QED BY <1>2, <3>1, <3>2 DEF AcksInOrder
  <2>3. CASE i # n + 1 /\ k = n + 1
    BY <1>5, <2>3
  <2>4. CASE i # n + 1 /\ k # n + 1
    BY <1>5, <1>8, <2>4 DEF AckAt, AcksInOrder
  <2> QED BY <2>1, <2>2, <2>3, <2>4
<1>9. ASSUME NEW i \in DOMAIN v, NEW k \in DOMAIN v, ProofAt(v, i, r.last), ProofAt(v, k, j.lease)
      PROVE  i < k
  <2>1. ProofAt(u, i + 1, r.last) /\ ProofAt(u, k + 1, j.lease) /\ i + 1 \in DOMAIN u /\ k + 1 \in DOMAIN u
    BY <1>2, <1>9 DEF ProofAt
  <2>2. i + 1 < k + 1
    BY <2>1 DEF AcksInOrder
  <2> QED BY <1>2, <2>2
<1>10. ASSUME NEW i \in DOMAIN v, NEW k \in DOMAIN t, ProofAt(v, i, r.last), AckAt(t, k, j.lease)
       PROVE  FALSE
  <2>1. ProofAt(u, i + 1, r.last) /\ i + 1 \in DOMAIN u /\ ~(i + 1 < 1)
    BY <1>2, <1>10 DEF ProofAt
  <2>2. CASE k = n + 1
    <3>1. ProofAt(u, 1, j.lease)
      BY <1>1, <1>3, <1>10, <2>2 DEF AckAt
    <3> QED BY <1>2, <2>1, <3>1 DEF AcksInOrder
  <2>3. CASE k # n + 1
    <3>1. AckAt(q, k, j.lease) /\ k \in DOMAIN q
      BY <1>5, <1>10, <2>3 DEF AckAt
    <3> QED BY <2>1, <3>1 DEF AcksInOrder
  <2> QED BY <2>2, <2>3
<1>11. AcksInOrder(t, v, r, j)
  BY <1>6, <1>7, <1>8, <1>9, <1>10 DEF AcksInOrder
<1> QED BY <1>11 DEF t, v

(* The first answer to the retained evidence clears the journal.           *)
LEMMA AckTaken ==
  ASSUME NEW q \in Seq(DownFrames), NEW u \in Seq(UpFrames), NEW r, NEW j, NEW r2, NEW j2,
         AcksInOrder(q, u, r, j), q # << >>, Head(q).kind \in Acks,
         j.lease = Head(q).lease, r2.last = Head(q).lease, j2.lease = None,
         r2.last \notin Holds(r2, j2)
  PROVE  AcksInOrder(Tail(q), u, r2, j2)
<1> DEFINE t == Tail(q)
<1>1. /\ Head(q) = q[1] /\ 1 \in DOMAIN q
      /\ \A i \in DOMAIN t : i \in Nat /\ i >= 1 /\ i + 1 \in DOMAIN q /\ t[i] = q[i + 1]
  BY TailOf
<1>2. /\ None \notin Leases
      /\ \A i \in DOMAIN q : q[i].kind \in Acks => q[i].lease \in Leases
      /\ \A i \in DOMAIN u : u[i].kind \in Evidence => u[i].lease \in Leases
  BY AboutLeases
<1> HIDE DEF t
<1>3. AckAt(q, 1, j.lease)
  BY <1>1 DEF AckAt
<1>4. ASSUME NEW i \in DOMAIN t, t[i].kind \in Acks
      PROVE  t[i].lease = r2.last
  <2>1. i + 1 \in DOMAIN q /\ ~(i + 1 < 1) /\ t[i] = q[i + 1]
    BY <1>1
  <2>2. ~AckAt(q, i + 1, r.last)
    BY <1>1, <1>3, <2>1 DEF AcksInOrder
  <2>3. Retains(r, j, t[i].lease)
    BY <1>4, <2>1 DEF AcksInOrder
  <2> QED BY <1>4, <2>1, <2>2, <2>3 DEF AckAt, Retains
<1>5. ASSUME NEW i \in DOMAIN u, u[i].kind \in Evidence
      PROVE  u[i].lease = r2.last
  <2>1. ~ProofAt(u, i, r.last)
    BY <1>1, <1>3 DEF AcksInOrder
  <2>2. Retains(r, j, u[i].lease)
    BY <1>5 DEF AcksInOrder
  <2> QED BY <1>5, <2>1, <2>2 DEF ProofAt, Retains
<1>6. /\ \A i \in DOMAIN t : ~AckAt(t, i, j2.lease)
      /\ \A i \in DOMAIN u : ~ProofAt(u, i, j2.lease)
  BY <1>1, <1>2 DEF AckAt, ProofAt
<1>7. AcksInOrder(t, u, r2, j2)
  BY <1>4, <1>5, <1>6 DEF AcksInOrder, Retains
<1> QED BY <1>7 DEF t

(***************************************************************************)
(* The token.                                                              *)
(***************************************************************************)

\* What the daemon answers a claim with.
Answer == {"claimed", "dispatch"}

(* No token, and none that is about to be started.                         *)
LEMMA TokensFree ==
  ASSUME NEW q, NEW u, NEW t, NEW v, NEW r, NEW j,
         TokenFree(q, u), Within(q, t, Answer), Within(u, v, {"claim"}),
         r.deferred = None, r.at = "serving" /\ j.phase = "received" => r.resumed = j.lease
  PROVE  OneToken(t, v, r, j)
<1>1. ~Some(t, "claimed") /\ ~Some(t, "dispatch")
  BY WithinSome DEF TokenFree, Some, Answer
<1>2. ~Some(v, "claim")
  BY WithinSome DEF TokenFree, Some
<1> QED BY <1>1, <1>2 DEF OneToken, TokenFree, Some, Own, Single

(* Nothing is left on the connection.                                      *)
LEMMA TokensGone ==
  ASSUME NEW q, NEW u, NEW r, NEW j, OneToken(q, u, r, j)
  PROVE  OneToken(<< >>, << >>, r, j)
<1>1. ~Some(<< >>, "claim") /\ ~Some(<< >>, "claimed") /\ ~Some(<< >>, "dispatch")
  BY DEF Some
<1> QED BY <1>1 DEF OneToken, TokenFree, Some, Own, Single

(* The frames of the token are left alone, but for a claim that is lost.   *)
LEMMA TokensKept ==
  ASSUME NEW S, NEW q \in Seq(S), NEW t \in Seq(S), NEW T, NEW u \in Seq(T), NEW v \in Seq(T),
         NEW r, NEW j, NEW r2,
         OneToken(q, u, r, j), Keeps(q, t, Answer), Within(u, v, {"claim"}),
         r2.at = r.at, r2.offer = r.offer, r2.claimed = r.claimed, r2.resumed = r.resumed,
         r2.deferred = r.deferred, r.deferred # None => r2.scanned = r.scanned
  PROVE  OneToken(t, v, r2, j)
<1>1. /\ Some(t, "claimed") <=> Some(q, "claimed")
      /\ Some(t, "dispatch") <=> Some(q, "dispatch")
  BY KeepsSome DEF Answer
<1>2. /\ Own(t, "claimed", r) /\ Own(t, "dispatch", r)
  <2>1. Own(q, "claimed", r) /\ Own(q, "dispatch", r)
    BY DEF OneToken
  <2>2. "claimed" \in Answer /\ "dispatch" \in Answer
    BY DEF Answer
  <2> QED BY <2>1, <2>2, KeepsOwn
<1>3. Single(t, "claimed") /\ Single(t, "dispatch")
  BY KeepsSingle DEF Answer, OneToken
<1>4. Some(v, "claim") => Some(u, "claim")
  BY WithinSome DEF Some
<1>5. Own(v, "claim", r)
  BY WithinSome DEF Own, OneToken
<1>6. Single(v, "claim")
  BY WithinPairs DEF Single, OneToken
<1>7. ASSUME NEW i \in DOMAIN t, NEW k \in DOMAIN t, t[i].kind = "claimed", t[k].kind = "dispatch"
      PROVE  i < k
  <2>1. PICK a \in DOMAIN q, b \in DOMAIN q : t[i] = q[a] /\ t[k] = q[b] /\ (a < b <=> i < k)
    BY <1>7, WithinPairs, KeepsWithin DEF Answer
  <2> QED BY <1>7, <2>1 DEF OneToken
<1>8. /\ Own(t, "claimed", r2) /\ Own(t, "dispatch", r2) /\ Own(v, "claim", r2)
  BY <1>2, <1>5 DEF Own
<1>9. Idle(r2, j) <=> Idle(r, j)
  BY DEF Idle
<1>10. TokenFree(q, u) => TokenFree(t, v)
  BY <1>1, <1>4 DEF TokenFree
<1> QED BY <1>1, <1>3, <1>4, <1>6, <1>7, <1>8, <1>9, <1>10 DEF OneToken

(* A claim is sent, or is lost on the way.                                 *)
LEMMA ClaimSent ==
  ASSUME NEW q, NEW t, NEW u \in Seq(UpFrames), NEW v \in Seq(UpFrames), NEW f \in UpFrames,
         NEW r, NEW j,
         TokenFree(q, u), Within(q, t, Answer), v = u \/ v = u \o <<f>>,
         f.lease \in {r.offer, r.resumed}, ~Idle(r, j), r.deferred = None,
         r.at = "serving" /\ j.phase = "received" => r.resumed = j.lease
  PROVE  OneToken(t, v, r, j)
<1>1. ~Some(t, "claimed") /\ ~Some(t, "dispatch")
  BY WithinSome DEF TokenFree, Some, Answer
<1>2. \A i \in DOMAIN u : u[i].kind # "claim"
  BY DEF TokenFree, Some
<1>3. Own(v, "claim", r) /\ Single(v, "claim")
  <2>1. CASE v = u
    BY <1>2, <2>1 DEF Own, Single
  <2>2. CASE v = u \o <<f>>
    <3> DEFINE n == Len(u)
    <3>1. /\ n \in Nat /\ DOMAIN u = 1 .. n /\ DOMAIN v = 1 .. n + 1
          /\ \A i \in 1 .. n : v[i] = u[i]
          /\ v[n + 1] = f
      BY <2>2, SendOne
    <3> HIDE DEF n
    <3>2. \A i \in DOMAIN v : v[i].kind = "claim" => i = n + 1
      BY <1>2, <3>1
    <3> QED BY <3>1, <3>2 DEF Own, Single
  <2> QED BY <2>1, <2>2
<1> QED BY <1>1, <1>3 DEF OneToken, Some, Own, Single

(* A claim is recorded: its answer and the dispatch follow.                *)
LEMMA ClaimAnswered ==
  ASSUME NEW q \in Seq(DownFrames), NEW u \in Seq(UpFrames), NEW r, NEW j,
         NEW f \in DownFrames, NEW g \in DownFrames,
         OneToken(q, u, r, j), u # << >>, Head(u).kind = "claim",
         f.kind = "claimed", g.kind = "dispatch", f.lease = Head(u).lease, g.lease = Head(u).lease
  PROVE  OneToken(q \o <<f, g>>, Tail(u), r, j)
<1> DEFINE t == q \o <<f, g>>
           v == Tail(u)
           n == Len(q)
<1>1. /\ n \in Nat /\ DOMAIN q = 1 .. n /\ DOMAIN t = 1 .. n + 2
      /\ \A i \in 1 .. n : t[i] = q[i]
      /\ t[n + 1] = f /\ t[n + 2] = g
  BY SendTwo
<1>2. /\ Head(u) = u[1] /\ 1 \in DOMAIN u
      /\ \A i \in DOMAIN v : i \in Nat /\ i >= 1 /\ i + 1 \in DOMAIN u /\ v[i] = u[i + 1]
  BY TailOf
<1> HIDE DEF t, v, n
<1>3. Some(u, "claim") /\ Head(u).lease \in {r.offer, r.resumed}
  BY <1>2 DEF Some, Own, OneToken
<1>4. /\ ~Idle(r, j) /\ r.deferred = None
      /\ \A i \in DOMAIN q : q[i].kind \notin {"claimed", "dispatch"}
  BY <1>3 DEF OneToken, TokenFree, Some
<1>5. \A i \in DOMAIN v : v[i].kind # "claim"
  BY <1>2 DEF OneToken, Single
<1>6. \A i \in DOMAIN t : /\ t[i].kind = "claimed" => i = n + 1
                          /\ t[i].kind = "dispatch" => i = n + 2
  BY <1>1, <1>4
<1>7. n + 1 \in DOMAIN t /\ Some(t, "claimed")
  BY <1>1 DEF Some
<1>8. Own(t, "claimed", r) /\ Own(t, "dispatch", r) /\ Single(t, "claimed") /\ Single(t, "dispatch")
  BY <1>1, <1>3, <1>6 DEF Own, Single
<1>9. \A i, k \in DOMAIN t : t[i].kind = "claimed" /\ t[k].kind = "dispatch" => i < k
  BY <1>1, <1>6
<1>10. Own(v, "claim", r) /\ Single(v, "claim") /\ ~Some(v, "claim")
  BY <1>5 DEF Own, Single, Some
<1>11. OneToken(t, v, r, j)
  BY <1>4, <1>7, <1>8, <1>9, <1>10 DEF OneToken
<1> QED BY <1>11 DEF t, v

(* The runner learns that its claim is recorded.                           *)
LEMMA ClaimedTaken ==
  ASSUME NEW q \in Seq(DownFrames), NEW u, NEW r, NEW j, NEW j2,
         OneToken(q, u, r, j), q # << >>, Head(q).kind = "claimed",
         j2.lease \in {r.offer, r.resumed}, j2.phase \in {"waiting", "received"},
         j2.phase = "received" => r.resumed = j2.lease
  PROVE  OneToken(Tail(q), u, r, j2)
<1> DEFINE t == Tail(q)
<1>1. /\ Head(q) = q[1] /\ 1 \in DOMAIN q
      /\ \A i \in DOMAIN t : i \in Nat /\ i >= 1 /\ i + 1 \in DOMAIN q /\ t[i] = q[i + 1]
  BY TailOf
<1> HIDE DEF t
<1>2. Some(q, "claimed")
  BY <1>1 DEF Some
<1>3. ~Idle(r, j) /\ r.deferred = None /\ ~Some(u, "claim")
  BY <1>2 DEF OneToken, TokenFree
<1>4. ~Idle(r, j2)
  BY <1>3 DEF Idle
<1>5. \A i \in DOMAIN t : t[i].kind # "claimed"
  BY <1>1 DEF OneToken, Single
<1>6. \A i, k \in DOMAIN t : i + 1 = k + 1 => i = k
  BY <1>1
<1>7. Own(t, "dispatch", r) /\ Single(t, "dispatch")
  BY <1>1, <1>6 DEF OneToken, Own, Single
<1>8. Own(t, "claimed", r) /\ Single(t, "claimed") /\ ~Some(t, "claimed")
  BY <1>5 DEF Own, Single, Some
<1>9. OneToken(t, u, r, j2)
  BY <1>3, <1>4, <1>5, <1>7, <1>8 DEF OneToken
<1> QED BY <1>9 DEF t

(* A dispatch is the last of its token.                                    *)
LEMMA DispatchLast ==
  ASSUME NEW q \in Seq(DownFrames), NEW u, NEW r, NEW j,
         OneToken(q, u, r, j), q # << >>, Head(q).kind = "dispatch"
  PROVE  /\ TokenFree(Tail(q), u) /\ ~Idle(r, j) /\ r.deferred = None
         /\ Head(q).lease \in {r.offer, r.resumed}
         /\ j.lease \in {r.offer, r.resumed} /\ j.phase \in {"waiting", "received"}
<1> DEFINE t == Tail(q)
<1>1. /\ Head(q) = q[1] /\ 1 \in DOMAIN q
      /\ \A i \in DOMAIN t : i \in Nat /\ i >= 1 /\ i + 1 \in DOMAIN q /\ t[i] = q[i + 1]
      /\ \A i \in DOMAIN q : i \in Nat /\ i >= 1
  BY TailOf
<1> HIDE DEF t
<1>2. Some(q, "dispatch")
  BY <1>1 DEF Some
<1>3. ~Idle(r, j) /\ r.deferred = None /\ ~Some(u, "claim")
  BY <1>2 DEF OneToken, TokenFree
<1>4. \A i \in DOMAIN q : q[i].kind # "claimed"
  <2>1. \A i \in DOMAIN q : ~(i < 1)
    BY <1>1
  <2> QED BY <1>1, <2>1 DEF OneToken
<1>5. \A i \in DOMAIN t : t[i].kind \notin {"claimed", "dispatch"}
  BY <1>1, <1>4 DEF OneToken, Single
<1>6. TokenFree(t, u) /\ ~Some(q, "claimed")
  BY <1>3, <1>4, <1>5 DEF TokenFree, Some
<1>7. Head(q).lease \in {r.offer, r.resumed}
  BY <1>1 DEF OneToken, Own
<1> QED BY <1>2, <1>3, <1>6, <1>7 DEF OneToken, t

(* A dispatch that comes before the startup scan is done is deferred.      *)
LEMMA DispatchDeferred ==
  ASSUME NEW q, NEW u, NEW r, NEW r2, NEW j,
         TokenFree(q, u), ~Idle(r, j), ~r2.scanned,
         r2.at = r.at, r2.offer = r.offer, r2.claimed = r.claimed, r2.resumed = r.resumed,
         r.at = "serving" /\ j.phase = "received" => r.resumed = j.lease
  PROVE  OneToken(q, u, r2, j)
<1>1. ~Idle(r2, j)
  BY DEF Idle
<1> QED BY <1>1 DEF OneToken, TokenFree, Some, Own, Single

(***************************************************************************)
(* The offer.                                                              *)
(***************************************************************************)

(* The runner goes on with what it holds.                                  *)
LEMMA FollowsSame ==
  ASSUME NEW q, NEW r, NEW j, NEW r2, NEW j2, OfferFollows(q, r, j),
         r2.at = "hello" <=> r.at = "hello", \A l \in Holds(r2, j2) : l \in Holds(r, j)
  PROVE  OfferFollows(q, r2, j2)
BY DEF OfferFollows

(* Nothing is on its way to the runner.                                    *)
LEMMA FollowsNothing ==
  ASSUME NEW r, NEW j
  PROVE  OfferFollows(<< >>, r, j)
BY DEF OfferFollows

(* A frame that makes no offer and answers no resumption is sent.          *)
LEMMA FollowsSent ==
  ASSUME NEW q \in Seq(DownFrames), NEW f \in DownFrames, NEW r, NEW j, OfferFollows(q, r, j),
         f.kind \notin {"resumed", "offer"}, f.kind \in Acks => r.at # "hello"
  PROVE  OfferFollows(q \o <<f>>, r, j)
<1> DEFINE t == q \o <<f>>
           n == Len(q)
<1>1. /\ n \in Nat /\ DOMAIN q = 1 .. n /\ DOMAIN t = 1 .. n + 1
      /\ \A i \in 1 .. n : t[i] = q[i]
      /\ t[n + 1] = f
  BY SendOne
<1> HIDE DEF t, n
<1>2. \A i \in DOMAIN t : i = n + 1 \/ (i \in DOMAIN q /\ t[i] = q[i])
  BY <1>1
<1>3. \A i \in DOMAIN t : t[i].kind \in {"resumed", "offer"} => i \in DOMAIN q /\ t[i] = q[i]
  BY <1>1, <1>2
<1>4. ASSUME NEW i \in DOMAIN t, t[i].kind = "offer"
      PROVE  IF r.at = "hello"
             THEN \E k \in 1 .. i - 1 : t[k].kind = "resumed" /\ t[k].end # "await"
             ELSE \A l \in Holds(r, j) : \E k \in 1 .. i - 1 : AckAt(t, k, l)
  <2>1. i \in DOMAIN q /\ q[i].kind = "offer"
    BY <1>3, <1>4
  <2>2. \A k \in 1 .. i - 1 : t[k] = q[k]
    BY <1>1, <2>1
  <2>3. CASE r.at = "hello"
    <3>1. \E k \in 1 .. i - 1 : q[k].kind = "resumed" /\ q[k].end # "await"
      BY <2>1, <2>3 DEF OfferFollows
    <3> QED BY <2>2, <2>3, <3>1
  <2>4. CASE r.at # "hello"
    <3>1. \A l \in Holds(r, j) : \E k \in 1 .. i - 1 : AckAt(q, k, l)
      BY <2>1, <2>4 DEF OfferFollows
    <3> QED BY <2>2, <2>4, <3>1 DEF AckAt
  <2> QED BY <2>3, <2>4
<1>5. /\ \A i \in DOMAIN t : t[i].kind = "resumed" => i = 1 /\ r.at = "hello"
      /\ \A i, k \in DOMAIN t : t[i].kind = "offer" /\ t[k].kind = "offer" => i = k
  BY <1>3 DEF OfferFollows
<1>6. \A i \in DOMAIN t : t[i].kind \in Acks => r.at # "hello"
  BY <1>1, <1>2 DEF OfferFollows
<1>7. OfferFollows(t, r, j)
  BY <1>4, <1>5, <1>6 DEF OfferFollows
<1> QED BY <1>7 DEF t

(* The answer to the resumption is the first frame of a connection.        *)
LEMMA FollowsResumption ==
  ASSUME NEW f \in DownFrames, NEW r, NEW j, f.kind = "resumed", r.at = "hello"
  PROVE  OfferFollows(<< >> \o <<f>>, r, j)
<1>1. << >> \o <<f>> = <<f>>
  OBVIOUS
<1>2. DOMAIN <<f>> = {1} /\ <<f>>[1] = f
  OBVIOUS
<1>3. f.kind \notin Acks
  BY DEF Acks
<1>4. OfferFollows(<<f>>, r, j)
  BY <1>2, <1>3 DEF OfferFollows
<1> QED BY <1>1, <1>4

(* An offer is sent by a handler that is not busy.                         *)
LEMMA FollowsOffer ==
  ASSUME NEW q \in Seq(DownFrames), NEW f \in DownFrames, NEW h, NEW r, NEW j,
         OfferFollows(q, r, j), BusyWith(h, q, r, j), h.at = "serving", h.busy = None,
         f.kind = "offer",
         r.at = "hello" => \A i \in DOMAIN q : q[i].kind = "resumed" /\ q[i].end = "await"
                                                 => j.lease # None
  PROVE  OfferFollows(q \o <<f>>, r, j)
<1> DEFINE t == q \o <<f>>
           n == Len(q)
<1>1. /\ n \in Nat /\ DOMAIN q = 1 .. n /\ DOMAIN t = 1 .. n + 1
      /\ \A i \in 1 .. n : t[i] = q[i]
      /\ t[n + 1] = f
  BY SendOne
<1>2. \A i \in DOMAIN q : q[i].kind = "offer" => q[i].lease # None
  BY Indices, DownFrameFields, RunnerAssumption DEF None
<1> HIDE DEF t, n
<1>3. \A i \in DOMAIN q : q[i].kind # "offer"
  BY <1>2 DEF BusyWith
<1>4. \A i \in DOMAIN t : i = n + 1 \/ (i \in DOMAIN q /\ t[i] = q[i])
  BY <1>1
<1>5. \A i \in DOMAIN t : t[i].kind = "offer" => i = n + 1
  BY <1>3, <1>4
<1>7. r.at = "hello" => \E k \in DOMAIN q : t[k].kind = "resumed" /\ t[k].end # "await"
  <2>1. SUFFICES ASSUME r.at = "hello"
                 PROVE  \E k \in DOMAIN q : t[k].kind = "resumed" /\ t[k].end # "await"
    OBVIOUS
  <2>2. PICK k \in DOMAIN q : q[k].kind = "resumed" /\ (q[k].end = "await" => h.busy = j.lease)
    BY <2>1 DEF BusyWith
  <2>3. q[k].end # "await" /\ t[k] = q[k]
    BY <1>1, <2>1, <2>2
  <2> QED BY <2>2, <2>3
<1>8. r.at # "hello" => \A l \in Holds(r, j) : \E k \in DOMAIN q : AckAt(t, k, l)
  <2>1. SUFFICES ASSUME r.at # "hello", NEW l \in Holds(r, j)
                 PROVE  \E k \in DOMAIN q : AckAt(t, k, l)
    OBVIOUS
  <2>2. l # None
    BY <2>1 DEF Holds
  <2>3. PICK k \in DOMAIN q : AckAt(q, k, l)
    BY <2>1, <2>2 DEF BusyWith
  <2> QED BY <1>1, <2>3 DEF AckAt
<1>9. ASSUME NEW i \in DOMAIN t, t[i].kind = "offer"
      PROVE  IF r.at = "hello"
             THEN \E k \in 1 .. i - 1 : t[k].kind = "resumed" /\ t[k].end # "await"
             ELSE \A l \in Holds(r, j) : \E k \in 1 .. i - 1 : AckAt(t, k, l)
  <2>1. i = n + 1
    BY <1>5, <1>9
  <2>2. i - 1 = n
    BY <1>1, <2>1
  <2>3. 1 .. i - 1 = DOMAIN q
    BY <1>1, <2>2
  <2> QED BY <1>7, <1>8, <2>3
<1>10. f.kind \notin Acks
  BY DEF Acks
<1>11. /\ \A i \in DOMAIN t : t[i].kind = "resumed" => i = 1 /\ r.at = "hello"
       /\ \A i \in DOMAIN t : t[i].kind \in Acks => r.at # "hello"
  BY <1>1, <1>4, <1>10 DEF OfferFollows
<1>12. OfferFollows(t, r, j)
  BY <1>5, <1>9, <1>11 DEF OfferFollows
<1> QED BY <1>12 DEF t

(* The runner reads a frame that is no answer to what it still holds.      *)
LEMMA FollowsRead ==
  ASSUME NEW q \in Seq(DownFrames), NEW r, NEW j, NEW r2, NEW j2, OfferFollows(q, r, j),
         q # << >>, r.at # "hello", r2.at # "hello",
         \/ Head(q).kind = "offer"
         \/ \A l \in Holds(r2, j2) : l \in Holds(r, j) /\ ~AckAt(q, 1, l)
  PROVE  OfferFollows(Tail(q), r2, j2)
<1> DEFINE t == Tail(q)
<1>1. /\ Head(q) = q[1] /\ 1 \in DOMAIN q
      /\ \A i \in DOMAIN t : i \in Nat /\ i >= 1 /\ i + 1 \in DOMAIN q /\ t[i] = q[i + 1]
      /\ \A i \in DOMAIN q : i \in Nat /\ i >= 1 /\ (i # 1 => i - 1 \in DOMAIN t)
      /\ \A i \in DOMAIN q : 1 .. i \subseteq DOMAIN q
  BY TailOf, Indices
<1> HIDE DEF t
<1>2. \A i \in DOMAIN t : t[i].kind # "resumed"
  BY <1>1 DEF OfferFollows
<1>3. \A i, k \in DOMAIN t : t[i].kind = "offer" /\ t[k].kind = "offer" => i = k
  <2>1. SUFFICES ASSUME NEW i \in DOMAIN t, NEW k \in DOMAIN t, t[i].kind = "offer", t[k].kind = "offer"
                 PROVE  i = k
    OBVIOUS
  <2>2. i + 1 = k + 1
    BY <1>1, <2>1 DEF OfferFollows
  <2> QED BY <1>1, <2>2
<1>4. ASSUME NEW i \in DOMAIN t, t[i].kind = "offer", NEW l \in Holds(r2, j2)
      PROVE  \E k \in 1 .. i - 1 : AckAt(t, k, l)
  <2>1. i + 1 \in DOMAIN q /\ q[i + 1].kind = "offer" /\ i \in Nat /\ i >= 1
    BY <1>1, <1>4
  <2>2. Head(q).kind # "offer"
    BY <1>1, <2>1 DEF OfferFollows
  <2>3. PICK k \in 1 .. i + 1 - 1 : AckAt(q, k, l)
    BY <1>4, <2>1, <2>2 DEF OfferFollows
  <2>4. k # 1
    BY <1>4, <2>2, <2>3
  <2>5. k \in DOMAIN q /\ k - 1 \in DOMAIN t /\ k - 1 + 1 = k /\ k - 1 \in 1 .. i - 1
    BY <1>1, <2>1, <2>3, <2>4
  <2>6. t[k - 1] = q[k]
    BY <1>1, <2>5
  <2> QED BY <2>3, <2>5, <2>6 DEF AckAt
<1>5. OfferFollows(t, r2, j2)
  BY <1>2, <1>3, <1>4 DEF OfferFollows
<1> QED BY <1>5 DEF t

(* The runner reads the answer to its resumption.                          *)
LEMMA FollowsResumed ==
  ASSUME NEW q \in Seq(DownFrames), NEW r, NEW j, NEW r2, NEW j2, OfferFollows(q, r, j),
         q # << >>, r.at = "hello", r2.at # "hello", Head(q).kind = "resumed",
         Head(q).end # "await" => \A l \in Holds(r2, j2) : FALSE
  PROVE  OfferFollows(Tail(q), r2, j2)
<1> DEFINE t == Tail(q)
<1>1. /\ Head(q) = q[1] /\ 1 \in DOMAIN q
      /\ \A i \in DOMAIN t : i \in Nat /\ i >= 1 /\ i + 1 \in DOMAIN q /\ t[i] = q[i + 1]
      /\ \A i \in DOMAIN q : 1 .. i \subseteq DOMAIN q
  BY TailOf, Indices
<1> HIDE DEF t
<1>2. \A i \in DOMAIN t : t[i].kind # "resumed"
  BY <1>1 DEF OfferFollows
<1>3. \A i, k \in DOMAIN t : t[i].kind = "offer" /\ t[k].kind = "offer" => i = k
  <2>1. SUFFICES ASSUME NEW i \in DOMAIN t, NEW k \in DOMAIN t, t[i].kind = "offer", t[k].kind = "offer"
                 PROVE  i = k
    OBVIOUS
  <2>2. i + 1 = k + 1
    BY <1>1, <2>1 DEF OfferFollows
  <2> QED BY <1>1, <2>2
<1>4. \A i \in DOMAIN t : t[i].kind \notin Acks
  BY <1>1 DEF OfferFollows
<1>5. ASSUME NEW i \in DOMAIN t, t[i].kind = "offer", NEW l \in Holds(r2, j2)
      PROVE  FALSE
  <2>1. i + 1 \in DOMAIN q /\ q[i + 1].kind = "offer" /\ i \in Nat
    BY <1>1, <1>5
  <2>2. PICK k \in 1 .. i + 1 - 1 : q[k].kind = "resumed" /\ q[k].end # "await"
    BY <2>1 DEF OfferFollows
  <2>3. k \in DOMAIN q
    BY <1>1, <2>1, <2>2
  <2>4. k = 1
    BY <2>2, <2>3 DEF OfferFollows
  <2> QED BY <1>1, <1>5, <2>2, <2>4
<1>6. OfferFollows(t, r2, j2)
  BY <1>2, <1>3, <1>4, <1>5 DEF OfferFollows
<1> QED BY <1>6 DEF t

(***************************************************************************)
(* What the handler is busy with.                                          *)
(***************************************************************************)

(* A handler that does not serve, with nothing sent and nothing recorded.  *)
LEMMA BusyIdle ==
  ASSUME NEW h, NEW q, NEW r, NEW j, h.at # "serving",
         h.busy = None \/ (q = << >> /\ r.last = None)
  PROVE  BusyWith(h, q, r, j)
BY DEF BusyWith

(* The runner goes on with what it holds.                                  *)
LEMMA BusySame ==
  ASSUME NEW h, NEW q, NEW r, NEW j, NEW r2, NEW j2, BusyWith(h, q, r, j),
         r2.at # "hello", r.at # "hello", r2.last = r.last,
         \A l \in Holds(r2, j2) : l \in Holds(r, j)
  PROVE  BusyWith(h, q, r2, j2)
BY DEF BusyWith

(* A frame that makes no offer and answers nothing is sent.                *)
LEMMA BusySent ==
  ASSUME NEW q \in Seq(DownFrames), NEW f \in DownFrames, NEW h, NEW r, NEW j,
         BusyWith(h, q, r, j), f.kind \notin Acks \cup {"resumed", "offer"}
  PROVE  BusyWith(h, q \o <<f>>, r, j)
<1> DEFINE t == q \o <<f>>
           n == Len(q)
<1>1. /\ n \in Nat /\ DOMAIN q = 1 .. n /\ DOMAIN t = 1 .. n + 1
      /\ \A i \in 1 .. n : t[i] = q[i]
      /\ t[n + 1] = f
  BY SendOne
<1> HIDE DEF t, n
<1>2. /\ \A i \in DOMAIN q : i \in DOMAIN t /\ t[i] = q[i]
      /\ \A i \in DOMAIN t : i = n + 1 \/ (i \in DOMAIN q /\ t[i] = q[i])
  BY <1>1
<1>3. BusyWith(h, t, r, j)
  BY <1>1, <1>2 DEF BusyWith, AckAt
<1> QED BY <1>3 DEF t

(* Evidence is answered, and the handler is free of what it recorded.      *)
LEMMA BusyAnswered ==
  ASSUME NEW q \in Seq(DownFrames), NEW f \in DownFrames, NEW h, NEW h2, NEW r, NEW j,
         BusyWith(h, q, r, j), h.at = "serving", f.kind \in Acks, r.at # "hello",
         r.last \in Leases \cup {None},
         h2.busy = IF h.busy = f.lease THEN None ELSE h.busy,
         \A i \in DOMAIN q : q[i].kind = "offer" => q[i].lease # f.lease
  PROVE  BusyWith(h2, q \o <<f>>, r, j)
<1> DEFINE t == q \o <<f>>
           n == Len(q)
<1>1. /\ n \in Nat /\ DOMAIN q = 1 .. n /\ DOMAIN t = 1 .. n + 1
      /\ \A i \in 1 .. n : t[i] = q[i]
      /\ t[n + 1] = f
  BY SendOne
<1> HIDE DEF t, n
<1>2. /\ \A i \in DOMAIN q : i \in DOMAIN t /\ t[i] = q[i]
      /\ \A i \in DOMAIN t : i = n + 1 \/ (i \in DOMAIN q /\ t[i] = q[i])
      /\ n + 1 \in DOMAIN t
  BY <1>1
<1>3. f.kind # "offer" /\ f.kind # "resumed"
  BY DEF Acks
<1>4. \A i \in DOMAIN t : t[i].kind = "offer" => h2.busy = t[i].lease
  BY <1>1, <1>2, <1>3 DEF BusyWith
<1>5. \A l \in Holds(r, j) : h2.busy = l \/ \E i \in DOMAIN t : AckAt(t, i, l)
  <2>1. SUFFICES ASSUME NEW l \in Holds(r, j)
                 PROVE  h2.busy = l \/ \E i \in DOMAIN t : AckAt(t, i, l)
    OBVIOUS
  <2>2. CASE h.busy = l /\ l = f.lease
    BY <1>1, <1>2, <2>2 DEF AckAt
  <2>3. CASE h.busy = l /\ l # f.lease
    BY <2>3
  <2>4. CASE \E i \in DOMAIN q : AckAt(q, i, l)
    BY <1>2, <2>4 DEF AckAt
  <2> QED BY <2>1, <2>2, <2>3, <2>4 DEF BusyWith
<1>6. h2.busy # None => h2.busy # r.last /\ \A i \in DOMAIN t : ~AckAt(t, i, h2.busy)
  <2>1. SUFFICES ASSUME h2.busy # None
                 PROVE  h2.busy # r.last /\ \A i \in DOMAIN t : ~AckAt(t, i, h2.busy)
    OBVIOUS
  <2>2. h2.busy = h.busy /\ h.busy # f.lease
    BY <2>1
  <2>3. h.busy # r.last /\ \A i \in DOMAIN q : ~AckAt(q, i, h.busy)
    BY <2>1, <2>2 DEF BusyWith
  <2> QED BY <1>1, <1>2, <2>2, <2>3 DEF AckAt
<1>7. BusyWith(h2, t, r, j)
  BY <1>4, <1>5, <1>6 DEF BusyWith
<1> QED BY <1>7 DEF t

(* An offer keeps the handler busy that was not.                           *)
LEMMA BusyOffers ==
  ASSUME NEW q \in Seq(DownFrames), NEW f \in DownFrames, NEW h, NEW h2, NEW r, NEW j,
         BusyWith(h, q, r, j), h.at = "serving", h.busy = None, f.kind = "offer",
         h2.busy = f.lease, f.lease # r.last, \A i \in DOMAIN q : ~AckAt(q, i, f.lease),
         r.at = "hello" => \A i \in DOMAIN q : q[i].kind = "resumed" /\ q[i].end = "await"
                                                 => j.lease # None
  PROVE  BusyWith(h2, q \o <<f>>, r, j)
<1> DEFINE t == q \o <<f>>
           n == Len(q)
<1>1. /\ n \in Nat /\ DOMAIN q = 1 .. n /\ DOMAIN t = 1 .. n + 1
      /\ \A i \in 1 .. n : t[i] = q[i]
      /\ t[n + 1] = f
  BY SendOne
<1>2. \A i \in DOMAIN q : q[i].kind = "offer" => q[i].lease # None
  BY Indices, DownFrameFields, RunnerAssumption DEF None
<1> HIDE DEF t, n
<1>3. \A i \in DOMAIN q : q[i].kind # "offer"
  BY <1>2 DEF BusyWith
<1>4. /\ \A i \in DOMAIN q : i \in DOMAIN t /\ t[i] = q[i]
      /\ \A i \in DOMAIN t : i = n + 1 \/ (i \in DOMAIN q /\ t[i] = q[i])
  BY <1>1
<1>5. \A i \in DOMAIN t : t[i].kind = "offer" => h2.busy = t[i].lease
  BY <1>1, <1>3, <1>4
<1>6. ASSUME r.at # "hello", NEW l \in Holds(r, j)
      PROVE  \E i \in DOMAIN t : AckAt(t, i, l)
  <2>1. l # None
    BY <1>6 DEF Holds
  <2>2. PICK i \in DOMAIN q : AckAt(q, i, l)
    BY <1>6, <2>1 DEF BusyWith
  <2> QED BY <1>4, <2>2 DEF AckAt
<1>7. ASSUME r.at = "hello"
      PROVE  \E i \in DOMAIN t : t[i].kind = "resumed" /\ (t[i].end = "await" => h2.busy = j.lease)
  <2>1. PICK i \in DOMAIN q : q[i].kind = "resumed" /\ (q[i].end = "await" => h.busy = j.lease)
    BY <1>7 DEF BusyWith
  <2>2. q[i].end # "await"
    BY <1>7, <2>1
  <2> QED BY <1>4, <2>1, <2>2
<1>8. \A i \in DOMAIN t : ~AckAt(t, i, h2.busy)
  <2>1. f.kind \notin Acks
    BY DEF Acks
  <2> QED BY <1>1, <1>4, <2>1 DEF AckAt
<1>9. BusyWith(h2, t, r, j)
  BY <1>5, <1>6, <1>7, <1>8 DEF BusyWith
<1> QED BY <1>9 DEF t

(* A handler that begins to serve is busy with the lease it awaits.        *)
LEMMA BusyServes ==
  ASSUME NEW f \in DownFrames, NEW h, NEW r, NEW j, f.kind = "resumed", r.at = "hello",
         r.last = None, h.busy = IF f.end = "await" THEN j.lease ELSE None
  PROVE  BusyWith(h, << >> \o <<f>>, r, j)
<1>1. << >> \o <<f>> = <<f>>
  OBVIOUS
<1>2. DOMAIN <<f>> = {1} /\ <<f>>[1] = f
  OBVIOUS
<1>3. f.kind \notin Acks
  BY DEF Acks
<1>4. BusyWith(h, <<f>>, r, j)
  BY <1>2, <1>3 DEF BusyWith, AckAt
<1> QED BY <1>1, <1>4

(* The runner reads a frame.                                               *)
LEMMA BusyRead ==
  ASSUME NEW q \in Seq(DownFrames), NEW h, NEW r, NEW j, NEW r2, NEW j2,
         BusyWith(h, q, r, j), q # << >>, r.at # "hello", r2.at # "hello",
         r2.last = r.last \/ AckAt(q, 1, r2.last),
         \A l \in Holds(r2, j2) : \/ l \in Holds(r, j) /\ ~AckAt(q, 1, l)
                                  \/ Head(q).kind = "offer" /\ l = Head(q).lease
  PROVE  BusyWith(h, Tail(q), r2, j2)
<1> DEFINE t == Tail(q)
<1>1. /\ Head(q) = q[1] /\ 1 \in DOMAIN q
      /\ \A i \in DOMAIN t : i \in Nat /\ i >= 1 /\ i + 1 \in DOMAIN q /\ t[i] = q[i + 1]
      /\ \A i \in DOMAIN q : i \in Nat /\ i >= 1 /\ (i # 1 => i - 1 \in DOMAIN t)
  BY TailOf
<1> HIDE DEF t
<1>2. \A i \in DOMAIN q : i # 1 => i - 1 \in DOMAIN t /\ t[i - 1] = q[i]
  BY <1>1
<1>3. h.busy # None => h.busy # r2.last /\ \A i \in DOMAIN t : ~AckAt(t, i, h.busy)
  BY <1>1 DEF BusyWith, AckAt
<1>4. h.at = "serving" => \A i \in DOMAIN t : t[i].kind = "offer" => h.busy = t[i].lease
  BY <1>1 DEF BusyWith
<1>5. ASSUME h.at = "serving", NEW l \in Holds(r2, j2)
      PROVE  h.busy = l \/ \E i \in DOMAIN t : AckAt(t, i, l)
  <2>1. CASE Head(q).kind = "offer" /\ l = Head(q).lease
    BY <1>1, <1>5, <2>1 DEF BusyWith
  <2>2. CASE l \in Holds(r, j) /\ ~AckAt(q, 1, l)
    <3>1. h.busy = l \/ \E i \in DOMAIN q : AckAt(q, i, l)
      BY <1>5, <2>2 DEF BusyWith
    <3> QED BY <1>2, <2>2, <3>1 DEF AckAt
  <2> QED BY <1>5, <2>1, <2>2
<1>6. BusyWith(h, t, r2, j2)
  BY <1>3, <1>4, <1>5 DEF BusyWith
<1> QED BY <1>6 DEF t

(* The runner reads the answer to its resumption.                          *)
LEMMA BusyResumed ==
  ASSUME NEW q \in Seq(DownFrames), NEW h, NEW r, NEW j, NEW r2, NEW j2,
         BusyWith(h, q, r, j), OfferFollows(q, r, j), q # << >>, r.at = "hello", r2.at # "hello",
         Head(q).kind = "resumed", r2.last = r.last,
         \A l \in Holds(r2, j2) : Head(q).end = "await" /\ l = j.lease
  PROVE  BusyWith(h, Tail(q), r2, j2)
<1> DEFINE t == Tail(q)
<1>1. /\ Head(q) = q[1] /\ 1 \in DOMAIN q
      /\ \A i \in DOMAIN t : i \in Nat /\ i >= 1 /\ i + 1 \in DOMAIN q /\ t[i] = q[i + 1]
  BY TailOf
<1> HIDE DEF t
<1>2. h.busy # None => h.busy # r2.last /\ \A i \in DOMAIN t : ~AckAt(t, i, h.busy)
  BY <1>1 DEF BusyWith, AckAt
<1>3. h.at = "serving" => \A i \in DOMAIN t : t[i].kind = "offer" => h.busy = t[i].lease
  BY <1>1 DEF BusyWith
<1>4. h.at = "serving" /\ Head(q).end = "await" => h.busy = j.lease
  BY <1>1 DEF BusyWith, OfferFollows
<1>5. BusyWith(h, t, r2, j2)
  BY <1>2, <1>3, <1>4 DEF BusyWith
<1> QED BY <1>5 DEF t

(***************************************************************************)
(* What the daemon does on the runner's connection.                        *)
(***************************************************************************)

\* The connection of s is left alone.
Rests(s) == hand'[s] = hand[s] /\ down'[s] = down[s] /\ up'[s] = up[s]

\* The handler of s stops serving, perhaps with a goodbye.
HandlerEnds(s) ==
  /\ hand'[s].at # "serving" /\ hand'[s].busy = None /\ up'[s] = << >>
  /\ \/ down'[s] = down[s] \/ down'[s] = << >>
     \/ down'[s] = down[s] \o <<Frame("shutdown", None, "none")>>

\* The handler of s is not serving yet: nothing is sent to the runner.
StillAdmits(s) ==
  hand'[s].at # "serving" /\ run.at = "hello" /\ down'[s] = << >> /\ up'[s] = up[s]

\* One frame is sent to the runner.
SendsOne(s, f) == f \in DownFrames /\ down'[s] = down[s] \o <<f>>

\* The handler admits the runner, and its welcome says how to resume.
BeginsToServe(s, f) ==
  /\ SendsOne(s, f) /\ f.kind = "resumed"
  /\ run.at = "hello" /\ down[s] = << >> /\ up'[s] = up[s]
  /\ hand'[s].busy = IF f.end = "await" THEN journal.lease ELSE None

\* The handler offers a lease.
MakesOffer(s, f) ==
  /\ SendsOne(s, f) /\ f.kind = "offer" /\ up'[s] = up[s]
  /\ hand[s].at = "serving" /\ hand[s].busy = None /\ hand'[s].busy = f.lease
  /\ conn.owner = s /\ lease[f.lease].state = "offered" /\ lease[f.lease].fresh

\* The handler takes a claim and answers it.
AnswersClaim(s, f, g) ==
  /\ hand'[s] = hand[s]
  /\ up[s] # << >> /\ Head(up[s]).kind = "claim" /\ up'[s] = Tail(up[s])
  /\ f \in DownFrames /\ f.kind = "claimed" /\ f.lease = Head(up[s]).lease
  /\ g \in DownFrames /\ g.kind = "dispatch" /\ g.lease = Head(up[s]).lease
  /\ down'[s] = down[s] \o <<f, g>>

\* The handler takes evidence and acknowledges it.
AnswersEvidence(s, f) ==
  /\ SendsOne(s, f) /\ f.kind \in Acks /\ f.lease = Head(up[s]).lease
  /\ up[s] # << >> /\ Head(up[s]).kind \in Evidence /\ up'[s] = Tail(up[s])
  /\ hand[s].at = "serving"
  /\ hand'[s].busy = IF hand[s].busy = f.lease THEN None ELSE hand[s].busy

\* All a step of the daemon can do to the connection of s.
DaemonView(s) ==
  \/ Rests(s) \/ HandlerEnds(s) \/ StillAdmits(s)
  \/ \E f : BeginsToServe(s, f) \/ MakesOffer(s, f) \/ AnswersEvidence(s, f)
  \/ \E f, g : AnswersClaim(s, f, g)

(* One frame is sent on the runner's connection.                           *)
LEMMA OneSent ==
  ASSUME FrameTypes, NEW s \in Sockets, run.sock = s, NEW f \in DownFrames, ToRunner(s, <<f>>)
  PROVE  SendsOne(s, f)
<1>1. <<f>> \in Seq(DownFrames)
  OBVIOUS
<1> QED BY <1>1, ToRunnerSends DEF SendsOne

(* Each step of the daemon is one of these.                                *)
LEMMA DaemonViews ==
  ASSUME DaemonTypes, FrameTypes, ClosedEnds, ResumeFits, DaemonStep,
         NEW s \in Sockets, run.sock = s
  PROVE  DaemonView(s)
<1>1. /\ hand[s].at # "serving" => up[s] = << >>
      /\ hand[s].at \in {"hello"} \cup Resuming =>
           run.at = "hello" /\ hand[s].inv = journal /\ down[s] = << >>
  BY DEF ClosedEnds
<1>2. ASSUME NEW l \in Leases, Offer(l) PROVE DaemonView(s)
  BY <1>2 DEF Offer, DaemonView, Rests
<1>3. CASE WaitForLease \/ BootPropagate \/ BootSettled \/ BootDone
  BY <1>3 DEF WaitForLease, BootPropagate, BootSettled, BootDone, DaemonView, Rests
<1>4. CASE DaemonCrash
  <2>1. hand'[s] = NoHandler /\ up'[s] = << >> /\ down'[s] = << >>
    BY <1>4, DaemonCrashDoes
  <2> QED BY <2>1, TypedValues DEF DaemonView, HandlerEnds
<1>5. ASSUME NEW x \in Sockets, Reconcile(x) PROVE DaemonView(s)
  <2>1. CASE x # s
    BY <1>5, <2>1, ReconcileDoes DEF DaemonView, Rests
  <2>2. CASE x = s
    <3>1. hand[s].at \in {"hello", "again"} /\ up' = up /\ down' = down
      BY <1>5, <2>2 DEF Reconcile
    <3>2. hand'[s].at # "serving"
      BY <1>5, <2>2, ReconcileDoes, TypedValues
    <3> QED BY <1>1, <3>1, <3>2 DEF DaemonView, StillAdmits, Resuming
  <2> QED BY <2>1, <2>2
<1>6. ASSUME NEW x \in Sockets, ResolveLoss(x) PROVE DaemonView(s)
  <2>1. CASE x # s
    BY <1>6, <2>1, ResolveLossDoes DEF DaemonView, Rests
  <2>2. CASE x = s
    <3>1. hand[s].at = "lose" /\ up' = up /\ down' = down
      BY <1>6, <2>2, ResolveLossDoes
    <3>2. hand'[s].at # "serving"
      BY <1>6, <2>2, ResolveLossDoes, TypedValues
    <3> QED BY <1>1, <3>1, <3>2 DEF DaemonView, StillAdmits, Resuming
  <2> QED BY <2>1, <2>2
<1>7. ASSUME NEW x \in Sockets, Propagate(x) PROVE DaemonView(s)
  <2>1. CASE x # s
    BY <1>7, <2>1, PropagateDoes DEF DaemonView, Rests
  <2>2. CASE x = s /\ hand'[s] = NoHandler
    <3>1. hand[s].at \in {"propagate", "resolve"} /\ up' = up /\ down' = down
      BY <1>7, <2>2 DEF Propagate
    <3> QED BY <1>1, <2>2, <3>1, TypedValues DEF DaemonView, HandlerEnds
  <2>3. CASE x = s /\ hand'[s] # NoHandler
    <3>1. hand[s].at = "resolve" /\ hand'[s].at = "again" /\ up' = up /\ down' = down
      BY <1>7, <2>3, PropagateDoes
    <3> QED BY <1>1, <3>1 DEF DaemonView, StillAdmits, Resuming
  <2> QED BY <2>1, <2>2, <2>3
<1>8. ASSUME NEW x \in Sockets, x # s, NEW f \in DownFrames, ToRunner(x, <<f>>)
      PROVE  down'[s] = down[s]
  <2>1. <<f>> \in Seq(DownFrames)
    BY <1>8
  <2> QED BY <1>8, <2>1, ToRunnerSends
<1>9. ASSUME hand[s].at \in {"open", "reread"},
             NEW out \in {"empty", "recorded", "await", "lost"}, Fits(journal, out),
             ToRunner(s, <<Frame("resumed", hand[s].inv.lease, out)>>), up' = up,
             hand'[s].busy = IF out = "await" THEN hand[s].inv.lease ELSE None
      PROVE  DaemonView(s)
  <2>1. hand[s].inv = journal /\ run.at = "hello" /\ down[s] = << >>
    BY <1>1, <1>9 DEF Resuming
  <2>2. journal \in Inventories
    BY <2>1 DEF DaemonTypes, Handlers
  <2>3. journal.lease \in Leases \cup {None} /\ (out = "await" => journal.lease \in Leases)
    BY <1>9, <2>2 DEF Inventories, Fits
  <2> DEFINE f == Frame("resumed", journal.lease, out)
  <2>4. f \in DownFrames
    BY <1>9, <2>3, FramesTyped
  <2>5. f.kind = "resumed" /\ f.end = out
    BY FrameFields
  <2>6. ToRunner(s, <<f>>)
    BY <1>9, <2>1
  <2> HIDE DEF f
  <2>7. SendsOne(s, f)
    BY <2>4, <2>6, OneSent
  <2>8. BeginsToServe(s, f)
    BY <1>9, <2>1, <2>5, <2>7 DEF BeginsToServe
  <2> QED BY <2>8 DEF DaemonView
<1>10. ASSUME NEW x \in Sockets, OpenConnection(x) PROVE DaemonView(s)
  <2>1. hand[x].inv \in Inventories /\ hand[x].at = "open" /\ Fits(hand[x].inv, hand[x].out)
    BY <1>10, OpenConnectionDoes DEF DaemonTypes, Handlers, ResumeFits
  <2>2. hand[x].out \in {"empty", "recorded", "await", "lost"}
    BY <2>1 DEF Fits
  <2>3. CASE hand[x].out = "await"
    <3>1. /\ \A r \in Sockets \ {x} : hand'[r] = hand[r]
          /\ hand'[x].at = "reread" /\ up' = up /\ down' = down
      BY <1>10, <2>3, OpenConnectionDoes
    <3>2. CASE x # s
      BY <3>1, <3>2 DEF DaemonView, Rests
    <3>3. CASE x = s
      BY <1>1, <2>1, <3>1, <3>3 DEF DaemonView, StillAdmits, Resuming
    <3> QED BY <3>2, <3>3
  <2>4. CASE hand[x].out # "await"
    <3>1. /\ \A r \in Sockets \ {x} : hand'[r] = hand[r]
          /\ hand'[x].busy = None /\ up' = up
          /\ ToRunner(x, <<Frame("resumed", hand[x].inv.lease, hand[x].out)>>)
      BY <1>10, <2>4, OpenConnectionDoes
    <3>2. CASE x # s
      <4>1. hand[x].inv.lease \in Leases \cup {None}
        BY <2>1 DEF Inventories
      <4>2. Frame("resumed", hand[x].inv.lease, hand[x].out) \in DownFrames
        BY <2>2, <2>4, <4>1, FramesTyped
      <4>3. down'[s] = down[s]
        BY <1>8, <3>1, <3>2, <4>2
      <4> QED BY <3>1, <3>2, <4>3 DEF DaemonView, Rests
    <3>3. CASE x = s
      <4>1. Fits(journal, hand[s].out)
        BY <1>1, <2>1, <3>3 DEF Resuming
      <4> QED BY <1>9, <2>1, <2>2, <2>4, <3>1, <3>3, <4>1
    <3> QED BY <3>2, <3>3
  <2> QED BY <2>3, <2>4
<1>11. ASSUME NEW x \in Sockets, ServeStep(x) PROVE DaemonView(s)
  <2> DEFINE out == Outcome(hand[x].inv)
  <2>1. hand[x].inv \in Inventories
    BY DEF DaemonTypes, Handlers
  <2>2. /\ hand[x].at = "reread" /\ out \in {"await", "lost"}
        /\ \A r \in Sockets \ {x} : hand'[r] = hand[r]
        /\ hand'[x].busy = IF out = "await" THEN hand[x].inv.lease ELSE None
        /\ ToRunner(x, <<Frame("resumed", hand[x].inv.lease, out)>>)
        /\ up' = up
    BY <1>11 DEF ServeStep
  <2>3. /\ hand[x].inv # Empty /\ hand[x].inv.lease \in Leases
        /\ out = "await" => hand[x].inv.phase \in {"waiting", "received"}
        /\ out = "lost" => lease[hand[x].inv.lease].state \in Lost
    BY <2>1, <2>2, OutcomeMeans
  <2> HIDE DEF out
  <2>4. Fits(hand[x].inv, out)
    BY <2>2, <2>3 DEF Fits, Final
  <2>5. CASE x # s
    <3>1. Frame("resumed", hand[x].inv.lease, out) \in DownFrames
      BY <2>2, <2>3, FramesTyped
    <3>2. down'[s] = down[s]
      BY <1>8, <2>2, <2>5, <3>1
    <3> QED BY <2>2, <2>5, <3>2 DEF DaemonView, Rests
  <2>6. CASE x = s
    <3>1. Fits(journal, out)
      BY <1>1, <2>2, <2>4, <2>6 DEF Resuming
    <3> QED BY <1>9, <2>2, <2>6, <3>1
  <2> QED BY <2>5, <2>6
<1>12. ASSUME NEW x \in Sockets, SendOffer(x) PROVE DaemonView(s)
  <2>1. PICK l \in Leases :
          /\ lease[l].state = "offered" /\ lease[l].fresh
          /\ hand'[x].busy = l /\ ToRunner(x, <<Frame("offer", l, "none")>>)
    BY <1>12, SendOfferDoes
  <2>2. /\ hand[x].at = "serving" /\ hand[x].busy = None /\ conn.owner = x /\ up' = up
        /\ \A r \in Sockets \ {x} : hand'[r] = hand[r]
    BY <1>12, SendOfferDoes
  <2> DEFINE f == Frame("offer", l, "none")
  <2>3. f \in DownFrames /\ f.kind = "offer" /\ f.lease = l /\ ToRunner(x, <<f>>)
    BY <2>1, FramesTyped, FrameFields
  <2> HIDE DEF f
  <2>4. CASE x # s
    <3>1. down'[s] = down[s]
      BY <1>8, <2>3, <2>4
    <3> QED BY <2>2, <2>4, <3>1 DEF DaemonView, Rests
  <2>5. CASE x = s
    <3>1. SendsOne(s, f)
      BY <2>3, <2>5, OneSent
    <3>2. MakesOffer(s, f)
      BY <2>1, <2>2, <2>3, <2>5, <3>1 DEF MakesOffer
    <3> QED BY <3>2 DEF DaemonView
  <2> QED BY <2>4, <2>5
<1>13. ASSUME NEW x \in Sockets, EndStep(x) PROVE DaemonView(s)
  <2>1. PICK to \in {"lost", "shutdown"} : EndHandler(x, to)
    BY <1>13 DEF EndStep
  <2>2. /\ \A r \in Sockets \ {x} : hand'[r] = hand[r] /\ up'[r] = up[r]
        /\ hand'[x].at # "serving" /\ hand'[x].busy = None /\ up'[x] = << >>
    BY <2>1, EndHandlerDoes, TypedValues
  <2> DEFINE f == Frame("shutdown", None, "none")
  <2>3. f \in DownFrames /\ (down' = down \/ ToRunner(x, <<f>>))
    BY <1>13, FramesTyped DEF EndStep
  <2> HIDE DEF f
  <2>4. CASE x # s
    <3>1. down'[s] = down[s]
      BY <1>8, <2>3, <2>4
    <3> QED BY <2>2, <2>4, <3>1 DEF DaemonView, Rests
  <2>5. CASE x = s
    <3>1. down'[s] = down[s] \/ down'[s] = down[s] \o <<f>>
      BY <2>3, <2>5, OneSent DEF SendsOne
    <3>2. HandlerEnds(s)
      BY <2>2, <2>5, <3>1 DEF HandlerEnds, f
    <3> QED BY <3>2 DEF DaemonView
  <2> QED BY <2>4, <2>5
<1>14. ASSUME NEW x \in Sockets, CloseStep(x) PROVE DaemonView(s)
  <2>1. /\ \A r \in Sockets \ {x} : hand'[r] = hand[r] /\ up'[r] = up[r]
        /\ hand'[x] = NoHandler /\ up'[x] = << >> /\ down' = down
    BY <1>14, CloseHandlerDoes DEF CloseStep
  <2>2. CASE x # s
    BY <2>1, <2>2 DEF DaemonView, Rests
  <2>3. CASE x = s
    BY <2>1, <2>3, TypedValues DEF DaemonView, HandlerEnds
  <2> QED BY <2>2, <2>3
<1>15. ASSUME NEW x \in Sockets, NEW l \in Leases, ClaimStep(x, l) PROVE DaemonView(s)
  <2> DEFINE f == Frame("claimed", l, "none")
             g == Frame("dispatch", l, "none")
  <2>1. /\ hand' = hand /\ up[x] # << >> /\ Head(up[x]).kind = "claim" /\ l = Head(up[x]).lease
        /\ ToRunner(x, <<f, g>>)
        /\ up'[x] = Tail(up[x]) /\ \A r \in Sockets \ {x} : up'[r] = up[r]
    BY <1>15, TakenDoes DEF ClaimStep
  <2>2. /\ f \in DownFrames /\ f.kind = "claimed" /\ f.lease = l
        /\ g \in DownFrames /\ g.kind = "dispatch" /\ g.lease = l
    BY FramesTyped, FrameFields
  <2> HIDE DEF f, g
  <2>3. <<f, g>> \in Seq(DownFrames)
    BY <2>2
  <2>4. CASE x # s
    <3>1. down'[s] = down[s]
      BY <2>1, <2>3, <2>4, ToRunnerSends
    <3> QED BY <2>1, <2>4, <3>1 DEF DaemonView, Rests
  <2>5. CASE x = s
    <3>1. down'[s] = down[s] \o <<f, g>>
      BY <2>1, <2>3, <2>5, ToRunnerSends
    <3>2. AnswersClaim(s, f, g)
      BY <2>1, <2>2, <2>5, <3>1 DEF AnswersClaim
    <3> QED BY <3>2 DEF DaemonView
  <2> QED BY <2>4, <2>5
<1>16. ASSUME NEW x \in Sockets, NEW l \in Leases, ResultStep(x, l) \/ RefusalStep(x, l)
       PROVE  DaemonView(s)
  <2>1. PICK state \in {"completed", "refused"}, kind \in Acks : RecordStep(x, l, state, kind)
    BY <1>16 DEF ResultStep, RefusalStep, Acks
  <2> DEFINE f == Frame(kind, l, "none")
  <2>2. /\ \A r \in Sockets \ {x} : hand'[r] = hand[r] /\ up'[r] = up[r]
        /\ hand[x].at = "serving" /\ up[x] # << >> /\ l = Head(up[x]).lease
        /\ hand'[x].busy = IF hand[x].busy = l THEN None ELSE hand[x].busy
        /\ up'[x] = Tail(up[x]) /\ ToRunner(x, <<f>>)
    BY <2>1, TakenDoes DEF RecordStep
  <2>3. Head(up[x]).kind \in Evidence
    BY <1>16 DEF ResultStep, RefusalStep, Evidence
  <2>4. f \in DownFrames /\ f.kind \in Acks /\ f.lease = l
    BY FramesTyped, FrameFields DEF Acks
  <2> HIDE DEF f
  <2>5. CASE x # s
    <3>1. down'[s] = down[s]
      BY <1>8, <2>2, <2>4, <2>5
    <3> QED BY <2>2, <2>5, <3>1 DEF DaemonView, Rests
  <2>6. CASE x = s
    <3>1. SendsOne(s, f)
      BY <2>2, <2>4, <2>6, OneSent
    <3>2. AnswersEvidence(s, f)
      BY <2>2, <2>3, <2>4, <2>6, <3>1 DEF AnswersEvidence
    <3> QED BY <3>2 DEF DaemonView
  <2> QED BY <2>5, <2>6
<1>17. ASSUME NEW x \in Sockets, Heartbeat(x) PROVE DaemonView(s)
  BY <1>17 DEF Heartbeat, DaemonView, Rests
<1> QED
  BY <1>2, <1>3, <1>4, <1>5, <1>6, <1>7, <1>10, <1>11, <1>12, <1>13, <1>14, <1>15, <1>16, <1>17
     DEF DaemonStep

(* Two frames that are sent together are sent one after the other.         *)
LEMMA SentTwice ==
  ASSUME NEW S, NEW q \in Seq(S), NEW f \in S, NEW g \in S
  PROVE  q \o <<f, g>> = (q \o <<f>>) \o <<g>>
<1> DEFINE t == q \o <<f>>
           a == q \o <<f, g>>
           b == t \o <<g>>
           n == Len(q)
<1>1. /\ n \in Nat /\ t \in Seq(S) /\ DOMAIN t = 1 .. n + 1
      /\ \A i \in 1 .. n : t[i] = q[i]
      /\ t[n + 1] = f
  BY SendOne
<1>2. /\ a \in Seq(S) /\ DOMAIN a = 1 .. n + 2
      /\ \A i \in 1 .. n : a[i] = q[i]
      /\ a[n + 1] = f /\ a[n + 2] = g
  BY SendTwo
<1> HIDE DEF t
<1>3. /\ b \in Seq(S) /\ DOMAIN t = 1 .. Len(t) /\ Len(t) \in Nat
      /\ DOMAIN b = 1 .. Len(t) + 1
      /\ \A i \in 1 .. Len(t) : b[i] = t[i]
      /\ b[Len(t) + 1] = g
  BY <1>1, SendOne
<1> HIDE DEF a, b, n
<1>4. Len(t) = n + 1
  BY <1>1, <1>3
<1>5. \A i \in 1 .. n + 2 : a[i] = b[i]
  BY <1>1, <1>2, <1>3, <1>4
<1>6. DOMAIN a = DOMAIN b /\ DOMAIN a = 1 .. n + 2
  BY <1>1, <1>2, <1>3, <1>4
<1>7. Len(a) = Len(b) /\ DOMAIN a = 1 .. Len(a)
  BY <1>2, <1>3, <1>6, LenProperties
<1>8. a = b
  BY <1>2, <1>3, <1>5, <1>6, <1>7, SeqEqual
<1> QED BY <1>8 DEF a, b, t

(* The runner and its journal are left alone.                              *)
LEMMA AcksRest ==
  ASSUME NEW q \in Seq(DownFrames), NEW u \in Seq(UpFrames), NEW r, NEW j,
         NEW t \in Seq(DownFrames), NEW v \in Seq(UpFrames),
         AcksInOrder(q, u, r, j), Within(q, t, Acks), Within(u, v, Evidence)
  PROVE  AcksInOrder(t, v, r, j)
<1>1. r.last \notin Holds(r, j)
  BY DEF AcksInOrder
<1> QED BY <1>1, AcksKept

(* What the invariant says of an offer and of evidence on a connection.    *)
LEMMA OfferAlone ==
  ASSUME ExecInv, NEW s \in Sockets, run.sock = s
  PROVE  /\ run.at = "hello" =>
              /\ run.last = None /\ run.offer = None /\ run.resumed = None /\ run.deferred = None
              /\ up[s] = << >>
              /\ \A i \in DOMAIN down[s] :
                   /\ down[s][i].kind = "resumed"
                        => down[s][i].lease = journal.lease /\ Fits(journal, down[s][i].end)
                   /\ down[s][i].kind = "resumed" /\ down[s][i].end = "await"
                        => journal.lease # None /\ journal.phase \in {"waiting", "received"}
         /\ \A f : MakesOffer(s, f) =>
              f.lease # run.last /\ \A i \in DOMAIN down[s] : ~AckAt(down[s], i, f.lease)
         /\ \A f : AnswersEvidence(s, f) =>
              \A i \in DOMAIN down[s] : down[s][i].kind = "offer" => down[s][i].lease # f.lease
<1>1. /\ ClosedEnds /\ OfferedOnce /\ ResumeFits /\ FrameTypes
      /\ journal \in Inventories
  BY DEF ExecInv, LeaseInv, RunnerTypes
<1>2. ASSUME run.at = "hello"
      PROVE  /\ run.last = None /\ run.offer = None /\ run.resumed = None /\ run.deferred = None
             /\ up[s] = << >>
             /\ \A i \in DOMAIN down[s] :
                   /\ down[s][i].kind = "resumed"
                        => down[s][i].lease = journal.lease /\ Fits(journal, down[s][i].end)
                   /\ down[s][i].kind = "resumed" /\ down[s][i].end = "await"
                        => journal.lease # None /\ journal.phase \in {"waiting", "received"}
  <2>1. run = [NoConnection EXCEPT !.sock = run.sock, !.at = "hello"] /\ up[s] = << >>
    BY <1>1, <1>2 DEF ClosedEnds
  <2>2. run.last = None /\ run.offer = None /\ run.resumed = None /\ run.deferred = None
    BY <2>1 DEF NoConnection
  <2>3. \A i \in DOMAIN down[s] : down[s][i].kind = "resumed"
            => down[s][i].lease = journal.lease /\ Fits(journal, down[s][i].end)
    BY <1>1, <1>2 DEF ResumeFits
  <2>4. Fits(journal, "await") => journal.phase \in {"waiting", "received"}
    BY DEF Fits
  <2>5. journal.phase \in {"waiting", "received"} => journal.lease # None
    BY <1>1 DEF Inventories
  <2> QED BY <2>1, <2>2, <2>3, <2>4, <2>5
<1>3. ASSUME NEW f, MakesOffer(s, f)
      PROVE  f.lease # run.last /\ \A i \in DOMAIN down[s] : ~AckAt(down[s], i, f.lease)
  <2>1. /\ f \in DownFrames /\ f.kind = "offer" /\ hand[s].at = "serving" /\ hand[s].busy = None
        /\ conn.owner = s /\ lease[f.lease].state = "offered" /\ lease[f.lease].fresh
    BY <1>3 DEF MakesOffer, SendsOne
  <2>2. f.lease \in Leases /\ hand[s].busy # f.lease
    BY <2>1, DownFrameFields, RunnerAssumption DEF None
  <2>3. Untouched(f.lease)
    BY <1>1, <2>1, <2>2 DEF OfferedOnce
  <2> QED BY <2>3 DEF Untouched, AckAt, Acks
<1>4. ASSUME NEW f, AnswersEvidence(s, f), NEW i \in DOMAIN down[s],
             down[s][i].kind = "offer", down[s][i].lease = f.lease
      PROVE  FALSE
  <2>1. f \in DownFrames /\ f.kind \in Acks /\ f.lease = Head(up[s]).lease /\ up[s] # << >>
    BY <1>4 DEF AnswersEvidence, SendsOne
  <2>2. f.lease \in Leases
    BY <2>1, DownFrameFields DEF Acks
  <2>3. Head(up[s]) = up[s][1] /\ 1 \in DOMAIN up[s]
    BY <1>1, <2>1, TailOf DEF FrameTypes
  <2>4. Untouched(f.lease)
    BY <1>1, <1>4, <2>2 DEF OfferedOnce, Has
  <2> QED BY <2>1, <2>3, <2>4 DEF Untouched
<1> QED BY <1>2, <1>3, <1>4

(* No step of the daemon breaks the order of the frames.                   *)
LEMMA DaemonExchange ==
  ASSUME ExecInv, FrameTypes', NEW s \in Sockets, run.sock = s, DaemonView(s),
         Exchange(hand[s], down[s], up[s], run, journal)
  PROVE  Exchange(hand'[s], down'[s], up'[s], run, journal)
<1> DEFINE h == hand[s]
           q == down[s]
           u == up[s]
           h2 == hand'[s]
           q2 == down'[s]
           u2 == up'[s]
           r == run
           j == journal
<1>1. /\ q \in Seq(DownFrames) /\ q2 \in Seq(DownFrames)
      /\ u \in Seq(UpFrames) /\ u2 \in Seq(UpFrames)
      /\ run.last \in Leases \cup {None}
  BY DEF ExecInv, LeaseInv, FrameTypes, RunnerTypes, RunStates
<1>2. /\ BusyWith(h, q, r, j) /\ OfferFollows(q, r, j) /\ OneToken(q, u, r, j)
      /\ AcksInOrder(q, u, r, j)
  BY DEF Exchange
<1>3. Keeps(q, q, Acks) /\ Keeps(q, q, Answer) /\ Keeps(u, u, {"claim"}) /\ Keeps(u, u, Evidence)
  BY <1>1, KeepsSame
<1>4. /\ Within(q, q, Acks) /\ Within(u, u, {"claim"}) /\ Within(u, u, Evidence)
      /\ Within(u, << >>, {"claim"}) /\ Within(u, << >>, Evidence) /\ Within(q, << >>, Acks)
  BY <1>3, KeepsWithin, WithinEmpty
<1>5. ASSUME NEW f \in DownFrames
      PROVE  /\ f.kind \notin Acks => Within(q, q \o <<f>>, Acks)
             /\ f.kind \notin Answer => Keeps(q, q \o <<f>>, Answer)
  BY <1>1, KeepsSent, KeepsWithin
<1>6. CASE Rests(s)
  BY <1>6 DEF Rests
<1>7. CASE HandlerEnds(s)
  <2> DEFINE f == Frame("shutdown", None, "none")
  <2>1. f \in DownFrames /\ f.kind = "shutdown"
    BY FramesTyped, FrameFields
  <2> HIDE DEF f
  <2>2. /\ h2.at # "serving" /\ h2.busy = None /\ u2 = << >>
        /\ q2 = q \/ q2 = << >> \/ q2 = q \o <<f>>
    BY <1>7 DEF HandlerEnds, f
  <2>3. f.kind \notin Acks /\ f.kind \notin Answer /\ f.kind \notin {"resumed", "offer"}
    BY <2>1 DEF Acks, Answer
  <2> HIDE DEF q2, u2, h2, q, u, h, r, j
  <2>4. BusyWith(h2, q2, r, j)
    BY <2>2, BusyIdle
  <2>5. OfferFollows(q2, r, j)
    BY <1>1, <1>2, <2>1, <2>2, <2>3, FollowsSent, FollowsNothing
  <2>6. OneToken(q2, u2, r, j)
    <3>1. CASE q2 = << >>
      BY <1>2, <2>2, <3>1, TokensGone
    <3>2. CASE q2 # << >>
      <4>1. Keeps(q, q2, Answer) /\ Within(u, u2, {"claim"})
        BY <1>3, <1>4, <1>5, <2>1, <2>2, <2>3, <3>2
      <4> QED BY <1>1, <1>2, <4>1, TokensKept
    <3> QED BY <3>1, <3>2
  <2>7. AcksInOrder(q2, u2, r, j)
    <3>1. Within(q, q2, Acks) /\ Within(u, u2, Evidence)
      BY <1>4, <1>5, <2>1, <2>2, <2>3
    <3> QED BY <1>1, <1>2, <3>1, AcksRest
  <2>8. Exchange(h2, q2, u2, r, j)
    BY <2>4, <2>5, <2>6, <2>7 DEF Exchange
  <2> QED BY <2>8 DEF q2, u2, h2, r, j
<1>8. CASE StillAdmits(s)
  <2>1. /\ h2.at # "serving" /\ run.at = "hello" /\ q2 = << >> /\ u2 = u
    BY <1>8 DEF StillAdmits
  <2>2. u = << >> /\ r.last = None
    BY <2>1, OfferAlone
  <2> HIDE DEF q2, u2, h2, q, u, h, r, j
  <2>3. BusyWith(h2, q2, r, j) /\ OfferFollows(q2, r, j)
    BY <2>1, <2>2, BusyIdle, FollowsNothing
  <2>4. OneToken(q2, u2, r, j)
    BY <1>2, <2>1, <2>2, TokensGone
  <2>5. AcksInOrder(q2, u2, r, j)
    BY <1>1, <1>2, <1>4, <2>1, AcksRest
  <2>6. Exchange(h2, q2, u2, r, j)
    BY <2>3, <2>4, <2>5 DEF Exchange
  <2> QED BY <2>6 DEF q2, u2, h2, r, j
<1>9. ASSUME NEW f, BeginsToServe(s, f)
      PROVE  Exchange(h2, q2, u2, r, j)
  <2>1. /\ f \in DownFrames /\ q2 = q \o <<f>> /\ f.kind = "resumed" /\ r.at = "hello" /\ q = << >>
        /\ u2 = u /\ h2.busy = IF f.end = "await" THEN j.lease ELSE None
    BY <1>9 DEF BeginsToServe, SendsOne
  <2>2. r.last = None
    BY <2>1, OfferAlone
  <2>3. f.kind \notin Acks /\ f.kind \notin Answer
    BY <2>1 DEF Acks, Answer
  <2> HIDE DEF q2, u2, h2, q, u, h, r, j
  <2>4. BusyWith(h2, q2, r, j) /\ OfferFollows(q2, r, j)
    BY <2>1, <2>2, BusyServes, FollowsResumption
  <2>5. OneToken(q2, u2, r, j)
    BY <1>1, <1>2, <1>4, <1>5, <2>1, <2>3, TokensKept
  <2>6. AcksInOrder(q2, u2, r, j)
    BY <1>1, <1>2, <1>4, <1>5, <2>1, <2>3, AcksRest
  <2> QED BY <2>4, <2>5, <2>6 DEF Exchange
<1>10. ASSUME NEW f, MakesOffer(s, f)
       PROVE  Exchange(h2, q2, u2, r, j)
  <2>1. /\ f \in DownFrames /\ q2 = q \o <<f>> /\ f.kind = "offer" /\ u2 = u
        /\ h.at = "serving" /\ h.busy = None /\ h2.busy = f.lease
    BY <1>10 DEF MakesOffer, SendsOne
  <2>2. f.lease # r.last /\ \A i \in DOMAIN q : ~AckAt(q, i, f.lease)
    BY <1>10, OfferAlone
  <2>3. r.at = "hello" => \A i \in DOMAIN q : q[i].kind = "resumed" /\ q[i].end = "await"
                                               => j.lease # None
    BY OfferAlone
  <2>4. f.kind \notin Acks /\ f.kind \notin Answer
    BY <2>1 DEF Acks, Answer
  <2> HIDE DEF q2, u2, h2, q, u, h, r, j
  <2>5. BusyWith(h2, q2, r, j)
    BY <1>1, <1>2, <2>1, <2>2, <2>3, BusyOffers
  <2>6. OfferFollows(q2, r, j)
    BY <1>1, <1>2, <2>1, <2>3, FollowsOffer
  <2>7. OneToken(q2, u2, r, j)
    BY <1>1, <1>2, <1>4, <1>5, <2>1, <2>4, TokensKept
  <2>8. AcksInOrder(q2, u2, r, j)
    BY <1>1, <1>2, <1>4, <1>5, <2>1, <2>4, AcksRest
  <2> QED BY <2>5, <2>6, <2>7, <2>8 DEF Exchange
<1>11. ASSUME NEW f, AnswersEvidence(s, f)
       PROVE  Exchange(h2, q2, u2, r, j)
  <2>1. /\ f \in DownFrames /\ q2 = q \o <<f>> /\ f.kind \in Acks /\ f.lease = Head(u).lease
        /\ u # << >> /\ Head(u).kind \in Evidence /\ u2 = Tail(u) /\ h.at = "serving"
        /\ h2.busy = IF h.busy = f.lease THEN None ELSE h.busy
    BY <1>11 DEF AnswersEvidence, SendsOne
  <2>2. r.at # "hello" /\ \A i \in DOMAIN q : q[i].kind = "offer" => q[i].lease # f.lease
    BY <1>11, <2>1, OfferAlone
  <2>3. f.kind \notin Answer /\ f.kind \notin {"resumed", "offer"}
    BY <2>1 DEF Acks, Answer
  <2>4. r.last \in Leases \cup {None}
    BY <1>1
  <2> HIDE DEF q2, u2, h2, q, u, h, r, j
  <2>5. BusyWith(h2, q2, r, j)
    BY <1>1, <1>2, <2>1, <2>2, <2>4, BusyAnswered
  <2>6. OfferFollows(q2, r, j)
    BY <1>1, <1>2, <2>1, <2>2, <2>3, FollowsSent
  <2>7. OneToken(q2, u2, r, j)
    <3>1. Within(u, u2, {"claim"}) /\ Keeps(q, q2, Answer)
      BY <1>1, <1>5, <2>1, <2>3, WithinTail
    <3> QED BY <1>1, <1>2, <3>1, TokensKept
  <2>8. AcksInOrder(q2, u2, r, j)
    BY <1>1, <1>2, <2>1, EvidenceAnswered
  <2> QED BY <2>5, <2>6, <2>7, <2>8 DEF Exchange
<1>12. ASSUME NEW f, NEW g, AnswersClaim(s, f, g)
       PROVE  Exchange(h2, q2, u2, r, j)
  <2>1. /\ h2 = h /\ u # << >> /\ Head(u).kind = "claim" /\ u2 = Tail(u)
        /\ f \in DownFrames /\ f.kind = "claimed" /\ f.lease = Head(u).lease
        /\ g \in DownFrames /\ g.kind = "dispatch" /\ g.lease = Head(u).lease
        /\ q2 = q \o <<f, g>>
    BY <1>12 DEF AnswersClaim
  <2>2. /\ f.kind \notin Acks /\ f.kind \notin {"resumed", "offer"}
        /\ g.kind \notin Acks /\ g.kind \notin {"resumed", "offer"}
    BY <2>1 DEF Acks
  <2> DEFINE t == q \o <<f>>
  <2> HIDE DEF q2, u2, h2, q, u, h, r, j
  <2>3. t \in Seq(DownFrames) /\ q2 = t \o <<g>>
    <3>1. t \in Seq(DownFrames)
      BY <1>1, <2>1, SendOne
    <3>2. q \in Seq(DownFrames) /\ f \in DownFrames /\ g \in DownFrames
      BY <1>1, <2>1
    <3>3. q \o <<f, g>> = (q \o <<f>>) \o <<g>>
      BY <3>2, SentTwice, SMTT(30)
    <3> QED BY <2>1, <3>1, <3>3
  <2>4. BusyWith(h, t, r, j) /\ OfferFollows(t, r, j)
    BY <1>1, <1>2, <2>1, <2>2, BusySent, FollowsSent
  <2>5. AcksInOrder(t, u, r, j)
    BY <1>1, <1>2, <1>4, <1>5, <2>1, <2>2, <2>3, AcksRest
  <2> HIDE DEF t
  <2>6. BusyWith(h2, q2, r, j) /\ OfferFollows(q2, r, j)
    BY <2>1, <2>2, <2>3, <2>4, BusySent, FollowsSent
  <2>7. Within(t, q2, Acks) /\ Within(u, u2, Evidence)
    BY <1>1, <2>1, <2>2, <2>3, KeepsSent, KeepsWithin, WithinTail
  <2>8. AcksInOrder(q2, u2, r, j)
    BY <1>1, <2>3, <2>5, <2>7, AcksRest
  <2>9. OneToken(q2, u2, r, j)
    BY <1>1, <1>2, <2>1, ClaimAnswered
  <2> QED BY <2>6, <2>8, <2>9 DEF Exchange
<1> QED BY <1>6, <1>7, <1>8, <1>9, <1>10, <1>11, <1>12 DEF DaemonView

(***************************************************************************)
(* What the runner does on its connection.                                 *)
(***************************************************************************)

(* No evidence and no answer is on its way.                                *)
LEMMA AcksNone ==
  ASSUME NEW q, NEW u, NEW r, NEW j, r.last \notin Holds(r, j),
         \A i \in DOMAIN q : q[i].kind \notin Acks,
         \A i \in DOMAIN u : u[i].kind \notin Evidence
  PROVE  AcksInOrder(q, u, r, j)
BY DEF AcksInOrder, AckAt, ProofAt

(* What the runner sends is the last of its frames, or is lost.            *)
LEMMA UpSent ==
  ASSUME FrameTypes, run.sock \in Sockets, NEW f \in UpFrames, ToDaemon(<<f>>)
  PROVE  /\ up'[run.sock] = up[run.sock] \/ up'[run.sock] = up[run.sock] \o <<f>>
         /\ up'[run.sock] \in Seq(UpFrames)
         /\ \A K : f.kind \notin K => Keeps(up[run.sock], up'[run.sock], K)
<1>1. <<f>> \in Seq(UpFrames) /\ up[run.sock] \in Seq(UpFrames)
  BY DEF FrameTypes
<1>2. up'[run.sock] = up[run.sock] \/ up'[run.sock] = up[run.sock] \o <<f>>
  BY <1>1, ToDaemonSends
<1>3. up'[run.sock] \in Seq(UpFrames)
  BY <1>1, ToDaemonSends
<1>4. ASSUME NEW K, f.kind \notin K
      PROVE  Keeps(up[run.sock], up'[run.sock], K)
  BY <1>1, <1>2, <1>4, KeepsSame, KeepsSent
<1> QED BY <1>2, <1>3, <1>4

(* The runner's connection in a state of the invariant.                    *)
LEMMA OnConnection ==
  ASSUME ExecInv, FramesInOrder, run.sock \in Sockets
  PROVE  /\ DaemonTypes /\ FrameTypes /\ RunnerTypes /\ JournalTells /\ OfferStage
         /\ OfferedOnce /\ RefusalStands
         /\ down[run.sock] \in Seq(DownFrames) /\ up[run.sock] \in Seq(UpFrames)
         /\ journal \in Inventories /\ run \in RunStates /\ None \notin Leases
         /\ BusyWith(hand[run.sock], down[run.sock], run, journal)
         /\ OfferFollows(down[run.sock], run, journal)
         /\ OneToken(down[run.sock], up[run.sock], run, journal)
         /\ AcksInOrder(down[run.sock], up[run.sock], run, journal)
<1>1. run.sock # None /\ None \notin Leases
  BY RunnerAssumption DEF None
<1> QED BY <1>1 DEF ExecInv, LeaseInv, FrameTypes, RunnerTypes, FramesInOrder, Exchange

(* The four parts, after a step of the runner.                             *)
LEMMA OnConnectionNext ==
  ASSUME hand' = hand, run'.sock = run.sock,
         BusyWith(hand[run.sock], down'[run.sock], run', journal'),
         OfferFollows(down'[run.sock], run', journal'),
         OneToken(down'[run.sock], up'[run.sock], run', journal'),
         AcksInOrder(down'[run.sock], up'[run.sock], run', journal')
  PROVE  FramesInOrder'
BY DEF FramesInOrder, Exchange

(* The answer to a resumption.                                             *)
LEMMA ResumedInOrder ==
  ASSUME ExecInv, FramesInOrder, run.sock \in Sockets, down[run.sock] # << >>,
         GetResumed(Head(down[run.sock]))
  PROVE  FramesInOrder'
<1> DEFINE s == run.sock
           h == hand[s]
           q == down[s]
           u == up[s]
           q2 == down'[s]
           u2 == up'[s]
           r == run
           j == journal
           r2 == run'
           j2 == journal'
           f == Head(q)
           g == Frame("claim", f.lease, "none")
<1>1. /\ q \in Seq(DownFrames) /\ u \in Seq(UpFrames) /\ None \notin Leases
      /\ BusyWith(h, q, r, j) /\ OfferFollows(q, r, j) /\ OneToken(q, u, r, j)
      /\ AcksInOrder(q, u, r, j)
  BY OnConnection
<1>2. FrameTypes /\ RunnerTypes
  BY OnConnection
<1>3. /\ r.at = "hello" /\ r2.sock = s /\ r2.at = "serving" /\ r2.offer = r.offer
      /\ r2.deferred = r.deferred /\ r2.last = r.last
      /\ r2.resumed = IF f.end = "await" THEN f.lease ELSE None
      /\ Gets("resumed", f) /\ hand' = hand
      /\ f.end = "await" => ToDaemon(<<g>>) /\ f.lease \in Leases /\ j2 = j
      /\ f.end # "await" => j2 = Empty /\ up' = up
  BY <1>2, GetResumedDoes
<1>4. f.kind = "resumed" /\ q2 = Tail(q) /\ q # << >>
  BY <1>2, <1>3, GetsDoes
<1>5. f = q[1] /\ 1 \in DOMAIN q
  BY <1>1, <1>4, TailOf
<1>6. /\ r.last = None /\ r.offer = None /\ r.deferred = None /\ u = << >>
      /\ f.lease = j.lease
      /\ f.end = "await" => j.lease # None /\ j.phase \in {"waiting", "received"}
  BY <1>3, <1>4, <1>5, OfferAlone
<1>7. f.end = "await" => g \in UpFrames /\ g.kind = "claim" /\ g.lease = f.lease
  BY <1>3, FramesTyped, FrameFields
<1>8. /\ u2 = u \/ (f.end = "await" /\ u2 = u \o <<g>>)
      /\ u2 \in Seq(UpFrames)
      /\ Keeps(u, u2, Evidence)
      /\ f.end # "await" => u2 = u
  <2>1. CASE f.end = "await"
    <3>1. g.kind \notin Evidence
      BY <1>7, <2>1 DEF Evidence
    <3> HIDE DEF g
    <3> QED BY <1>2, <1>3, <1>7, <2>1, <3>1, UpSent
  <2>2. CASE f.end # "await"
    BY <1>1, <1>3, <2>2, KeepsSame
  <2> QED BY <2>1, <2>2
<1>9. Empty.lease = None /\ Empty.phase = "none"
  BY TypedValues
<1> HIDE DEF h, q, u, q2, u2, r, j, r2, j2, f, g
<1>10. \A l \in Holds(r2, j2) : f.end = "await" /\ l = j.lease
  BY <1>3, <1>6, <1>9 DEF Holds
<1>11. BusyWith(h, q2, r2, j2)
  <2>1. r2.at # "hello" /\ r2.last = r.last
    BY <1>3
  <2>2. \A l \in Holds(r2, j2) : Head(q).end = "await" /\ l = j.lease
    BY <1>10 DEF f
  <2>3. Head(q).kind = "resumed"
    BY <1>4 DEF f
  <2> QED BY <1>1, <1>3, <1>4, <2>1, <2>2, <2>3, BusyResumed
<1>12. OfferFollows(q2, r2, j2)
  <2>1. Head(q).end # "await" => \A l \in Holds(r2, j2) : FALSE
    BY <1>10 DEF f
  <2>2. r2.at # "hello" /\ Head(q).kind = "resumed"
    BY <1>3, <1>4 DEF f
  <2> QED BY <1>1, <1>3, <1>4, <2>1, <2>2, FollowsResumed
<1>13. OneToken(q2, u2, r2, j2)
  <2>1. TokenFree(q, u)
    BY <1>1, <1>3 DEF OneToken, Idle
  <2>2. Within(q, q2, Answer) /\ Within(u, u, {"claim"})
    BY <1>1, <1>4, WithinTail, KeepsSame, KeepsWithin
  <2>3. CASE f.end = "await"
    <3>1. ~Idle(r2, j2) /\ r2.resumed = j2.lease /\ r2.deferred = None
      BY <1>3, <1>6, <2>3 DEF Idle
    <3>2. g \in UpFrames /\ g.lease \in {r2.offer, r2.resumed} /\ (u2 = u \/ u2 = u \o <<g>>)
      BY <1>3, <1>7, <1>8, <2>3
    <3> QED BY <1>1, <1>8, <2>1, <2>2, <3>1, <3>2, ClaimSent
  <2>4. CASE f.end # "await"
    BY <1>3, <1>6, <1>8, <1>9, <2>1, <2>2, <2>4, TokensFree
  <2> QED BY <2>3, <2>4
<1>14. AcksInOrder(q2, u2, r2, j2)
  <2>1. \A i \in DOMAIN q2 : q2[i].kind \notin Acks
    BY <1>1, <1>3, <1>4, WithinTail, WithinSome DEF OfferFollows
  <2>2. \A i \in DOMAIN u2 : u2[i].kind \notin Evidence
    <3>1. DOMAIN u = {}
      BY <1>6
    <3> QED BY <1>8, <3>1, KeepsWithin, WithinSome
  <2>3. r2.last \notin Holds(r2, j2)
    BY <1>3, <1>6 DEF Holds
  <2> QED BY <2>1, <2>2, <2>3, AcksNone
<1> QED BY <1>3, <1>11, <1>12, <1>13, <1>14, OnConnectionNext DEF h, q2, u2, r2, j2

(* An offer, refused or admitted.                                          *)
LEMMA OfferInOrder ==
  ASSUME ExecInv, FramesInOrder, run.sock \in Sockets, down[run.sock] # << >>,
         GetOffer(Head(down[run.sock]))
  PROVE  FramesInOrder'
<1> DEFINE s == run.sock
           h == hand[s]
           q == down[s]
           u == up[s]
           q2 == down'[s]
           u2 == up'[s]
           r == run
           j == journal
           r2 == run'
           j2 == journal'
           l == Head(q).lease
           gr == Frame("refusal", l, "none")
           gc == Frame("claim", l, "none")
<1>1. /\ q \in Seq(DownFrames) /\ u \in Seq(UpFrames) /\ None \notin Leases
      /\ BusyWith(h, q, r, j) /\ OfferFollows(q, r, j) /\ OneToken(q, u, r, j)
      /\ AcksInOrder(q, u, r, j)
  BY OnConnection
<1>2. FrameTypes /\ RunnerTypes /\ JournalTells /\ OfferedOnce
  BY OnConnection
<1>3. /\ r.at = "serving" /\ l \in Leases /\ Gets("offer", Head(q))
      /\ r.offer = None /\ j = Empty /\ hand' = hand
      /\ \/ /\ j2.lease = l /\ j2.phase = "refused" /\ j2.end = "none"
            /\ ToDaemon(<<gr>>) /\ r2 = r
         \/ /\ r2.sock = s /\ r2.at = r.at /\ r2.offer = l /\ r2.claimed = r.scanned
            /\ r2.deferred = r.deferred /\ r2.resumed = r.resumed
            /\ r2.last = r.last /\ r2.scanned = r.scanned
            /\ IF r.scanned THEN ToDaemon(<<gc>>) ELSE up' = up
            /\ j2 = j
  BY <1>2, GetOfferDoes
<1>4. q # << >> /\ Head(q).kind = "offer" /\ q2 = Tail(q)
  BY <1>2, <1>3, GetsDoes
<1>5. Head(q) = q[1] /\ 1 \in DOMAIN q /\ q2 \in Seq(DownFrames)
  BY <1>1, <1>4, TailOf
<1>6. /\ r.last # l
      /\ \A i \in DOMAIN q : ~AckAt(q, i, l)
      /\ \A i \in DOMAIN u : ~ProofAt(u, i, l)
  <2>1. Has(q, "offer", l)
    BY <1>4, <1>5 DEF Has
  <2>2. Untouched(l)
    BY <1>2, <1>3, <2>1 DEF OfferedOnce
  <2> QED BY <2>2 DEF Untouched, AckAt, ProofAt, Acks
<1>7. j.lease = None /\ j.phase = "none" /\ j.end = "none"
  BY <1>3, TypedValues
<1>8. r.resumed = None
  BY <1>2, <1>7 DEF JournalTells
<1>9. /\ gr \in UpFrames /\ gr.kind = "refusal" /\ gr.lease = l
      /\ gc \in UpFrames /\ gc.kind = "claim" /\ gc.lease = l
  BY <1>3, FramesTyped, FrameFields
<1> HIDE DEF gr, gc
<1>10. ASSUME NEW g \in UpFrames, ToDaemon(<<g>>)
       PROVE  /\ u2 = u \/ u2 = u \o <<g>>
              /\ u2 \in Seq(UpFrames)
              /\ \A K : g.kind \notin K => Keeps(u, u2, K)
  BY <1>2, <1>10, UpSent
<1> HIDE DEF h, q, u, q2, u2, r, j, r2, j2, l
<1>11. TokenFree(q, u) /\ r.deferred = None
  BY <1>1, <1>3, <1>8 DEF OneToken, Idle
<1>12. r2.sock = s /\ r2.at = "serving" /\ r2.last = r.last /\ r2.deferred = None
  BY <1>3, <1>11 DEF r, r2
<1>13. \A m \in Holds(r2, j2) : m = l
  BY <1>3, <1>7 DEF Holds
<1>14. BusyWith(h, q2, r2, j2)
  <2>1. \A m \in Holds(r2, j2) : Head(q).kind = "offer" /\ m = Head(q).lease
    BY <1>4, <1>13 DEF l
  <2>2. r.at # "hello" /\ r2.at # "hello"
    BY <1>3, <1>12
  <2> QED BY <1>1, <1>4, <1>12, <2>1, <2>2, BusyRead
<1>15. OfferFollows(q2, r2, j2)
  <2>1. r.at # "hello" /\ r2.at # "hello"
    BY <1>3, <1>12
  <2> QED BY <1>1, <1>4, <2>1, FollowsRead
<1>16. r2.last \notin Holds(r2, j2)
  BY <1>6, <1>12, <1>13
<1>17. /\ Within(q, q2, Answer) /\ Within(q, q2, Acks)
       /\ Within(u, u, {"claim"}) /\ Within(u, u, Evidence)
  BY <1>1, <1>4, WithinTail, KeepsSame, KeepsWithin
<1>18. CASE j2.lease = l /\ j2.phase = "refused" /\ j2.end = "none" /\ ToDaemon(<<gr>>) /\ r2 = r
  <2>1. Within(u, u2, {"claim"})
    BY <1>9, <1>10, <1>18, KeepsWithin
  <2>2. OneToken(q2, u2, r2, j2)
    BY <1>11, <1>12, <1>17, <1>18, <2>1, TokensFree
  <2>3. \A m \in Leases : Retains(r, j, m) => Retains(r2, j2, m)
    BY <1>1, <1>7, <1>12 DEF Retains
  <2>4. AcksInOrder(q2, u, r2, j2)
    BY <1>1, <1>5, <1>6, <1>12, <1>16, <1>17, <1>18, <2>3, AcksKept
  <2>5. AcksInOrder(q2, u2, r2, j2)
    <3>1. u2 = u \/ u2 = u \o <<gr>>
      BY <1>9, <1>10, <1>18
    <3>2. gr.kind \in Evidence /\ r2.last # j2.lease /\ gr.lease = j2.lease
      BY <1>6, <1>9, <1>12, <1>18 DEF Evidence
    <3>3. AcksInOrder(q2, u \o <<gr>>, r2, j2)
      BY <1>1, <1>5, <1>9, <1>18, <2>4, <3>2, EvidenceSent
    <3> QED BY <2>4, <3>1, <3>3
  <2> QED BY <1>3, <1>12, <1>14, <1>15, <2>2, <2>5, OnConnectionNext DEF h, q2, u2, r2, j2
<1>19. CASE /\ r2.offer = l /\ r2.claimed = r.scanned /\ r2.resumed = r.resumed
            /\ IF r.scanned THEN ToDaemon(<<gc>>) ELSE up' = up
            /\ j2 = j
  <2>1. u2 = u \/ (r.scanned /\ u2 = u \o <<gc>>)
    BY <1>9, <1>10, <1>19 DEF u, u2
  <2>2. u2 \in Seq(UpFrames)
    <3>1. u \o <<gc>> \in Seq(UpFrames)
      BY <1>1, <1>9, SendOne
    <3> QED BY <1>1, <2>1, <3>1
  <2>3. OneToken(q2, u2, r2, j2)
    <3>1. j2.phase # "received"
      BY <1>7, <1>19
    <3>2. CASE r.scanned
      <4>1. ~Idle(r2, j2)
        BY <1>1, <1>3, <1>7, <1>12, <1>19, <3>2 DEF Idle
      <4>2. gc.lease \in {r2.offer, r2.resumed}
        BY <1>9, <1>19
      <4> QED BY <1>1, <1>9, <1>11, <1>12, <1>17, <2>1, <2>2, <3>1, <4>1, <4>2, ClaimSent
    <3>3. CASE ~r.scanned
      BY <1>11, <1>12, <1>17, <2>1, <3>1, <3>3, TokensFree
    <3> QED BY <3>2, <3>3
  <2>4. Within(u, u2, Evidence)
    <3>1. gc.kind \notin Evidence
      BY <1>9 DEF Evidence
    <3>2. Within(u, u \o <<gc>>, Evidence)
      BY <1>1, <1>9, <3>1, KeepsSent, KeepsWithin
    <3> QED BY <1>17, <2>1, <3>2
  <2>5. \A m \in Leases : Retains(r, j, m) => Retains(r2, j2, m)
    BY <1>12, <1>19 DEF Retains
  <2>6. AcksInOrder(q2, u2, r2, j2)
    BY <1>1, <1>5, <1>12, <1>16, <1>17, <1>19, <2>2, <2>4, <2>5, AcksKept
  <2> QED BY <1>3, <1>12, <1>14, <1>15, <2>3, <2>6, OnConnectionNext DEF h, q2, u2, r2, j2
<1> QED BY <1>3, <1>18, <1>19

(* The answer to a claim.                                                  *)
LEMMA ClaimedInOrder ==
  ASSUME ExecInv, FramesInOrder, run.sock \in Sockets, down[run.sock] # << >>,
         GetClaimed(Head(down[run.sock]))
  PROVE  FramesInOrder'
<1> DEFINE s == run.sock
           h == hand[s]
           q == down[s]
           u == up[s]
           q2 == down'[s]
           u2 == up'[s]
           r == run
           j == journal
           r2 == run'
           j2 == journal'
           l == Head(q).lease
<1>1. /\ q \in Seq(DownFrames) /\ u \in Seq(UpFrames) /\ None \notin Leases
      /\ BusyWith(h, q, r, j) /\ OfferFollows(q, r, j) /\ OneToken(q, u, r, j)
      /\ AcksInOrder(q, u, r, j)
  BY OnConnection
<1>2. FrameTypes /\ RunnerTypes /\ JournalTells /\ OfferStage
  BY OnConnection
<1>3. Head(q).kind = "claimed" /\ r.at = "serving"
  BY DEF GetClaimed, Gets
<1>4. Head(q) = q[1] /\ 1 \in DOMAIN q
  BY <1>1, TailOf
<1>5. ~Idle(r, j)
  BY <1>1, <1>3, <1>4 DEF OneToken, TokenFree, Some
<1>6. run.exec = None
  BY <1>2, <1>5 DEF RunnerTypes, Idle
<1>7. /\ l \in Leases /\ Gets("claimed", Head(q)) /\ (r.resumed = l \/ r.offer = l)
      /\ IF r.resumed = l THEN j2 = j
         ELSE j2.lease = l /\ j2.phase = "waiting" /\ j2.end = "none"
      /\ hand' = hand /\ r2 = r /\ up' = up
  BY <1>2, <1>6, GetClaimedDoes
<1>8. q # << >> /\ q2 = Tail(q) /\ q2 \in Seq(DownFrames) /\ u2 = u
  BY <1>1, <1>2, <1>7, GetsDoes, TailOf
<1>9. r.resumed # l => j = Empty /\ j.lease = None /\ j.phase = "none" /\ j.end = "none"
  <2>1. r.resumed # l => Has(q, "claimed", l) /\ r.offer = l /\ r.offer # None
    BY <1>1, <1>3, <1>4, <1>7 DEF Has
  <2>2. r.resumed # l => j = Empty
    BY <1>2, <2>1 DEF OfferStage
  <2> QED BY <2>2, TypedValues
<1>10. r.resumed = l => j.lease = l /\ j.phase \in {"waiting", "received"}
  BY <1>1, <1>2, <1>3, <1>7 DEF JournalTells
<1> HIDE DEF h, q, u, q2, u2, r, j, r2, j2, l
<1>11. ~AckAt(q, 1, l) /\ \A m : ~AckAt(q, 1, m)
  BY <1>3, <1>4 DEF AckAt, Acks
<1>12. \A m \in Holds(r2, j2) : m \in Holds(r, j)
  BY <1>1, <1>7 DEF Holds
<1>13. BusyWith(h, q2, r2, j2) /\ OfferFollows(q2, r2, j2)
  <2>1. r.at # "hello" /\ r2.at # "hello" /\ r2.last = r.last
    BY <1>3, <1>7
  <2>2. \A m \in Holds(r2, j2) : m \in Holds(r, j) /\ ~AckAt(q, 1, m)
    BY <1>11, <1>12
  <2>3. BusyWith(h, Tail(q), r2, j2)
    BY <1>1, <1>8, <2>1, <2>2, BusyRead
  <2>4. OfferFollows(Tail(q), r2, j2)
    BY <1>1, <1>8, <2>1, <2>2, FollowsRead
  <2> QED BY <1>8, <2>3, <2>4
<1>14. OneToken(q2, u2, r2, j2)
  <2>1. /\ j2.lease \in {r.offer, r.resumed} /\ j2.phase \in {"waiting", "received"}
        /\ j2.phase = "received" => r.resumed = j2.lease
    BY <1>7, <1>10
  <2> QED BY <1>1, <1>3, <1>7, <1>8, <2>1, ClaimedTaken
<1>15. AcksInOrder(q2, u2, r2, j2)
  <2>1. r2.last = r.last /\ r2.last \notin Holds(r2, j2)
    BY <1>1, <1>7, <1>12 DEF AcksInOrder
  <2>2. \A m \in Leases : Retains(r, j, m) => Retains(r2, j2, m)
    BY <1>1, <1>7, <1>9 DEF Retains
  <2>3. \/ j2.lease = j.lease
        \/ /\ \A i \in DOMAIN q : ~AckAt(q, i, j2.lease)
           /\ \A i \in DOMAIN u : ~ProofAt(u, i, j2.lease)
    <3>1. CASE r.resumed = l
      BY <1>7, <3>1
    <3>2. CASE r.resumed # l
      <4>1. r.last # l
        BY <1>1, <1>7, <3>2 DEF AcksInOrder, Holds
      <4>2. ~Retains(r, j, l) /\ j2.lease = l
        BY <1>1, <1>7, <1>9, <3>2, <4>1 DEF Retains
      <4> QED BY <1>1, <4>2 DEF AcksInOrder, AckAt, ProofAt
    <3> QED BY <3>1, <3>2
  <2>4. Within(q, q2, Acks) /\ Within(u, u2, Evidence)
    BY <1>1, <1>8, WithinTail, KeepsSame, KeepsWithin
  <2> QED BY <1>1, <1>8, <2>1, <2>2, <2>3, <2>4, AcksKept
<1> QED
  <2>1. run'.sock = run.sock
    BY <1>7 DEF r, r2
  <2> QED BY <1>7, <1>13, <1>14, <1>15, <2>1, OnConnectionNext DEF h, q2, u2, r2, j2

(* A dispatch, taken or deferred.                                          *)
LEMMA DispatchInOrder ==
  ASSUME ExecInv, FramesInOrder, run.sock \in Sockets, down[run.sock] # << >>,
         GetDispatch(Head(down[run.sock]))
  PROVE  FramesInOrder'
<1> DEFINE s == run.sock
           h == hand[s]
           q == down[s]
           u == up[s]
           q2 == down'[s]
           u2 == up'[s]
           r == run
           j == journal
           r2 == run'
           j2 == journal'
           l == Head(q).lease
<1>1. /\ q \in Seq(DownFrames) /\ u \in Seq(UpFrames) /\ None \notin Leases
      /\ BusyWith(h, q, r, j) /\ OfferFollows(q, r, j) /\ OneToken(q, u, r, j)
      /\ AcksInOrder(q, u, r, j)
  BY OnConnection
<1>2. FrameTypes /\ RunnerTypes
  BY OnConnection
<1>3. /\ r.at = "serving" /\ l \in Leases /\ Gets("dispatch", Head(q)) /\ hand' = hand /\ up' = up
      /\ \/ Dispatches(l)
         \/ /\ ~r.scanned /\ j2 = j
            /\ r2.sock = r.sock /\ r2.at = r.at /\ r2.offer = r.offer
            /\ r2.claimed = r.claimed /\ r2.resumed = r.resumed
            /\ r2.last = r.last /\ r2.scanned = r.scanned
  BY <1>2, GetDispatchDoes
<1>4. q # << >> /\ Head(q).kind = "dispatch" /\ q2 = Tail(q) /\ q2 \in Seq(DownFrames) /\ u2 = u
  BY <1>1, <1>2, <1>3, GetsDoes, TailOf
<1>5. Head(q) = q[1] /\ 1 \in DOMAIN q
  BY <1>1, <1>4, TailOf
<1>6. \/ /\ j2.lease = j.lease /\ j.end = "none" /\ j.phase \in {"waiting", "received"}
         /\ r2.sock = r.sock /\ r2.at = "dispatching" /\ r2.offer = r.offer
         /\ r2.last = r.last /\ r2.deferred = None
      \/ /\ ~r.scanned /\ j2 = j
         /\ r2.sock = r.sock /\ r2.at = "serving" /\ r2.offer = r.offer
         /\ r2.claimed = r.claimed /\ r2.resumed = r.resumed
         /\ r2.last = r.last /\ r2.scanned = r.scanned
  BY <1>2, <1>3, DispatchesDoes
<1> HIDE DEF h, q, u, q2, u2, r, j, r2, j2, l
<1>7. TokenFree(q2, u2) /\ ~Idle(r, j)
  BY <1>1, <1>4, DispatchLast
<1>8. /\ r2.sock = r.sock /\ r.at # "hello" /\ r2.at # "hello" /\ r2.last = r.last
      /\ \A m \in Holds(r2, j2) : m \in Holds(r, j)
  BY <1>3, <1>6 DEF Holds
<1>9. \A m : ~AckAt(q, 1, m)
  BY <1>4, <1>5 DEF AckAt, Acks
<1>10. BusyWith(h, q2, r2, j2)
  BY <1>1, <1>4, <1>8, <1>9, BusyRead
<1>11. OfferFollows(q2, r2, j2)
  BY <1>1, <1>4, <1>8, <1>9, FollowsRead
<1>12. OneToken(q2, u2, r2, j2)
  <2>1. CASE r2.at = "dispatching" /\ r2.deferred = None
    <3>1. Within(q2, q2, Answer) /\ Within(u2, u2, {"claim"})
      BY <1>1, <1>4, KeepsSame, KeepsWithin
    <3> QED BY <1>7, <2>1, <3>1, TokensFree
  <2>2. CASE /\ ~r.scanned /\ j2 = j /\ r2.at = "serving" /\ r2.offer = r.offer
             /\ r2.claimed = r.claimed /\ r2.resumed = r.resumed /\ r2.scanned = r.scanned
    <3>1. r.at = "serving" /\ j.phase = "received" => r.resumed = j.lease
      BY <1>1 DEF OneToken
    <3> QED BY <1>3, <1>7, <2>2, <3>1, DispatchDeferred
  <2> QED BY <1>6, <2>1, <2>2
<1>13. AcksInOrder(q2, u2, r2, j2)
  <2>1. r2.last \notin Holds(r2, j2)
    BY <1>1, <1>8 DEF AcksInOrder
  <2>2. \A m \in Leases : Retains(r, j, m) => Retains(r2, j2, m)
    BY <1>6, <1>8 DEF Retains
  <2>3. j2.lease = j.lease
    BY <1>6
  <2>4. Within(q, q2, Acks) /\ Within(u, u2, Evidence)
    BY <1>1, <1>4, WithinTail, KeepsSame, KeepsWithin
  <2> QED BY <1>1, <1>4, <1>8, <2>1, <2>2, <2>3, <2>4, AcksKept
<1> QED
  <2>1. run'.sock = run.sock
    BY <1>8 DEF r, r2
  <2> QED BY <1>3, <1>10, <1>11, <1>12, <1>13, <2>1, OnConnectionNext DEF h, q2, u2, r2, j2

(* The answer to evidence, the first time and again.                       *)
LEMMA RecordedInOrder ==
  ASSUME ExecInv, FramesInOrder, run.sock \in Sockets, down[run.sock] # << >>,
         NEW kind \in Acks, GetRecorded(kind, Head(down[run.sock]))
  PROVE  FramesInOrder'
<1> DEFINE s == run.sock
           h == hand[s]
           q == down[s]
           u == up[s]
           q2 == down'[s]
           u2 == up'[s]
           r == run
           j == journal
           r2 == run'
           j2 == journal'
           l == Head(q).lease
<1>1. /\ q \in Seq(DownFrames) /\ u \in Seq(UpFrames) /\ None \notin Leases
      /\ BusyWith(h, q, r, j) /\ OfferFollows(q, r, j) /\ OneToken(q, u, r, j)
      /\ AcksInOrder(q, u, r, j)
  BY OnConnection
<1>2. FrameTypes /\ RunnerTypes /\ OfferStage /\ RefusalStands /\ j \in Inventories
  BY OnConnection
<1>3. run.exec # None => journal.end = "none"
  BY OnConnection DEF JournalTells
<1>4. /\ r.at = "serving" /\ l \in Leases /\ Gets(kind, Head(q)) /\ hand' = hand /\ up' = up
      /\ \/ r.last = l /\ j2 = j /\ r2 = r
         \/ /\ r.last # l /\ j2 = Empty
            /\ j.lease = l /\ (j.end # "none" \/ j.phase = "refused")
            /\ r2.sock = r.sock /\ r2.at = r.at
            /\ r2.offer = IF kind = "recorded" THEN None ELSE r.offer
            /\ r2.deferred = r.deferred /\ r2.last = l
  BY <1>2, <1>3, GetRecordedDoes
<1>5. q # << >> /\ Head(q).kind = kind /\ q2 = Tail(q) /\ q2 \in Seq(DownFrames) /\ u2 = u
  BY <1>1, <1>2, <1>4, GetsDoes, TailOf
<1>6. Head(q) = q[1] /\ 1 \in DOMAIN q
  BY <1>1, <1>5, TailOf
<1>7. kind \in {"recorded", "refusal_recorded"}
  BY DEF Acks
<1>8. kind = "refusal_recorded" /\ j.lease = l => r.offer = None
  <2>1. SUFFICES ASSUME kind = "refusal_recorded", j.lease = l, r.offer # None PROVE FALSE
    OBVIOUS
  <2>2. j # Empty
    BY <1>1, <1>4, <2>1, TypedValues
  <2>3. r.offer = l
    BY <1>2, <2>1, <2>2 DEF OfferStage
  <2>4. Has(q, "refusal_recorded", l)
    BY <1>5, <1>6, <2>1 DEF Has
  <2>5. Refused(l) /\ Admitted(l)
    BY <2>3, <2>4 DEF Refused, Admitted
  <2> QED BY <1>2, <1>4, <2>5 DEF RefusalStands
<1>9. Empty.lease = None /\ Empty.phase = "none"
  BY TypedValues
<1>10. j.end # "none" => j.phase = "may_have_started"
  BY <1>2 DEF Inventories
<1> HIDE DEF h, q, u, q2, u2, r, j, r2, j2, l
<1>11. AckAt(q, 1, l)
  BY <1>5, <1>6 DEF AckAt, l
<1>12. r2.sock = r.sock /\ r.at # "hello" /\ r2.at # "hello" /\ r2.last = l
  BY <1>4
<1>13. \A m \in Holds(r2, j2) : m \in Holds(r, j) /\ m # l
  <2>1. CASE r.last = l /\ j2 = j /\ r2 = r
    BY <1>1, <2>1 DEF AcksInOrder
  <2>2. CASE r.last # l /\ j2 = Empty /\ j.lease = l /\ r2.offer = IF kind = "recorded" THEN None ELSE r.offer
    BY <1>7, <1>8, <1>9, <2>2 DEF Holds
  <2> QED BY <1>4, <2>1, <2>2
<1>14. \A m \in Holds(r2, j2) : m \in Holds(r, j) /\ ~AckAt(q, 1, m)
  BY <1>6, <1>13 DEF AckAt, l
<1>15. BusyWith(h, q2, r2, j2)
  BY <1>1, <1>5, <1>11, <1>12, <1>14, BusyRead
<1>16. OfferFollows(q2, r2, j2)
  BY <1>1, <1>5, <1>12, <1>14, FollowsRead
<1>17. /\ Within(q, q2, Acks) /\ Within(q, q2, Answer)
       /\ Within(u, u2, Evidence) /\ Within(u, u2, {"claim"})
  BY <1>1, <1>5, WithinTail, KeepsSame, KeepsWithin
<1>18. r2.last \notin Holds(r2, j2)
  BY <1>12, <1>13
<1>19. OneToken(q2, u2, r2, j2) /\ AcksInOrder(q2, u2, r2, j2)
  <2>1. CASE r.last = l /\ j2 = j /\ r2 = r
    <3>1. Head(q).kind \notin Answer
      BY <1>5, <1>7 DEF Answer
    <3>2. Keeps(q, q2, Answer)
      BY <1>1, <1>5, <3>1, KeepsTail
    <3>3. OneToken(q2, u2, r2, j2)
      BY <1>1, <1>5, <1>17, <2>1, <3>2, TokensKept
    <3>4. AcksInOrder(q2, u2, r2, j2)
      BY <1>1, <1>5, <1>17, <2>1, AcksRest
    <3> QED BY <3>3, <3>4
  <2>2. CASE /\ j2 = Empty /\ j.lease = l /\ (j.end # "none" \/ j.phase = "refused")
             /\ r2.deferred = r.deferred
    <3>1. TokenFree(q, u) /\ r.deferred = None
      BY <1>1, <1>10, <2>2 DEF OneToken, Idle
    <3>2. OneToken(q2, u2, r2, j2)
      BY <1>9, <1>17, <2>2, <3>1, TokensFree
    <3>3. Head(q).kind \in Acks /\ j.lease = Head(q).lease /\ r2.last = Head(q).lease
      BY <1>5, <1>12, <2>2 DEF l
    <3>4. AcksInOrder(q2, u2, r2, j2)
      BY <1>1, <1>5, <1>9, <1>18, <2>2, <3>3, AckTaken
    <3> QED BY <3>2, <3>4
  <2> QED BY <1>4, <2>1, <2>2
<1> QED
  <2>1. run'.sock = run.sock
    BY <1>12 DEF r, r2
  <2> QED BY <1>4, <1>15, <1>16, <1>19, <2>1, OnConnectionNext DEF h, q2, u2, r2, j2

(* A step of the runner that reads nothing and goes on with its lease.     *)
LEMMA LocalInOrder ==
  ASSUME ExecInv, FramesInOrder, run.sock \in Sockets, hand' = hand, down' = down,
         run'.sock = run.sock, run.at # "hello", run'.at # "hello",
         run'.last = run.last, run'.offer = run.offer, journal'.lease = journal.lease,
         \A l \in Leases : Retains(run, journal, l) => Retains(run', journal', l),
         OneToken(down[run.sock], up'[run.sock], run', journal'),
         up'[run.sock] \in Seq(UpFrames),
         \/ Within(up[run.sock], up'[run.sock], Evidence)
         \/ \E f \in UpFrames :
              /\ up'[run.sock] = up[run.sock] \o <<f>>
              /\ f.kind \in Evidence /\ f.lease = journal.lease /\ journal.lease # None
              /\ journal'.end # "none" \/ journal'.phase = "refused"
  PROVE  FramesInOrder'
<1> DEFINE s == run.sock
           h == hand[s]
           q == down[s]
           u == up[s]
           u2 == up'[s]
           r == run
           j == journal
           r2 == run'
           j2 == journal'
<1>1. /\ q \in Seq(DownFrames) /\ u \in Seq(UpFrames)
      /\ BusyWith(h, q, r, j) /\ OfferFollows(q, r, j) /\ AcksInOrder(q, u, r, j)
  BY OnConnection
<1>2. \A l \in Holds(r2, j2) : l \in Holds(r, j)
  BY DEF Holds
<1>3. BusyWith(h, q, r2, j2)
  BY <1>1, <1>2, BusySame
<1>4. OfferFollows(q, r2, j2)
  BY <1>1, <1>2, FollowsSame
<1>5. r2.last = r.last /\ r2.last \notin Holds(r2, j2)
  BY <1>1, <1>2 DEF AcksInOrder
<1>6. Within(q, q, Acks) /\ Within(u, u, Evidence)
  BY <1>1, KeepsSame, KeepsWithin
<1>7. AcksInOrder(q, u2, r2, j2)
  <2>1. CASE Within(u, u2, Evidence)
    BY <1>1, <1>5, <1>6, <2>1, AcksKept
  <2>2. CASE \E f \in UpFrames :
               /\ up'[run.sock] = up[run.sock] \o <<f>>
               /\ f.kind \in Evidence /\ f.lease = journal.lease /\ journal.lease # None
               /\ journal'.end # "none" \/ journal'.phase = "refused"
    <3>1. PICK f \in UpFrames : /\ u2 = u \o <<f>> /\ f.kind \in Evidence /\ f.lease = j.lease
                                /\ j.lease # None /\ (j2.end # "none" \/ j2.phase = "refused")
      BY <2>2
    <3>2. r2.last # j2.lease /\ f.lease = j2.lease
      BY <1>5, <3>1 DEF Holds
    <3>3. AcksInOrder(q, u, r2, j2)
      BY <1>1, <1>5, <1>6, AcksKept
    <3> HIDE DEF q, u, u2, r2, j2
    <3> QED BY <1>1, <3>1, <3>2, <3>3, EvidenceSent
  <2> QED BY <2>1, <2>2
<1>8. q = down'[run.sock]
  OBVIOUS
<1> HIDE DEF q
<1> QED BY <1>3, <1>4, <1>7, <1>8, OnConnectionNext

(* The startup scan ends.                                                  *)
LEMMA ScanInOrder ==
  ASSUME ExecInv, FramesInOrder, ScanDone
  PROVE  FramesInOrder'
<1> DEFINE s == run.sock
           q == down[s]
           u == up[s]
           u2 == up'[s]
           r == run
           j == journal
           r2 == run'
           j2 == journal'
           g == Frame("claim", run.offer, "none")
<1>1. FrameTypes /\ RunnerTypes /\ JournalTells
  BY DEF ExecInv, LeaseInv
<1>2. /\ r.at = "serving" /\ s \in Sockets /\ ~r.scanned /\ hand' = hand /\ down' = down
      /\ \/ r.deferred \in Leases /\ Dispatches(r.deferred) /\ up' = up
         \/ /\ r.deferred = None /\ j2 = j
            /\ r2.sock = r.sock /\ r2.at = r.at /\ r2.offer = r.offer
            /\ r2.deferred = r.deferred /\ r2.resumed = r.resumed /\ r2.last = r.last
            /\ IF r.offer # None /\ ~r.claimed /\ j = Empty
               THEN r2.claimed = TRUE /\ r.offer \in Leases /\ ToDaemon(<<g>>)
               ELSE r2.claimed = r.claimed /\ up' = up
  BY <1>1, ScanDoneDoes
<1>3. /\ q \in Seq(DownFrames) /\ u \in Seq(UpFrames) /\ OneToken(q, u, r, j) /\ None \notin Leases
  BY <1>2, OnConnection
<1>4. /\ Within(q, q, Answer) /\ Within(u, u, {"claim"}) /\ Within(u, u, Evidence)
      /\ Keeps(q, q, Answer)
  BY <1>3, KeepsSame, KeepsWithin
<1>5. CASE r.deferred \in Leases /\ Dispatches(r.deferred) /\ up' = up
  <2>1. /\ j2.lease = j.lease /\ j.end = "none" /\ j.phase \in {"waiting", "received"}
        /\ r2.sock = r.sock /\ r2.at = "dispatching" /\ r2.offer = r.offer
        /\ r2.last = r.last /\ r2.deferred = None
    BY <1>1, <1>2, <1>5, DispatchesDoes
  <2>2. TokenFree(q, u)
    BY <1>3, <1>5 DEF OneToken
  <2>3. OneToken(q, u, r2, j2)
    <3> HIDE DEF q, u, r2, j2
    <3> QED BY <1>4, <2>1, <2>2, TokensFree
  <2>4. \A l \in Leases : Retains(r, j, l) => Retains(r2, j2, l)
    BY <2>1 DEF Retains
  <2>5. u2 = u
    BY <1>5
  <2> QED BY <1>2, <1>3, <1>4, <2>1, <2>3, <2>4, <2>5, LocalInOrder
<1>6. CASE /\ r.deferred = None /\ j2 = j
           /\ r2.sock = r.sock /\ r2.at = r.at /\ r2.offer = r.offer
           /\ r2.deferred = r.deferred /\ r2.resumed = r.resumed /\ r2.last = r.last
           /\ IF r.offer # None /\ ~r.claimed /\ j = Empty
              THEN r2.claimed = TRUE /\ r.offer \in Leases /\ ToDaemon(<<g>>)
              ELSE r2.claimed = r.claimed /\ up' = up
  <2>1. \A l \in Leases : Retains(r, j, l) => Retains(r2, j2, l)
    BY <1>6 DEF Retains
  <2>2. CASE r.offer # None /\ ~r.claimed /\ j = Empty
    <3>1. g \in UpFrames /\ g.kind = "claim" /\ g.lease = r.offer /\ ToDaemon(<<g>>)
      BY <1>6, <2>2, FramesTyped, FrameFields
    <3> HIDE DEF g
    <3>2. g.kind \notin Evidence
      BY <3>1 DEF Evidence
    <3>3. /\ u2 = u \/ u2 = u \o <<g>>
          /\ u2 \in Seq(UpFrames) /\ Within(u, u2, Evidence)
      BY <1>1, <1>2, <3>1, <3>2, UpSent, KeepsWithin
    <3>4. j.lease = None /\ j.phase = "none"
      BY <2>2, TypedValues
    <3>5. r.resumed = None
      BY <1>1, <3>4 DEF JournalTells
    <3>6. TokenFree(q, u)
      BY <1>3, <2>2, <3>5 DEF OneToken, Idle
    <3>7. ~Idle(r2, j2) /\ g.lease \in {r2.offer, r2.resumed} /\ j2.phase # "received" /\ r2.deferred = None
      BY <1>2, <1>6, <2>2, <3>1, <3>4 DEF Idle
    <3>8. OneToken(q, u2, r2, j2)
      <4> HIDE DEF q, u, u2, r2, j2
      <4> QED BY <1>3, <1>4, <3>1, <3>3, <3>6, <3>7, ClaimSent
    <3> QED BY <1>2, <1>6, <2>1, <3>3, <3>8, LocalInOrder
  <2>3. CASE ~(r.offer # None /\ ~r.claimed /\ j = Empty)
    <3>1. u2 = u
      BY <1>6, <2>3
    <3>2. r2.claimed = r.claimed
      BY <1>6, <2>3
    <3>3. OneToken(q, u, r2, j)
      <4>1. /\ r2.at = r.at /\ r2.offer = r.offer /\ r2.claimed = r.claimed /\ r2.resumed = r.resumed
            /\ r2.deferred = r.deferred /\ r.deferred = None
        BY <1>6, <3>2
      <4> HIDE DEF q, u, r, r2, j
      <4> QED BY <1>3, <1>4, <4>1, TokensKept
    <3>4. OneToken(q, u2, r2, j2)
      BY <1>6, <3>1, <3>3
    <3> QED BY <1>2, <1>3, <1>4, <1>6, <2>1, <3>1, <3>4, LocalInOrder
  <2> QED BY <2>2, <2>3
<1> QED BY <1>2, <1>5, <1>6

(* The two steps of the start of an execution.                             *)
LEMMA StartInOrder ==
  ASSUME ExecInv, FramesInOrder, JournalStart \/ Start
  PROVE  FramesInOrder'
<1> DEFINE s == run.sock
           q == down[s]
           u == up[s]
           r == run
           j == journal
           r2 == run'
           j2 == journal'
<1>1. RunnerTypes /\ JournalTells
  BY DEF ExecInv, LeaseInv
<1>2. JournalStart => journal.end = "none"
  BY <1>1 DEF JournalStart, JournalTells
<1>3. JournalStart =>
      /\ r.at = "dispatching" /\ s \in Sockets
      /\ j2.lease = j.lease /\ j2.phase = "may_have_started"
      /\ j.end = "none" /\ j.phase = "received"
      /\ r2.sock = r.sock /\ r2.at = "starting" /\ r2.offer = r.offer
      /\ r2.deferred = r.deferred /\ r2.last = r.last
      /\ hand' = hand /\ down' = down /\ up' = up
  BY <1>1, <1>2, JournalStartDoes
<1>4. Start =>
      /\ r.at = "starting" /\ s \in Sockets /\ j2 = j /\ j2.phase = "may_have_started"
      /\ r2.sock = r.sock /\ r2.at = "serving" /\ r2.offer = r.offer
      /\ r2.deferred = r.deferred /\ r2.last = r.last
      /\ hand' = hand /\ down' = down /\ up' = up
  BY <1>1, StartDoes
<1>5. s \in Sockets
  BY <1>3, <1>4
<1>6. /\ q \in Seq(DownFrames) /\ u \in Seq(UpFrames) /\ OneToken(q, u, r, j)
  BY <1>5, OnConnection
<1>7. Within(q, q, Answer) /\ Within(u, u, {"claim"}) /\ Within(u, u, Evidence)
  BY <1>6, KeepsSame, KeepsWithin
<1>8. TokenFree(q, u) /\ r2.deferred = None /\ j2.phase # "received"
  BY <1>3, <1>4, <1>6 DEF OneToken, Idle
<1>9. OneToken(q, u, r2, j2)
  <2> HIDE DEF q, u, r2, j2
  <2> QED BY <1>7, <1>8, TokensFree
<1>10. \A l \in Leases : Retains(r, j, l) => Retains(r2, j2, l)
  BY <1>3, <1>4 DEF Retains
<1>11. up'[s] = u
  BY <1>3, <1>4
<1>12. /\ hand' = hand /\ down' = down /\ r2.sock = r.sock /\ r.at # "hello" /\ r2.at # "hello"
       /\ r2.last = r.last /\ r2.offer = r.offer /\ j2.lease = j.lease
  BY <1>3, <1>4
<1> QED BY <1>5, <1>6, <1>7, <1>9, <1>10, <1>11, <1>12, LocalInOrder

(* The result of an execution, and evidence that is sent again.            *)
LEMMA EvidenceInOrder ==
  ASSUME ExecInv, FramesInOrder, Resend \/ \E e \in Ends : Finish(e)
  PROVE  FramesInOrder'
<1> DEFINE s == run.sock
           q == down[s]
           u == up[s]
           u2 == up'[s]
           r == run
           j == journal
           r2 == run'
           j2 == journal'
<1>1. FrameTypes /\ RunnerTypes /\ JournalTells
  BY DEF ExecInv, LeaseInv
<1>2. ASSUME r.at = "serving", s \in Sockets, hand' = hand, down' = down, r2.sock = r.sock,
             r2.at = r.at, r2.last = r.last, r2.offer = r.offer, r2.deferred = r.deferred,
             j2.lease = j.lease, j.lease \in Leases, j2.phase = j.phase,
             j.end # "none" => j2.end # "none",
             j2.end # "none" \/ j2.phase = "refused", j.phase \in {"refused", "may_have_started"},
             NEW g \in UpFrames, g.kind \in Evidence, g.lease = j.lease, ToDaemon(<<g>>)
      PROVE  FramesInOrder'
  <2>1. q \in Seq(DownFrames) /\ u \in Seq(UpFrames) /\ OneToken(q, u, r, j) /\ None \notin Leases
    BY <1>2, OnConnection
  <2>2. g.kind \notin {"claim"}
    BY <1>2 DEF Evidence
  <2>3. /\ u2 = u \/ u2 = u \o <<g>>
        /\ u2 \in Seq(UpFrames) /\ Within(u, u2, {"claim"})
    BY <1>1, <1>2, <2>2, UpSent, KeepsWithin
  <2>4. Within(q, q, Answer) /\ Within(u, u, Evidence)
    BY <2>1, KeepsSame, KeepsWithin
  <2>5. TokenFree(q, u) /\ r2.deferred = None /\ j2.phase # "received"
    BY <1>2, <2>1 DEF OneToken, Idle
  <2>6. OneToken(q, u2, r2, j2)
    <3> HIDE DEF q, u, u2, r2, j2
    <3> QED BY <2>3, <2>4, <2>5, TokensFree
  <2>7. \A l \in Leases : Retains(r, j, l) => Retains(r2, j2, l)
    BY <1>2 DEF Retains
  <2>8. \/ Within(u, u2, Evidence)
        \/ \E f \in UpFrames :
             /\ u2 = u \o <<f>> /\ f.kind \in Evidence /\ f.lease = j.lease /\ j.lease # None
             /\ j2.end # "none" \/ j2.phase = "refused"
    BY <1>2, <2>1, <2>3, <2>4
  <2> QED BY <1>2, <2>3, <2>6, <2>7, <2>8, LocalInOrder
<1>3. CASE Resend
  <2>1. /\ r.at = "serving" /\ s \in Sockets /\ hand' = hand /\ down' = down
        /\ r2 = r /\ j2 = j /\ j.lease \in Leases
        /\ \/ j.end \in Ends /\ ToDaemon(<<Frame("result", j.lease, j.end)>>)
           \/ j.phase = "refused" /\ ToDaemon(<<Frame("refusal", j.lease, "none")>>)
    BY <1>1, <1>3, ResendDoes DEF runner
  <2>2. j.end \in Ends => j.end # "none" /\ j.phase = "may_have_started"
    BY <1>1 DEF RunnerTypes, Inventories, Ends
  <2>3. CASE j.end \in Ends /\ ToDaemon(<<Frame("result", j.lease, j.end)>>)
    <3> DEFINE g == Frame("result", j.lease, j.end)
    <3>1. g \in UpFrames /\ g.kind = "result" /\ g.lease = j.lease /\ ToDaemon(<<g>>)
      BY <2>1, <2>3, FramesTyped, FrameFields
    <3> HIDE DEF g
    <3>2. g.kind \in Evidence
      BY <3>1 DEF Evidence
    <3> QED BY <1>2, <2>1, <2>2, <2>3, <3>1, <3>2
  <2>4. CASE j.phase = "refused" /\ ToDaemon(<<Frame("refusal", j.lease, "none")>>)
    <3> DEFINE g == Frame("refusal", j.lease, "none")
    <3>1. g \in UpFrames /\ g.kind = "refusal" /\ g.lease = j.lease /\ ToDaemon(<<g>>)
      BY <2>1, <2>4, FramesTyped, FrameFields
    <3> HIDE DEF g
    <3>2. g.kind \in Evidence
      BY <3>1 DEF Evidence
    <3> QED BY <1>2, <2>1, <2>4, <3>1, <3>2
  <2> QED BY <2>1, <2>3, <2>4
<1>4. ASSUME NEW e \in Ends, Finish(e) PROVE FramesInOrder'
  <2> DEFINE g == Frame("result", run.exec, e)
  <2>1. /\ r.at = "serving" /\ s \in Sockets /\ run.exec \in Leases /\ j.lease = run.exec
        /\ j.phase = "may_have_started" /\ j2.lease = j.lease /\ j2.phase = j.phase /\ j2.end = e
        /\ r2.sock = r.sock /\ r2.at = r.at /\ r2.offer = r.offer /\ r2.deferred = r.deferred
        /\ r2.last = r.last /\ hand' = hand /\ down' = down /\ ToDaemon(<<g>>)
    BY <1>1, <1>4, FinishDoes
  <2>2. g \in UpFrames /\ g.kind = "result" /\ g.lease = j.lease /\ e # "none"
    BY <2>1, FramesTyped, FrameFields DEF Ends
  <2> HIDE DEF g
  <2>3. g.kind \in Evidence
    BY <2>2 DEF Evidence
  <2> QED BY <1>2, <2>1, <2>2, <2>3
<1> QED BY <1>3, <1>4

(***************************************************************************)
(* The frames are in order.                                                *)
(***************************************************************************)

(* A connection with nothing on it.                                        *)
LEMMA NothingSent ==
  ASSUME NEW h, NEW r, NEW j, r.last = None, r.deferred = None, h.busy = None,
         r.at = "serving" => \A l \in Holds(r, j) : FALSE,
         r.at = "serving" => j.phase # "received",
         h.at = "serving" => r.at = "serving"
  PROVE  Exchange(h, << >>, << >>, r, j)
<1>1. DOMAIN << >> = {}
  OBVIOUS
<1>2. BusyWith(h, << >>, r, j)
  BY <1>1 DEF BusyWith
<1>3. OfferFollows(<< >>, r, j)
  BY FollowsNothing
<1>4. TokenFree(<< >>, << >>)
  BY <1>1 DEF TokenFree, Some
<1>5. OneToken(<< >>, << >>, r, j)
  BY <1>4, WithinEmpty, TokensFree
<1>6. r.last \notin Holds(r, j)
  BY DEF Holds
<1>7. AcksInOrder(<< >>, << >>, r, j)
  BY <1>1, <1>6, AcksNone
<1> QED BY <1>2, <1>3, <1>5, <1>7 DEF Exchange

(* The first connection.                                                   *)
LEMMA FramesInOrderInit ==
  ASSUME Init
  PROVE  FramesInOrder
<1>1. ExecInv
  BY ExecInit
<1>2. /\ run.at = "serving" /\ run.last = None /\ run.deferred = None /\ run.offer = None
  BY DEF Init, NoConnection
<1>3. journal = Empty /\ journal.lease = None /\ journal.phase = "none"
  BY TypedValues DEF Init
<1>4. run.sock \in Sockets
  BY <1>1, <1>2, Connected DEF ExecInv, LeaseInv
<1>5. up[run.sock] = << >> /\ down[run.sock] = << >>
  BY <1>4 DEF Init
<1>6. hand[run.sock].busy = None
  <2>1. PICK s : hand = [[r \in Sockets |-> NoHandler] EXCEPT ![s].at = "serving"]
    BY DEF Init
  <2> QED BY <1>4, <2>1 DEF NoHandler
<1>7. \A l \in Holds(run, journal) : FALSE
  BY <1>2, <1>3 DEF Holds
<1>8. Exchange(hand[run.sock], << >>, << >>, run, journal)
  BY <1>2, <1>3, <1>6, <1>7, NothingSent
<1> QED BY <1>5, <1>8 DEF FramesInOrder

(* A new connection.                                                       *)
LEMMA ConnectInOrder ==
  ASSUME ExecInv, NEW s \in Sockets, Connect(s)
  PROVE  FramesInOrder'
<1>1. DaemonTypes /\ RunnerTypes /\ ClosedEnds
  BY DEF ExecInv, LeaseInv
<1>2. /\ run.sock = None /\ hand[s].at = "none" /\ hand'[s].at = "hello" /\ hand'[s].busy = None
      /\ run'.sock = s /\ run'.at = "hello" /\ run'.last = None /\ run'.deferred = None
      /\ up' = up /\ down' = down
  BY <1>1, ConnectDoes
<1>3. s # None
  BY RunnerAssumption DEF None
<1>4. up'[s] = << >> /\ down'[s] = << >>
  BY <1>1, <1>2, <1>3 DEF ClosedEnds
<1>5. Exchange(hand'[s], << >>, << >>, run', journal')
  BY <1>2, NothingSent
<1> QED BY <1>2, <1>4, <1>5 DEF FramesInOrder

(* Every step keeps the frames in order.                                   *)
LEMMA FramesInOrderStep ==
  ASSUME ExecInv, FramesInOrder, [Next]_vars
  PROVE  FramesInOrder'
<1>1. DaemonTypes /\ FrameTypes /\ RunnerTypes /\ ClosedEnds /\ ResumeFits
  BY DEF ExecInv, LeaseInv
<1>2. FrameTypes'
  BY TypesStep
<1>3. CASE DaemonStep
  <2>1. run' = run /\ journal' = journal
    BY <1>1, <1>3, DaemonReads DEF runner
  <2>2. SUFFICES ASSUME run.sock # None
                 PROVE  Exchange(hand'[run.sock], down'[run.sock], up'[run.sock], run, journal)
    BY <2>1 DEF FramesInOrder
  <2>3. run.sock \in Sockets
    BY <1>1, <2>2 DEF RunnerTypes, RunStates
  <2>4. Exchange(hand[run.sock], down[run.sock], up[run.sock], run, journal)
    BY <2>2 DEF FramesInOrder
  <2>5. DaemonView(run.sock)
    BY <1>1, <1>3, <2>3, DaemonViews
  <2> QED BY <1>2, <2>3, <2>4, <2>5, DaemonExchange
<1>4. ASSUME NEW s \in Sockets, Connect(s) PROVE FramesInOrder'
  BY <1>4, ConnectInOrder
<1>5. ASSUME NEW f, GetStep(f) PROVE FramesInOrder'
  <2>1. /\ run.sock \in Sockets /\ down[run.sock] # << >>
        /\ \/ GetResumed(Head(down[run.sock])) \/ GetOffer(Head(down[run.sock]))
           \/ GetClaimed(Head(down[run.sock])) \/ GetDispatch(Head(down[run.sock]))
           \/ \E kind \in Acks : GetRecorded(kind, Head(down[run.sock]))
    BY <1>5 DEF GetStep
  <2> QED BY <2>1, ResumedInOrder, OfferInOrder, ClaimedInOrder, DispatchInOrder, RecordedInOrder
<1>6. CASE ScanDone \/ JournalStart \/ Start \/ Resend
  BY <1>6, ScanInOrder, StartInOrder, EvidenceInOrder
<1>7. ASSUME NEW e \in Ends, Finish(e) PROVE FramesInOrder'
  BY <1>7, EvidenceInOrder
<1>8. CASE LeaveStep
  <2>1. run'.sock = None
    BY <1>8, NoConnectionTyped DEF LeaveStep, Leaves
  <2> QED BY <2>1 DEF FramesInOrder
<1>9. CASE UNCHANGED vars
  BY <1>9 DEF FramesInOrder, vars, runner
<1> QED BY <1>1, <1>3, <1>4, <1>5, <1>6, <1>7, <1>8, <1>9, StepCases

(* On the runner's connection the frames keep their order: one offer and   *)
(* one claim at a time, each before what follows from it.                  *)
THEOREM RunnerFramesInOrder == Spec => []FramesInOrder
<1>1. Init => FramesInOrder
  BY FramesInOrderInit
<1>2. ExecInv /\ FramesInOrder /\ [Next]_vars => FramesInOrder'
  BY FramesInOrderStep
<1> QED BY <1>1, <1>2, RunnerInvariant, PTL DEF Spec

(* What the order of the frames says of the one that is read next.         *)
LEMMA FirstFrame ==
  ASSUME ExecInv, FramesInOrder, run.sock \in Sockets, run.at = "serving", down[run.sock] # << >>
  PROVE  LET f == Head(down[run.sock])
         IN  /\ f.kind = "offer" => run.offer = None /\ journal = Empty
             /\ f.kind = "claimed" => run.resumed = f.lease \/ (run.offer = f.lease /\ journal = Empty)
             /\ f.kind = "dispatch" =>
                  IF run.scanned THEN Dispatchable(f.lease) ELSE run.deferred \in {None, f.lease}
             /\ f.kind \in {"recorded", "refusal_recorded"} => Acknowledges(f.lease)
             /\ f.kind # "resumed"
<1> DEFINE q == down[run.sock]
           u == up[run.sock]
           f == Head(q)
<1>1. /\ q \in Seq(DownFrames) /\ u \in Seq(UpFrames) /\ None \notin Leases
      /\ OfferFollows(q, run, journal) /\ OneToken(q, u, run, journal)
      /\ AcksInOrder(q, u, run, journal)
      /\ RunnerTypes /\ JournalTells /\ OfferStage /\ journal \in Inventories /\ run \in RunStates
  BY OnConnection
<1>2. f = q[1] /\ 1 \in DOMAIN q /\ f \in DownFrames
  BY <1>1, TailOf
<1> HIDE DEF f, q, u
<1>3. f.kind # "resumed"
  BY <1>1, <1>2 DEF OfferFollows
<1>4. ASSUME f.kind = "offer" PROVE run.offer = None /\ journal = Empty
  <2>1. \A l \in Holds(run, journal) : \E k \in 1 .. 1 - 1 : AckAt(q, k, l)
    BY <1>1, <1>2, <1>4 DEF OfferFollows
  <2>2. 1 .. 1 - 1 = {}
    OBVIOUS
  <2>3. run.offer = None /\ journal.lease = None
    BY <2>1, <2>2 DEF Holds
  <2> QED BY <1>1, <2>3 DEF Inventories
<1>5. ASSUME f.kind = "claimed"
      PROVE  run.resumed = f.lease \/ (run.offer = f.lease /\ journal = Empty)
  <2>1. f.lease \in {run.offer, run.resumed} /\ f.lease \in Leases
    BY <1>1, <1>2, <1>5, DownFrameFields DEF OneToken, Own
  <2>2. Has(q, "claimed", f.lease)
    BY <1>2, <1>5 DEF Has
  <2>3. run.offer = f.lease => journal = Empty
    BY <1>1, <2>1, <2>2 DEF OfferStage, q
  <2> QED BY <2>1, <2>3
<1>6. ASSUME f.kind = "dispatch"
      PROVE  IF run.scanned THEN Dispatchable(f.lease) ELSE run.deferred \in {None, f.lease}
  <2>1. /\ run.deferred = None /\ f.lease \in {run.offer, run.resumed}
        /\ journal.lease \in {run.offer, run.resumed} /\ journal.phase \in {"waiting", "received"}
    BY <1>1, <1>2, <1>6, DispatchLast DEF f, q
  <2>2. f.lease \in Leases
    BY <1>2, <1>6, DownFrameFields
  <2>3. run.exec = None /\ journal.end = "none" /\ journal.lease # None
    BY <1>1, <2>1 DEF RunnerTypes, Inventories
  <2>4. journal.lease = f.lease
    <3>1. run.resumed # None => run.offer = None
      BY <1>1 DEF JournalTells
    <3> QED BY <1>1, <2>1, <2>2, <2>3, <3>1
  <2>5. journal.phase = "received" => run.resumed = journal.lease
    BY <1>1 DEF OneToken
  <2> QED BY <2>1, <2>3, <2>4, <2>5 DEF Dispatchable
<1>7. ASSUME f.kind \in {"recorded", "refusal_recorded"} PROVE Acknowledges(f.lease)
  BY <1>1, <1>2, <1>7 DEF AcksInOrder, Acks, Retains, Acknowledges
<1> QED BY <1>3, <1>4, <1>5, <1>6, <1>7 DEF f, q

(* The runner accepts every frame that the daemon sends, for any number of *)
(* leases, sockets, faults and resent frames.                              *)
THEOREM RunnerFramesAccepted == Spec => []FramesAccepted
<1>1. ASSUME ExecInv, FramesInOrder PROVE FramesAccepted
  BY <1>1, FirstFrame DEF FramesAccepted
<1>2. ExecInv /\ FramesInOrder => FramesAccepted
  BY <1>1
<1> QED BY <1>2, RunnerInvariant, RunnerFramesInOrder, PTL

============================================================================
