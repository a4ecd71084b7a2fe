----------------------- MODULE EligibilityNudgeProofs -----------------------
(***************************************************************************)
(* Proofs about the nudge channel, for any number of sessions, callers and *)
(* buffer slots.                                                           *)
(***************************************************************************)
EXTENDS EligibilityNudge, FiniteSetTheorems, TLAPS

CallerType == [Callers -> [at : CallerStates,
                           session : Sessions \cup {NoSession}]]

PermittedOf(cs) == {c \in Callers : cs[c].at = "permitted"}

(* The permits handed out are finitely many. *)
LEMMA PermittedFinite ==
  ASSUME NEW cs
  PROVE  /\ IsFiniteSet(PermittedOf(cs))
         /\ Cardinality(PermittedOf(cs)) \in Nat
<1>1. PermittedOf(cs) \subseteq Callers
  BY DEF PermittedOf
<1>2. IsFiniteSet(PermittedOf(cs))
  BY <1>1, NudgeAssumption, FS_Subset DEF NudgeAssumption
<1>3. QED
  BY <1>2, FS_CardinalityType

(* A caller that gives its permit up lowers their number by one ...        *)
LEMMA PermitDropped ==
  ASSUME NEW cs, NEW ds, NEW c \in Callers,
         cs[c].at = "permitted", ds[c].at # "permitted",
         \A d \in Callers \ {c} : cs[d].at = "permitted" <=> ds[d].at = "permitted"
  PROVE  Cardinality(PermittedOf(ds)) = Cardinality(PermittedOf(cs)) - 1
<1>1. PermittedOf(ds) = PermittedOf(cs) \ {c} /\ c \in PermittedOf(cs)
  BY DEF PermittedOf
<1>2. QED
  BY <1>1, PermittedFinite, FS_RemoveElement

(* ... and one that is granted a permit raises it by one.                  *)
LEMMA PermitGranted ==
  ASSUME NEW cs, NEW ds, NEW c \in Callers,
         cs[c].at # "permitted", ds[c].at = "permitted",
         \A d \in Callers \ {c} : cs[d].at = "permitted" <=> ds[d].at = "permitted"
  PROVE  Cardinality(PermittedOf(ds)) = Cardinality(PermittedOf(cs)) + 1
<1>1. PermittedOf(ds) = PermittedOf(cs) \cup {c} /\ c \notin PermittedOf(cs)
  BY DEF PermittedOf
<1>2. QED
  BY <1>1, PermittedFinite, FS_AddElement

(* Giving a permit back conserves it: it is free again or with the oldest  *)
(* waiting caller.                                                         *)
LEMMA GiveBackConserves ==
  ASSUME NudgeInv, NEW cs \in CallerType,
         \A c \in Callers : cs[c].at = "waiting" <=> caller[c].at = "waiting",
         GiveBackPermit(cs)
  PROVE  /\ caller' \in CallerType
         /\ waitq' \in Seq(Callers)
         /\ free' \in Nat
         /\ free' + Cardinality(PermittedOf(caller')) =
              free + Cardinality(PermittedOf(cs)) + 1
         /\ waitq' # << >> => free' = 0
         /\ \A i, j \in DOMAIN waitq' : waitq'[i] = waitq'[j] => i = j
         /\ \A i \in DOMAIN waitq' : caller'[waitq'[i]].at = "waiting"
         /\ \A c \in Callers : caller'[c].at = "waiting" =>
                                 \E i \in DOMAIN waitq' : waitq'[i] = c
         /\ \A c \in Callers : /\ caller'[c].session = cs[c].session
                               /\ caller'[c].at = "idle" <=> cs[c].at = "idle"
<1> USE DEF NudgeInv, TypeOK
<1>0. free \in Nat /\ Cardinality(PermittedOf(cs)) \in Nat
  BY PermittedFinite, NudgeAssumption DEF NudgeAssumption
<1>1. CASE waitq = << >>
  <2>1. free' = free + 1 /\ caller' = cs /\ waitq' = waitq
    BY <1>1 DEF GiveBackPermit
  <2>2. QED
    BY <1>0, <1>1, <2>1 DEF WaitqMatchesCallers, CallerType
<1>2. CASE waitq # << >>
  <2>0. PICK w \in Callers : w = Head(waitq) /\ w = waitq[1] /\ 1 \in DOMAIN waitq
    BY <1>2
  <2>1. /\ waitq' = Tail(waitq)
        /\ caller' = [cs EXCEPT ![w].at = "permitted"]
        /\ free' = free
        /\ free = 0
    BY <1>2, <2>0 DEF GiveBackPermit, PermitAccounting
  <2>2. /\ DOMAIN waitq' = 1 .. Len(waitq) - 1
        /\ DOMAIN waitq = 1 .. Len(waitq)
        /\ waitq' \in Seq(Callers)
        /\ \A i \in DOMAIN waitq' : waitq'[i] = waitq[i + 1] /\ i + 1 \in DOMAIN waitq
    BY <1>2, <2>1
  <2>3. cs[w].at = "waiting"
    <3>1. caller[waitq[1]].at = "waiting"
      BY <2>0 DEF WaitqMatchesCallers
    <3>2. QED
      BY <3>1, <2>0
  <2>4. caller' \in CallerType
    BY <2>0, <2>1, <2>2 DEF CallerType, CallerStates
  <2>5. Cardinality(PermittedOf(caller')) = Cardinality(PermittedOf(cs)) + 1
    <3>1. cs[w].at # "permitted" /\ caller'[w].at = "permitted"
      BY <2>0, <2>1, <2>2, <2>3 DEF CallerType
    <3>2. \A d \in Callers \ {w} : cs[d].at = caller'[d].at
      BY <2>1 DEF CallerType
    <3>3. \A d \in Callers \ {w} : cs[d].at = "permitted" <=> caller'[d].at = "permitted"
      BY <3>2
    <3>4. QED
      BY <3>1, <3>3, PermitGranted
  <2>6. \A c \in Callers : /\ caller'[c].session = cs[c].session
                           /\ caller'[c].at = IF c = w THEN "permitted"
                                                       ELSE cs[c].at
    BY <2>0, <2>1, <2>2 DEF CallerType
  <2>7. \A i, j \in DOMAIN waitq' : waitq'[i] = waitq'[j] => i = j
    BY <2>2 DEF WaitqMatchesCallers
  <2>8. ASSUME NEW i \in DOMAIN waitq'
        PROVE  caller'[waitq'[i]].at = "waiting"
    <3>1. waitq'[i] = waitq[i + 1] /\ i + 1 \in DOMAIN waitq /\ i + 1 # 1
      BY <2>2
    <3>2. waitq[i + 1] # w /\ waitq[i + 1] \in Callers
      BY <3>1, <2>0 DEF WaitqMatchesCallers
    <3>3. caller[waitq[i + 1]].at = "waiting"
      BY <3>1 DEF WaitqMatchesCallers
    <3>4. cs[waitq[i + 1]].at = "waiting"
      BY <3>2, <3>3
    <3>5. QED
      BY <3>1, <3>2, <3>4, <2>6
  <2>10. ASSUME NEW c \in Callers, caller'[c].at = "waiting"
         PROVE  \E i \in DOMAIN waitq' : waitq'[i] = c
    <3>1. c # w /\ caller[c].at = "waiting"
      BY <2>6, <2>10
    <3>2. PICK k \in DOMAIN waitq : waitq[k] = c
      BY <3>1 DEF WaitqMatchesCallers
    <3>3. k - 1 \in DOMAIN waitq' /\ waitq'[k - 1] = c
      BY <3>1, <3>2, <2>0, <2>1, <2>2, <1>2
    <3>4. QED
      BY <3>3
  <2>11. QED
    BY <1>0, <2>1, <2>2, <2>3, <2>4, <2>5, <2>6, <2>7, <2>8, <2>10
<1>3. QED
  BY <1>1, <1>2

(* Sending the token of a session that has none keeps map and channel in   *)
(* step.                                                                   *)
LEMMA SendKeepsTokens ==
  ASSUME NudgeInv, NEW s \in Sessions, pending[s] # Queued,
         pending' = [pending EXCEPT ![s] = Queued],
         channel' = Append(channel, s),
         UNCHANGED <<taken, source>>
  PROVE  TokensMatchMap'
<1> SUFFICES ASSUME source = "open"
             PROVE  TokensMatchMap'
  BY DEF TokensMatchMap
<1> USE DEF NudgeInv, TypeOK
<1>1. ~ InChannel(s) /\ taken # s
  BY DEF TokensMatchMap, HasToken
<1>2. /\ DOMAIN channel = 1 .. Len(channel)
      /\ DOMAIN channel' = 1 .. Len(channel) + 1
      /\ Len(channel) \in Nat
      /\ channel'[Len(channel) + 1] = s
      /\ \A i \in DOMAIN channel : channel'[i] = channel[i]
  OBVIOUS
<1>3. \A t : InChannel(t)' <=> InChannel(t) \/ t = s
  <2>1. \A t : InChannel(t)' => InChannel(t) \/ t = s
    BY <1>2 DEF InChannel
  <2>2. InChannel(s)'
    <3>1. Len(channel) + 1 \in DOMAIN channel'
      BY <1>2
    <3>2. QED
      BY <3>1, <1>2 DEF InChannel
  <2>3. \A t : InChannel(t) => InChannel(t)'
    <3>1. DOMAIN channel \subseteq DOMAIN channel'
      BY <1>2
    <3>2. QED
      BY <3>1, <1>2 DEF InChannel
  <2>4. QED
    BY <2>1, <2>2, <2>3
<1>4. \A i, j \in DOMAIN channel' : channel'[i] = channel'[j] => i = j
  <2> SUFFICES ASSUME NEW i \in DOMAIN channel', NEW j \in DOMAIN channel',
                      channel'[i] = channel'[j]
               PROVE  i = j
    OBVIOUS
  <2>1. CASE i \in DOMAIN channel /\ j \in DOMAIN channel
    BY <2>1, <1>2 DEF TokensMatchMap
  <2>2. CASE i \notin DOMAIN channel /\ j \notin DOMAIN channel
    BY <2>2, <1>2
  <2>3. CASE i \in DOMAIN channel /\ j \notin DOMAIN channel
    BY <2>3, <1>1, <1>2 DEF InChannel
  <2>4. CASE i \notin DOMAIN channel /\ j \in DOMAIN channel
    BY <2>4, <1>1, <1>2 DEF InChannel
  <2>5. QED
    BY <2>1, <2>2, <2>3, <2>4
<1>5. \A t \in Sessions : HasToken(t)' <=> pending'[t] = Queued
  BY <1>3 DEF HasToken, TokensMatchMap
<1>6. ~ InChannel(taken)'
  BY <1>1, <1>3 DEF TokensMatchMap
<1>7. QED
  BY <1>4, <1>5, <1>6 DEF TokensMatchMap

(* What nudge_session preserves, whichever outcome it has. *)
LEMMA NudgeSessionPreserves ==
  ASSUME NudgeInv, NEW s \in Sessions, NudgeSession(s),
         UNCHANGED <<taken, source>>
  PROVE  /\ channel' \in Seq(Sessions)
         /\ free' \in 0 .. Capacity
         /\ free' <= free
         /\ pending' \in [Sessions -> {Absent, Reserved, Queued}]
         /\ owed' \subseteq Sessions
         /\ free' + Len(channel') = free + Len(channel)
         /\ TokensMatchMap'
<1> USE DEF NudgeInv, TypeOK
<1>0. Capacity \in Nat /\ owed' \subseteq Sessions
  BY NudgeAssumption DEF NudgeAssumption, NudgeSession
<1>1. CASE Outcome(s) = "Enqueued"
  <2>1. /\ pending[s] = Absent
        /\ free > 0
        /\ pending' = [pending EXCEPT ![s] = Queued]
        /\ channel' = Append(channel, s)
        /\ free' = free - 1
    BY <1>1 DEF NudgeSession, Outcome
  <2>2. TokensMatchMap'
    BY <2>1, SendKeepsTokens DEF Absent, Queued
  <2>3. QED
    BY <1>0, <2>1, <2>2
<1>2. CASE Outcome(s) # "Enqueued"
  <2>1. UNCHANGED <<pending, channel, free>>
    BY <1>2 DEF NudgeSession
  <2>2. TokensMatchMap'
    BY <2>1 DEF TokensMatchMap, HasToken, InChannel
  <2>3. QED
    BY <1>0, <2>1, <2>2
<1>3. QED
  BY <1>1, <1>2

(* A caller that moves between states other than waiting and permitted. *)
LEMMA QuietMove ==
  ASSUME NudgeInv, caller' \in CallerType, waitq' = waitq,
         \A c \in Callers :
           /\ caller'[c].at = "waiting" <=> caller[c].at = "waiting"
           /\ caller'[c].at = "permitted" <=> caller[c].at = "permitted"
  PROVE  WaitqMatchesCallers' /\ Permitted' = Permitted
<1> USE DEF NudgeInv, TypeOK
<1>1. Permitted' = Permitted
  BY DEF Permitted
<1>2. \A i \in DOMAIN waitq : waitq[i] \in Callers
  OBVIOUS
<1>3. WaitqMatchesCallers'
  BY <1>2 DEF WaitqMatchesCallers
<1>4. QED
  BY <1>1, <1>3

(* The initial state satisfies the invariant. *)
LEMMA NudgeInvInit == Init => NudgeInv
<1> SUFFICES ASSUME Init PROVE NudgeInv
  OBVIOUS
<1> USE NudgeAssumption DEF Init, NudgeAssumption
<1>1. TypeOK
  BY DEF TypeOK, Idle, CallerStates
<1>2. WaitqMatchesCallers /\ CallsHaveSessions
  BY DEF WaitqMatchesCallers, CallsHaveSessions, Idle
<1>3. PermitAccounting
  <2>1. Permitted = {}
    BY DEF Permitted, Idle
  <2>2. QED
    BY <2>1, FS_EmptySet DEF PermitAccounting
<1>4. TokensMatchMap
  BY DEF TokensMatchMap, HasToken, InChannel, Absent, Queued
<1>5. QED
  BY <1>1, <1>2, <1>3, <1>4 DEF NudgeInv

(* A step that only gives back the permit of a caller, or of a token.      *)
LEMMA PermitReturned ==
  ASSUME NudgeInv, NEW cs \in CallerType,
         \A c \in Callers : /\ cs[c].at = "waiting" <=> caller[c].at = "waiting"
                            /\ cs[c].at = "idle" <=> caller[c].at = "idle"
                            /\ cs[c].session = caller[c].session,
         GiveBackPermit(cs),
         channel' \in Seq(Sessions),
         Len(channel') + Cardinality(PermittedOf(cs)) =
           Len(channel) + Cardinality(Permitted) - 1
  PROVE  /\ caller' \in CallerType
         /\ waitq' \in Seq(Callers)
         /\ free' \in 0 .. Capacity
         /\ WaitqMatchesCallers'
         /\ CallsHaveSessions'
         /\ PermitAccounting'
<1>1. /\ Capacity \in Nat
      /\ free \in Nat
      /\ Len(channel) \in Nat
      /\ Len(channel') \in Nat
  BY NudgeAssumption DEF NudgeAssumption, NudgeInv, TypeOK
<1>2. Permitted = PermittedOf(caller) /\ Permitted' = PermittedOf(caller')
  BY DEF Permitted, PermittedOf
<1>3. /\ Cardinality(Permitted) \in Nat
      /\ Cardinality(Permitted') \in Nat
      /\ Cardinality(PermittedOf(cs)) \in Nat
  BY <1>2, PermittedFinite
<1>4. /\ free' \in Nat
      /\ free' + Cardinality(Permitted') = free + Cardinality(PermittedOf(cs)) + 1
      /\ waitq' # << >> => free' = 0
  BY <1>2, GiveBackConserves
<1>5. PermitAccounting'
  <2>1. free + Len(channel) + Cardinality(Permitted) = Capacity
    BY DEF NudgeInv, PermitAccounting
  <2>2. free' + Len(channel') + Cardinality(Permitted') = Capacity
    <3> DEFINE f == free  ff == free'
               l == Len(channel)  ll == Len(channel')
               p == Cardinality(Permitted)  pp == Cardinality(Permitted')
               q == Cardinality(PermittedOf(cs))
    <3>1. ll + q = l + p - 1 /\ ff + pp = f + q + 1
      BY <1>4
    <3>2. /\ f \in Nat /\ ff \in Nat /\ l \in Nat /\ ll \in Nat
          /\ p \in Nat /\ pp \in Nat /\ q \in Nat
      BY <1>1, <1>3, <1>4
    <3>3. f + l + p = Capacity
      BY <2>1
    <3> HIDE DEF f, ff, l, ll, p, pp, q
    <3>4. ff + ll + pp = f + l + p
      BY <3>1, <3>2
    <3>5. QED
      BY <3>3, <3>4 DEF f, ff, l, ll, p, pp, q
  <2>3. QED
    BY <1>4, <2>2 DEF PermitAccounting
<1>6. free' \in 0 .. Capacity
  BY <1>1, <1>3, <1>4, <1>5 DEF PermitAccounting
<1>7. WaitqMatchesCallers' /\ caller' \in CallerType /\ waitq' \in Seq(Callers)
  BY GiveBackConserves DEF WaitqMatchesCallers
<1>8. CallsHaveSessions'
  BY GiveBackConserves DEF NudgeInv, CallsHaveSessions
<1>9. QED
  BY <1>5, <1>6, <1>7, <1>8

(* Every step of the channel's users preserves the invariant. *)
LEMMA NudgeInvStep == NudgeInv /\ [Next]_vars => NudgeInv'
<1> SUFFICES ASSUME NudgeInv, [Next]_vars PROVE NudgeInv'
  OBVIOUS
<1> USE DEF NudgeInv, TypeOK
<1>0. /\ Capacity \in Nat
      /\ free \in Nat
      /\ Len(channel) \in Nat
      /\ Permitted = PermittedOf(caller)
      /\ Permitted' = PermittedOf(caller')
      /\ Cardinality(Permitted) \in Nat
      /\ Cardinality(Permitted') \in Nat
      /\ caller \in CallerType
  <2>1. Capacity \in Nat /\ free \in Nat /\ Len(channel) \in Nat
    BY NudgeAssumption DEF NudgeAssumption
  <2>2. Permitted = PermittedOf(caller) /\ Permitted' = PermittedOf(caller')
    BY DEF Permitted, PermittedOf
  <2>3. Cardinality(Permitted) \in Nat /\ Cardinality(Permitted') \in Nat
    BY <2>2, PermittedFinite
  <2>4. caller \in CallerType
    BY DEF CallerType
  <2>5. QED
    BY <2>1, <2>2, <2>3, <2>4
<1>1. ASSUME NEW s \in Sessions, Nudge(s) PROVE NudgeInv'
  <2>1. NudgeSession(s) /\ UNCHANGED <<waitq, caller, taken, source>>
    BY <1>1 DEF Nudge
  <2>2. TypeOK' /\ TokensMatchMap' /\ CallsHaveSessions'
    BY <2>1, NudgeSessionPreserves DEF CallsHaveSessions
  <2>3. WaitqMatchesCallers' /\ Permitted' = Permitted
    BY <2>1, <1>0, QuietMove
  <2>4. PermitAccounting'
    BY <2>1, <2>2, <2>3, <1>0, NudgeSessionPreserves DEF PermitAccounting
  <2>5. QED
    BY <2>2, <2>3, <2>4
<1>2. ASSUME NEW c \in Callers, NEW s \in Sessions, NudgeWaiting(c, s)
      PROVE  NudgeInv'
  <2>1. NudgeSession(s) /\ UNCHANGED <<waitq, taken, source>>
    BY <1>2 DEF NudgeWaiting
  <2>2. /\ caller[c].at = "idle"
        /\ \/ caller' = caller
           \/ caller' = [caller EXCEPT ![c] = [at |-> "recheck", session |-> s]]
    BY <1>2 DEF NudgeWaiting
  <2>3. caller' \in CallerType
    BY <2>2, <1>0 DEF CallerType, CallerStates
  <2>4. TypeOK' /\ TokensMatchMap' /\ CallsHaveSessions'
    BY <2>1, <2>2, <2>3, NudgeSessionPreserves DEF CallsHaveSessions, CallerType
  <2>5. WaitqMatchesCallers' /\ Permitted' = Permitted
    BY <2>1, <2>2, <2>3, QuietMove
  <2>6. PermitAccounting'
    BY <2>1, <2>4, <2>5, <1>0, NudgeSessionPreserves DEF PermitAccounting
  <2>7. QED
    BY <2>4, <2>5, <2>6
<1>3. ASSUME NEW c \in Callers, Recheck(c) PROVE NudgeInv'
  <2>1. /\ caller[c].at = "recheck"
        /\ UNCHANGED <<channel, free, waitq, taken, source, owed>>
        /\ \/ caller' = [caller EXCEPT ![c] = Idle] /\ pending' = pending
           \/ /\ caller' = [caller EXCEPT ![c].at = "reserving"]
              /\ pending[caller[c].session] # Queued
              /\ pending' = [pending EXCEPT ![caller[c].session] = Reserved]
    BY <1>3 DEF Recheck, Goto
  <2>2. caller' \in CallerType
    BY <2>1, <1>0 DEF CallerType, CallerStates, Idle
  <2>3. TypeOK' /\ CallsHaveSessions'
    <3>1. caller[c].session \in Sessions
      BY <2>1 DEF CallsHaveSessions
    <3>2. TypeOK'
      BY <2>1, <2>2, <3>1 DEF CallerType
    <3>3. CallsHaveSessions'
      BY <2>1, <3>1 DEF CallsHaveSessions, Idle
    <3>4. QED
      BY <3>2, <3>3
  <2>4. WaitqMatchesCallers' /\ Permitted' = Permitted
    BY <2>1, <2>2, QuietMove DEF Idle
  <2>5. PermitAccounting'
    BY <2>1, <2>4 DEF PermitAccounting
  <2>6. TokensMatchMap'
    BY <2>1 DEF TokensMatchMap, HasToken, InChannel, Queued, Reserved
  <2>7. QED
    BY <2>3, <2>4, <2>5, <2>6
<1>4. ASSUME NEW c \in Callers, Reserve(c) PROVE NudgeInv'
  <2>1. /\ caller[c].at = "reserving"
        /\ UNCHANGED <<channel, pending, taken, source, owed>>
    BY <1>4 DEF Reserve
  <2>2. TokensMatchMap'
    BY <2>1 DEF TokensMatchMap, HasToken, InChannel
  <2>3. CASE caller' = [caller EXCEPT ![c].at = "dropping"]
             /\ UNCHANGED <<free, waitq>>
    <3>1. caller' \in CallerType
      BY <2>3, <1>0 DEF CallerType, CallerStates
    <3>2. WaitqMatchesCallers' /\ Permitted' = Permitted
      BY <2>1, <2>3, <3>1, QuietMove
    <3>3. TypeOK' /\ CallsHaveSessions' /\ PermitAccounting'
      BY <2>1, <2>3, <3>1, <3>2 DEF CallsHaveSessions, CallerType, PermitAccounting
    <3>4. QED
      BY <2>2, <3>2, <3>3
  <2>4. CASE /\ free > 0
             /\ free' = free - 1
             /\ caller' = [caller EXCEPT ![c].at = "permitted"]
             /\ waitq' = waitq
    <3>1. caller' \in CallerType
      BY <2>4, <1>0 DEF CallerType, CallerStates
    <3>2. waitq = << >>
      BY <2>4 DEF PermitAccounting
    <3>3. WaitqMatchesCallers'
      BY <2>1, <2>4, <3>2 DEF WaitqMatchesCallers
    <3>4. Cardinality(Permitted') = Cardinality(Permitted) + 1
      <4>1. caller[c].at # "permitted" /\ caller'[c].at = "permitted"
        BY <2>1, <2>4
      <4>2. \A d \in Callers \ {c} :
              caller[d].at = "permitted" <=> caller'[d].at = "permitted"
        BY <2>4
      <4>3. QED
        BY <4>1, <4>2, <1>0, PermitGranted
    <3>5. TypeOK' /\ CallsHaveSessions' /\ PermitAccounting'
      <4>1. TypeOK'
        BY <2>1, <2>4, <3>1, <1>0 DEF CallerType
      <4>2. CallsHaveSessions'
        BY <2>1, <2>4 DEF CallsHaveSessions
      <4>3. PermitAccounting'
        BY <2>1, <2>4, <3>2, <3>4, <1>0 DEF PermitAccounting
      <4>4. QED
        BY <4>1, <4>2, <4>3
    <3>6. QED
      BY <2>2, <3>3, <3>5
  <2>5. CASE /\ free = 0
             /\ waitq' = Append(waitq, c)
             /\ caller' = [caller EXCEPT ![c].at = "waiting"]
             /\ free' = free
    <3>1. caller' \in CallerType /\ waitq' \in Seq(Callers)
      BY <2>5, <1>0 DEF CallerType, CallerStates
    <3>2. /\ DOMAIN waitq = 1 .. Len(waitq)
          /\ Len(waitq) \in Nat
          /\ DOMAIN waitq' = 1 .. Len(waitq) + 1
          /\ waitq'[Len(waitq) + 1] = c
          /\ \A i \in DOMAIN waitq : waitq'[i] = waitq[i]
      BY <2>5
    <3>3. \A i \in DOMAIN waitq : waitq[i] # c /\ waitq[i] \in Callers
      BY <2>1 DEF WaitqMatchesCallers
    <3>4. \A i, j \in DOMAIN waitq' : waitq'[i] = waitq'[j] => i = j
      BY <3>2, <3>3 DEF WaitqMatchesCallers
    <3>5. \A i \in DOMAIN waitq' : caller'[waitq'[i]].at = "waiting"
      BY <2>5, <3>2, <3>3 DEF WaitqMatchesCallers
    <3>6. \A d \in Callers : caller'[d].at = "waiting" =>
                              \E i \in DOMAIN waitq' : waitq'[i] = d
      <4> SUFFICES ASSUME NEW d \in Callers, caller'[d].at = "waiting"
                   PROVE  \E i \in DOMAIN waitq' : waitq'[i] = d
        OBVIOUS
      <4>1. CASE d = c
        <5>1. Len(waitq) + 1 \in DOMAIN waitq'
          BY <3>2
        <5>2. QED
          BY <4>1, <5>1, <3>2
      <4>2. CASE d # c
        <5>1. caller[d].at = "waiting"
          BY <4>2, <2>5
        <5>2. PICK i \in DOMAIN waitq : waitq[i] = d
          BY <5>1 DEF WaitqMatchesCallers
        <5>3. i \in DOMAIN waitq' /\ waitq'[i] = d
          BY <5>2, <3>2
        <5>4. QED
          BY <5>3
      <4>3. QED
        BY <4>1, <4>2
    <3>7. Permitted' = Permitted
      <4>1. \A d \in Callers :
              caller[d].at = "permitted" <=> caller'[d].at = "permitted"
        BY <2>1, <2>5
      <4>2. QED
        BY <4>1 DEF Permitted
    <3>8. TypeOK' /\ CallsHaveSessions' /\ PermitAccounting'
      BY <2>1, <2>5, <3>1, <3>7 DEF CallsHaveSessions, CallerType, PermitAccounting
    <3>9. QED
      BY <2>2, <3>4, <3>5, <3>6, <3>8 DEF WaitqMatchesCallers
  <2>6. QED
    BY <1>4, <2>3, <2>4, <2>5 DEF Reserve, Goto
<1>5. ASSUME NEW c \in Callers, Send(c) PROVE NudgeInv'
  <2> DEFINE s == caller[c].session
  <2>1. /\ caller[c].at = "permitted"
        /\ s \in Sessions
        /\ owed' \subseteq Sessions
        /\ UNCHANGED <<taken, source>>
    BY <1>5 DEF Send, CallsHaveSessions
  <2>2. CASE /\ GiveBackPermit([caller EXCEPT ![c].at = "dropping"])
             /\ UNCHANGED <<pending, channel>>
    <3>0. PICK cs : cs = [caller EXCEPT ![c].at = "dropping"]
      OBVIOUS
    <3>1. /\ cs \in CallerType
          /\ \A d \in Callers : cs[d].at = "waiting" <=> caller[d].at = "waiting"
          /\ \A d \in Callers \ {c} :
                caller[d].at = "permitted" <=> cs[d].at = "permitted"
          /\ cs[c].at # "permitted"
          /\ \A d \in Callers : cs[d].session = caller[d].session
          /\ \A d \in Callers : cs[d].at = "idle" <=> caller[d].at = "idle"
      BY <2>1, <3>0, <1>0 DEF CallerType, CallerStates
    <3>2. Cardinality(PermittedOf(cs)) = Cardinality(PermittedOf(caller)) - 1
      <4>1. caller[c].at = "permitted" /\ cs[c].at # "permitted"
        BY <2>1, <3>1
      <4>2. \A d \in Callers \ {c} :
              caller[d].at = "permitted" <=> cs[d].at = "permitted"
        BY <3>1
      <4>3. QED
        BY <4>1, <4>2, PermitDropped
    <3>3. GiveBackPermit(cs)
      BY <2>2, <3>0
    <3>4. /\ channel' \in Seq(Sessions)
          /\ Len(channel') + Cardinality(PermittedOf(cs)) =
                Len(channel) + Cardinality(Permitted) - 1
      BY <2>2, <3>2, <1>0
    <3>5. /\ caller' \in CallerType
          /\ waitq' \in Seq(Callers)
          /\ free' \in 0 .. Capacity
          /\ WaitqMatchesCallers'
          /\ CallsHaveSessions'
          /\ PermitAccounting'
      BY <3>1, <3>3, <3>4, PermitReturned
    <3>6. TokensMatchMap'
      BY <2>1, <2>2 DEF TokensMatchMap, HasToken, InChannel
    <3>7. TypeOK'
      BY <2>1, <2>2, <3>5 DEF CallerType
    <3>8. QED
      BY <3>5, <3>6, <3>7
  <2>3. CASE /\ pending[s] # Queued
             /\ pending' = [pending EXCEPT ![s] = Queued]
             /\ channel' = Append(channel, s)
             /\ caller' = [caller EXCEPT ![c].at = "dropping"]
             /\ UNCHANGED <<free, waitq>>
    <3>1. TokensMatchMap'
      BY <2>1, <2>3, SendKeepsTokens
    <3>2. TypeOK'
      <4>1. caller' \in CallerType
        BY <2>3, <1>0 DEF CallerType, CallerStates
      <4>2. channel' \in Seq(Sessions)
        BY <2>1, <2>3
      <4>3. QED
        BY <2>1, <2>3, <4>1, <4>2 DEF CallerType
    <3>3. WaitqMatchesCallers'
      <4>1. \A d \in Callers : caller'[d].at = "waiting" <=> caller[d].at = "waiting"
        BY <2>1, <2>3
      <4>2. \A i \in DOMAIN waitq : waitq[i] \in Callers
        OBVIOUS
      <4>3. QED
        BY <2>3, <4>1, <4>2 DEF WaitqMatchesCallers
    <3>4. Cardinality(Permitted') = Cardinality(Permitted) - 1
      <4>1. caller[c].at = "permitted" /\ caller'[c].at # "permitted"
        BY <2>1, <2>3
      <4>2. \A d \in Callers \ {c} :
              caller[d].at = "permitted" <=> caller'[d].at = "permitted"
        BY <2>3
      <4>3. QED
        BY <4>1, <4>2, <1>0, PermitDropped
    <3>5. CallsHaveSessions'
      BY <2>1, <2>3 DEF CallsHaveSessions
    <3>6. PermitAccounting'
      <4>1. Len(channel') = Len(channel) + 1
        BY <2>3
      <4>2. QED
        BY <2>3, <3>4, <4>1, <1>0 DEF PermitAccounting
    <3>7. QED
      BY <3>1, <3>2, <3>3, <3>5, <3>6
  <2>4. QED
    BY <1>5, <2>2, <2>3 DEF Send, Goto
<1>6. ASSUME NEW c \in Callers, DropReservation(c) PROVE NudgeInv'
  <2>1. /\ caller[c].at = "dropping"
        /\ caller' = [caller EXCEPT ![c] = Idle]
        /\ UNCHANGED <<channel, free, waitq, taken, source, owed>>
        /\ caller[c].session \in Sessions
        /\ \/ pending' = pending
           \/ /\ pending[caller[c].session] = Reserved
              /\ pending' = [pending EXCEPT ![caller[c].session] = Absent]
    BY <1>6 DEF DropReservation, CallsHaveSessions
  <2>2. caller' \in CallerType
    BY <2>1, <1>0 DEF CallerType, CallerStates, Idle
  <2>3. TypeOK'
    BY <2>1, <2>2 DEF CallerType
  <2>4. CallsHaveSessions'
    BY <2>1 DEF CallsHaveSessions, Idle
  <2>5. WaitqMatchesCallers' /\ Permitted' = Permitted
    BY <2>1, <2>2, QuietMove DEF Idle
  <2>6. PermitAccounting'
    BY <2>1, <2>5 DEF PermitAccounting
  <2>7. TokensMatchMap'
    BY <2>1 DEF TokensMatchMap, HasToken, InChannel, Queued, Reserved, Absent
  <2>8. QED
    BY <2>3, <2>4, <2>5, <2>6, <2>7
<1>7. ASSUME NEW c \in Callers, Cancel(c) PROVE NudgeInv'
  <2>0. PICK cs : cs = [caller EXCEPT ![c].at = "dropping"]
    OBVIOUS
  <2>1. UNCHANGED <<channel, pending, taken, source, owed>>
    BY <1>7 DEF Cancel
  <2>2. TokensMatchMap'
    BY <2>1 DEF TokensMatchMap, HasToken, InChannel
  <2>3. CASE caller[c].at = "permitted" /\ GiveBackPermit(cs)
    <3>1. /\ cs \in CallerType
          /\ \A d \in Callers : cs[d].at = "waiting" <=> caller[d].at = "waiting"
          /\ \A d \in Callers \ {c} :
                caller[d].at = "permitted" <=> cs[d].at = "permitted"
          /\ cs[c].at # "permitted"
          /\ \A d \in Callers : cs[d].session = caller[d].session
          /\ \A d \in Callers : cs[d].at = "idle" <=> caller[d].at = "idle"
      BY <2>0, <2>3, <1>0 DEF CallerType, CallerStates
    <3>2. Cardinality(PermittedOf(cs)) = Cardinality(PermittedOf(caller)) - 1
      <4>1. caller[c].at = "permitted" /\ cs[c].at # "permitted"
        BY <2>3, <3>1
      <4>2. \A d \in Callers \ {c} :
              caller[d].at = "permitted" <=> cs[d].at = "permitted"
        BY <3>1
      <4>3. QED
        BY <4>1, <4>2, PermitDropped
    <3>3. /\ channel' \in Seq(Sessions)
          /\ Len(channel') + Cardinality(PermittedOf(cs)) =
                Len(channel) + Cardinality(Permitted) - 1
      BY <2>1, <3>2, <1>0
    <3>4. /\ caller' \in CallerType
          /\ waitq' \in Seq(Callers)
          /\ free' \in 0 .. Capacity
          /\ WaitqMatchesCallers'
          /\ CallsHaveSessions'
          /\ PermitAccounting'
      BY <2>3, <3>1, <3>3, PermitReturned
    <3>5. TypeOK'
      BY <2>1, <3>4 DEF CallerType
    <3>6. QED
      BY <2>2, <3>4, <3>5
  <2>4. CASE /\ caller[c].at = "waiting"
             /\ \E k \in DOMAIN waitq : waitq[k] = c /\ waitq' = DropAt(waitq, k)
             /\ caller' = cs
             /\ free' = free
    <3>1. PICK k \in DOMAIN waitq : waitq[k] = c /\ waitq' = DropAt(waitq, k)
      BY <2>4
    <3>2. /\ DOMAIN waitq = 1 .. Len(waitq)
          /\ Len(waitq) \in Nat
          /\ k \in 1 .. Len(waitq)
          /\ DOMAIN waitq' = 1 .. Len(waitq) - 1
          /\ \A i \in DOMAIN waitq' :
                waitq'[i] = IF i < k THEN waitq[i] ELSE waitq[i + 1]
      BY <3>1 DEF DropAt
    <3>3. waitq' \in Seq(Callers)
      BY <3>1, <3>2 DEF DropAt
    <3>4. caller' \in CallerType
      BY <2>0, <2>4, <1>0 DEF CallerType, CallerStates
    <3>5. \A d \in Callers : /\ caller'[d].session = caller[d].session
                              /\ caller'[d].at = IF d = c THEN "dropping"
                                                         ELSE caller[d].at
      BY <2>0, <2>4, <1>0 DEF CallerType
    <3>6. Permitted' = Permitted
      BY <2>4, <3>5 DEF Permitted
    <3>7. WaitqMatchesCallers'
      <4>1. \A i \in DOMAIN waitq' :
              \E j \in DOMAIN waitq :
                /\ waitq'[i] = waitq[j]
                /\ j # k
                /\ j = IF i < k THEN i ELSE i + 1
        BY <3>2
      <4>2. \A i, j \in DOMAIN waitq' : waitq'[i] = waitq'[j] => i = j
        BY <3>2, <4>1 DEF WaitqMatchesCallers
      <4>3. \A i \in DOMAIN waitq' : caller'[waitq'[i]].at = "waiting"
        <5> SUFFICES ASSUME NEW i \in DOMAIN waitq'
                     PROVE  caller'[waitq'[i]].at = "waiting"
          OBVIOUS
        <5>1. PICK j \in DOMAIN waitq : waitq'[i] = waitq[j] /\ j # k
          BY <4>1
        <5>2. waitq[j] # c /\ waitq[j] \in Callers
          BY <3>1, <5>1 DEF WaitqMatchesCallers
        <5>3. caller[waitq[j]].at = "waiting"
          BY DEF WaitqMatchesCallers
        <5>4. QED
          BY <5>1, <5>2, <5>3, <3>5
      <4>4. \A d \in Callers : caller'[d].at = "waiting" =>
                                \E i \in DOMAIN waitq' : waitq'[i] = d
        <5> SUFFICES ASSUME NEW d \in Callers, caller'[d].at = "waiting"
                     PROVE  \E i \in DOMAIN waitq' : waitq'[i] = d
          OBVIOUS
        <5>1. d # c /\ caller[d].at = "waiting"
          BY <3>5
        <5>2. PICK j \in DOMAIN waitq : waitq[j] = d
          BY <5>1 DEF WaitqMatchesCallers
        <5>3. j # k
          BY <3>1, <5>1, <5>2
        <5>4. CASE j < k
          <6>1. j \in DOMAIN waitq' /\ waitq'[j] = d
            BY <5>2, <5>4, <3>2
          <6>2. QED
            BY <6>1
        <5>5. CASE j > k
          <6>1. j - 1 \in DOMAIN waitq' /\ waitq'[j - 1] = d
            BY <5>2, <5>5, <3>2
          <6>2. QED
            BY <6>1
        <5>6. QED
          BY <5>3, <5>4, <5>5, <3>2
      <4>5. QED
        BY <4>2, <4>3, <4>4 DEF WaitqMatchesCallers
    <3>8. CallsHaveSessions'
      BY <2>4, <3>5 DEF CallsHaveSessions
    <3>9. PermitAccounting'
      <4>1. waitq # << >>
        BY <3>1
      <4>2. QED
        BY <2>1, <2>4, <3>6, <4>1 DEF PermitAccounting
    <3>10. TypeOK'
      BY <2>1, <2>4, <3>3, <3>4 DEF CallerType
    <3>11. QED
      BY <2>2, <3>7, <3>8, <3>9, <3>10
  <2>5. QED
    BY <1>7, <2>0, <2>3, <2>4 DEF Cancel
<1>8. CASE Receive
  <2>1. /\ source = "open"
        /\ taken = NoSession
        /\ channel # << >>
        /\ taken' = Head(channel)
        /\ channel' = Tail(channel)
        /\ GiveBackPermit(caller)
        /\ UNCHANGED <<pending, source, owed>>
    BY <1>8 DEF Receive
  <2>2. /\ DOMAIN channel = 1 .. Len(channel)
        /\ DOMAIN channel' = 1 .. Len(channel) - 1
        /\ Len(channel') = Len(channel) - 1
        /\ channel' \in Seq(Sessions)
        /\ \A i \in DOMAIN channel' : channel'[i] = channel[i + 1]
        /\ taken' = channel[1]
        /\ taken' \in Sessions
        /\ 1 \in DOMAIN channel
    BY <2>1
  <2>3. Len(channel') + Cardinality(PermittedOf(caller)) =
          Len(channel) + Cardinality(Permitted) - 1
    BY <2>2, <1>0
  <2>4. /\ caller' \in CallerType
        /\ waitq' \in Seq(Callers)
        /\ free' \in 0 .. Capacity
        /\ WaitqMatchesCallers'
        /\ CallsHaveSessions'
        /\ PermitAccounting'
    BY <2>1, <2>2, <2>3, <1>0, PermitReturned
  <2>5. TypeOK'
    BY <2>1, <2>2, <2>4 DEF CallerType
  <2>6. TokensMatchMap'
    <3>1. \A i, j \in DOMAIN channel : channel[i] = channel[j] => i = j
      BY <2>1 DEF TokensMatchMap
    <3>2. \A i, j \in DOMAIN channel' : channel'[i] = channel'[j] => i = j
      <4>1. \A i \in DOMAIN channel' : i + 1 \in DOMAIN channel
        BY <2>2
      <4>2. QED
        BY <2>2, <3>1, <4>1
    <3>3. ~ InChannel(taken)'
      BY <2>2, <3>1 DEF InChannel
    <3>4. ASSUME NEW t \in Sessions PROVE HasToken(t)' <=> HasToken(t)
      <4>1. ASSUME NEW i \in DOMAIN channel, channel[i] = t
            PROVE  HasToken(t)'
        <5>1. CASE i = 1
          BY <4>1, <5>1, <2>2 DEF HasToken
        <5>2. CASE i # 1
          <6>1. i - 1 \in DOMAIN channel' /\ channel'[i - 1] = t
            BY <4>1, <5>2, <2>2
          <6>2. QED
            BY <6>1 DEF HasToken, InChannel
        <5>3. QED
          BY <5>1, <5>2
      <4>2. HasToken(t)' => HasToken(t)
        <5>1. \A i \in DOMAIN channel' : i + 1 \in DOMAIN channel
          BY <2>2
        <5>2. QED
          BY <2>2, <5>1 DEF HasToken, InChannel
      <4>3. taken # t
        BY <2>1, NudgeAssumption DEF NudgeAssumption
      <4>4. QED
        BY <4>1, <4>2, <4>3 DEF HasToken, InChannel
    <3>5. QED
      BY <2>1, <3>2, <3>3, <3>4 DEF TokensMatchMap
  <2>7. QED
    BY <2>4, <2>5, <2>6
<1>9. CASE TakeNudge
  <2>1. /\ taken # NoSession
        /\ taken' = NoSession
        /\ UNCHANGED <<channel, free, waitq, caller, source>>
        /\ owed' \subseteq Sessions
        /\ pending' = [pending EXCEPT ![taken] = Absent]
        /\ taken \in Sessions
    BY <1>9 DEF TakeNudge
  <2>2. TypeOK' /\ CallsHaveSessions'
    BY <2>1 DEF CallsHaveSessions
  <2>3. WaitqMatchesCallers' /\ Permitted' = Permitted
    BY <2>1, <1>0, QuietMove
  <2>4. PermitAccounting'
    BY <2>1, <2>3 DEF PermitAccounting
  <2>5. TokensMatchMap'
    BY <2>1, NudgeAssumption
       DEF TokensMatchMap, HasToken, InChannel, Absent, Queued, NudgeAssumption
  <2>6. QED
    BY <2>2, <2>3, <2>4, <2>5
<1>10. CASE ClearPending
  <2>1. /\ source' = "cleared"
        /\ pending' = [s \in Sessions |-> Absent]
        /\ UNCHANGED <<channel, free, waitq, caller, taken, owed>>
    BY <1>10 DEF ClearPending
  <2>2. TypeOK' /\ CallsHaveSessions' /\ TokensMatchMap'
    BY <2>1 DEF CallsHaveSessions, TokensMatchMap
  <2>3. WaitqMatchesCallers' /\ Permitted' = Permitted
    BY <2>1, <1>0, QuietMove
  <2>4. PermitAccounting'
    BY <2>1, <2>3 DEF PermitAccounting
  <2>5. QED
    BY <2>2, <2>3, <2>4
<1>11. CASE CloseChannel
  <2>1. /\ source' = "closed"
        /\ channel' = << >>
        /\ free' = free + Len(channel)
        /\ waitq' = << >>
        /\ caller' = [c \in Callers |-> IF caller[c].at = "waiting"
                                        THEN [caller[c] EXCEPT !.at = "dropping"]
                                        ELSE caller[c]]
        /\ UNCHANGED <<pending, taken, owed>>
    BY <1>11 DEF CloseChannel
  <2>2. caller' \in CallerType
    BY <2>1, <1>0 DEF CallerType, CallerStates
  <2>3. \A c \in Callers : /\ caller'[c].session = caller[c].session
                            /\ caller'[c].at = IF caller[c].at = "waiting"
                                               THEN "dropping" ELSE caller[c].at
    BY <2>1, <1>0 DEF CallerType
  <2>4. Permitted' = Permitted
    BY <2>3 DEF Permitted
  <2>5. PermitAccounting'
    BY <2>1, <2>4, <1>0 DEF PermitAccounting
  <2>6. free' \in 0 .. Capacity
    BY <2>1, <1>0 DEF PermitAccounting
  <2>7. TypeOK'
    BY <2>1, <2>2, <2>6 DEF CallerType
  <2>8. CallsHaveSessions' /\ WaitqMatchesCallers' /\ TokensMatchMap'
    BY <2>1, <2>3 DEF CallsHaveSessions, WaitqMatchesCallers, TokensMatchMap
  <2>9. QED
    BY <2>5, <2>7, <2>8
<1>12. CASE UNCHANGED vars
  BY <1>12 DEF vars, WaitqMatchesCallers, CallsHaveSessions, PermitAccounting,
               Permitted, TokensMatchMap, HasToken, InChannel
<1>13. QED
  BY <1>1, <1>2, <1>3, <1>4, <1>5, <1>6, <1>7, <1>8, <1>9, <1>10, <1>11, <1>12
     DEF Next

(* The inductive invariant, for any number of callers and any capacity. *)
THEOREM NudgeInvariant == Spec => []NudgeInv
<1>1. QED
  BY NudgeInvInit, NudgeInvStep, PTL DEF Spec

(* Type correctness; in particular the free permits stay in range. *)
THEOREM NudgeTypeCorrect == Spec => []TypeOK
<1>1. NudgeInv => TypeOK
  BY DEF NudgeInv
<1>2. QED
  BY <1>1, NudgeInvariant, PTL

(* The map and the channel agree while the work source lives: no token is  *)
(* discarded by take_nudge and no session has two.                         *)
THEOREM NudgeTokensMatchMap == Spec => []TokensMatchMap
<1>1. NudgeInv => TokensMatchMap
  BY DEF NudgeInv
<1>2. QED
  BY <1>1, NudgeInvariant, PTL

(* No permit of the bounded channel is lost or duplicated, under any       *)
(* interleaving of sends, coalescing, cancellation and closing.            *)
THEOREM NudgePermitAccounting == Spec => []PermitAccounting
<1>1. NudgeInv => PermitAccounting
  BY DEF NudgeInv
<1>2. QED
  BY <1>1, NudgeInvariant, PTL

---------------------------------------------------------------------------
(* Without cancellation, no accepted hint is lost.                         *)

(* The strengthening: an entry without a token is some caller's promise to *)
(* send one.                                                               *)
KeptInv ==
  source = "open" =>
    /\ \A s \in Sessions : pending[s] = Reserved => Carried(s)
    /\ \A s \in owed : HasToken(s) \/ Carried(s)

(* Tokens persist unless take_nudge returns them, callers carry on unless  *)
(* they send.                                                              *)
LEMMA KeptInvStep ==
  ASSUME Cancellable = {}
  PROVE  NudgeInv /\ KeptInv /\ [Next]_vars => KeptInv'
<1> SUFFICES ASSUME NudgeInv, KeptInv, [Next]_vars, source' = "open"
             PROVE  KeptInv'
  BY DEF KeptInv
<1>0. source = "open"
  BY DEF NudgeInv, TypeOK, Next, vars, Nudge, NudgeWaiting, Recheck, Reserve, Send,
         DropReservation, Cancel, Receive, TakeNudge, ClearPending, CloseChannel
<1> DEFINE Promised == \A s \in Sessions : pending[s] = Reserved => Carried(s)
           Kept == \A s \in owed : HasToken(s) \/ Carried(s)
<1>a. Promised /\ Kept
  BY <1>0 DEF KeptInv
<1>b. SUFFICES Promised' /\ Kept'
  BY DEF KeptInv
<1>c. /\ owed \subseteq Sessions
      /\ pending \in [Sessions -> {Absent, Reserved, Queued}]
      /\ \A s \in Sessions : HasToken(s) <=> pending[s] = Queued
      /\ channel \in Seq(Sessions)
      /\ caller \in CallerType
  BY <1>0 DEF NudgeInv, TypeOK, TokensMatchMap, CallerType
<1>d. NudgeInv'
  BY NudgeInvStep
<1>e. /\ owed' \subseteq Sessions
      /\ pending' \in [Sessions -> {Absent, Reserved, Queued}]
      /\ \A s \in Sessions : HasToken(s)' <=> pending'[s] = Queued
  BY <1>d DEF NudgeInv, TypeOK, TokensMatchMap
<1> HIDE DEF Promised, Kept
(* What a nudge does to the map and to the hints owed, once the callers    *)
(* carry on.                                                               *)
<1>f. ASSUME NEW s \in Sessions, NudgeSession(s), taken' = taken,
             \A t \in Sessions : Carried(t) => Carried(t)'
      PROVE  Promised' /\ Kept'
  <2>1. /\ \A t \in Sessions \ {s} : pending'[t] = pending[t]
        /\ pending'[s] \in {pending[s], Queued}
        /\ pending[s] = Queued => pending'[s] = Queued
        /\ owed' \subseteq owed \cup {s}
        /\ s \in owed' => s \in owed \/ pending'[s] \in {Reserved, Queued}
    BY <1>f, <1>c DEF NudgeSession, Outcome, Absent
  <2>2. Promised'
    BY <2>1, <1>a, <1>f DEF Promised, Queued, Reserved
  <2>3. Kept'
    BY <2>1, <2>2, <1>a, <1>c, <1>e, <1>f DEF Promised, Kept
  <2>4. QED
    BY <2>2, <2>3
<1>1. ASSUME NEW s \in Sessions, Nudge(s) PROVE Promised' /\ Kept'
  <2>1. NudgeSession(s) /\ taken' = taken /\ caller' = caller
    BY <1>1 DEF Nudge
  <2>2. QED
    BY <2>1, <1>f DEF Carried
<1>2. ASSUME NEW c \in Callers, NEW s \in Sessions, NudgeWaiting(c, s)
      PROVE  Promised' /\ Kept'
  <2>1. /\ NudgeSession(s)
        /\ taken' = taken
        /\ caller[c].at = "idle"
        /\ \A d \in Callers \ {c} : caller'[d] = caller[d]
    BY <1>2, <1>c DEF NudgeWaiting, CallerType
  <2>2. \A t \in Sessions : Carried(t) => Carried(t)'
    BY <2>1 DEF Carried
  <2>3. QED
    BY <2>1, <2>2, <1>f
<1>3. ASSUME NEW c \in Callers, Recheck(c) PROVE Promised' /\ Kept'
  <2> DEFINE s == caller[c].session
  <2>1. /\ caller[c].at = "recheck"
        /\ owed' = owed
        /\ UNCHANGED <<channel, taken>>
        /\ \A d \in Callers \ {c} : caller'[d] = caller[d]
        /\ \/ pending' = pending
           \/ /\ pending' = [pending EXCEPT ![s] = Reserved]
              /\ caller'[c].at = "reserving"
              /\ caller'[c].session = s
    BY <1>3, <1>c DEF Recheck, Goto, CallerType
  <2>2. \A t \in Sessions : Carried(t) => Carried(t)'
    BY <2>1 DEF Carried
  <2>3. Promised'
    BY <2>1, <2>2, <1>a, <1>c DEF Promised, Carried
  <2>4. Kept'
    BY <2>1, <2>2, <1>a, <1>c DEF Kept, HasToken, InChannel
  <2>5. QED
    BY <2>3, <2>4
<1>4. ASSUME NEW c \in Callers, Reserve(c) PROVE Promised' /\ Kept'
  <2>1. /\ caller[c].at = "reserving"
        /\ UNCHANGED <<channel, pending, taken, owed>>
        /\ \A d \in Callers \ {c} : caller'[d] = caller[d]
        /\ caller'[c].at \in {"waiting", "permitted"}
        /\ caller'[c].session = caller[c].session
    BY <1>4, <1>0, <1>c DEF Reserve, Goto, CallerType
  <2>2. \A t \in Sessions : Carried(t) => Carried(t)'
    BY <2>1 DEF Carried
  <2>3. QED
    BY <2>1, <2>2, <1>a, <1>c DEF Promised, Kept, HasToken, InChannel
<1>5. ASSUME NEW c \in Callers, Send(c) PROVE Promised' /\ Kept'
  <2> DEFINE s == caller[c].session
  <2>1. /\ caller[c].at = "permitted"
        /\ s \in Sessions
        /\ owed' = owed \cup {s}
        /\ taken' = taken
        /\ pending' = [pending EXCEPT ![s] = Queued]
    BY <1>5, <1>0, <1>c DEF Send, NudgeInv, CallsHaveSessions
  <2>2. \A d \in Callers \ {c} :
          /\ caller'[d].session = caller[d].session
          /\ \/ caller'[d].at = caller[d].at
             \/ caller'[d].at = "permitted"
    BY <1>5, <1>c DEF Send, Goto, GiveBackPermit, CallerType
  <2>3. \A t \in Sessions \ {s} : Carried(t) => Carried(t)'
    BY <2>1, <2>2 DEF Carried
  <2>4. \A t \in Sessions \ {s} : pending'[t] = pending[t]
    BY <2>1, <1>c
  <2>5. pending'[s] = Queued
    BY <2>1, <1>c
  <2>6. Promised'
    BY <2>3, <2>4, <2>5, <1>a DEF Promised, Queued, Reserved
  <2>7. Kept'
    BY <2>1, <2>3, <2>4, <2>5, <1>a, <1>c, <1>e DEF Kept
  <2>8. QED
    BY <2>6, <2>7
<1>6. ASSUME NEW c \in Callers, DropReservation(c) PROVE Promised' /\ Kept'
  <2> DEFINE s == caller[c].session
  <2>1. /\ caller[c].at = "dropping"
        /\ UNCHANGED <<channel, taken, owed>>
        /\ \A d \in Callers \ {c} : caller'[d] = caller[d]
        /\ \A t \in Sessions : pending'[t] = pending[t] \/ pending'[t] = Absent
    BY <1>6, <1>c DEF DropReservation, CallerType
  <2>2. \A t \in Sessions : Carried(t) => Carried(t)'
    BY <2>1 DEF Carried
  <2>3. QED
    BY <2>1, <2>2, <1>a, <1>c
       DEF Promised, Kept, HasToken, InChannel, Absent, Reserved
<1>7. \A c \in Callers : ~ Cancel(c)
  BY DEF Cancel
<1>8. CASE Receive
  <2>1. /\ UNCHANGED <<pending, owed>>
        /\ \A d \in Callers :
             /\ caller'[d].session = caller[d].session
             /\ \/ caller'[d].at = caller[d].at
                \/ caller'[d].at = "permitted"
    <3>1. UNCHANGED <<pending, owed>> /\ GiveBackPermit(caller)
      BY <1>8 DEF Receive
    <3>2. \/ caller' = caller
          \/ caller' = [caller EXCEPT ![Head(waitq)].at = "permitted"]
      BY <3>1 DEF GiveBackPermit
    <3>3. QED
      BY <3>1, <3>2, <1>c DEF CallerType
  <2>2. \A t \in Sessions : Carried(t) => Carried(t)'
    BY <2>1 DEF Carried
  <2>3. Promised'
    BY <2>1, <2>2, <1>a DEF Promised
  <2>4. Kept'
    BY <2>1, <2>2, <1>a, <1>c, <1>e DEF Kept
  <2>5. QED
    BY <2>3, <2>4
<1>9. CASE TakeNudge
  <2>1. /\ caller' = caller
        /\ taken \in Sessions
        /\ pending' = [pending EXCEPT ![taken] = Absent]
        /\ owed' \subseteq owed
    BY <1>9, <1>c DEF TakeNudge, NudgeInv, TypeOK
  <2>2. taken \notin owed'
    <3>1. pending[taken] = Queued
      BY <2>1, <1>c DEF HasToken
    <3>2. QED
      BY <1>9, <3>1 DEF TakeNudge, Absent, Queued
  <2>3. \A t \in Sessions : Carried(t) => Carried(t)'
    BY <2>1 DEF Carried
  <2>4. Promised'
    BY <2>1, <2>3, <1>a, <1>c DEF Promised, Absent, Reserved
  <2>5. Kept'
    BY <2>1, <2>2, <2>3, <1>a, <1>c, <1>e DEF Kept
  <2>6. QED
    BY <2>4, <2>5
<1>10. CASE ClearPending \/ CloseChannel
  BY <1>10 DEF ClearPending, CloseChannel
<1>11. CASE UNCHANGED vars
  BY <1>11, <1>a DEF vars, Promised, Kept, Carried, HasToken, InChannel
<1>12. QED
  BY <1>1, <1>2, <1>3, <1>4, <1>5, <1>6, <1>7, <1>8, <1>9, <1>10, <1>11 DEF Next

(* A hint reported Enqueued or Coalesced is never lost while the source    *)
(* lives, provided no nudging future is dropped at its await point.        *)
THEOREM NudgeHintKept ==
  ASSUME Cancellable = {}
  PROVE  Spec => []AcceptedHintKept
<1>1. Init => KeptInv
  BY DEF Init, KeptInv, Absent, Reserved
<1>2. NudgeInv /\ KeptInv /\ [Next]_vars => KeptInv'
  BY KeptInvStep
<1>3. KeptInv => AcceptedHintKept
  BY DEF KeptInv, AcceptedHintKept
<1>4. QED
  BY <1>1, <1>2, <1>3, NudgeInvariant, PTL DEF Spec
============================================================================
