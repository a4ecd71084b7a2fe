-------------------------- MODULE HubFenceProofs --------------------------
(***************************************************************************)
(* Proofs about HubFence, for any set of incarnations and of sessions and  *)
(* any largest generation.  FenceInv is inductive; SingleWriter and        *)
(* CleanRelease follow from it, and with it every step of the fence is a   *)
(* step of WriterEpochs or leaves its variables alone.                     *)
(***************************************************************************)
EXTENDS HubFence, TLAPS

\* The first state satisfies the invariant (hub_fence_state starts at 1 and
\* no session exists).
LEMMA FenceInit == Init => FenceInv
  <1> SUFFICES ASSUME Init PROVE FenceInv
    OBVIOUS
  <1> USE FenceAssumption DEF Init

  <1>1. TypeOK
    BY DEF TypeOK, Phases, TxStates, ConnStates
  <1>2. GuardOwnsFence
    BY DEF GuardOwnsFence
  <1>3. AdvanceReadsCurrent
    BY DEF AdvanceReadsCurrent
  <1>4. ExclusiveExcludesShared
    BY DEF ExclusiveExcludesShared, SharedHeld, HoldsShared
  <1>5. SessionsNeedPool
    BY DEF SessionsNeedPool, NoSessions
  <1>6. OwnGenerations
    BY DEF OwnGenerations
  <1>7. WritersCurrent
    BY DEF WritersCurrent, MayWrite
  <1> QED
    BY <1>1, <1>2, <1>3, <1>4, <1>5, <1>6, <1>7 DEF FenceInv

\* Every step preserves the type invariant.
LEMMA TypeOKStep == FenceInv /\ [Next]_vars => TypeOK'
  <1> SUFFICES ASSUME FenceInv, [Next]_vars PROVE TypeOK'
    OBVIOUS
  <1> USE FenceAssumption DEF FenceInv
  <1> USE DEF TypeOK, Phases, TxStates, ConnStates, Go, EndGuardSession, TypeOK
  <1>1. ASSUME NEW h \in Hubs, HubStep(h) PROVE TypeOK'
    <2>1. CASE AcquireGuard(h)
      BY <2>1 DEF AcquireGuard, AdvanceReadsCurrent
    <2>2. CASE BeginAdvance(h)
      BY <2>2 DEF BeginAdvance, AdvanceReadsCurrent
    <2>3. CASE Exhausted(h)
      BY <2>3 DEF Exhausted, AdvanceReadsCurrent
    <2>4. CASE LockPrior(h)
      BY <2>4 DEF LockPrior, AdvanceReadsCurrent
    <2>5. CASE CommitAdvance(h)
      BY <2>5 DEF CommitAdvance, AdvanceReadsCurrent
    <2>6. CASE CommitAdvanceUnheard(h)
      BY <2>6 DEF CommitAdvanceUnheard, AdvanceReadsCurrent
    <2>7. CASE AdvanceFails(h)
      BY <2>7 DEF AdvanceFails, AdvanceReadsCurrent
    <2>8. CASE ConnectPool(h)
      BY <2>8 DEF ConnectPool, AdvanceReadsCurrent
    <2>9. CASE Constructed(h)
      BY <2>9 DEF Constructed, AdvanceReadsCurrent
    <2>10. CASE ConstructionLost(h)
      BY <2>10 DEF ConstructionLost, AdvanceReadsCurrent
    <2>11. CASE GuardDies(h)
      BY <2>11 DEF GuardDies, AdvanceReadsCurrent
    <2>12. CASE CloseBegins(h)
      BY <2>12 DEF CloseBegins, AdvanceReadsCurrent
    <2>13. CASE Drained(h)
      BY <2>13 DEF Drained, AdvanceReadsCurrent
    <2>14. CASE Retire(h)
      BY <2>14 DEF Retire, AdvanceReadsCurrent
    <2>15. CASE RetireFails(h)
      BY <2>15 DEF RetireFails, AdvanceReadsCurrent
    <2>16. CASE Release(h)
      BY <2>16 DEF Release, AdvanceReadsCurrent
    <2>17. CASE Abandon(h)
      BY <2>17 DEF Abandon, AdvanceReadsCurrent
    <2>18. CASE Exit(h)
      BY <2>18 DEF Exit, AdvanceReadsCurrent
    <2>19. CASE Restart(h)
      BY <2>19 DEF Restart, AdvanceReadsCurrent, NoSessions
    <2> QED
      BY <1>1, <2>1, <2>2, <2>3, <2>4, <2>5, <2>6, <2>7, <2>8, <2>9, <2>10, <2>11, <2>12, <2>13, <2>14, <2>15, <2>16, <2>17, <2>18, <2>19 DEF HubStep
  <1>2. ASSUME NEW h \in Hubs, NEW c \in Conns, ConnStep(h, c) PROVE TypeOK'
    <2>1. CASE Connect(h, c)
      BY <2>1 DEF Connect, SetConn, AdvanceReadsCurrent, PoolServes
    <2>2. CASE GrantShared(h, c)
      BY <2>2 DEF GrantShared, SetConn, AdvanceReadsCurrent
    <2>3. CASE CheckGeneration(h, c)
      BY <2>3 DEF CheckGeneration, SetConn, AdvanceReadsCurrent
    <2>4. CASE Begin(h, c)
      BY <2>4 DEF Begin, SetConn, AdvanceReadsCurrent
    <2>5. CASE Commit(h, c)
      BY <2>5 DEF Commit, SetConn, AdvanceReadsCurrent
    <2>6. CASE Detach(h, c)
      BY <2>6 DEF Detach, SetConn, AdvanceReadsCurrent
    <2>7. CASE EndSession(h, c)
      BY <2>7 DEF EndSession, SetConn, AdvanceReadsCurrent
    <2> QED
      BY <1>2, <2>1, <2>2, <2>3, <2>4, <2>5, <2>6, <2>7 DEF ConnStep
  <1>3. CASE UNCHANGED vars
    BY <1>3 DEF vars
  <1> QED
    BY <1>1, <1>2, <1>3 DEF Next

\* Every step preserves that only the guard's session advances or fences.
LEMMA GuardOwnsFenceStep == FenceInv /\ [Next]_vars => GuardOwnsFence'
  <1> SUFFICES ASSUME FenceInv, [Next]_vars PROVE GuardOwnsFence'
    OBVIOUS
  <1> USE FenceAssumption DEF FenceInv
  <1> USE DEF TypeOK, Phases, TxStates, ConnStates, Go, EndGuardSession, GuardOwnsFence
  <1>1. ASSUME NEW h \in Hubs, HubStep(h) PROVE GuardOwnsFence'
    <2>1. CASE AcquireGuard(h)
      BY <2>1 DEF AcquireGuard
    <2>2. CASE BeginAdvance(h)
      BY <2>2 DEF BeginAdvance
    <2>3. CASE Exhausted(h)
      BY <2>3 DEF Exhausted
    <2>4. CASE LockPrior(h)
      BY <2>4 DEF LockPrior
    <2>5. CASE CommitAdvance(h)
      BY <2>5 DEF CommitAdvance
    <2>6. CASE CommitAdvanceUnheard(h)
      BY <2>6 DEF CommitAdvanceUnheard
    <2>7. CASE AdvanceFails(h)
      BY <2>7 DEF AdvanceFails
    <2>8. CASE ConnectPool(h)
      BY <2>8 DEF ConnectPool
    <2>9. CASE Constructed(h)
      BY <2>9 DEF Constructed
    <2>10. CASE ConstructionLost(h)
      BY <2>10 DEF ConstructionLost
    <2>11. CASE GuardDies(h)
      BY <2>11 DEF GuardDies
    <2>12. CASE CloseBegins(h)
      BY <2>12 DEF CloseBegins
    <2>13. CASE Drained(h)
      BY <2>13 DEF Drained
    <2>14. CASE Retire(h)
      BY <2>14 DEF Retire
    <2>15. CASE RetireFails(h)
      BY <2>15 DEF RetireFails
    <2>16. CASE Release(h)
      BY <2>16 DEF Release
    <2>17. CASE Abandon(h)
      BY <2>17 DEF Abandon
    <2>18. CASE Exit(h)
      BY <2>18 DEF Exit
    <2>19. CASE Restart(h)
      BY <2>19 DEF Restart, NoSessions
    <2> QED
      BY <1>1, <2>1, <2>2, <2>3, <2>4, <2>5, <2>6, <2>7, <2>8, <2>9, <2>10, <2>11, <2>12, <2>13, <2>14, <2>15, <2>16, <2>17, <2>18, <2>19 DEF HubStep
  <1>2. ASSUME NEW h \in Hubs, NEW c \in Conns, ConnStep(h, c) PROVE GuardOwnsFence'
    <2>1. CASE Connect(h, c)
      BY <2>1 DEF Connect, SetConn, PoolServes
    <2>2. CASE GrantShared(h, c)
      BY <2>2 DEF GrantShared, SetConn
    <2>3. CASE CheckGeneration(h, c)
      BY <2>3 DEF CheckGeneration, SetConn
    <2>4. CASE Begin(h, c)
      BY <2>4 DEF Begin, SetConn
    <2>5. CASE Commit(h, c)
      BY <2>5 DEF Commit, SetConn
    <2>6. CASE Detach(h, c)
      BY <2>6 DEF Detach, SetConn
    <2>7. CASE EndSession(h, c)
      BY <2>7 DEF EndSession, SetConn
    <2> QED
      BY <1>2, <2>1, <2>2, <2>3, <2>4, <2>5, <2>6, <2>7 DEF ConnStep
  <1>3. CASE UNCHANGED vars
    BY <1>3 DEF vars
  <1> QED
    BY <1>1, <1>2, <1>3 DEF Next

\* Every step preserves what the row lock protects.
LEMMA AdvanceReadsCurrentStep == FenceInv /\ [Next]_vars => AdvanceReadsCurrent'
  <1> SUFFICES ASSUME FenceInv, [Next]_vars PROVE AdvanceReadsCurrent'
    OBVIOUS
  <1> USE FenceAssumption DEF FenceInv
  <1> USE DEF TypeOK, Phases, TxStates, ConnStates, Go, EndGuardSession, AdvanceReadsCurrent
  <1>1. ASSUME NEW h \in Hubs, HubStep(h) PROVE AdvanceReadsCurrent'
    <2>1. CASE AcquireGuard(h)
      BY <2>1 DEF AcquireGuard, GuardOwnsFence
    <2>2. CASE BeginAdvance(h)
      BY <2>2 DEF BeginAdvance, GuardOwnsFence
    <2>3. CASE Exhausted(h)
      BY <2>3 DEF Exhausted, GuardOwnsFence
    <2>4. CASE LockPrior(h)
      BY <2>4 DEF LockPrior, GuardOwnsFence
    <2>5. CASE CommitAdvance(h)
      BY <2>5 DEF CommitAdvance, GuardOwnsFence
    <2>6. CASE CommitAdvanceUnheard(h)
      BY <2>6 DEF CommitAdvanceUnheard, GuardOwnsFence
    <2>7. CASE AdvanceFails(h)
      BY <2>7 DEF AdvanceFails, GuardOwnsFence
    <2>8. CASE ConnectPool(h)
      BY <2>8 DEF ConnectPool, GuardOwnsFence
    <2>9. CASE Constructed(h)
      BY <2>9 DEF Constructed, GuardOwnsFence
    <2>10. CASE ConstructionLost(h)
      BY <2>10 DEF ConstructionLost, GuardOwnsFence
    <2>11. CASE GuardDies(h)
      BY <2>11 DEF GuardDies, GuardOwnsFence
    <2>12. CASE CloseBegins(h)
      BY <2>12 DEF CloseBegins, GuardOwnsFence
    <2>13. CASE Drained(h)
      BY <2>13 DEF Drained, GuardOwnsFence
    <2>14. CASE Retire(h)
      BY <2>14 DEF Retire, GuardOwnsFence
    <2>15. CASE RetireFails(h)
      BY <2>15 DEF RetireFails, GuardOwnsFence
    <2>16. CASE Release(h)
      BY <2>16 DEF Release, GuardOwnsFence
    <2>17. CASE Abandon(h)
      BY <2>17 DEF Abandon, GuardOwnsFence
    <2>18. CASE Exit(h)
      BY <2>18 DEF Exit, GuardOwnsFence
    <2>19. CASE Restart(h)
      BY <2>19 DEF Restart, GuardOwnsFence, NoSessions
    <2> QED
      BY <1>1, <2>1, <2>2, <2>3, <2>4, <2>5, <2>6, <2>7, <2>8, <2>9, <2>10, <2>11, <2>12, <2>13, <2>14, <2>15, <2>16, <2>17, <2>18, <2>19 DEF HubStep
  <1>2. ASSUME NEW h \in Hubs, NEW c \in Conns, ConnStep(h, c) PROVE AdvanceReadsCurrent'
    <2>1. CASE Connect(h, c)
      BY <2>1 DEF Connect, SetConn, GuardOwnsFence, PoolServes
    <2>2. CASE GrantShared(h, c)
      BY <2>2 DEF GrantShared, SetConn, GuardOwnsFence
    <2>3. CASE CheckGeneration(h, c)
      BY <2>3 DEF CheckGeneration, SetConn, GuardOwnsFence
    <2>4. CASE Begin(h, c)
      BY <2>4 DEF Begin, SetConn, GuardOwnsFence
    <2>5. CASE Commit(h, c)
      BY <2>5 DEF Commit, SetConn, GuardOwnsFence
    <2>6. CASE Detach(h, c)
      BY <2>6 DEF Detach, SetConn, GuardOwnsFence
    <2>7. CASE EndSession(h, c)
      BY <2>7 DEF EndSession, SetConn, GuardOwnsFence
    <2> QED
      BY <1>2, <2>1, <2>2, <2>3, <2>4, <2>5, <2>6, <2>7 DEF ConnStep
  <1>3. CASE UNCHANGED vars
    BY <1>3 DEF vars
  <1> QED
    BY <1>1, <1>2, <1>3 DEF Next

\* Every step preserves the exclusion of the advisory locks.
LEMMA ExclusiveExcludesSharedStep == FenceInv /\ [Next]_vars => ExclusiveExcludesShared'
  <1> SUFFICES ASSUME FenceInv, [Next]_vars PROVE ExclusiveExcludesShared'
    OBVIOUS
  <1> USE FenceAssumption DEF FenceInv
  <1> USE DEF TypeOK, Phases, TxStates, ConnStates, Go, EndGuardSession, ExclusiveExcludesShared, SharedHeld, HoldsShared
  <1>1. ASSUME NEW h \in Hubs, HubStep(h) PROVE ExclusiveExcludesShared'
    <2>1. CASE AcquireGuard(h)
      BY <2>1 DEF AcquireGuard, SessionsNeedPool
    <2>2. CASE BeginAdvance(h)
      BY <2>2 DEF BeginAdvance, SessionsNeedPool
    <2>3. CASE Exhausted(h)
      BY <2>3 DEF Exhausted, SessionsNeedPool
    <2>4. CASE LockPrior(h)
      BY <2>4 DEF LockPrior, SessionsNeedPool, ExclusiveHeldByOther
    <2>5. CASE CommitAdvance(h)
      BY <2>5 DEF CommitAdvance, SessionsNeedPool, NoSessions
    <2>6. CASE CommitAdvanceUnheard(h)
      BY <2>6 DEF CommitAdvanceUnheard, SessionsNeedPool, NoSessions
    <2>7. CASE AdvanceFails(h)
      BY <2>7 DEF AdvanceFails, SessionsNeedPool
    <2>8. CASE ConnectPool(h)
      BY <2>8 DEF ConnectPool, SessionsNeedPool
    <2>9. CASE Constructed(h)
      BY <2>9 DEF Constructed, SessionsNeedPool
    <2>10. CASE ConstructionLost(h)
      BY <2>10 DEF ConstructionLost, SessionsNeedPool
    <2>11. CASE GuardDies(h)
      BY <2>11 DEF GuardDies, SessionsNeedPool
    <2>12. CASE CloseBegins(h)
      BY <2>12 DEF CloseBegins, SessionsNeedPool
    <2>13. CASE Drained(h)
      BY <2>13 DEF Drained, SessionsNeedPool
    <2>14. CASE Retire(h)
      BY <2>14 DEF Retire, SessionsNeedPool, ExclusiveHeldByOther
    <2>15. CASE RetireFails(h)
      BY <2>15 DEF RetireFails, SessionsNeedPool
    <2>16. CASE Release(h)
      BY <2>16 DEF Release, SessionsNeedPool
    <2>17. CASE Abandon(h)
      BY <2>17 DEF Abandon, SessionsNeedPool
    <2>18. CASE Exit(h)
      BY <2>18 DEF Exit, SessionsNeedPool
    <2>19. CASE Restart(h)
      BY <2>19 DEF Restart, SessionsNeedPool, NoSessions
    <2> QED
      BY <1>1, <2>1, <2>2, <2>3, <2>4, <2>5, <2>6, <2>7, <2>8, <2>9, <2>10, <2>11, <2>12, <2>13, <2>14, <2>15, <2>16, <2>17, <2>18, <2>19 DEF HubStep
  <1>2. ASSUME NEW h \in Hubs, NEW c \in Conns, ConnStep(h, c) PROVE ExclusiveExcludesShared'
    <2>1. CASE Connect(h, c)
      BY <2>1 DEF Connect, SetConn, SessionsNeedPool, PoolServes
    <2>2. CASE GrantShared(h, c)
      BY <2>2 DEF GrantShared, SetConn, SessionsNeedPool
    <2>3. CASE CheckGeneration(h, c)
      BY <2>3 DEF CheckGeneration, SetConn, SessionsNeedPool
    <2>4. CASE Begin(h, c)
      BY <2>4 DEF Begin, SetConn, SessionsNeedPool
    <2>5. CASE Commit(h, c)
      BY <2>5 DEF Commit, SetConn, SessionsNeedPool
    <2>6. CASE Detach(h, c)
      BY <2>6 DEF Detach, SetConn, SessionsNeedPool
    <2>7. CASE EndSession(h, c)
      BY <2>7 DEF EndSession, SetConn, SessionsNeedPool
    <2> QED
      BY <1>2, <2>1, <2>2, <2>3, <2>4, <2>5, <2>6, <2>7 DEF ConnStep
  <1>3. CASE UNCHANGED vars
    BY <1>3 DEF vars
  <1> QED
    BY <1>1, <1>2, <1>3 DEF Next

\* Every step preserves where sessions can exist.
LEMMA SessionsNeedPoolStep == FenceInv /\ [Next]_vars => SessionsNeedPool'
  <1> SUFFICES ASSUME FenceInv, [Next]_vars PROVE SessionsNeedPool'
    OBVIOUS
  <1> USE FenceAssumption DEF FenceInv
  <1> USE DEF TypeOK, Phases, TxStates, ConnStates, Go, EndGuardSession, SessionsNeedPool, NoSessions
  <1>1. ASSUME NEW h \in Hubs, HubStep(h) PROVE SessionsNeedPool'
    <2>1. CASE AcquireGuard(h)
      BY <2>1 DEF AcquireGuard, GuardOwnsFence
    <2>2. CASE BeginAdvance(h)
      BY <2>2 DEF BeginAdvance, GuardOwnsFence
    <2>3. CASE Exhausted(h)
      BY <2>3 DEF Exhausted, GuardOwnsFence
    <2>4. CASE LockPrior(h)
      BY <2>4 DEF LockPrior, GuardOwnsFence
    <2>5. CASE CommitAdvance(h)
      BY <2>5 DEF CommitAdvance, GuardOwnsFence
    <2>6. CASE CommitAdvanceUnheard(h)
      BY <2>6 DEF CommitAdvanceUnheard, GuardOwnsFence
    <2>7. CASE AdvanceFails(h)
      BY <2>7 DEF AdvanceFails, GuardOwnsFence
    <2>8. CASE ConnectPool(h)
      BY <2>8 DEF ConnectPool, GuardOwnsFence
    <2>9. CASE Constructed(h)
      BY <2>9 DEF Constructed, GuardOwnsFence
    <2>10. CASE ConstructionLost(h)
      BY <2>10 DEF ConstructionLost, GuardOwnsFence
    <2>11. CASE GuardDies(h)
      BY <2>11 DEF GuardDies, GuardOwnsFence
    <2>12. CASE CloseBegins(h)
      BY <2>12 DEF CloseBegins, GuardOwnsFence
    <2>13. CASE Drained(h)
      BY <2>13 DEF Drained, GuardOwnsFence
    <2>14. CASE Retire(h)
      BY <2>14 DEF Retire, GuardOwnsFence
    <2>15. CASE RetireFails(h)
      BY <2>15 DEF RetireFails, GuardOwnsFence
    <2>16. CASE Release(h)
      BY <2>16 DEF Release, GuardOwnsFence
    <2>17. CASE Abandon(h)
      BY <2>17 DEF Abandon, GuardOwnsFence
    <2>18. CASE Exit(h)
      BY <2>18 DEF Exit, GuardOwnsFence
    <2>19. CASE Restart(h)
      BY <2>19 DEF Restart, GuardOwnsFence
    <2> QED
      BY <1>1, <2>1, <2>2, <2>3, <2>4, <2>5, <2>6, <2>7, <2>8, <2>9, <2>10, <2>11, <2>12, <2>13, <2>14, <2>15, <2>16, <2>17, <2>18, <2>19 DEF HubStep
  <1>2. ASSUME NEW h \in Hubs, NEW c \in Conns, ConnStep(h, c) PROVE SessionsNeedPool'
    <2>1. CASE Connect(h, c)
      BY <2>1 DEF Connect, SetConn, GuardOwnsFence, PoolServes
    <2>2. CASE GrantShared(h, c)
      BY <2>2 DEF GrantShared, SetConn, GuardOwnsFence
    <2>3. CASE CheckGeneration(h, c)
      BY <2>3 DEF CheckGeneration, SetConn, GuardOwnsFence
    <2>4. CASE Begin(h, c)
      BY <2>4 DEF Begin, SetConn, GuardOwnsFence
    <2>5. CASE Commit(h, c)
      BY <2>5 DEF Commit, SetConn, GuardOwnsFence
    <2>6. CASE Detach(h, c)
      BY <2>6 DEF Detach, SetConn, GuardOwnsFence
    <2>7. CASE EndSession(h, c)
      BY <2>7 DEF EndSession, SetConn, GuardOwnsFence
    <2> QED
      BY <1>2, <2>1, <2>2, <2>3, <2>4, <2>5, <2>6, <2>7 DEF ConnStep
  <1>3. CASE UNCHANGED vars
    BY <1>3 DEF vars
  <1> QED
    BY <1>1, <1>2, <1>3 DEF Next

\* Every step preserves that pool generations are distinct.
LEMMA OwnGenerationsStep == FenceInv /\ [Next]_vars => OwnGenerations'
  <1> SUFFICES ASSUME FenceInv, [Next]_vars PROVE OwnGenerations'
    OBVIOUS
  <1> USE FenceAssumption DEF FenceInv
  <1> USE DEF TypeOK, Phases, TxStates, ConnStates, Go, EndGuardSession, OwnGenerations
  <1>1. ASSUME NEW h \in Hubs, HubStep(h) PROVE OwnGenerations'
    <2>1. CASE AcquireGuard(h)
      BY <2>1 DEF AcquireGuard, AdvanceReadsCurrent
    <2>2. CASE BeginAdvance(h)
      BY <2>2 DEF BeginAdvance, AdvanceReadsCurrent
    <2>3. CASE Exhausted(h)
      BY <2>3 DEF Exhausted, AdvanceReadsCurrent
    <2>4. CASE LockPrior(h)
      BY <2>4 DEF LockPrior, AdvanceReadsCurrent
    <2>5. CASE CommitAdvance(h)
      BY <2>5 DEF CommitAdvance, AdvanceReadsCurrent
    <2>6. CASE CommitAdvanceUnheard(h)
      BY <2>6 DEF CommitAdvanceUnheard, AdvanceReadsCurrent
    <2>7. CASE AdvanceFails(h)
      BY <2>7 DEF AdvanceFails, AdvanceReadsCurrent
    <2>8. CASE ConnectPool(h)
      BY <2>8 DEF ConnectPool, AdvanceReadsCurrent
    <2>9. CASE Constructed(h)
      BY <2>9 DEF Constructed, AdvanceReadsCurrent
    <2>10. CASE ConstructionLost(h)
      BY <2>10 DEF ConstructionLost, AdvanceReadsCurrent
    <2>11. CASE GuardDies(h)
      BY <2>11 DEF GuardDies, AdvanceReadsCurrent
    <2>12. CASE CloseBegins(h)
      BY <2>12 DEF CloseBegins, AdvanceReadsCurrent
    <2>13. CASE Drained(h)
      BY <2>13 DEF Drained, AdvanceReadsCurrent
    <2>14. CASE Retire(h)
      BY <2>14 DEF Retire, AdvanceReadsCurrent
    <2>15. CASE RetireFails(h)
      BY <2>15 DEF RetireFails, AdvanceReadsCurrent
    <2>16. CASE Release(h)
      BY <2>16 DEF Release, AdvanceReadsCurrent
    <2>17. CASE Abandon(h)
      BY <2>17 DEF Abandon, AdvanceReadsCurrent
    <2>18. CASE Exit(h)
      BY <2>18 DEF Exit, AdvanceReadsCurrent
    <2>19. CASE Restart(h)
      BY <2>19 DEF Restart, AdvanceReadsCurrent, NoSessions
    <2> QED
      BY <1>1, <2>1, <2>2, <2>3, <2>4, <2>5, <2>6, <2>7, <2>8, <2>9, <2>10, <2>11, <2>12, <2>13, <2>14, <2>15, <2>16, <2>17, <2>18, <2>19 DEF HubStep
  <1>2. ASSUME NEW h \in Hubs, NEW c \in Conns, ConnStep(h, c) PROVE OwnGenerations'
    <2>1. CASE Connect(h, c)
      BY <2>1 DEF Connect, SetConn, AdvanceReadsCurrent, PoolServes
    <2>2. CASE GrantShared(h, c)
      BY <2>2 DEF GrantShared, SetConn, AdvanceReadsCurrent
    <2>3. CASE CheckGeneration(h, c)
      BY <2>3 DEF CheckGeneration, SetConn, AdvanceReadsCurrent
    <2>4. CASE Begin(h, c)
      BY <2>4 DEF Begin, SetConn, AdvanceReadsCurrent
    <2>5. CASE Commit(h, c)
      BY <2>5 DEF Commit, SetConn, AdvanceReadsCurrent
    <2>6. CASE Detach(h, c)
      BY <2>6 DEF Detach, SetConn, AdvanceReadsCurrent
    <2>7. CASE EndSession(h, c)
      BY <2>7 DEF EndSession, SetConn, AdvanceReadsCurrent
    <2> QED
      BY <1>2, <2>1, <2>2, <2>3, <2>4, <2>5, <2>6, <2>7 DEF ConnStep
  <1>3. CASE UNCHANGED vars
    BY <1>3 DEF vars
  <1> QED
    BY <1>1, <1>2, <1>3 DEF Next

\* Every step preserves that writers are current.
LEMMA WritersCurrentStep == FenceInv /\ [Next]_vars => WritersCurrent'
  <1> SUFFICES ASSUME FenceInv, [Next]_vars PROVE WritersCurrent'
    OBVIOUS
  <1> USE FenceAssumption DEF FenceInv
  <1> USE DEF TypeOK, Phases, TxStates, ConnStates, Go, EndGuardSession, WritersCurrent, MayWrite
  <1>1. ASSUME NEW h \in Hubs, HubStep(h) PROVE WritersCurrent'
    <2>1. CASE AcquireGuard(h)
      BY <2>1 DEF AcquireGuard, ExclusiveExcludesShared, AdvanceReadsCurrent, SessionsNeedPool
    <2>2. CASE BeginAdvance(h)
      BY <2>2 DEF BeginAdvance, ExclusiveExcludesShared, AdvanceReadsCurrent, SessionsNeedPool
    <2>3. CASE Exhausted(h)
      BY <2>3 DEF Exhausted, ExclusiveExcludesShared, AdvanceReadsCurrent, SessionsNeedPool
    <2>4. CASE LockPrior(h)
      BY <2>4 DEF LockPrior, ExclusiveExcludesShared, AdvanceReadsCurrent, SessionsNeedPool
    <2>5. CASE CommitAdvance(h)
      BY <2>5 DEF CommitAdvance, ExclusiveExcludesShared, AdvanceReadsCurrent, SessionsNeedPool, NoSessions, SharedHeld, HoldsShared
    <2>6. CASE CommitAdvanceUnheard(h)
      BY <2>6 DEF CommitAdvanceUnheard, ExclusiveExcludesShared, AdvanceReadsCurrent, SessionsNeedPool, NoSessions, SharedHeld, HoldsShared
    <2>7. CASE AdvanceFails(h)
      BY <2>7 DEF AdvanceFails, ExclusiveExcludesShared, AdvanceReadsCurrent, SessionsNeedPool
    <2>8. CASE ConnectPool(h)
      BY <2>8 DEF ConnectPool, ExclusiveExcludesShared, AdvanceReadsCurrent, SessionsNeedPool
    <2>9. CASE Constructed(h)
      BY <2>9 DEF Constructed, ExclusiveExcludesShared, AdvanceReadsCurrent, SessionsNeedPool
    <2>10. CASE ConstructionLost(h)
      BY <2>10 DEF ConstructionLost, ExclusiveExcludesShared, AdvanceReadsCurrent, SessionsNeedPool
    <2>11. CASE GuardDies(h)
      BY <2>11 DEF GuardDies, ExclusiveExcludesShared, AdvanceReadsCurrent, SessionsNeedPool
    <2>12. CASE CloseBegins(h)
      BY <2>12 DEF CloseBegins, ExclusiveExcludesShared, AdvanceReadsCurrent, SessionsNeedPool
    <2>13. CASE Drained(h)
      BY <2>13 DEF Drained, ExclusiveExcludesShared, AdvanceReadsCurrent, SessionsNeedPool
    <2>14. CASE Retire(h)
      BY <2>14 DEF Retire, ExclusiveExcludesShared, AdvanceReadsCurrent, SessionsNeedPool
    <2>15. CASE RetireFails(h)
      BY <2>15 DEF RetireFails, ExclusiveExcludesShared, AdvanceReadsCurrent, SessionsNeedPool
    <2>16. CASE Release(h)
      BY <2>16 DEF Release, ExclusiveExcludesShared, AdvanceReadsCurrent, SessionsNeedPool
    <2>17. CASE Abandon(h)
      BY <2>17 DEF Abandon, ExclusiveExcludesShared, AdvanceReadsCurrent, SessionsNeedPool
    <2>18. CASE Exit(h)
      BY <2>18 DEF Exit, ExclusiveExcludesShared, AdvanceReadsCurrent, SessionsNeedPool
    <2>19. CASE Restart(h)
      BY <2>19 DEF Restart, ExclusiveExcludesShared, AdvanceReadsCurrent, SessionsNeedPool, NoSessions
    <2> QED
      BY <1>1, <2>1, <2>2, <2>3, <2>4, <2>5, <2>6, <2>7, <2>8, <2>9, <2>10, <2>11, <2>12, <2>13, <2>14, <2>15, <2>16, <2>17, <2>18, <2>19 DEF HubStep
  <1>2. ASSUME NEW h \in Hubs, NEW c \in Conns, ConnStep(h, c) PROVE WritersCurrent'
    <2>1. CASE Connect(h, c)
      BY <2>1 DEF Connect, SetConn, ExclusiveExcludesShared, AdvanceReadsCurrent, SessionsNeedPool, PoolServes
    <2>2. CASE GrantShared(h, c)
      BY <2>2 DEF GrantShared, SetConn, ExclusiveExcludesShared, AdvanceReadsCurrent, SessionsNeedPool
    <2>3. CASE CheckGeneration(h, c)
      BY <2>3 DEF CheckGeneration, SetConn, ExclusiveExcludesShared, AdvanceReadsCurrent, SessionsNeedPool
    <2>4. CASE Begin(h, c)
      BY <2>4 DEF Begin, SetConn, ExclusiveExcludesShared, AdvanceReadsCurrent, SessionsNeedPool
    <2>5. CASE Commit(h, c)
      BY <2>5 DEF Commit, SetConn, ExclusiveExcludesShared, AdvanceReadsCurrent, SessionsNeedPool
    <2>6. CASE Detach(h, c)
      BY <2>6 DEF Detach, SetConn, ExclusiveExcludesShared, AdvanceReadsCurrent, SessionsNeedPool
    <2>7. CASE EndSession(h, c)
      BY <2>7 DEF EndSession, SetConn, ExclusiveExcludesShared, AdvanceReadsCurrent, SessionsNeedPool
    <2> QED
      BY <1>2, <2>1, <2>2, <2>3, <2>4, <2>5, <2>6, <2>7 DEF ConnStep
  <1>3. CASE UNCHANGED vars
    BY <1>3 DEF vars
  <1> QED
    BY <1>1, <1>2, <1>3 DEF Next

\* The inductive invariant of the fence holds always.
THEOREM FenceInvariant == Spec => []FenceInv
  <1>1. FenceInv /\ [Next]_vars => FenceInv'
    BY TypeOKStep, GuardOwnsFenceStep, AdvanceReadsCurrentStep,
       ExclusiveExcludesSharedStep, SessionsNeedPoolStep, OwnGenerationsStep,
       WritersCurrentStep DEF FenceInv
  <1> QED
    BY FenceInit, <1>1, PTL DEF Spec

\* Type correctness; in particular the checked addition in advance_hub_fence
\* keeps the generation within its width.
THEOREM FenceTypeCorrect == Spec => []TypeOK
  <1>1. FenceInv => TypeOK
    BY DEF FenceInv
  <1> QED
    BY FenceInvariant, <1>1, PTL

\* At most one incarnation has sessions that may write, and they are of the
\* stored generation (hub_fence.rs, after_connect and advance_hub_fence).
THEOREM FenceSingleWriter == Spec => []SingleWriter
  <1>1. FenceInv => SingleWriter
    BY DEF FenceInv, TypeOK, SingleWriter, WritersCurrent, OwnGenerations
  <1> QED
    BY FenceInvariant, <1>1, PTL

\* When a cleanly closed incarnation is about to release the guard, the
\* server has no session of it (retire_hub_fence_generation).
THEOREM FenceCleanRelease == Spec => []CleanRelease
  <1>1. FenceInv => CleanRelease
    BY DEF FenceInv, TypeOK, CleanRelease, SessionsNeedPool, NoSessions,
           ExclusiveExcludesShared, SharedHeld, HoldsShared
  <1> QED
    BY FenceInvariant, <1>1, PTL

\* A step that changes neither the stored generation nor a session's right
\* to write nor the last write is a stutter of WriterEpochs.
Writing == \E h \in Hubs, c \in Conns : conn[h][c] \in MayWrite

\* Every step of the fence is a step of WriterEpochs or a stutter.
LEMMA EpochStep == FenceInv /\ [Next]_vars => [Epochs!Next]_(Epochs!vars)
  <1> SUFFICES ASSUME FenceInv, [Next]_vars PROVE [Epochs!Next]_(Epochs!vars)
    OBVIOUS
  <1> USE DEF Epochs!Next, Epochs!vars, Epochs!Advance, Epochs!Open,
              Epochs!Close, Epochs!Write
  <1>1. ASSUME conn' = conn, generation' = generation, written' = written
        PROVE  [Epochs!Next]_(Epochs!vars)
    BY <1>1
  <1>2. ASSUME generation' = generation, written' = written
        PROVE  [Epochs!Next]_(Epochs!vars)
    BY <1>2
  <1>3. ASSUME NEW h \in Hubs, tx[h] = "locked", generation' = prior[h] + 1,
               conn' = conn, written' = written
        PROVE  [Epochs!Next]_(Epochs!vars)
    <2>1. ~Writing
      BY <1>3 DEF FenceInv, AdvanceReadsCurrent, ExclusiveExcludesShared,
                  WritersCurrent, SharedHeld, HoldsShared, MayWrite, Writing
    <2>2. generation' = generation + 1
      BY <1>3 DEF FenceInv, AdvanceReadsCurrent
    <2> QED
      BY <1>3, <2>1, <2>2 DEF Writing
  <1>4. ASSUME NEW h \in Hubs, NEW c \in Conns, Commit(h, c)
        PROVE  [Epochs!Next]_(Epochs!vars)
    <2>1. own[h] = generation /\ Writing
      BY <1>4 DEF Commit, FenceInv, WritersCurrent, MayWrite, Writing
    <2>2. Writing'
      BY <1>4 DEF Commit, SetConn, FenceInv, TypeOK, MayWrite, Writing
    <2>3. written' = generation /\ generation' = generation
      BY <1>4, <2>1 DEF Commit
    <2> QED
      BY <2>1, <2>2, <2>3 DEF Writing
  <1>5. ASSUME NEW h \in Hubs, HubStep(h)
        PROVE  [Epochs!Next]_(Epochs!vars)
    <2>1. CASE AcquireGuard(h)
      BY <2>1, <1>1 DEF AcquireGuard
    <2>2. CASE BeginAdvance(h)
      BY <2>2, <1>1 DEF BeginAdvance
    <2>3. CASE Exhausted(h)
      BY <2>3, <1>1 DEF Exhausted
    <2>4. CASE LockPrior(h)
      BY <2>4, <1>1 DEF LockPrior
    <2>5. CASE CommitAdvance(h)
      BY <2>5, <1>3 DEF CommitAdvance
    <2>6. CASE CommitAdvanceUnheard(h)
      BY <2>6, <1>3 DEF CommitAdvanceUnheard
    <2>7. CASE AdvanceFails(h)
      BY <2>7, <1>1 DEF AdvanceFails
    <2>8. CASE ConnectPool(h)
      BY <2>8, <1>1 DEF ConnectPool
    <2>9. CASE Constructed(h)
      BY <2>9, <1>1 DEF Constructed
    <2>10. CASE ConstructionLost(h)
      BY <2>10, <1>1 DEF ConstructionLost
    <2>11. CASE GuardDies(h)
      BY <2>11, <1>1 DEF GuardDies
    <2>12. CASE CloseBegins(h)
      BY <2>12, <1>1 DEF CloseBegins
    <2>13. CASE Drained(h)
      BY <2>13, <1>1 DEF Drained
    <2>14. CASE Retire(h)
      BY <2>14, <1>1 DEF Retire
    <2>15. CASE RetireFails(h)
      BY <2>15, <1>1 DEF RetireFails
    <2>16. CASE Release(h)
      BY <2>16, <1>1 DEF Release
    <2>17. CASE Abandon(h)
      BY <2>17, <1>1 DEF Abandon
    <2>18. CASE Exit(h)
      BY <2>18, <1>1 DEF Exit
    <2>19. CASE Restart(h)
      BY <2>19, <1>1 DEF Restart
    <2> QED
      BY <1>5, <2>1, <2>2, <2>3, <2>4, <2>5, <2>6, <2>7, <2>8, <2>9, <2>10, <2>11, <2>12, <2>13, <2>14, <2>15, <2>16, <2>17, <2>18, <2>19 DEF HubStep
  <1>6. ASSUME NEW h \in Hubs, NEW c \in Conns, ConnStep(h, c)
        PROVE  [Epochs!Next]_(Epochs!vars)
    <2>1. CASE Connect(h, c)
      BY <2>1, <1>2 DEF Connect
    <2>2. CASE GrantShared(h, c)
      BY <2>2, <1>2 DEF GrantShared
    <2>3. CASE CheckGeneration(h, c)
      BY <2>3, <1>2 DEF CheckGeneration
    <2>4. CASE Begin(h, c)
      BY <2>4, <1>2 DEF Begin
    <2>5. CASE Commit(h, c)
      BY <2>5, <1>4 DEF Commit
    <2>6. CASE Detach(h, c)
      BY <2>6, <1>2 DEF Detach
    <2>7. CASE EndSession(h, c)
      BY <2>7, <1>2 DEF EndSession
    <2> QED
      BY <1>6, <2>1, <2>2, <2>3, <2>4, <2>5, <2>6, <2>7 DEF ConnStep
  <1>7. CASE UNCHANGED vars
    BY <1>7, <1>1 DEF vars
  <1> QED
    BY <1>5, <1>6, <1>7 DEF Next

\* The fence implements exclusive epochs: no write of a predecessor commits
\* once its successor has advanced the generation.
THEOREM FenceRefinesEpochs == Spec => ExclusiveEpochs
  <1>1. Init => Epochs!Init
    BY DEF Init, Epochs!Init, MayWrite
  <1> QED
    BY FenceInvariant, EpochStep, <1>1, PTL DEF Spec, ExclusiveEpochs, Epochs!Spec
=============================================================================
