------------------------ MODULE SchedulerLoopProofs ------------------------
(***************************************************************************)
(* Proofs about the scheduler loop, for any number of sessions, any slot   *)
(* cap and any number of passes.                                           *)
(***************************************************************************)
EXTENDS SchedulerLoop, QueueLemmas

(* A cancelled waiter or a withdrawn hint leaves its queue, the rest stays. *)
LEMMA LeaveQueue ==
  ASSUME NEW S, NEW q \in Seq(S), IsInjective(q), NEW x
  PROVE  /\ Without(q, x) \in Seq(S)
         /\ IsInjective(Without(q, x))
         /\ ToSet(Without(q, x)) = ToSet(q) \ {x}
  BY EntryLeaves DEF Without

---------------------------------------------------------------------------
(* What the helpers and the steps of a pass do to a state that satisfies   *)
(* the invariant.                                                          *)

(* Tasks are finitely many, and so are the slots held.                     *)
LEMMA TasksFinite ==
  /\ IsFiniteSet(Tasks)
  /\ \A H \in SUBSET Tasks : IsFiniteSet(H) /\ Cardinality(H) \in Nat
<1>1. IsFiniteSet(Tasks)
  BY LoopAssumption, FS_Interval DEF LoopAssumption, Tasks
<1>2. QED
  BY <1>1, FS_Subset, FS_CardinalityType

(* A dropped slot is counted back once, and only if it was held.           *)
LEMMA DropSlotCounts ==
  ASSUME LoopInv, NEW t \in Tasks, DropSlot(t)
  PROVE  /\ holding' = holding \ {t}
         /\ active' = Cardinality(holding') /\ active' \in Nat
         /\ active' <= MaxInFlight
<1>1. /\ holding \subseteq Tasks /\ active \in Nat
      /\ active = Cardinality(holding) /\ active <= MaxInFlight
  BY DEF LoopInv, TypeOK, SlotsHeld, SlotAccounting
<1>2. IsFiniteSet(holding)
  BY <1>1, TasksFinite
<1>3. CASE t \in holding
  <2>1. active' = active - 1 /\ holding' = holding \ {t}
    BY <1>3 DEF DropSlot
  <2>2. Cardinality(holding \ {t}) = Cardinality(holding) - 1
    BY <1>2, <1>3, FS_RemoveElement
  <2>3. holding' \subseteq Tasks
    BY <1>1, <2>1
  <2>4. Cardinality(holding') \in Nat
    BY <2>3, TasksFinite
  <2>5. QED
    BY <1>1, <2>1, <2>2, <2>4, LoopAssumption DEF LoopAssumption
<1>4. CASE t \notin holding
  BY <1>1, <1>4 DEF DropSlot
<1>5. QED
  BY <1>3, <1>4

(* Popping takes the front of the queue: every queued session is hinted.   *)
LEMMA PopTakesFront ==
  ASSUME LoopInv, NEW s, PopHint(s)
  PROVE  /\ s \in pendingHints
         /\ pendingHints' = pendingHints \ {s}
         /\ pendingSessions' \in Seq(Sessions)
         /\ IsInjective(pendingSessions')
         /\ ToSet(pendingSessions') = pendingHints'
<1>1. /\ pendingSessions \in Seq(Sessions) /\ IsInjective(pendingSessions)
      /\ ToSet(pendingSessions) = pendingHints
      /\ DOMAIN pendingSessions = 1 .. Len(pendingSessions)
      /\ Len(pendingSessions) \in Nat
  BY DEF LoopInv, TypeOK, QueueIsHints
<1>2. HintedIndices = 1 .. Len(pendingSessions)
  BY <1>1 DEF HintedIndices, ToSet
<1>3. pendingSessions # << >> /\ 1 \in HintedIndices
  BY <1>1, <1>2 DEF PopHint, HasHint
<1>4. FirstHint = 1
  BY <1>1, <1>2, <1>3 DEF FirstHint
<1>5. s = Head(pendingSessions) /\ pendingSessions' = Tail(pendingSessions)
  BY <1>1, <1>3, <1>4, TailIsSubSeq DEF PopHint
<1>6. QED
  BY <1>1, <1>3, <1>5, TakeFront DEF PopHint

(* A popped hint is put back where it was taken from.                      *)
LEMMA RequeuePutsBack ==
  ASSUME LoopInv, ctl = "popped", RequeueFront(popped)
  PROVE  /\ popped \in Sessions /\ pendingHints' = pendingHints \cup {popped}
         /\ pendingSessions' \in Seq(Sessions)
         /\ IsInjective(pendingSessions')
         /\ ToSet(pendingSessions') = pendingHints'
<1>1. /\ pendingSessions \in Seq(Sessions) /\ IsInjective(pendingSessions)
      /\ ToSet(pendingSessions) = pendingHints
      /\ popped \in Sessions /\ popped \notin pendingHints
  BY DEF LoopInv, TypeOK, QueueIsHints
<1>2. QED
  BY <1>1, PutBackAtFront DEF RequeueFront

(* Answering a returning pass lets it go on, unless it expired meanwhile,  *)
(* and forgets it.                                                         *)
LEMMA ResumeAnswers ==
  ASSUME LoopInv, NEW s \in Sessions, waiting[s] # NoTask, ResumeWaiting(s)
  PROVE  /\ waiting[s] \in Tasks /\ waiting[s] \in released
         /\ taskSessions[waiting[s]] = s
         /\ released' = released \ {waiting[s]}
         /\ waiting' \in [Sessions -> Tasks \cup {NoTask}]
         /\ waiting'[s] = NoTask
         /\ \A r \in Sessions : r # s => waiting'[r] = waiting[r]
         /\ pc' \in [Tasks -> Live \cup Finished \cup {"unborn", "joined"}]
         /\ \A u \in Tasks : pc'[u] = pc[u] \/
              (u = waiting[s] /\ pc[u] = "awaiting" /\ pc'[u] = "admitted")
<1>1. /\ waiting \in [Sessions -> Tasks \cup {NoTask}]
      /\ pc \in [Tasks -> Live \cup Finished \cup {"unborn", "joined"}]
      /\ waiting[s] \in Tasks
  BY DEF LoopInv, TypeOK
<1>2. waiting[s] \in released /\ taskSessions[waiting[s]] = s
  BY DEF LoopInv, WaitingIsReturning
<1>3. QED
  BY <1>1, <1>2 DEF ResumeWaiting, Live

(* A step of a pass moves that pass alone, from a live place to a live or  *)
(* a finished one, and touches nothing of the loop's.                      *)
LEMMA PassMoves ==
  ASSUME LoopInv, NEW t \in Tasks, PassStep(t)
  PROVE  /\ UNCHANGED <<ctl, popped, pendingSessions, pendingHints, pendingReruns,
                        inFlight, taskSessions, released, waiting, nextTask,
                        shutdown>>
         /\ pc[t] \in Live /\ pc'[t] \in Live \cup Finished
         /\ pc' \in [Tasks -> Live \cup Finished \cup {"unborn", "joined"}]
         /\ \A u \in Tasks : u # t => pc'[u] = pc[u]
         /\ pc[t] = "awaiting" => pc'[t] = "expired"
<1>1. pc \in [Tasks -> Live \cup Finished \cup {"unborn", "joined"}]
  BY DEF LoopInv, TypeOK
<1> USE DEF Live, Finished, loopVars
<1>2. CASE ReleaseSlot(t) \/ ReleaseAdmission(t)
  BY <1>1, <1>2 DEF ReleaseSlot, ReleaseAdmission, BeginIo
<1>3. CASE SendRelease(t) \/ SendResume(t)
  BY <1>1, <1>3 DEF SendRelease, SendResume
<1>4. CASE EnterAcquire(t) \/ Acquire(t)
  BY <1>1, <1>4 DEF EnterAcquire, Acquire
<1>5. CASE Complete(t) \/ Panic(t)
  BY <1>1, <1>5 DEF Complete, Panic
<1>6. CASE Expire(t)
  BY <1>1, <1>6 DEF Expire
<1>7. QED
  BY <1>2, <1>3, <1>4, <1>5, <1>6 DEF PassStep

(* The popped hint's pass can start: its session is idle, and a task       *)
(* identity is left for it.                                                *)
LEMMA ReserveStarts ==
  ASSUME LoopInv, PoppedReserve
  PROVE  /\ popped \in Sessions /\ popped \notin inFlight
         /\ popped \notin pendingHints
         /\ nextTask \in Tasks /\ pc[nextTask] = "unborn"
         /\ nextTask' = nextTask + 1
         /\ ctl' = "top" /\ popped' = NoSession
         /\ inFlight' = inFlight \cup {popped}
         /\ taskSessions' = [taskSessions EXCEPT ![nextTask] = popped]
         /\ pc' = [pc EXCEPT ![nextTask] = "running"]
         /\ holding' = holding \cup {nextTask}
         /\ active < MaxInFlight /\ active' = active + 1
         /\ UNCHANGED <<pendingReruns, slotDirty, pendingSessions, pendingHints,
                        released, waiting, changes, reacquire, shutdown>>
<1>1. popped \in Sessions /\ popped \notin pendingHints /\ waiting[popped] = NoTask
  BY DEF LoopInv, QueueIsHints, PoppedReserve
<1>2. popped \notin inFlight
  BY <1>1 DEF LoopInv, WaitingIsReturning
<1>3. nextTask \in Tasks
  <2>1. popped \in FreshHints
    BY <1>1 DEF FreshHints
  <2>2. IsFiniteSet(FreshHints) /\ IsFiniteSet(pendingReruns)
    BY DEF LoopInv, BudgetLeft
  <2>3. Cardinality(FreshHints) \in Nat /\ Cardinality(pendingReruns) \in Nat
    BY <2>2, FS_CardinalityType
  <2>4. Cardinality(FreshHints) # 0
    BY <2>1, <2>2, FS_EmptySet
  <2>5. nextTask \in 1 .. HintBudget + 1
    BY DEF LoopInv, TypeOK
  <2>6. nextTask + Cardinality(FreshHints) + Cardinality(pendingReruns)
          <= HintBudget + 1
    BY DEF LoopInv, BudgetLeft
  <2>7. QED
    BY <2>3, <2>4, <2>5, <2>6, LoopAssumption DEF LoopAssumption, Tasks
<1>4. pc[nextTask] = "unborn"
  BY <1>3 DEF LoopInv, TasksMatchSessions, Tasks
<1>5. QED
  BY <1>1, <1>2, <1>3, <1>4 DEF PoppedReserve, CanReserve

(* A Resume that is believed comes from a pass in flight whose session has *)
(* no hint: its pass is the session's only one and has not asked before.   *)
LEMMA ResumeIsNews ==
  ASSUME LoopInv, ApplyChange,
         Head(changes).kind = "Resume",
         taskSessions[Head(changes).task] # NoSession
  PROVE  /\ Head(changes).task \in Tasks
         /\ taskSessions[Head(changes).task] \in Sessions
         /\ taskSessions[Head(changes).task] \in inFlight
         /\ taskSessions[Head(changes).task] \notin pendingHints
         /\ waiting[taskSessions[Head(changes).task]] = NoTask
         /\ pc[Head(changes).task] \in {"awaiting", "expired"}
         /\ popped = NoSession
<1> DEFINE m == Head(changes)
           t == m.task
           s == taskSessions[t]
<1>1. /\ changes \in Seq([kind : {"Release", "Resume"}, task : Tasks])
      /\ changes # << >>
      /\ 1 \in DOMAIN changes /\ m = changes[1]
  BY DEF LoopInv, TypeOK, ApplyChange
<1>2. m \in [kind : {"Release", "Resume"}, task : Tasks]
  BY <1>1, HeadTailProperties
<1>3. t \in Tasks /\ m = [kind |-> "Resume", task |-> t]
  BY <1>2
<1>4. s \in Sessions
  BY <1>3 DEF LoopInv, TypeOK
<1>5. /\ pc[t] \in {"awaiting", "expired", "joined"}
      /\ \A r \in Sessions : waiting[r] # t
  BY <1>1, <1>3 DEF LoopInv, ResumeOnce, IsResume
<1>6. s \in inFlight /\ pc[t] \in Live \cup Finished
  BY <1>3, <1>4 DEF LoopInv, TasksMatchSessions
<1>7. waiting[s] = NoTask
  <2> SUFFICES ASSUME waiting[s] # NoTask PROVE FALSE
    OBVIOUS
  <2>1. waiting[s] \in Tasks /\ taskSessions[waiting[s]] = s
    BY <1>4 DEF LoopInv, TypeOK, WaitingIsReturning
  <2>2. waiting[s] = t
    BY <1>3, <1>4, <2>1, LoopAssumption
      DEF LoopInv, TasksMatchSessions, LoopAssumption
  <2>3. QED
    BY <1>4, <1>5, <2>2
<1>8. s \notin pendingHints
  BY <1>4, <1>6, <1>7 DEF LoopInv, WaitingIsReturning
<1>9. popped = NoSession
  BY DEF LoopInv, TypeOK, QueueIsHints, ApplyChange, Selecting, Draining
<1>10. pc[t] \in {"awaiting", "expired"}
  BY <1>5, <1>6 DEF Live, Finished
<1> HIDE DEF s
<1>11. QED
  BY <1>3, <1>4, <1>6, <1>7, <1>8, <1>9, <1>10 DEF s

(* Joining a task withdraws its session's hint, which is the task's own if *)
(* there is one; what it queues is the session's rerun.                    *)
LEMMA JoinWithdraws ==
  ASSUME LoopInv, NEW t \in Tasks, Join(t)
  PROVE  /\ taskSessions[t] \in Sessions /\ taskSessions[t] \in inFlight
         /\ popped = NoSession /\ popped' = NoSession
         /\ waiting[taskSessions[t]] \in {t, NoTask}
         /\ waiting[taskSessions[t]] = NoTask => taskSessions[t] \notin pendingHints
         /\ \/ /\ pendingHints' = pendingHints \cup {taskSessions[t]}
               /\ taskSessions[t] \in pendingReruns
               /\ pendingReruns' = pendingReruns \ {taskSessions[t]}
            \/ /\ pendingHints' = pendingHints \ {taskSessions[t]}
               /\ pendingReruns' \in {pendingReruns,
                 pendingReruns \ {taskSessions[t]}}
         /\ pendingSessions' \in Seq(Sessions)
         /\ IsInjective(pendingSessions')
         /\ ToSet(pendingSessions') = pendingHints'
<1> DEFINE s == taskSessions[t]
           hints == IF waiting[s] # NoTask THEN pendingHints \ {s} ELSE pendingHints
           queue == IF waiting[s] # NoTask THEN Without(pendingSessions, s)
                    ELSE pendingSessions
<1>1. s \in Sessions /\ s \in inFlight
  BY DEF LoopInv, TypeOK, TasksMatchSessions, Join
<1>2. popped = NoSession /\ popped' = NoSession
  BY DEF LoopInv, TypeOK, QueueIsHints, Join, Selecting, Draining
<1>3. waiting[s] = NoTask => s \notin pendingHints
  BY <1>1 DEF LoopInv, WaitingIsReturning
<1>4. waiting[s] \in {t, NoTask}
  <2> SUFFICES ASSUME waiting[s] # NoTask PROVE waiting[s] = t
    OBVIOUS
  <2>1. waiting[s] \in Tasks /\ taskSessions[waiting[s]] = s
    BY <1>1 DEF LoopInv, TypeOK, WaitingIsReturning
  <2>2. QED
    BY <1>1, <2>1, LoopAssumption DEF LoopInv, TasksMatchSessions, LoopAssumption
<1>5. hints = pendingHints \ {s}
  BY <1>3
<1>6. /\ queue \in Seq(Sessions) /\ IsInjective(queue) /\ ToSet(queue) = hints
  <2>1. /\ pendingSessions \in Seq(Sessions) /\ IsInjective(pendingSessions)
        /\ ToSet(pendingSessions) = pendingHints
    BY DEF LoopInv, TypeOK, QueueIsHints
  <2>2. QED
    BY <2>1, LeaveQueue
<1>7. \/ /\ s \in pendingReruns
         /\ EnqueueHint(s, inFlight \ {s}, pendingReruns \ {s}, hints, queue)
      \/ /\ pendingHints' = hints /\ pendingSessions' = queue
         /\ pendingReruns' \in {pendingReruns, pendingReruns \ {s}}
  BY DEF Join
<1> HIDE DEF s, hints, queue
<1>8. CASE /\ s \in pendingReruns
           /\ EnqueueHint(s, inFlight \ {s}, pendingReruns \ {s}, hints, queue)
  <2>1. /\ pendingReruns' = pendingReruns \ {s} /\ pendingHints' = hints \cup {s}
        /\ pendingSessions' = Append(queue, s)
    BY <1>5, <1>8 DEF EnqueueHint
  <2>2. /\ pendingSessions' \in Seq(Sessions) /\ IsInjective(pendingSessions')
        /\ ToSet(pendingSessions') = hints \cup {s}
    BY <1>1, <1>5, <1>6, <2>1, AppendToQueue
  <2>3. QED
    BY <1>1, <1>2, <1>3, <1>4, <1>5, <1>8, <2>1, <2>2 DEF s
<1>9. CASE /\ pendingHints' = hints /\ pendingSessions' = queue
           /\ pendingReruns' \in {pendingReruns, pendingReruns \ {s}}
  BY <1>1, <1>2, <1>3, <1>4, <1>5, <1>6, <1>9 DEF s
<1>10. QED
  BY <1>7, <1>8, <1>9

---------------------------------------------------------------------------
(* Every step keeps every part of the invariant.                           *)

(* The hint queue and the hint set stay the same.                          *)
LEMMA QueueStep ==
  ASSUME LoopInv, [Next]_vars
  PROVE  QueueIsHints' /\ pendingSessions' \in Seq(Sessions)
<1> USE LoopAssumption DEF LoopAssumption
<1>0. /\ pendingSessions \in Seq(Sessions) /\ IsInjective(pendingSessions)
      /\ ToSet(pendingSessions) = pendingHints
      /\ (popped \in Sessions <=> ctl = "popped") /\ popped \notin pendingHints
      /\ popped \in Sessions \cup {NoSession} /\ pendingHints \subseteq Sessions
      /\ Len(pendingSessions) \in Nat
  BY DEF LoopInv, TypeOK, QueueIsHints
<1>1. CASE UNCHANGED <<ctl, popped, pendingSessions, pendingHints>>
  BY <1>0, <1>1 DEF QueueIsHints
<1>2. CASE Top
  BY <1>0, <1>2, PopTakesFront DEF Top, QueueIsHints
<1>3. CASE Wait
  <2>1. CanReserve => pendingSessions = << >>
    <3> SUFFICES ASSUME HintedIndices = {} PROVE pendingSessions = << >>
      BY <1>3 DEF Wait, HasHint
    <3>1. DOMAIN pendingSessions = {}
      BY <1>0 DEF HintedIndices, ToSet
    <3>2. QED
      BY <1>0, <3>1
  <2>2. pendingSessions' = pendingSessions /\ pendingHints' = pendingHints
    BY <1>3, <2>1 DEF Wait
  <2>3. QED
    BY <1>0, <1>3, <2>2 DEF Wait, QueueIsHints
<1>4. CASE PoppedShutdown \/ PoppedNoSlot
  BY <1>0, <1>4, RequeuePutsBack DEF PoppedShutdown, PoppedNoSlot, QueueIsHints
<1>5. CASE PoppedResume
  BY <1>0, <1>5 DEF PoppedResume, QueueIsHints
<1>6. CASE PoppedReserve
  BY <1>0, <1>6, ReserveStarts DEF QueueIsHints
<1>7. CASE ShutdownSelected \/ SlotChanged
  BY <1>0, <1>7 DEF ShutdownSelected, SlotChanged, Selecting, Draining, QueueIsHints
<1>8. CASE ApplyChange
  <2>1. ctl # "popped" /\ ctl' # "popped" /\ popped' = popped
    BY <1>8 DEF ApplyChange, Selecting, Draining
  <2>2. CASE UNCHANGED <<pendingHints, pendingSessions>>
    BY <1>0, <2>1, <2>2 DEF QueueIsHints
  <2>3. CASE ~ UNCHANGED <<pendingHints, pendingSessions>>
    <3> DEFINE s == taskSessions[Head(changes).task]
    <3>1. /\ Head(changes).kind = "Resume" /\ s # NoSession
          /\ pendingHints' = pendingHints \cup {s}
          /\ s \notin pendingHints => pendingSessions' = Append(pendingSessions, s)
      BY <1>8, <2>3 DEF ApplyChange
    <3>2. s \in Sessions /\ s \notin pendingHints
      BY <1>8, <3>1, ResumeIsNews
    <3>3. popped = NoSession
      BY <1>0, <2>1
    <3> HIDE DEF s
    <3>4. pendingSessions' = Append(pendingSessions, s)
      BY <3>1, <3>2
    <3>5. /\ pendingSessions' \in Seq(Sessions) /\ IsInjective(pendingSessions')
          /\ ToSet(pendingSessions') = pendingHints \cup {s}
      BY <1>0, <3>2, <3>4, AppendToQueue
    <3>6. popped' \notin pendingHints'
      BY <1>0, <2>1, <3>1, <3>2, <3>3
    <3>7. QED
      BY <1>0, <2>1, <3>1, <3>5, <3>6 DEF QueueIsHints
  <2>4. QED
    BY <2>2, <2>3
<1>9. ASSUME NEW t \in Tasks, Join(t)
      PROVE  QueueIsHints' /\ pendingSessions' \in Seq(Sessions)
  <2>1. ctl # "popped" /\ ctl' # "popped"
    BY <1>9 DEF Join, Selecting, Draining
  <2>2. pendingHints' \subseteq Sessions
    BY <1>0, <1>9, JoinWithdraws
  <2>3. QED
    BY <1>0, <1>9, <2>1, <2>2, JoinWithdraws DEF QueueIsHints
<1>10. ASSUME NEW s \in Sessions, TakeHint(s)
      PROVE  QueueIsHints' /\ pendingSessions' \in Seq(Sessions)
  <2>1. ctl # "popped" /\ ctl' # "popped" /\ popped' = popped
    BY <1>10 DEF TakeHint
  <2>2. CASE s \in inFlight \/ s \in pendingHints
    <3>1. UNCHANGED <<pendingHints, pendingSessions>>
      BY <1>10, <2>2 DEF TakeHint, EnqueueHint
    <3>2. QED
      BY <1>0, <2>1, <3>1 DEF QueueIsHints
  <2>3. CASE s \notin inFlight /\ s \notin pendingHints
    <3>1. /\ pendingHints' = pendingHints \cup {s}
          /\ pendingSessions' = Append(pendingSessions, s)
      BY <1>10, <2>3 DEF TakeHint, EnqueueHint
    <3>2. QED
      BY <1>0, <2>1, <2>3, <3>1, AppendToQueue DEF QueueIsHints
  <2>4. QED
    BY <2>2, <2>3
<1>11. CASE DrainHint
  BY <1>0, <1>11, PopTakesFront DEF DrainHint, QueueIsHints
<1>12. CASE DrainWait \/ Exit \/ SourceFails
  BY <1>0, <1>12 DEF DrainWait, Exit, SourceFails, QueueIsHints
<1>13. ASSUME NEW t \in Tasks, PassStep(t)
      PROVE  QueueIsHints' /\ pendingSessions' \in Seq(Sessions)
  BY <1>1, <1>13, PassMoves
<1>14. CASE RequestShutdown
  BY <1>1, <1>14 DEF RequestShutdown, loopVars, slotVars, passVars
<1>15. CASE UNCHANGED vars
  BY <1>1, <1>15 DEF vars, loopVars, slotVars, passVars
<1>16. QED
  BY <1>2, <1>3, <1>4, <1>5, <1>6, <1>7, <1>8, <1>9, <1>10, <1>11, <1>12,
     <1>13, <1>14, <1>15 DEF Next, LoopStep

(* Tasks, the sessions in flight and the task map stay in step.            *)
LEMMA TasksStep ==
  ASSUME LoopInv, [Next]_vars
  PROVE  TasksMatchSessions'
<1> USE LoopAssumption DEF LoopAssumption
<1>0. /\ pc \in [Tasks -> Live \cup Finished \cup {"unborn", "joined"}]
      /\ taskSessions \in [Tasks -> Sessions \cup {NoSession}]
      /\ inFlight \subseteq Sessions /\ nextTask \in Nat
      /\ TasksMatchSessions
  BY DEF LoopInv, TypeOK
<1>1. CASE UNCHANGED <<pc, nextTask, taskSessions, inFlight>>
  BY <1>0, <1>1 DEF TasksMatchSessions
<1>2. CASE PoppedResume
  <2>1. /\ popped \in Sessions /\ waiting[popped] # NoTask /\ ResumeWaiting(popped)
        /\ UNCHANGED <<nextTask, taskSessions, inFlight>>
    BY <1>2 DEF LoopInv, QueueIsHints, PoppedResume
  <2>2. QED
    BY <1>0, <2>1, ResumeAnswers DEF TasksMatchSessions, Live, Finished
<1>3. CASE DrainHint
  <2>1. UNCHANGED <<nextTask, taskSessions, inFlight>>
    BY <1>3 DEF DrainHint
  <2>2. CASE UNCHANGED pc
    BY <1>1, <2>1, <2>2
  <2>3. CASE ~ UNCHANGED pc
    <3>1. PICK s \in Sessions : waiting[s] # NoTask /\ ResumeWaiting(s)
      BY <1>3, <2>3 DEF DrainHint
    <3>2. QED
      BY <1>0, <2>1, <3>1, ResumeAnswers DEF TasksMatchSessions, Live, Finished
  <2>4. QED
    BY <2>2, <2>3
<1>4. CASE PoppedReserve
  <2> DEFINE n == nextTask
  <2>1. /\ popped \in Sessions /\ popped \notin inFlight
        /\ n \in Tasks /\ pc[n] = "unborn" /\ nextTask' = n + 1
        /\ inFlight' = inFlight \cup {popped}
        /\ taskSessions' = [taskSessions EXCEPT ![n] = popped]
        /\ pc' = [pc EXCEPT ![n] = "running"]
    BY <1>4, ReserveStarts
  <2>2. \A t \in Tasks : pc'[t] = "unborn" <=> t >= nextTask'
    BY <1>0, <2>1 DEF TasksMatchSessions, Tasks
  <2>3. \A t \in Tasks : taskSessions'[t] # NoSession <=> pc'[t] \in Live \cup Finished
    BY <1>0, <2>1 DEF TasksMatchSessions, Live
  <2>4. \A t \in Tasks : taskSessions[t] # popped
    BY <1>0, <2>1 DEF TasksMatchSessions
  <2>5. \A t, u \in Tasks :
          taskSessions'[t] = taskSessions'[u] /\ taskSessions'[t] # NoSession => t = u
    BY <1>0, <2>1, <2>4 DEF TasksMatchSessions
  <2>6. ASSUME NEW s \in Sessions
        PROVE  s \in inFlight' <=> \E t \in Tasks : taskSessions'[t] = s
    <3>1. CASE s = popped
      BY <1>0, <2>1, <3>1
    <3>2. CASE s # popped
      <4>1. taskSessions[n] = NoSession
        BY <1>0, <2>1 DEF TasksMatchSessions, Live, Finished
      <4>2. \A t \in Tasks : taskSessions'[t] = s <=> taskSessions[t] = s
        BY <1>0, <2>1, <3>2, <4>1
      <4>3. QED
        BY <1>0, <2>1, <3>2, <4>2 DEF TasksMatchSessions
    <3>3. QED
      BY <3>1, <3>2
  <2>7. QED
    BY <2>2, <2>3, <2>5, <2>6 DEF TasksMatchSessions
<1>5. ASSUME NEW t \in Tasks, Join(t)
      PROVE  TasksMatchSessions'
  <2> DEFINE s == taskSessions[t]
  <2>1. /\ s \in Sessions /\ pc[t] \in Finished /\ nextTask' = nextTask
        /\ inFlight' = inFlight \ {s}
        /\ taskSessions' = [taskSessions EXCEPT ![t] = NoSession]
        /\ pc' = [pc EXCEPT ![t] = "joined"]
    BY <1>5, JoinWithdraws DEF Join
  <2> HIDE DEF s
  <2>2. \A u \in Tasks : pc'[u] = "unborn" <=> u >= nextTask'
    BY <1>0, <2>1 DEF TasksMatchSessions, Finished
  <2>3. \A u \in Tasks : taskSessions'[u] # NoSession <=> pc'[u] \in Live \cup Finished
    BY <1>0, <2>1 DEF TasksMatchSessions, Live, Finished
  <2>4. \A u, v \in Tasks :
          taskSessions'[u] = taskSessions'[v] /\ taskSessions'[u] # NoSession => u = v
    BY <1>0, <2>1 DEF TasksMatchSessions
  <2>5. \A r \in Sessions : r \in inFlight' <=> \E u \in Tasks : taskSessions'[u] = r
    BY <1>0, <2>1 DEF TasksMatchSessions, s
  <2>6. QED
    BY <2>2, <2>3, <2>4, <2>5 DEF TasksMatchSessions
<1>6. ASSUME NEW t \in Tasks, PassStep(t) PROVE TasksMatchSessions'
  <2>1. UNCHANGED <<nextTask, taskSessions, inFlight>>
    BY <1>6, PassMoves
  <2>2. QED
    BY <1>0, <1>6, <2>1, PassMoves DEF TasksMatchSessions, Live, Finished
<1>7. ASSUME NEW s \in Sessions, TakeHint(s) PROVE TasksMatchSessions'
  BY <1>1, <1>7 DEF TakeHint, EnqueueHint, slotVars, passVars
<1>8. CASE Top \/ Wait \/ PoppedShutdown \/ PoppedNoSlot \/
           ShutdownSelected \/ SlotChanged \/ ApplyChange \/ DrainWait \/
           Exit \/ SourceFails \/ RequestShutdown
  BY <1>1, <1>8 DEF Top, Wait, PoppedShutdown, PoppedNoSlot,
    ShutdownSelected, SlotChanged, ApplyChange, DrainWait, Exit, SourceFails,
    RequestShutdown, PopHint, RequeueFront, loopVars, slotVars, passVars
<1>9. CASE UNCHANGED vars
  BY <1>1, <1>9 DEF vars, loopVars, slotVars, passVars
<1>10. QED
  BY <1>2, <1>3, <1>4, <1>5, <1>6, <1>7, <1>8, <1>9 DEF Next, LoopStep

(* The slot counter is the number of passes that hold a slot.              *)
LEMMA SlotsStep ==
  ASSUME LoopInv, [Next]_vars
  PROVE  SlotsHeld' /\ active' \in Nat /\ holding' \subseteq Tasks
<1> USE LoopAssumption DEF LoopAssumption
<1>0. /\ pc \in [Tasks -> Live \cup Finished \cup {"unborn", "joined"}]
      /\ holding \subseteq Tasks /\ active \in Nat /\ SlotsHeld
      /\ IsFiniteSet(holding)
  BY TasksFinite DEF LoopInv, TypeOK
<1>1. CASE UNCHANGED <<active, holding, pc>>
  BY <1>0, <1>1 DEF SlotsHeld, SlotAccounting
<1>2. ASSUME NEW t \in Tasks, ReleaseSlot(t) \/ ReleaseAdmission(t) \/ Complete(t)
      PROVE  SlotsHeld' /\ active' \in Nat /\ holding' \subseteq Tasks
  <2>1. /\ DropSlot(t) /\ \A u \in Tasks : u # t => pc'[u] = pc[u]
    BY <1>0, <1>2 DEF ReleaseSlot, ReleaseAdmission, BeginIo, Complete
  <2>2. QED
    BY <1>0, <2>1, DropSlotCounts DEF SlotsHeld, SlotAccounting
<1>3. ASSUME NEW t \in Tasks, Expire(t)
      PROVE  SlotsHeld' /\ active' \in Nat /\ holding' \subseteq Tasks
  <2>1. /\ holding' = holding \ {t} /\ \A u \in Tasks : u # t => pc'[u] = pc[u]
        /\ t \in holding => active' = active - 1
        /\ t \notin holding => active' = active
    BY <1>0, <1>3 DEF Expire
  <2>2. active' = Cardinality(holding')
    BY <1>0, <2>1, FS_RemoveElement DEF SlotsHeld, SlotAccounting
  <2>3. active' \in Nat
    BY <1>0, <2>1, <2>2, TasksFinite
  <2>4. active' <= MaxInFlight
    BY <1>0, <2>1 DEF SlotsHeld, SlotAccounting
  <2>5. QED
    BY <1>0, <2>1, <2>2, <2>3, <2>4 DEF SlotsHeld, SlotAccounting
<1>4. ASSUME NEW t \in Tasks, Acquire(t)
      PROVE  SlotsHeld' /\ active' \in Nat /\ holding' \subseteq Tasks
  <2>1. /\ pc[t] = "reacquiring" /\ active < MaxInFlight /\ active' = active + 1
        /\ holding' = holding \cup {t} /\ pc' = [pc EXCEPT ![t] = "running"]
    BY <1>4 DEF Acquire
  <2>2. t \notin holding
    BY <1>0, <2>1 DEF SlotsHeld
  <2>3. active' = Cardinality(holding')
    BY <1>0, <2>1, <2>2, FS_AddElement DEF SlotsHeld, SlotAccounting
  <2>4. QED
    BY <1>0, <2>1, <2>3 DEF SlotsHeld, SlotAccounting
<1>5. ASSUME NEW t \in Tasks,
             SendRelease(t) \/ SendResume(t) \/ EnterAcquire(t) \/ Panic(t)
      PROVE  SlotsHeld' /\ active' \in Nat /\ holding' \subseteq Tasks
  <2>1. UNCHANGED <<active, holding>>
    BY <1>5 DEF SendRelease, SendResume, EnterAcquire, Panic, slotVars
  <2>2. \A u \in holding : pc'[u] \in {"running", "panicked"}
    BY <1>0, <1>5 DEF SlotsHeld, SendRelease, SendResume, EnterAcquire, Panic
  <2>3. QED
    BY <1>0, <2>1, <2>2 DEF SlotsHeld, SlotAccounting
<1>6. CASE PoppedReserve
  <2>1. /\ nextTask \in Tasks /\ pc[nextTask] = "unborn"
        /\ active < MaxInFlight /\ active' = active + 1
        /\ holding' = holding \cup {nextTask}
        /\ pc' = [pc EXCEPT ![nextTask] = "running"]
    BY <1>6, ReserveStarts
  <2>2. nextTask \notin holding
    BY <1>0, <2>1 DEF SlotsHeld
  <2>3. active' = Cardinality(holding')
    BY <1>0, <2>1, <2>2, FS_AddElement DEF SlotsHeld, SlotAccounting
  <2>4. QED
    BY <1>0, <2>1, <2>3 DEF SlotsHeld, SlotAccounting
<1>7. ASSUME NEW t \in Tasks, Join(t)
      PROVE  SlotsHeld' /\ active' \in Nat /\ holding' \subseteq Tasks
  <2>1. /\ DropSlot(t) /\ \A u \in Tasks : u # t => pc'[u] = pc[u]
    BY <1>0, <1>7 DEF Join
  <2>2. QED
    BY <1>0, <2>1, DropSlotCounts DEF SlotsHeld, SlotAccounting
<1>8. CASE PoppedResume
  <2>1. /\ popped \in Sessions /\ waiting[popped] # NoTask /\ ResumeWaiting(popped)
        /\ UNCHANGED <<active, holding>>
    BY <1>8 DEF LoopInv, QueueIsHints, PoppedResume, slotVars
  <2>2. \A u \in holding : pc'[u] = pc[u]
    BY <1>0, <2>1, ResumeAnswers DEF SlotsHeld
  <2>3. QED
    BY <1>0, <2>1, <2>2 DEF SlotsHeld, SlotAccounting
<1>9. CASE DrainHint
  <2>1. UNCHANGED <<active, holding>>
    BY <1>9 DEF DrainHint, slotVars
  <2>2. CASE UNCHANGED pc
    BY <1>1, <2>1, <2>2
  <2>3. CASE ~ UNCHANGED pc
    <3>1. PICK s \in Sessions : waiting[s] # NoTask /\ ResumeWaiting(s)
      BY <1>9, <2>3 DEF DrainHint
    <3>2. \A u \in holding : pc'[u] = pc[u]
      BY <1>0, <3>1, ResumeAnswers DEF SlotsHeld
    <3>3. QED
      BY <1>0, <2>1, <3>2 DEF SlotsHeld, SlotAccounting
  <2>4. QED
    BY <2>2, <2>3
<1>10. ASSUME NEW s \in Sessions, TakeHint(s)
      PROVE  SlotsHeld' /\ active' \in Nat /\ holding' \subseteq Tasks
  BY <1>1, <1>10 DEF TakeHint, EnqueueHint, slotVars, passVars
<1>11. CASE Top \/ Wait \/ PoppedShutdown \/ PoppedNoSlot \/
           ShutdownSelected \/ SlotChanged \/ ApplyChange \/ DrainWait \/
           Exit \/ SourceFails \/ RequestShutdown
  BY <1>1, <1>11 DEF Top, Wait, PoppedShutdown, PoppedNoSlot,
    ShutdownSelected, SlotChanged, ApplyChange, DrainWait, Exit, SourceFails,
    RequestShutdown, PopHint, RequeueFront, loopVars, slotVars, passVars
<1>12. CASE UNCHANGED vars
  BY <1>1, <1>12 DEF vars, loopVars, slotVars, passVars
<1>13. QED
  BY <1>2, <1>3, <1>4, <1>5, <1>6, <1>7, <1>8, <1>9, <1>10, <1>11, <1>12
    DEF Next, LoopStep, PassStep

(* The passes inside `acquire' are the queued ones.                        *)
LEMMA ReacquireStep ==
  ASSUME LoopInv, [Next]_vars
  PROVE  ReacquireIsQueue' /\ reacquire' \in Seq(Tasks)
<1>0. /\ pc \in [Tasks -> Live \cup Finished \cup {"unborn", "joined"}]
      /\ reacquire \in Seq(Tasks) /\ ReacquireIsQueue
  BY DEF LoopInv, TypeOK
<1>1. CASE UNCHANGED <<reacquire, pc>>
  BY <1>0, <1>1 DEF ReacquireIsQueue
<1>2. ASSUME NEW t \in Tasks,
             ReleaseSlot(t) \/ ReleaseAdmission(t) \/ SendRelease(t) \/
               SendResume(t) \/ Complete(t) \/ Panic(t)
      PROVE  ReacquireIsQueue' /\ reacquire' \in Seq(Tasks)
  <2>1. reacquire' = reacquire
    BY <1>2
      DEF ReleaseSlot, ReleaseAdmission, BeginIo, SendRelease, SendResume,
        Complete, Panic, slotVars
  <2>2. /\ pc[t] # "reacquiring"
        /\ \E p \in Live \cup Finished :
             p # "reacquiring" /\ pc' = [pc EXCEPT ![t] = p]
    BY <1>2
      DEF ReleaseSlot, ReleaseAdmission, BeginIo, SendRelease, SendResume,
        Complete, Panic, Live, Finished
  <2>3. QED
    BY <1>0, <2>1, <2>2 DEF ReacquireIsQueue
<1>3. ASSUME NEW t \in Tasks, EnterAcquire(t)
      PROVE  ReacquireIsQueue' /\ reacquire' \in Seq(Tasks)
  <2>1. /\ pc[t] # "reacquiring" /\ pc' = [pc EXCEPT ![t] = "reacquiring"]
        /\ reacquire' = Append(reacquire, t)
    BY <1>3 DEF EnterAcquire
  <2>2. t \notin ToSet(reacquire)
    BY <1>0, <2>1 DEF ReacquireIsQueue
  <2>3. /\ reacquire' \in Seq(Tasks) /\ IsInjective(reacquire')
        /\ ToSet(reacquire') = ToSet(reacquire) \cup {t}
    BY <1>0, <2>1, <2>2, AppendToQueue DEF ReacquireIsQueue
  <2>4. QED
    BY <1>0, <2>1, <2>3 DEF ReacquireIsQueue
<1>4. ASSUME NEW t \in Tasks, Acquire(t)
      PROVE  ReacquireIsQueue' /\ reacquire' \in Seq(Tasks)
  <2>1. /\ pc[t] = "reacquiring" /\ pc' = [pc EXCEPT ![t] = "running"]
        /\ t = Head(reacquire) /\ reacquire' = Tail(reacquire)
    BY <1>4 DEF Acquire
  <2>2. reacquire # << >>
    BY <1>0, <2>1 DEF ReacquireIsQueue, ToSet
  <2>3. /\ reacquire' \in Seq(Tasks) /\ IsInjective(reacquire')
        /\ ToSet(reacquire') = ToSet(reacquire) \ {t}
    BY <1>0, <2>1, <2>2, TakeFront DEF ReacquireIsQueue
  <2>4. QED
    BY <1>0, <2>1, <2>3 DEF ReacquireIsQueue
<1>5. ASSUME NEW t \in Tasks, Expire(t)
      PROVE  ReacquireIsQueue' /\ reacquire' \in Seq(Tasks)
  <2>1. /\ pc' = [pc EXCEPT ![t] = "expired"] /\ reacquire' = Without(reacquire, t)
    BY <1>5 DEF Expire
  <2>2. /\ reacquire' \in Seq(Tasks) /\ IsInjective(reacquire')
        /\ ToSet(reacquire') = ToSet(reacquire) \ {t}
    BY <1>0, <2>1, LeaveQueue DEF ReacquireIsQueue
  <2>3. QED
    BY <1>0, <2>1, <2>2 DEF ReacquireIsQueue
<1>6. CASE PoppedReserve
  <2>1. /\ reacquire' = reacquire /\ nextTask \in Tasks
        /\ pc[nextTask] = "unborn" /\ pc' = [pc EXCEPT ![nextTask] = "running"]
    BY <1>6, ReserveStarts
  <2>2. QED
    BY <1>0, <2>1 DEF ReacquireIsQueue
<1>7. ASSUME NEW t \in Tasks, Join(t)
      PROVE  ReacquireIsQueue' /\ reacquire' \in Seq(Tasks)
  <2>1. /\ reacquire' = reacquire /\ pc[t] # "reacquiring"
        /\ pc' = [pc EXCEPT ![t] = "joined"]
    BY <1>7 DEF Join, Finished
  <2>2. QED
    BY <1>0, <2>1 DEF ReacquireIsQueue
<1>8. CASE PoppedResume
  <2>1. /\ popped \in Sessions /\ waiting[popped] # NoTask /\ ResumeWaiting(popped)
        /\ reacquire' = reacquire
    BY <1>8 DEF LoopInv, QueueIsHints, PoppedResume, slotVars
  <2>2. \A u \in Tasks : pc'[u] = "reacquiring" <=> pc[u] = "reacquiring"
    BY <2>1, ResumeAnswers
  <2>3. QED
    BY <1>0, <2>1, <2>2 DEF ReacquireIsQueue
<1>9. CASE DrainHint
  <2>1. reacquire' = reacquire
    BY <1>9 DEF DrainHint, slotVars
  <2>2. CASE UNCHANGED pc
    BY <1>1, <2>1, <2>2
  <2>3. CASE ~ UNCHANGED pc
    <3>1. PICK s \in Sessions : waiting[s] # NoTask /\ ResumeWaiting(s)
      BY <1>9, <2>3 DEF DrainHint
    <3>2. \A u \in Tasks : pc'[u] = "reacquiring" <=> pc[u] = "reacquiring"
      BY <3>1, ResumeAnswers
    <3>3. QED
      BY <1>0, <2>1, <3>2 DEF ReacquireIsQueue
  <2>4. QED
    BY <2>2, <2>3
<1>10. ASSUME NEW s \in Sessions, TakeHint(s)
      PROVE  ReacquireIsQueue' /\ reacquire' \in Seq(Tasks)
  BY <1>1, <1>10 DEF TakeHint, EnqueueHint, slotVars, passVars
<1>11. CASE Top \/ Wait \/ PoppedShutdown \/ PoppedNoSlot \/
           ShutdownSelected \/ SlotChanged \/ ApplyChange \/ DrainWait \/
           Exit \/ SourceFails \/ RequestShutdown
  BY <1>1, <1>11 DEF Top, Wait, PoppedShutdown, PoppedNoSlot,
    ShutdownSelected, SlotChanged, ApplyChange, DrainWait, Exit, SourceFails,
    RequestShutdown, PopHint, RequeueFront, loopVars, slotVars, passVars
<1>12. CASE UNCHANGED vars
  BY <1>1, <1>12 DEF vars, loopVars, slotVars, passVars
<1>13. QED
  BY <1>2, <1>3, <1>4, <1>5, <1>6, <1>7, <1>8, <1>9, <1>10, <1>11, <1>12
    DEF Next, LoopStep, PassStep

(* Only a returning pass waits, with a hint, to be answered.               *)
LEMMA WaitingStep ==
  ASSUME LoopInv, [Next]_vars
  PROVE  WaitingIsReturning'
<1> USE LoopAssumption DEF LoopAssumption
<1>0. /\ pc \in [Tasks -> Live \cup Finished \cup {"unborn", "joined"}]
      /\ waiting \in [Sessions -> Tasks \cup {NoTask}]
      /\ taskSessions \in [Tasks -> Sessions \cup {NoSession}]
      /\ inFlight \subseteq Sessions /\ released \subseteq Tasks
      /\ pendingHints \subseteq Sessions /\ popped \notin pendingHints
      /\ popped \in Sessions \cup {NoSession}
      /\ (popped \in Sessions <=> ctl = "popped")
      /\ WaitingIsReturning
  BY DEF LoopInv, TypeOK, QueueIsHints
<1>1. CASE UNCHANGED <<pendingHints, popped, inFlight, waiting, released,
                       taskSessions, pc>>
  BY <1>0, <1>1 DEF WaitingIsReturning
<1>2. CASE Top
  <2>1. /\ popped' \in pendingHints /\ pendingHints' = pendingHints \ {popped'}
        /\ UNCHANGED <<inFlight, waiting, released, taskSessions, pc>>
    BY <1>2, PopTakesFront DEF Top, passVars
  <2>2. popped = NoSession
    BY <1>0, <1>2 DEF Top
  <2>3. \A r \in Sessions : (r \in pendingHints' \/ popped' = r)
                            <=> (r \in pendingHints \/ popped = r)
    BY <1>0, <2>1, <2>2
  <2>4. QED
    BY <1>0, <2>1, <2>3 DEF WaitingIsReturning
<1>3. CASE PoppedShutdown \/ PoppedNoSlot
  <2>1. /\ pendingHints' = pendingHints \cup {popped} /\ popped' = NoSession
        /\ UNCHANGED <<inFlight, waiting, released, taskSessions, pc>>
    BY <1>3, RequeuePutsBack DEF PoppedShutdown, PoppedNoSlot, passVars
  <2>2. \A r \in Sessions : (r \in pendingHints' \/ popped' = r)
                            <=> (r \in pendingHints \/ popped = r)
    BY <1>0, <2>1
  <2>3. QED
    BY <1>0, <2>1, <2>2 DEF WaitingIsReturning
<1>4. CASE PoppedResume
  <2>1. /\ popped \in Sessions /\ waiting[popped] # NoTask /\ ResumeWaiting(popped)
        /\ popped' = NoSession
        /\ UNCHANGED <<pendingHints, inFlight, taskSessions>>
    BY <1>0, <1>4 DEF PoppedResume
  <2> DEFINE w == waiting[popped]
  <2>2. /\ w \in Tasks /\ taskSessions[w] = popped /\ released' = released \ {w}
        /\ waiting' \in [Sessions -> Tasks \cup {NoTask}]
        /\ waiting'[popped] = NoTask
        /\ \A r \in Sessions : r # popped => waiting'[r] = waiting[r]
        /\ \A u \in Tasks : u # w => pc'[u] = pc[u]
    BY <2>1, ResumeAnswers
  <2> HIDE DEF w
  <2>3. ASSUME NEW r \in Sessions,
    (r \in pendingHints' \/ popped' = r) /\ r \in inFlight'
        PROVE  waiting'[r] # NoTask
    BY <1>0, <2>1, <2>2, <2>3 DEF WaitingIsReturning
  <2>4. ASSUME NEW r \in Sessions, waiting'[r] # NoTask
        PROVE  /\ waiting'[r] \in released' /\ taskSessions'[waiting'[r]] = r
               /\ pc'[waiting'[r]] \in {"awaiting", "expired"}
               /\ r \in pendingHints' \/ popped' = r
    <3>1. r # popped /\ waiting'[r] = waiting[r] /\ waiting[r] \in Tasks
      BY <1>0, <2>2, <2>4
    <3>2. taskSessions[waiting[r]] = r /\ waiting[r] # w
      BY <1>0, <2>2, <2>4, <3>1 DEF WaitingIsReturning
    <3>3. QED
      BY <1>0, <2>1, <2>2, <2>4, <3>1, <3>2 DEF WaitingIsReturning
  <2>5. QED
    BY <1>0, <2>1, <2>2, <2>3, <2>4 DEF WaitingIsReturning
<1>5. CASE PoppedReserve
  <2>1. /\ popped \in Sessions /\ popped \notin pendingHints /\ popped' = NoSession
        /\ nextTask \in Tasks /\ pc[nextTask] = "unborn"
        /\ inFlight' = inFlight \cup {popped}
        /\ taskSessions' = [taskSessions EXCEPT ![nextTask] = popped]
        /\ pc' = [pc EXCEPT ![nextTask] = "running"]
        /\ UNCHANGED <<pendingHints, released, waiting>>
    BY <1>5, ReserveStarts
  <2>2. waiting[popped] = NoTask
    BY <1>5 DEF PoppedReserve
  <2>3. ASSUME NEW r \in Sessions,
    (r \in pendingHints' \/ popped' = r) /\ r \in inFlight'
        PROVE  waiting'[r] # NoTask
    BY <1>0, <2>1, <2>3 DEF WaitingIsReturning
  <2>4. \A t \in released' : taskSessions'[t] # NoSession
    BY <1>0, <2>1 DEF WaitingIsReturning
  <2>5. ASSUME NEW r \in Sessions, waiting'[r] # NoTask
        PROVE  /\ waiting'[r] \in released' /\ taskSessions'[waiting'[r]] = r
               /\ pc'[waiting'[r]] \in {"awaiting", "expired"}
               /\ r \in pendingHints' \/ popped' = r
    <3>1. waiting[r] # NoTask /\ waiting[r] \in Tasks /\ r # popped
      BY <1>0, <2>1, <2>2, <2>5
    <3>2. pc[waiting[r]] \in {"awaiting", "expired"}
      BY <1>0, <3>1 DEF WaitingIsReturning
    <3>3. waiting[r] # nextTask
      BY <2>1, <3>2
    <3>4. QED
      BY <1>0, <2>1, <3>1, <3>2, <3>3 DEF WaitingIsReturning
  <2>6. QED
    BY <2>3, <2>4, <2>5 DEF WaitingIsReturning
<1>6. CASE ApplyChange
  <2> DEFINE t == Head(changes).task
             s == taskSessions[t]
  <2>1. UNCHANGED <<popped, inFlight, taskSessions, pc>>
    BY <1>6 DEF ApplyChange
  <2>2. \A u \in released' : taskSessions[u] # NoSession
    BY <1>0, <1>6 DEF ApplyChange, WaitingIsReturning
  <2>3. released \subseteq released'
    BY <1>6 DEF ApplyChange
  <2>4. CASE UNCHANGED <<waiting, pendingHints>>
    BY <1>0, <2>1, <2>2, <2>3, <2>4 DEF WaitingIsReturning
  <2>5. CASE ~ UNCHANGED <<waiting, pendingHints>>
    <3>1. /\ Head(changes).kind = "Resume" /\ t \in released /\ s # NoSession
          /\ waiting' = [waiting EXCEPT ![s] = t]
          /\ pendingHints' = pendingHints \cup {s}
      BY <1>6, <2>5 DEF ApplyChange
    <3>2. /\ t \in Tasks /\ s \in Sessions /\ pc[t] \in {"awaiting", "expired"}
      BY <1>6, <3>1, ResumeIsNews
    <3>3. t # NoTask
      BY <3>2 DEF Tasks, NoTask
    <3>4. /\ waiting'[s] = t /\ \A r \in Sessions : r # s => waiting'[r] = waiting[r]
      BY <1>0, <3>1, <3>2
    <3>5. taskSessions'[t] = s
      BY <2>1
    <3> HIDE DEF t, s
    <3>6. ASSUME NEW r \in Sessions,
      (r \in pendingHints' \/ popped' = r) /\ r \in inFlight'
          PROVE  waiting'[r] # NoTask
      BY <1>0, <2>1, <3>1, <3>3, <3>4, <3>6 DEF WaitingIsReturning
    <3>7. ASSUME NEW r \in Sessions, waiting'[r] # NoTask
          PROVE  /\ waiting'[r] \in released' /\ taskSessions'[waiting'[r]] = r
                 /\ pc'[waiting'[r]] \in {"awaiting", "expired"}
                 /\ r \in pendingHints' \/ popped' = r
      <4>1. CASE r = s
        BY <2>1, <2>3, <3>1, <3>2, <3>4, <3>5, <4>1
      <4>2. CASE r # s
        BY <1>0, <2>1, <2>3, <3>1, <3>4, <3>7, <4>2 DEF WaitingIsReturning
      <4>3. QED
        BY <4>1, <4>2
    <3>8. QED
      BY <2>1, <2>2, <3>6, <3>7 DEF WaitingIsReturning
  <2>6. QED
    BY <2>4, <2>5
<1>7. ASSUME NEW t \in Tasks, Join(t)
      PROVE  WaitingIsReturning'
  <2> DEFINE s == taskSessions[t]
  <2>1. /\ s \in Sessions /\ s \in inFlight
        /\ popped = NoSession /\ popped' = NoSession
        /\ waiting[s] \in {t, NoTask}
        /\ pendingHints' \in {pendingHints \ {s}, pendingHints \cup {s}}
    BY <1>7, JoinWithdraws
  <2>2. /\ released' = released \ {t} /\ inFlight' = inFlight \ {s}
        /\ waiting' = [waiting EXCEPT ![s] = NoTask]
        /\ taskSessions' = [taskSessions EXCEPT ![t] = NoSession]
        /\ pc' = [pc EXCEPT ![t] = "joined"]
    BY <1>7 DEF Join
  <2>3. /\ waiting'[s] = NoTask /\ \A r \in Sessions : r # s => waiting'[r] = waiting[r]
    BY <1>0, <2>1, <2>2
  <2>4. \A r \in Sessions : r # s => (r \in pendingHints' <=> r \in pendingHints)
    BY <2>1
  <2>5. ASSUME NEW r \in Sessions,
    (r \in pendingHints' \/ popped' = r) /\ r \in inFlight'
        PROVE  waiting'[r] # NoTask
    <3>1. r # s /\ r \in pendingHints /\ r \in inFlight
      BY <1>0, <2>1, <2>2, <2>4, <2>5
    <3>2. QED
      BY <1>0, <2>3, <3>1 DEF WaitingIsReturning
  <2>6. \A u \in released' : taskSessions'[u] # NoSession
    BY <1>0, <2>2 DEF WaitingIsReturning
  <2>7. ASSUME NEW r \in Sessions, waiting'[r] # NoTask
        PROVE  /\ waiting'[r] \in released' /\ taskSessions'[waiting'[r]] = r
               /\ pc'[waiting'[r]] \in {"awaiting", "expired"}
               /\ r \in pendingHints' \/ popped' = r
    <3>1. r # s /\ waiting'[r] = waiting[r] /\ waiting[r] # NoTask
      BY <2>3, <2>7
    <3>2. /\ waiting[r] \in released /\ taskSessions[waiting[r]] = r
          /\ pc[waiting[r]] \in {"awaiting", "expired"} /\ r \in pendingHints
          /\ waiting[r] \in Tasks
      BY <1>0, <2>1, <3>1 DEF WaitingIsReturning
    <3>3. waiting[r] # t
      BY <3>1, <3>2
    <3>4. QED
      BY <1>0, <2>2, <2>4, <3>1, <3>2, <3>3
  <2>8. QED
    BY <2>5, <2>6, <2>7 DEF WaitingIsReturning
<1>8. ASSUME NEW s \in Sessions, TakeHint(s)
      PROVE  WaitingIsReturning'
  <2>1. UNCHANGED <<popped, inFlight, waiting, released, taskSessions, pc>>
    BY <1>8 DEF TakeHint, passVars
  <2>2. /\ pendingHints \subseteq pendingHints'
        /\ \A r \in inFlight : r \in pendingHints' <=> r \in pendingHints
    BY <1>8 DEF TakeHint, EnqueueHint
  <2>3. QED
    BY <1>0, <2>1, <2>2 DEF WaitingIsReturning
<1>9. CASE DrainHint
  <2>1. /\ UNCHANGED <<popped, inFlight, taskSessions>> /\ popped = NoSession
    BY <1>0, <1>9 DEF DrainHint
  <2>2. PICK s \in Sessions :
          /\ PopHint(s)
          /\ IF waiting[s] # NoTask THEN ResumeWaiting(s)
                                    ELSE UNCHANGED <<released, waiting, pc>>
    BY <1>9 DEF DrainHint
  <2>3. s \in pendingHints /\ pendingHints' = pendingHints \ {s}
    BY <2>2, PopTakesFront
  <2>4. CASE waiting[s] = NoTask
    <3>1. UNCHANGED <<released, waiting, pc>>
      BY <2>2, <2>4
    <3>2. QED
      BY <1>0, <2>1, <2>3, <2>4, <3>1 DEF WaitingIsReturning
  <2>5. CASE waiting[s] # NoTask
    <3> DEFINE w == waiting[s]
    <3>1. /\ w \in Tasks /\ taskSessions[w] = s /\ released' = released \ {w}
          /\ waiting' \in [Sessions -> Tasks \cup {NoTask}]
          /\ waiting'[s] = NoTask
          /\ \A r \in Sessions : r # s => waiting'[r] = waiting[r]
          /\ \A u \in Tasks : u # w => pc'[u] = pc[u]
      BY <2>2, <2>5, ResumeAnswers
    <3> HIDE DEF w
    <3>2. ASSUME NEW r \in Sessions,
      (r \in pendingHints' \/ popped' = r) /\ r \in inFlight'
          PROVE  waiting'[r] # NoTask
      BY <1>0, <2>1, <2>3, <3>1, <3>2 DEF WaitingIsReturning
    <3>3. ASSUME NEW r \in Sessions, waiting'[r] # NoTask
          PROVE  /\ waiting'[r] \in released' /\ taskSessions'[waiting'[r]] = r
                 /\ pc'[waiting'[r]] \in {"awaiting", "expired"}
                 /\ r \in pendingHints' \/ popped' = r
      <4>1. r # s /\ waiting'[r] = waiting[r] /\ waiting[r] \in Tasks
        BY <1>0, <3>1, <3>3
      <4>2. taskSessions[waiting[r]] = r /\ waiting[r] # w
        BY <1>0, <3>1, <3>3, <4>1 DEF WaitingIsReturning
      <4>3. QED
        BY <1>0, <2>1, <2>3, <3>1, <3>3, <4>1, <4>2 DEF WaitingIsReturning
    <3>4. QED
      BY <1>0, <2>1, <3>1, <3>2, <3>3 DEF WaitingIsReturning
  <2>6. QED
    BY <2>4, <2>5
<1>10. ASSUME NEW t \in Tasks, PassStep(t) PROVE WaitingIsReturning'
  <2>1. UNCHANGED <<pendingHints, popped, inFlight, waiting, released, taskSessions>>
    BY <1>10, PassMoves
  <2>2. ASSUME NEW r \in Sessions, waiting[r] # NoTask
        PROVE  pc'[waiting[r]] \in {"awaiting", "expired"}
    <3>1. waiting[r] \in Tasks /\ pc[waiting[r]] \in {"awaiting", "expired"}
      BY <1>0, <2>2 DEF WaitingIsReturning
    <3>2. CASE waiting[r] = t
      BY <1>10, <3>1, <3>2, PassMoves DEF Live
    <3>3. CASE waiting[r] # t
      BY <1>10, <3>1, <3>3, PassMoves
    <3>4. QED
      BY <3>2, <3>3
  <2>3. QED
    BY <1>0, <2>1, <2>2 DEF WaitingIsReturning
<1>11. CASE Wait \/ ShutdownSelected \/ SlotChanged \/ DrainWait \/ Exit
           \/ SourceFails \/ RequestShutdown
  BY <1>1, <1>11 DEF Wait, ShutdownSelected, SlotChanged, DrainWait, Exit,
    SourceFails, RequestShutdown, loopVars, slotVars, passVars
<1>12. CASE UNCHANGED vars
  BY <1>1, <1>12 DEF vars, loopVars, slotVars, passVars
<1>13. QED
  BY <1>2, <1>3, <1>4, <1>5, <1>6, <1>7, <1>8, <1>9, <1>10, <1>11, <1>12
    DEF Next, LoopStep

(* Messages under way that stay under way keep their meaning if their      *)
(* passes stay where they were, expire or are joined, and nobody comes to  *)
(* wait for them.                                                          *)
LEMMA ResumeKept ==
  ASSUME LoopInv, UNCHANGED changes,
         \A t \in Tasks, i \in DOMAIN changes : IsResume(i, t) =>
            /\ pc'[t] \in {"awaiting", "expired", "joined"}
            /\ \A s \in Sessions : waiting'[s] # t
  PROVE  ResumeOnce'
  BY DEF LoopInv, ResumeOnce, IsResume

(* A pass that asked to return has asked once.                             *)
LEMMA ResumeStep ==
  ASSUME LoopInv, [Next]_vars
  PROVE  ResumeOnce'
<1>0. /\ pc \in [Tasks -> Live \cup Finished \cup {"unborn", "joined"}]
      /\ waiting \in [Sessions -> Tasks \cup {NoTask}]
      /\ changes \in Seq([kind : {"Release", "Resume"}, task : Tasks])
      /\ ResumeOnce
  BY DEF LoopInv, TypeOK
<1>1. CASE UNCHANGED <<changes, pc, waiting>>
  BY <1>0, <1>1 DEF ResumeOnce, IsResume
<1>2. ASSUME NEW t \in Tasks, SendRelease(t)
      PROVE  ResumeOnce'
  <2> DEFINE m == [kind |-> "Release", task |-> t]
             n == Len(changes) + 1
  <2>1. /\ changes' = Append(changes, m) /\ waiting' = waiting
        /\ pc[t] = "releasing" /\ pc' = [pc EXCEPT ![t] = "io"]
    BY <1>2 DEF SendRelease, loopVars
  <2>2. /\ Len(changes) \in Nat /\ DOMAIN changes = 1 .. Len(changes)
        /\ DOMAIN changes' = 1 .. n /\ changes'[n] = m
        /\ \A i \in DOMAIN changes : changes'[i] = changes[i]
    BY <1>0, <2>1, AppendProperties, LenProperties
  <2>3. \A i \in DOMAIN changes' : i \in DOMAIN changes \/ i = n
    BY <2>2
  <2>4. \A i \in DOMAIN changes : ~ IsResume(i, t)
    BY <1>0, <2>1 DEF ResumeOnce
  <2>5. \A s \in Sessions : waiting[s] # t
    BY <2>1 DEF LoopInv, WaitingIsReturning, Tasks, NoTask
  <2> HIDE DEF m, n
  <2>6. ASSUME NEW u \in Tasks, NEW i \in DOMAIN changes', IsResume(i, u)'
        PROVE  /\ pc'[u] \in {"awaiting", "expired", "joined"}
               /\ \A s \in Sessions : waiting'[s] # u
               /\ \A j \in DOMAIN changes' : IsResume(j, u)' => i = j
    <3>1. CASE u = t
      BY <2>2, <2>3, <2>4, <2>6, <3>1 DEF IsResume, m
    <3>2. CASE u # t
      <4>1. /\ i \in DOMAIN changes /\ IsResume(i, u)
            /\ \A j \in DOMAIN changes' : IsResume(j, u)' =>
                 j \in DOMAIN changes /\ IsResume(j, u)
        BY <2>2, <2>3, <2>6, <3>2 DEF IsResume, m
      <4>2. pc'[u] = pc[u]
        BY <1>0, <2>1, <3>2
      <4>3. QED
        BY <1>0, <2>1, <4>1, <4>2 DEF ResumeOnce
    <3>3. QED
      BY <3>1, <3>2
  <2>7. QED
    BY <2>6 DEF ResumeOnce
<1>3. ASSUME NEW t \in Tasks, SendResume(t)
      PROVE  ResumeOnce'
  <2> DEFINE m == [kind |-> "Resume", task |-> t]
             n == Len(changes) + 1
  <2>1. /\ changes' = Append(changes, m) /\ waiting' = waiting
        /\ pc[t] = "io" /\ pc' = [pc EXCEPT ![t] = "awaiting"]
    BY <1>3 DEF SendResume, loopVars
  <2>2. /\ Len(changes) \in Nat /\ DOMAIN changes = 1 .. Len(changes)
        /\ DOMAIN changes' = 1 .. n /\ changes'[n] = m
        /\ \A i \in DOMAIN changes : changes'[i] = changes[i]
    BY <1>0, <2>1, AppendProperties, LenProperties
  <2>3. \A i \in DOMAIN changes' : i \in DOMAIN changes \/ i = n
    BY <2>2
  <2>4. \A i \in DOMAIN changes : ~ IsResume(i, t)
    BY <1>0, <2>1 DEF ResumeOnce
  <2>5. \A s \in Sessions : waiting[s] # t
    BY <2>1 DEF LoopInv, WaitingIsReturning, Tasks, NoTask
  <2> HIDE DEF m, n
  <2>6. ASSUME NEW u \in Tasks, NEW i \in DOMAIN changes', IsResume(i, u)'
        PROVE  /\ pc'[u] \in {"awaiting", "expired", "joined"}
               /\ \A s \in Sessions : waiting'[s] # u
               /\ \A j \in DOMAIN changes' : IsResume(j, u)' => i = j
    <3>1. CASE u = t
      <4>1. i = n /\ \A j \in DOMAIN changes' : IsResume(j, u)' => j = n
        BY <2>2, <2>3, <2>4, <2>6, <3>1 DEF IsResume
      <4>2. QED
        BY <1>0, <2>1, <2>5, <3>1, <4>1
    <3>2. CASE u # t
      <4>1. /\ i \in DOMAIN changes /\ IsResume(i, u)
            /\ \A j \in DOMAIN changes' : IsResume(j, u)' =>
                 j \in DOMAIN changes /\ IsResume(j, u)
        BY <2>2, <2>3, <2>6, <3>2 DEF IsResume, m
      <4>2. pc'[u] = pc[u]
        BY <1>0, <2>1, <3>2
      <4>3. QED
        BY <1>0, <2>1, <4>1, <4>2 DEF ResumeOnce
    <3>3. QED
      BY <3>1, <3>2
  <2>7. QED
    BY <2>6 DEF ResumeOnce
<1>4. ASSUME NEW t \in Tasks,
             ReleaseSlot(t) \/ ReleaseAdmission(t) \/ EnterAcquire(t) \/
               Acquire(t) \/ Complete(t) \/ Expire(t) \/ Panic(t)
      PROVE  ResumeOnce'
  <2>1. changes' = changes /\ waiting' = waiting
    BY <1>4, PassMoves
      DEF PassStep, ReleaseSlot, ReleaseAdmission, BeginIo, EnterAcquire,
      Acquire, Complete, Expire, Panic
  <2>2. PassStep(t)
    BY <1>4 DEF PassStep
  <2>3. ASSUME NEW u \in Tasks, NEW i \in DOMAIN changes, IsResume(i, u)
        PROVE  /\ pc'[u] \in {"awaiting", "expired", "joined"}
               /\ \A s \in Sessions : waiting'[s] # u
    <3>1. /\ pc[u] \in {"awaiting", "expired", "joined"}
          /\ \A s \in Sessions : waiting[s] # u
      BY <1>0, <2>3 DEF ResumeOnce
    <3>2. CASE u = t
      BY <2>1, <2>2, <3>1, <3>2, PassMoves DEF Live
    <3>3. CASE u # t
      BY <2>1, <2>2, <3>1, <3>3, PassMoves
    <3>4. QED
      BY <3>2, <3>3
  <2>4. QED
    BY <2>1, <2>3, ResumeKept
<1>5. CASE PoppedResume
  <2>1. /\ popped \in Sessions /\ waiting[popped] # NoTask /\ ResumeWaiting(popped)
        /\ changes' = changes
    BY <1>5 DEF LoopInv, QueueIsHints, PoppedResume
  <2>2. ASSUME NEW u \in Tasks, NEW i \in DOMAIN changes, IsResume(i, u)
        PROVE  /\ pc'[u] \in {"awaiting", "expired", "joined"}
               /\ \A s \in Sessions : waiting'[s] # u
    <3>1. /\ pc[u] \in {"awaiting", "expired", "joined"}
          /\ \A s \in Sessions : waiting[s] # u
      BY <1>0, <2>2 DEF ResumeOnce
    <3>2. QED
      BY <2>1, <3>1, ResumeAnswers DEF Tasks, NoTask
  <2>3. QED
    BY <2>1, <2>2, ResumeKept
<1>6. CASE DrainHint
  <2>1. changes' = changes
    BY <1>6 DEF DrainHint
  <2>2. CASE UNCHANGED <<pc, waiting>>
    BY <1>1, <2>1, <2>2
  <2>3. CASE ~ UNCHANGED <<pc, waiting>>
    <3>1. PICK s \in Sessions : waiting[s] # NoTask /\ ResumeWaiting(s)
      BY <1>6, <2>3 DEF DrainHint
    <3>2. ASSUME NEW u \in Tasks, NEW i \in DOMAIN changes, IsResume(i, u)
          PROVE  /\ pc'[u] \in {"awaiting", "expired", "joined"}
                 /\ \A r \in Sessions : waiting'[r] # u
      <4>1. /\ pc[u] \in {"awaiting", "expired", "joined"}
            /\ \A r \in Sessions : waiting[r] # u
        BY <1>0, <3>2 DEF ResumeOnce
      <4>2. QED
        BY <3>1, <4>1, ResumeAnswers DEF Tasks, NoTask
    <3>3. QED
      BY <2>1, <3>2, ResumeKept
  <2>4. QED
    BY <2>2, <2>3
<1>7. CASE PoppedReserve
  <2>1. /\ nextTask \in Tasks /\ pc[nextTask] = "unborn"
        /\ pc' = [pc EXCEPT ![nextTask] = "running"] /\ UNCHANGED <<changes, waiting>>
    BY <1>7, ReserveStarts
  <2>2. ASSUME NEW u \in Tasks, NEW i \in DOMAIN changes, IsResume(i, u)
        PROVE  /\ pc'[u] \in {"awaiting", "expired", "joined"}
               /\ \A s \in Sessions : waiting'[s] # u
    BY <1>0, <2>1, <2>2 DEF ResumeOnce
  <2>3. QED
    BY <2>1, <2>2, ResumeKept
<1>8. ASSUME NEW t \in Tasks, Join(t)
      PROVE  ResumeOnce'
  <2>1. /\ pc' = [pc EXCEPT ![t] = "joined"] /\ changes' = changes
        /\ waiting' = [waiting EXCEPT ![taskSessions[t]] = NoTask]
    BY <1>8 DEF Join
  <2>2. \A s \in Sessions : waiting'[s] \in {waiting[s], NoTask}
    BY <1>0, <2>1
  <2>3. ASSUME NEW u \in Tasks, NEW i \in DOMAIN changes, IsResume(i, u)
        PROVE  /\ pc'[u] \in {"awaiting", "expired", "joined"}
               /\ \A s \in Sessions : waiting'[s] # u
    <3>1. u # NoTask
      BY DEF Tasks, NoTask
    <3>2. QED
      BY <1>0, <2>1, <2>2, <2>3, <3>1 DEF ResumeOnce
  <2>4. QED
    BY <2>1, <2>3, ResumeKept
<1>9. CASE ApplyChange
  <2> DEFINE m == Head(changes)
             t == m.task
             s == taskSessions[t]
  <2>1. /\ changes # << >> /\ changes' = Tail(changes) /\ pc' = pc
        /\ \/ waiting' = waiting
           \/ /\ waiting' = [waiting EXCEPT ![s] = t]
              /\ m.kind = "Resume" /\ s # NoSession
    BY <1>9 DEF ApplyChange
  <2>2. /\ Len(changes) \in Nat /\ DOMAIN changes = 1 .. Len(changes) /\ Len(changes) >= 1
        /\ DOMAIN changes' = 1 .. Len(changes) - 1 /\ m = changes[1]
        /\ \A i \in 1 .. Len(changes) - 1 : changes'[i] = changes[i + 1]
        /\ m \in [kind : {"Release", "Resume"}, task : Tasks]
    <3>1. /\ Len(changes) \in Nat /\ DOMAIN changes = 1 .. Len(changes)
          /\ Len(changes) >= 1 /\ m = changes[1]
      BY <1>0, <2>1
    <3>2. /\ m \in [kind : {"Release", "Resume"}, task : Tasks]
          /\ changes' \in Seq([kind : {"Release", "Resume"}, task : Tasks])
          /\ Len(changes') = Len(changes) - 1
          /\ \A i \in 1 .. Len(changes') : changes'[i] = changes[i + 1]
      BY <1>0, <2>1, HeadTailProperties
    <3>3. DOMAIN changes' = 1 .. Len(changes')
      BY <3>2, LenProperties
    <3>4. QED
      BY <3>1, <3>2, <3>3
  <2>3. m.kind = "Resume" => m = [kind |-> "Resume", task |-> t] /\ t \in Tasks
    BY <2>2
  <2> HIDE DEF m, t, s
  <2>4. ASSUME NEW u \in Tasks, NEW i \in DOMAIN changes', IsResume(i, u)'
        PROVE  /\ pc'[u] \in {"awaiting", "expired", "joined"}
               /\ \A r \in Sessions : waiting'[r] # u
               /\ \A j \in DOMAIN changes' : IsResume(j, u)' => i = j
    <3>1. i \in Int /\ 1 \in DOMAIN changes /\ i + 1 \in DOMAIN changes /\ i + 1 # 1
      BY <2>2
    <3>2. IsResume(i + 1, u)
      BY <2>2, <2>4 DEF IsResume
    <3>3. ~ IsResume(1, u)
      BY <1>0, <3>1, <3>2 DEF ResumeOnce
    <3>4. \A r \in Sessions : waiting'[r] # u
      <4>1. \A r \in Sessions : waiting[r] # u
        BY <1>0, <3>1, <3>2 DEF ResumeOnce
      <4>2. m.kind = "Resume" => t # u
        BY <2>2, <2>3, <3>3 DEF IsResume
      <4>3. QED
        BY <1>0, <2>1, <4>1, <4>2
    <3>5. ASSUME NEW j \in DOMAIN changes', IsResume(j, u)' PROVE i = j
      <4>1. j \in Int /\ j + 1 \in DOMAIN changes /\ IsResume(j + 1, u)
        BY <2>2, <3>5 DEF IsResume
      <4>2. i + 1 = j + 1
        BY <1>0, <3>1, <3>2, <4>1 DEF ResumeOnce
      <4>3. QED
        BY <3>1, <4>1, <4>2
    <3>6. pc'[u] \in {"awaiting", "expired", "joined"}
      BY <1>0, <2>1, <3>1, <3>2 DEF ResumeOnce
    <3>7. QED
      BY <3>4, <3>5, <3>6
  <2>5. QED
    BY <2>4 DEF ResumeOnce
<1>10. ASSUME NEW s \in Sessions, TakeHint(s) PROVE ResumeOnce'
  BY <1>1, <1>10 DEF TakeHint, EnqueueHint, slotVars, passVars
<1>11. CASE Top \/ Wait \/ PoppedShutdown \/ PoppedNoSlot \/
           ShutdownSelected \/ SlotChanged \/ DrainWait \/ Exit \/
           SourceFails \/ RequestShutdown
  BY <1>1, <1>11 DEF Top, Wait, PoppedShutdown, PoppedNoSlot,
    ShutdownSelected, SlotChanged, DrainWait, Exit, SourceFails,
    RequestShutdown, PopHint, RequeueFront, loopVars, slotVars, passVars
<1>12. CASE UNCHANGED vars
  BY <1>1, <1>12 DEF vars, loopVars, slotVars, passVars
<1>13. QED
  BY <1>2, <1>3, <1>4, <1>5, <1>6, <1>7, <1>8, <1>9, <1>10, <1>11, <1>12
    DEF Next, LoopStep, PassStep

(* The bound on task identities is kept by a step that takes at most one   *)
(* from the hints and reruns it has left, and by one that only moves them. *)
LEMMA BudgetKept ==
  ASSUME LoopInv, FreshHints' \subseteq FreshHints,
         pendingReruns' \subseteq pendingReruns, nextTask' = nextTask
  PROVE  BudgetLeft'
<1>1. /\ IsFiniteSet(FreshHints) /\ IsFiniteSet(pendingReruns)
      /\ nextTask + Cardinality(FreshHints) + Cardinality(pendingReruns) <= HintBudget + 1
      /\ nextTask \in Int /\ HintBudget \in Int
  BY LoopAssumption DEF LoopInv, TypeOK, BudgetLeft, LoopAssumption
<1>2. /\ IsFiniteSet(FreshHints') /\ Cardinality(FreshHints') <= Cardinality(FreshHints)
      /\ IsFiniteSet(pendingReruns')
      /\ Cardinality(pendingReruns') <= Cardinality(pendingReruns)
  BY <1>1, FS_Subset
<1>3. /\ Cardinality(FreshHints) \in Int /\ Cardinality(FreshHints') \in Int
      /\ Cardinality(pendingReruns) \in Int /\ Cardinality(pendingReruns') \in Int
  BY <1>1, <1>2, FS_CardinalityType
<1>4. QED
  BY <1>1, <1>2, <1>3 DEF BudgetLeft

(* Every hint in hand has a task identity left for its pass.               *)
LEMMA BudgetStep ==
  ASSUME LoopInv, [Next]_vars
  PROVE  BudgetLeft'
<1> USE LoopAssumption DEF LoopAssumption
<1>0. /\ waiting \in [Sessions -> Tasks \cup {NoTask}]
      /\ pendingHints \subseteq Sessions /\ popped \notin pendingHints
      /\ popped \in Sessions \cup {NoSession}
      /\ (popped \in Sessions <=> ctl = "popped")
      /\ IsFiniteSet(FreshHints) /\ IsFiniteSet(pendingReruns)
      /\ Cardinality(FreshHints) \in Int /\ Cardinality(pendingReruns) \in Int
      /\ nextTask + Cardinality(FreshHints) + Cardinality(pendingReruns) <= HintBudget + 1
      /\ nextTask \in Int /\ HintBudget \in Int
  <2>1. IsFiniteSet(FreshHints) /\ IsFiniteSet(pendingReruns)
    BY DEF LoopInv, BudgetLeft
  <2>2. Cardinality(FreshHints) \in Int /\ Cardinality(pendingReruns) \in Int
    BY <2>1, FS_CardinalityType
  <2>3. QED
    BY <2>1, <2>2 DEF LoopInv, TypeOK, QueueIsHints, BudgetLeft
<1>1. CASE UNCHANGED <<popped, pendingHints, waiting, pendingReruns, nextTask>>
  <2>1. FreshHints' = FreshHints /\ UNCHANGED <<pendingReruns, nextTask>>
    BY <1>1 DEF FreshHints
  <2>2. QED
    BY <2>1, BudgetKept
<1>2. CASE Top
  <2>1. /\ popped' \in pendingHints /\ pendingHints' = pendingHints \ {popped'}
        /\ UNCHANGED <<waiting, pendingReruns, nextTask>>
    BY <1>2, PopTakesFront DEF Top
  <2>2. FreshHints' \subseteq FreshHints
    BY <1>0, <2>1 DEF FreshHints
  <2>3. QED
    BY <2>1, <2>2, BudgetKept
<1>3. CASE PoppedShutdown \/ PoppedNoSlot
  <2>1. /\ pendingHints' = pendingHints \cup {popped} /\ popped' = NoSession
        /\ UNCHANGED <<waiting, pendingReruns, nextTask>>
    BY <1>3, RequeuePutsBack DEF PoppedShutdown, PoppedNoSlot
  <2>2. FreshHints' \subseteq FreshHints
    BY <1>0, <2>1 DEF FreshHints
  <2>3. QED
    BY <2>1, <2>2, BudgetKept
<1>4. CASE PoppedResume
  <2>1. /\ popped \in Sessions /\ popped' = NoSession
        /\ \A r \in Sessions : r # popped => waiting'[r] = waiting[r]
        /\ UNCHANGED <<pendingHints, pendingReruns, nextTask>>
    BY <1>0, <1>4, ResumeAnswers DEF PoppedResume
  <2>2. FreshHints' \subseteq FreshHints
    BY <1>0, <2>1 DEF FreshHints
  <2>3. QED
    BY <2>1, <2>2, BudgetKept
<1>5. CASE PoppedReserve
  <2>1. /\ popped \in Sessions /\ popped \notin pendingHints /\ popped' = NoSession
        /\ nextTask \in Tasks /\ nextTask' = nextTask + 1
        /\ UNCHANGED <<pendingHints, waiting, pendingReruns>>
    BY <1>5, ReserveStarts
  <2>2. popped \in FreshHints /\ FreshHints' = FreshHints \ {popped}
    BY <1>0, <1>5, <2>1 DEF FreshHints, PoppedReserve
  <2>3. /\ IsFiniteSet(FreshHints')
        /\ Cardinality(FreshHints') = Cardinality(FreshHints) - 1
    BY <1>0, <2>2, FS_RemoveElement
  <2>4. QED
    BY <1>0, <2>1, <2>3 DEF BudgetLeft
<1>6. CASE ApplyChange
  <2>1. UNCHANGED <<popped, pendingReruns, nextTask>>
    BY <1>6 DEF ApplyChange
  <2>2. FreshHints' \subseteq FreshHints
    <3> DEFINE t == Head(changes).task
               s == taskSessions[t]
    <3>1. CASE UNCHANGED <<waiting, pendingHints>>
      BY <2>1, <3>1 DEF FreshHints
    <3>2. CASE ~ UNCHANGED <<waiting, pendingHints>>
      <4>1. /\ Head(changes).kind = "Resume" /\ s # NoSession
            /\ waiting' = [waiting EXCEPT ![s] = t]
            /\ pendingHints' = pendingHints \cup {s}
        BY <1>6, <3>2 DEF ApplyChange
      <4>2. t \in Tasks /\ s \in Sessions
        BY <1>6, <4>1, ResumeIsNews
      <4>3. t # NoTask
        BY <4>2 DEF Tasks, NoTask
      <4> HIDE DEF t, s
      <4>4. QED
        BY <1>0, <2>1, <4>1, <4>2, <4>3 DEF FreshHints
    <3>3. QED
      BY <3>1, <3>2
  <2>3. QED
    BY <2>1, <2>2, BudgetKept
<1>7. CASE DrainHint
  <2>1. /\ UNCHANGED <<popped, pendingReruns, nextTask>> /\ popped = NoSession
        /\ \E s \in Sessions : /\ pendingHints' = pendingHints \ {s}
                               /\ \A r \in Sessions : r # s => waiting'[r] = waiting[r]
    <3>1. PICK s \in Sessions :
            /\ PopHint(s)
            /\ IF waiting[s] # NoTask THEN ResumeWaiting(s)
                                      ELSE UNCHANGED <<released, waiting, pc>>
      BY <1>7 DEF DrainHint
    <3>2. \A r \in Sessions : r # s => waiting'[r] = waiting[r]
      BY <3>1, ResumeAnswers
    <3>3. pendingHints' = pendingHints \ {s}
      BY <3>1, PopTakesFront
    <3>4. QED
      BY <1>0, <1>7, <3>2, <3>3 DEF DrainHint
  <2>2. FreshHints' \subseteq FreshHints
    BY <1>0, <2>1 DEF FreshHints
  <2>3. QED
    BY <2>1, <2>2, BudgetKept
<1>8. ASSUME NEW t \in Tasks, Join(t)
      PROVE  BudgetLeft'
  <2> DEFINE s == taskSessions[t]
  <2>1. /\ s \in Sessions /\ popped = NoSession /\ popped' = NoSession
        /\ waiting[s] = NoTask => s \notin pendingHints
        /\ \/ /\ pendingHints' = pendingHints \cup {s}
              /\ s \in pendingReruns /\ pendingReruns' = pendingReruns \ {s}
           \/ /\ pendingHints' = pendingHints \ {s}
              /\ pendingReruns' \in {pendingReruns, pendingReruns \ {s}}
    BY <1>8, JoinWithdraws
  <2>2. /\ nextTask' = nextTask /\ waiting' = [waiting EXCEPT ![s] = NoTask]
    BY <1>8 DEF Join
  <2> HIDE DEF s
  <2>3. s \notin FreshHints
    BY <1>0, <2>1 DEF FreshHints
  <2>4. \A r \in Sessions : r # s => waiting'[r] = waiting[r]
    BY <1>0, <2>2
  <2>5. CASE pendingHints' = pendingHints \ {s} /\ pendingReruns' \subseteq pendingReruns
    <3>1. FreshHints' \subseteq FreshHints
      BY <1>0, <2>1, <2>4, <2>5 DEF FreshHints
    <3>2. QED
      BY <2>2, <2>5, <3>1, BudgetKept
  <2>6. CASE /\ pendingHints' = pendingHints \cup {s}
             /\ s \in pendingReruns /\ pendingReruns' = pendingReruns \ {s}
    <3>1. FreshHints' = FreshHints \cup {s}
      <4>1. waiting'[s] = NoTask
        BY <1>0, <2>1, <2>2
      <4>2. QED
        BY <1>0, <2>1, <2>4, <2>6, <4>1 DEF FreshHints
    <3>2. /\ IsFiniteSet(FreshHints')
          /\ Cardinality(FreshHints') = Cardinality(FreshHints) + 1
      BY <1>0, <2>3, <3>1, FS_AddElement
    <3>3. /\ IsFiniteSet(pendingReruns')
          /\ Cardinality(pendingReruns') = Cardinality(pendingReruns) - 1
      BY <1>0, <2>6, FS_RemoveElement
    <3>4. QED
      BY <1>0, <2>2, <3>2, <3>3 DEF BudgetLeft
  <2>7. QED
    BY <2>1, <2>5, <2>6
<1>9. ASSUME NEW s \in Sessions, TakeHint(s)
      PROVE  BudgetLeft'
  <2>1. /\ UNCHANGED <<popped, waiting, nextTask>> /\ popped = NoSession
    BY <1>0, <1>9 DEF TakeHint
  <2>2. nextTask + Cardinality(FreshHints) + Cardinality(pendingReruns) <= HintBudget
    <3>1. FreshHints = {r \in pendingHints : waiting[r] = NoTask}
      BY <1>0, <2>1 DEF FreshHints
    <3>2. QED
      BY <1>9, <3>1 DEF TakeHint, WithinBudget
  <2>3. CASE s \in inFlight
    <3>1. pendingReruns' = pendingReruns \cup {s} /\ pendingHints' = pendingHints
      BY <1>9, <2>3 DEF TakeHint, EnqueueHint
    <3>2. FreshHints' = FreshHints
      BY <2>1, <3>1 DEF FreshHints
    <3>3. /\ IsFiniteSet(pendingReruns')
          /\ Cardinality(pendingReruns') \in
               {Cardinality(pendingReruns), Cardinality(pendingReruns) + 1}
      BY <1>0, <3>1, FS_AddElement
    <3>4. QED
      BY <1>0, <2>1, <2>2, <3>2, <3>3 DEF BudgetLeft
  <2>4. CASE s \notin inFlight
    <3>1. pendingReruns' = pendingReruns /\ pendingHints' = pendingHints \cup {s}
      BY <1>9, <2>4 DEF TakeHint, EnqueueHint
    <3>2. FreshHints' \in {FreshHints, FreshHints \cup {s}}
      BY <1>0, <2>1, <3>1 DEF FreshHints
    <3>3. /\ IsFiniteSet(FreshHints')
          /\ Cardinality(FreshHints') \in
               {Cardinality(FreshHints), Cardinality(FreshHints) + 1}
      BY <1>0, <3>2, FS_AddElement
    <3>4. QED
      BY <1>0, <2>1, <2>2, <3>1, <3>3 DEF BudgetLeft
  <2>5. QED
    BY <2>3, <2>4
<1>10. ASSUME NEW t \in Tasks, PassStep(t) PROVE BudgetLeft'
  BY <1>1, <1>10, PassMoves
<1>11. CASE Wait \/ ShutdownSelected \/ SlotChanged \/ DrainWait \/ Exit
           \/ SourceFails \/ RequestShutdown
  BY <1>1, <1>11 DEF Wait, ShutdownSelected, SlotChanged, DrainWait, Exit,
    SourceFails, RequestShutdown, loopVars, slotVars, passVars
<1>12. CASE UNCHANGED vars
  BY <1>1, <1>12 DEF vars, loopVars, slotVars, passVars
<1>13. QED
  BY <1>2, <1>3, <1>4, <1>5, <1>6, <1>7, <1>8, <1>9, <1>10, <1>11, <1>12
    DEF Next, LoopStep

(* The type invariant. *)
Ctl == {"top", "popped", "poll", "blocked", "drain", "drainSelect", "exited"}
Message == [kind : {"Release", "Resume"}, task : Tasks]
Place == Live \cup Finished \cup {"unborn", "joined"}

(* The variables whose type no other part of the invariant gives.          *)
RestOK ==
  /\ ctl \in Ctl
  /\ popped \in Sessions \cup {NoSession}
  /\ pendingReruns \subseteq Sessions
  /\ inFlight \subseteq Sessions
  /\ taskSessions \in [Tasks -> Sessions \cup {NoSession}]
  /\ released \subseteq Tasks
  /\ waiting \in [Sessions -> Tasks \cup {NoTask}]
  /\ nextTask \in 1 .. HintBudget + 1
  /\ changes \in Seq(Message)
  /\ slotDirty \in BOOLEAN
  /\ shutdown \in BOOLEAN
  /\ pc \in [Tasks -> Place]

(* They have their types, since TypeOK says so, ...                        *)
LEMMA RestFromType ==
  ASSUME LoopInv
  PROVE  RestOK
  BY DEF LoopInv, TypeOK, RestOK, Ctl, Message, Place

(* ... are kept in their types by every step.                              *)
LEMMA RestStep ==
  ASSUME LoopInv, [Next]_vars
  PROVE  RestOK'
<1>0. RestOK
  BY RestFromType
<1>1. CASE UNCHANGED <<ctl, popped, pendingReruns, inFlight, taskSessions,
                       released, waiting, nextTask, changes, slotDirty, shutdown, pc>>
  BY <1>0, <1>1 DEF RestOK
<1>2. ASSUME NEW t \in Tasks, SendRelease(t) \/ SendResume(t)
      PROVE  RestOK'
  <2>1. \E m \in Message : changes' = Append(changes, m)
    BY <1>2 DEF SendRelease, SendResume, Message
  <2>2. changes' \in Seq(Message) /\ slotDirty' = slotDirty
    BY <1>0, <1>2, <2>1, AppendProperties
      DEF RestOK, SendRelease, SendResume, slotVars
  <2>3. QED
    BY <1>0, <1>2, <2>2, PassMoves DEF RestOK, PassStep, Place
<1>3. ASSUME NEW t \in Tasks,
             ReleaseSlot(t) \/ ReleaseAdmission(t) \/ EnterAcquire(t) \/
               Acquire(t) \/ Complete(t) \/ Expire(t) \/ Panic(t)
      PROVE  RestOK'
  <2>1. changes' = changes /\ slotDirty' \in BOOLEAN
    BY <1>0, <1>3
      DEF RestOK, ReleaseSlot, ReleaseAdmission, BeginIo, DropSlot, EnterAcquire,
      Acquire, Complete, Expire, Panic, slotVars
  <2>2. QED
    BY <1>0, <1>3, <2>1, PassMoves DEF RestOK, PassStep, Place
<1>4. CASE Top
  <2>1. popped' \in pendingHints
    BY <1>4, PopTakesFront DEF Top
  <2>2. QED
    BY <1>0, <1>4, <2>1 DEF Top, RestOK, Ctl, LoopInv, TypeOK, slotVars, passVars
<1>5. CASE
         Wait \/ PoppedShutdown \/ PoppedNoSlot \/ ShutdownSelected \/ DrainWait \/
           Exit \/ SourceFails \/ RequestShutdown
  BY <1>0, <1>5 DEF Wait, PoppedShutdown, PoppedNoSlot, ShutdownSelected, DrainWait,
    Exit, SourceFails, RequestShutdown, RestOK, Ctl, loopVars, slotVars, passVars
<1>6. CASE SlotChanged
  BY <1>0, <1>6 DEF SlotChanged, Draining, RestOK, Ctl, slotVars, passVars
<1>7. CASE PoppedResume
  <2>1. popped \in Sessions /\ waiting[popped] # NoTask /\ ResumeWaiting(popped)
    BY <1>7 DEF LoopInv, QueueIsHints, PoppedResume
  <2>2. /\ released' \subseteq Tasks /\ waiting' \in [Sessions -> Tasks \cup {NoTask}]
        /\ pc' \in [Tasks -> Place]
    BY <1>0, <2>1, ResumeAnswers DEF RestOK, Place
  <2>3. QED
    BY <1>0, <1>7, <2>2 DEF PoppedResume, RestOK, Ctl, slotVars
<1>8. CASE DrainHint
  <2>1. PICK s \in Sessions :
          IF waiting[s] # NoTask THEN ResumeWaiting(s)
                                 ELSE UNCHANGED <<released, waiting, pc>>
    BY <1>8 DEF DrainHint
  <2>2. /\ released' \subseteq Tasks /\ waiting' \in [Sessions -> Tasks \cup {NoTask}]
        /\ pc' \in [Tasks -> Place]
    BY <1>0, <2>1, ResumeAnswers DEF RestOK, Place
  <2>3. QED
    BY <1>0, <1>8, <2>2 DEF DrainHint, RestOK, Ctl, slotVars
<1>9. CASE PoppedReserve
  <2>1. nextTask' \in 1 .. HintBudget + 1
    BY <1>9, ReserveStarts, LoopAssumption DEF Tasks, LoopAssumption
  <2>2. /\ inFlight' \subseteq Sessions /\ pc' \in [Tasks -> Place]
        /\ taskSessions' \in [Tasks -> Sessions \cup {NoSession}]
    BY <1>0, <1>9, ReserveStarts DEF RestOK, Place, Live
  <2>3. QED
    BY <1>0, <1>9, <2>1, <2>2, ReserveStarts DEF RestOK, Ctl
<1>10. CASE ApplyChange
  <2>1. changes' \in Seq(Message) /\ Head(changes) \in Message
    BY <1>0, <1>10, HeadTailProperties DEF RestOK, ApplyChange
  <2>2. Head(changes).task \in Tasks
    BY <2>1 DEF Message
  <2>3. released' \subseteq Tasks /\ waiting' \in [Sessions -> Tasks \cup {NoTask}]
    BY <1>0, <1>10, <2>2 DEF RestOK, ApplyChange
  <2>4. ctl' \in Ctl
    BY <1>0, <1>10 DEF RestOK, ApplyChange, Ctl
  <2>5. UNCHANGED <<popped, pendingReruns, inFlight, taskSessions, nextTask,
    slotDirty,
                    shutdown, pc>>
    BY <1>10 DEF ApplyChange
  <2>6. QED
    BY <1>0, <2>1, <2>3, <2>4, <2>5 DEF RestOK
<1>11. ASSUME NEW t \in Tasks, Join(t)
      PROVE  RestOK'
  <2>1. ctl' \in Ctl /\ UNCHANGED <<popped, nextTask, changes, shutdown>>
    BY <1>0, <1>11 DEF RestOK, Join, Ctl
  <2>2. pendingReruns' \subseteq Sessions
    BY <1>0, <1>11, JoinWithdraws DEF RestOK
  <2>3. /\ inFlight' \subseteq Sessions /\ released' \subseteq Tasks
        /\ waiting' \in [Sessions -> Tasks \cup {NoTask}]
        /\ taskSessions' \in [Tasks -> Sessions \cup {NoSession}]
        /\ pc' \in [Tasks -> Place]
    BY <1>0, <1>11 DEF RestOK, Join, Place
  <2>4. slotDirty' \in BOOLEAN
    BY <1>0, <1>11 DEF RestOK, Join, DropSlot
  <2>5. QED
    BY <1>0, <2>1, <2>2, <2>3, <2>4 DEF RestOK
<1>12. ASSUME NEW s \in Sessions, TakeHint(s)
      PROVE  RestOK'
  BY <1>0, <1>12 DEF TakeHint, EnqueueHint, RestOK, Ctl, slotVars, passVars
<1>13. CASE UNCHANGED vars
  BY <1>1, <1>13 DEF vars, loopVars, slotVars, passVars
<1>14. QED
  BY <1>2, <1>3, <1>4, <1>5, <1>6, <1>7, <1>8, <1>9, <1>10, <1>11, <1>12,
     <1>13 DEF Next, LoopStep, PassStep

---------------------------------------------------------------------------
(* The initial states satisfy the invariant ...                            *)
LEMMA LoopInit ==
  ASSUME Init
  PROVE  LoopInv
<1> USE LoopAssumption DEF LoopAssumption, Init
<1>1. TypeOK /\ TasksMatchSessions /\ WaitingIsReturning /\ ResumeOnce
  <2>1. TypeOK
    <3>1. /\ << >> \in Seq(Sessions) /\ << >> \in Seq(Tasks)
          /\ << >> \in Seq([kind : {"Release", "Resume"}, task : Tasks])
      BY EmptySeq
    <3>2. 1 \in 1 .. HintBudget + 1 /\ 0 \in Nat
      OBVIOUS
    <3>3. QED
      BY <3>1, <3>2 DEF TypeOK
  <2>2. TasksMatchSessions
    BY DEF TasksMatchSessions, Live, Finished, Tasks
  <2>3. WaitingIsReturning
    BY DEF WaitingIsReturning
  <2>4. ResumeOnce
    BY DEF ResumeOnce
  <2>5. QED
    BY <2>1, <2>2, <2>3, <2>4
<1>2. QueueIsHints
  BY DEF QueueIsHints, IsInjective, ToSet
<1>3. ReacquireIsQueue
  BY DEF ReacquireIsQueue, IsInjective, ToSet
<1>4. SlotsHeld
  BY FS_EmptySet DEF SlotsHeld, SlotAccounting
<1>5. BudgetLeft
  <2>1. FreshHints = {}
    BY DEF FreshHints
  <2>2. QED
    BY <2>1, FS_EmptySet DEF BudgetLeft
<1>6. QED
  BY <1>1, <1>2, <1>3, <1>4, <1>5 DEF LoopInv

(* ... and every step keeps it.                                            *)
LEMMA LoopStepKeeps ==
  ASSUME LoopInv, [Next]_vars
  PROVE  LoopInv'
<1>1. QueueIsHints' /\ pendingSessions' \in Seq(Sessions)
  BY QueueStep
<1>2. pendingHints' \subseteq Sessions
  BY <1>1 DEF QueueIsHints, ToSet
<1>3. SlotsHeld' /\ active' \in Nat /\ holding' \subseteq Tasks
  BY SlotsStep
<1>4. ReacquireIsQueue' /\ reacquire' \in Seq(Tasks)
  BY ReacquireStep
<1>5. TypeOK'
  BY <1>1, <1>2, <1>3, <1>4, RestStep DEF TypeOK, RestOK, Ctl, Message, Place
<1>6. QED
  BY <1>1, <1>3, <1>4, <1>5, TasksStep, WaitingStep, ResumeStep, BudgetStep
    DEF LoopInv

(* The inductive invariant of the scheduler loop holds in every reachable  *)
(* state, whatever the sessions, the slot cap and the number of passes.    *)
THEOREM LoopInvariant == Spec => []LoopInv
  BY LoopInit, LoopStepKeeps, PTL DEF Spec

(* Every variable of the loop, the slots and the passes keeps its type.    *)
THEOREM LoopTypeCorrect == Spec => []TypeOK
<1>1. LoopInv => TypeOK
  BY DEF LoopInv
<1>2. QED
  BY <1>1, LoopInvariant, PTL

(* SchedulerSlots counts exactly the slots held and never hands out more   *)
(* than max_in_flight_passes, however passes release, reacquire, expire,   *)
(* panic and are joined.                                                   *)
THEOREM LoopSlotAccounting == Spec => []SlotAccounting
<1>1. LoopInv => SlotAccounting
  BY DEF LoopInv, SlotsHeld
<1>2. QED
  BY <1>1, LoopInvariant, PTL

(* A session has at most one pass in flight, and the in-flight set, the    *)
(* task map and the tasks started and not joined agree.                    *)
THEOREM LoopOnePassPerSession == Spec => []OnePassPerSession
<1>1. ASSUME LoopInv PROVE OnePassPerSession
  <2>1. ASSUME NEW s \in Sessions
        PROVE  Cardinality(InFlightTasks(s)) = IF s \in inFlight THEN 1 ELSE 0
    <3>1. CASE s \notin inFlight
      <4>1. InFlightTasks(s) = {}
        BY <1>1, <3>1 DEF LoopInv, TasksMatchSessions, InFlightTasks
      <4>2. QED
        BY <3>1, <4>1, FS_EmptySet
    <3>2. CASE s \in inFlight
      <4>1. PICK t \in Tasks : taskSessions[t] = s
        BY <1>1, <3>2 DEF LoopInv, TasksMatchSessions
      <4>2. s # NoSession
        BY LoopAssumption DEF LoopAssumption
      <4>3. InFlightTasks(s) = {t}
        BY <1>1, <4>1, <4>2 DEF LoopInv, TasksMatchSessions, InFlightTasks
      <4>4. QED
        BY <3>2, <4>3, FS_Singleton
    <3>3. QED
      BY <3>1, <3>2
  <2>2. QED
    BY <1>1, <2>1 DEF LoopInv, TasksMatchSessions, OnePassPerSession
<1>2. QED
  BY <1>1, LoopInvariant, PTL

(* The hint queue and the hint set agree, a hint for a busy session is a   *)
(* returning pass's, and what Admission names is in flight: expiry,        *)
(* completion and stale Release and Resume messages leave nothing behind.  *)
THEOREM LoopAdmissionHygiene == Spec => []AdmissionHygiene
<1>1. ASSUME LoopInv PROVE AdmissionHygiene
  <2>1. /\ pendingSessions \in Seq(Sessions) /\ IsInjective(pendingSessions)
        /\ ToSet(pendingSessions) = pendingHints
        /\ waiting \in [Sessions -> Tasks \cup {NoTask}]
    BY <1>1 DEF LoopInv, TypeOK, QueueIsHints
  <2>2. Len(pendingSessions) = Cardinality(pendingHints)
    BY <2>1, QueueLength
  <2>3. \A s \in pendingHints : \E i \in DOMAIN pendingSessions : pendingSessions[i] = s
    BY <2>1 DEF ToSet
  <2>4. \A s \in Sessions : waiting[s] # NoTask => waiting[s] \in InFlightTasks(s)
    BY <1>1, <2>1 DEF LoopInv, WaitingIsReturning, InFlightTasks
  <2>5. QED
    BY <1>1, <2>2, <2>3, <2>4 DEF LoopInv, WaitingIsReturning, AdmissionHygiene
<1>2. QED
  BY <1>1, LoopInvariant, PTL

============================================================================
