--------------------------- MODULE SchedulerLoop ---------------------------
(***************************************************************************)
(* The scheduler loop and its admission control                            *)
(* (crates/application/src/scheduler.rs, scheduler/admission.rs and        *)
(* scheduler_slot.rs).                                                     *)
(*                                                                         *)
(* One loop task turns session hints into authoritative passes, at most    *)
(* one per session and at most MaxInFlight holding a slot.  A pass gives   *)
(* its slot up during store I/O and must win one back before it goes on;   *)
(* it does so either through the slots alone, or also through the loop,    *)
(* with Release and Resume messages.  Passes run on other threads: every   *)
(* step of a pass between two synchronisation points is an action.         *)
(*                                                                         *)
(* Hints come from the work source (EligibilityNudge and the periodic      *)
(* sweep); here they are inputs.                                           *)
(***************************************************************************)
EXTENDS Integers, FiniteSets, SequencesExt

CONSTANTS Sessions,     \* session identities
          MaxInFlight,  \* max_in_flight_passes, not the paused value zero
          HintBudget,   \* bound: passes started in one behaviour
          NoSession

ASSUME LoopAssumption ==
  /\ MaxInFlight \in Nat \ {0}
  /\ HintBudget \in Nat \ {0}
  /\ NoSession \notin Sessions

Tasks  == 1 .. HintBudget   \* task identities, never reused
NoTask == 0

VARIABLES
  (* the loop's own state *)
  ctl,              \* where the loop is
  popped,           \* the hint popped and not yet admitted
  pendingSessions,  \* FIFO of hinted sessions
  pendingHints,     \* the same sessions as a set
  pendingReruns,    \* hinted again while their pass was in flight
  inFlight,         \* sessions whose pass has not been joined
  taskSessions,     \* task |-> session, NoSession when not in flight
  released,         \* Admission.released
  waiting,          \* Admission.waiting: session |-> task, or NoTask
  nextTask,         \* next task identity
  (* shared between the loop and the passes *)
  changes,          \* the admission_changes channel
  active,           \* SchedulerSlots: slots handed out
  reacquire,        \* SchedulerSlots: passes waiting in `acquire', in order
  slotDirty,        \* an unseen slot change notification
  shutdown,         \* the shutdown future is ready
  (* the passes *)
  pc,               \* where each pass is
  holding           \* passes whose shared cell holds a slot

loopVars == <<ctl, popped, pendingSessions, pendingHints, pendingReruns,
              inFlight, taskSessions, released, waiting, nextTask>>
slotVars == <<active, reacquire, slotDirty>>
passVars == <<pc, holding>>
vars == <<loopVars, changes, slotVars, shutdown, passVars>>

(***************************************************************************)
(* running: on a slot.  releasing: slot given up, Release not yet sent.    *)
(* io: Release sent, I/O under way.  slotIo: I/O of a release that does    *)
(* not involve the loop.  awaiting: Resume sent.  admitted: the loop       *)
(* answered.  reacquiring: inside `acquire'.  The last three are finished  *)
(* tasks that the loop has not joined.                                     *)
(***************************************************************************)
Finished == {"done", "expired", "panicked"}
Live     == {"running", "releasing", "io", "slotIo", "awaiting", "admitted",
             "reacquiring"}

TypeOK ==
  /\ ctl \in {"top", "popped", "poll", "blocked", "drain", "drainSelect",
              "exited"}
  /\ popped \in Sessions \cup {NoSession}
  /\ pendingSessions \in Seq(Sessions)
  /\ pendingHints \subseteq Sessions
  /\ pendingReruns \subseteq Sessions
  /\ inFlight \subseteq Sessions
  /\ taskSessions \in [Tasks -> Sessions \cup {NoSession}]
  /\ released \subseteq Tasks
  /\ waiting \in [Sessions -> Tasks \cup {NoTask}]
  /\ nextTask \in 1 .. HintBudget + 1
  /\ changes \in Seq([kind : {"Release", "Resume"}, task : Tasks])
  /\ active \in Nat
  /\ reacquire \in Seq(Tasks)
  /\ slotDirty \in BOOLEAN
  /\ shutdown \in BOOLEAN
  /\ pc \in [Tasks -> Live \cup Finished \cup {"unborn", "joined"}]
  /\ holding \subseteq Tasks

Init ==
  /\ ctl = "top"
  /\ popped = NoSession
  /\ pendingSessions = << >>
  /\ pendingHints = {}
  /\ pendingReruns = {}
  /\ inFlight = {}
  /\ taskSessions = [t \in Tasks |-> NoSession]
  /\ released = {}
  /\ waiting = [s \in Sessions |-> NoTask]
  /\ nextTask = 1
  /\ changes = << >>
  /\ active = 0
  /\ reacquire = << >>
  /\ slotDirty = FALSE
  /\ shutdown = FALSE
  /\ pc = [t \in Tasks |-> "unborn"]
  /\ holding = {}

---------------------------------------------------------------------------
(* SchedulerSlots.                                                         *)

CanReserve == reacquire = << >> /\ active < MaxInFlight

(* Mutant: the slot is returned whether or not the cell still holds it.    *)
DropSlotTwice(t) ==
  active' = active - 1 /\ holding' = holding \ {t} /\ slotDirty' = TRUE

(* A SchedulerSlot is dropped, if the task has one: its destructor         *)
(* notifies the watchers.                                                  *)
DropSlot(t) ==
  IF t \in holding
  THEN active' = active - 1 /\ holding' = holding \ {t} /\ slotDirty' = TRUE
  ELSE UNCHANGED <<active, holding, slotDirty>>

(* An entry leaves a queue that holds it at most once: the waiter of a     *)
(* cancelled `acquire', or the hint of a pass that ended while it waited.  *)
Without(q, x) == RemoveFirst(q, x)

---------------------------------------------------------------------------
(* The passes.                                                             *)

(* with_scheduler_slot_released and with_released_scheduler_admission      *)
(* start by taking the slot out of the pass's cell and dropping it.        *)
BeginIo(t, next) ==
  /\ pc[t] = "running"
  /\ pc' = [pc EXCEPT ![t] = next]
  /\ DropSlot(t)
  /\ UNCHANGED <<loopVars, changes, reacquire, shutdown>>

ReleaseSlot(t)      == BeginIo(t, "slotIo")
ReleaseAdmission(t) == BeginIo(t, "releasing")

SendRelease(t) ==
  /\ pc[t] = "releasing"
  /\ pc' = [pc EXCEPT ![t] = "io"]
  /\ changes' = Append(changes, [kind |-> "Release", task |-> t])
  /\ UNCHANGED <<loopVars, slotVars, shutdown, holding>>

(* The I/O is over: ask the loop for admission. *)
SendResume(t) ==
  /\ pc[t] = "io"
  /\ pc' = [pc EXCEPT ![t] = "awaiting"]
  /\ changes' = Append(changes, [kind |-> "Resume", task |-> t])
  /\ UNCHANGED <<loopVars, slotVars, shutdown, holding>>

(* SchedulerSlots::acquire: join the reacquisition queue ... *)
EnterAcquire(t) ==
  /\ pc[t] \in {"slotIo", "admitted"}
  /\ pc' = [pc EXCEPT ![t] = "reacquiring"]
  /\ reacquire' = Append(reacquire, t)
  /\ UNCHANGED <<loopVars, changes, active, slotDirty, shutdown, holding>>

(* ... and take a slot at its front. *)
Acquire(t) ==
  /\ pc[t] = "reacquiring"
  /\ t = Head(reacquire)
  /\ active < MaxInFlight
  /\ active' = active + 1
  /\ holding' = holding \cup {t}
  /\ reacquire' = Tail(reacquire)
  /\ slotDirty' = TRUE
  /\ pc' = [pc EXCEPT ![t] = "running"]
  /\ UNCHANGED <<loopVars, changes, shutdown>>

(* The pass returns: scope_reserved drops its slot before the task ends.   *)
Complete(t) ==
  /\ pc[t] = "running"
  /\ pc' = [pc EXCEPT ![t] = "done"]
  /\ DropSlot(t)
  /\ UNCHANGED <<loopVars, changes, reacquire, shutdown>>

(* bounded_pass: the occupancy bound expires at any await point, unless    *)
(* the loop has requested drain.  The execution future is dropped, with    *)
(* its reacquisition waiter and its slot.                                  *)
Expire(t) ==
  /\ pc[t] \in Live
  /\ ctl \notin {"drain", "drainSelect", "exited"}
  /\ pc' = [pc EXCEPT ![t] = "expired"]
  /\ reacquire' = Without(reacquire, t)
  /\ IF t \in holding
     THEN active' = active - 1 /\ holding' = holding \ {t}
     ELSE UNCHANGED <<active, holding>>
  /\ slotDirty' = (slotDirty \/ t \in holding \/ pc[t] = "reacquiring")
  /\ UNCHANGED <<loopVars, changes, shutdown>>

(* The task panics.  A slot it holds survives in the cell that the loop's  *)
(* InFlightPass shares, until the loop joins the task.                     *)
Panic(t) ==
  /\ pc[t] \in {"running", "slotIo", "io"}
  /\ pc' = [pc EXCEPT ![t] = "panicked"]
  /\ UNCHANGED <<loopVars, changes, slotVars, shutdown, holding>>

---------------------------------------------------------------------------
(* The loop's helpers.                                                     *)

(* Mutant: the in-flight check is missing.                                 *)
EnqueueBusyHint(s, flying, reruns, hints, queue) ==
  /\ pendingReruns'   = reruns
  /\ pendingHints'    = hints \cup {s}
  /\ pendingSessions' = IF s \in hints THEN queue ELSE Append(queue, s)

(* enqueue_pending_hint, given the in-flight set and reruns after a step.  *)
EnqueueHint(s, flying, reruns, hints, queue) ==
  /\ pendingReruns'   = IF s \in flying THEN reruns \cup {s} ELSE reruns
  /\ pendingHints'    = IF s \in flying THEN hints ELSE hints \cup {s}
  /\ pendingSessions' = IF s \in flying \/ s \in hints THEN queue
                        ELSE Append(queue, s)

(* pop_pending_hint pops entries until one is still hinted.                *)
HintedIndices == {i \in DOMAIN pendingSessions :
                     pendingSessions[i] \in pendingHints}
HasHint   == HintedIndices # {}
FirstHint == CHOOSE i \in HintedIndices : \A j \in HintedIndices : i <= j
PopHint(s) ==
  /\ HasHint
  /\ s = pendingSessions[FirstHint]
  /\ pendingHints' = pendingHints \ {s}
  /\ pendingSessions' =
       SubSeq(pendingSessions, FirstHint + 1, Len(pendingSessions))

RequeueFront(s) ==
  /\ pendingHints' = pendingHints \cup {s}
  /\ pendingSessions' = <<s>> \o pendingSessions

(* has_admissible_hint looks at the slots handed out, not at the queue.    *)
Admissible(hints) == active' < MaxInFlight /\ hints # {}

(* Admission::resume answers the waiting pass of a session, if any.        *)
ResumeWaiting(s) ==
  /\ released' = released \ {waiting[s]}
  /\ waiting' = [waiting EXCEPT ![s] = NoTask]
  /\ pc' = [pc EXCEPT ![waiting[s]] =
               IF @ = "awaiting" THEN "admitted" ELSE @]

---------------------------------------------------------------------------
(* The loop.                                                               *)

(* Top of the loop: pop a hint when a slot could be reserved ...           *)
Top ==
  /\ ctl = "top"
  /\ CanReserve
  /\ PopHint(popped')
  /\ ctl' = "popped"
  /\ UNCHANGED <<pendingReruns, inFlight, taskSessions, released, waiting,
                 nextTask, changes, slotVars, shutdown, passVars>>

(* ... otherwise wait: polling the work source only without hints in hand. *)
(* A vain search for a hint has emptied the queue.                         *)
Wait ==
  /\ ctl = "top"
  /\ ~ (CanReserve /\ HasHint)
  /\ ctl' = IF pendingHints = {} THEN "poll" ELSE "blocked"
  /\ pendingSessions' = IF CanReserve THEN << >> ELSE pendingSessions
  /\ UNCHANGED <<popped, pendingHints, pendingReruns, inFlight,
                 taskSessions, released, waiting, nextTask, changes,
                 slotVars, shutdown, passVars>>

(* Mutant: shutdown forgets the popped hint.                               *)
PoppedShutdownForgets ==
  /\ ctl = "popped"
  /\ shutdown
  /\ ctl' = "drain"
  /\ popped' = NoSession
  /\ UNCHANGED <<pendingHints, pendingSessions, pendingReruns, inFlight,
                 taskSessions, released, waiting, nextTask, changes,
                 slotVars, shutdown, passVars>>

(* The popped hint meets shutdown: it is put back for the drain.           *)
PoppedShutdown ==
  /\ ctl = "popped"
  /\ shutdown
  /\ RequeueFront(popped)
  /\ ctl' = "drain"
  /\ popped' = NoSession
  /\ UNCHANGED <<pendingReruns, inFlight, taskSessions, released, waiting,
                 nextTask, changes, slotVars, shutdown, passVars>>

(* The popped hint is a returning pass: the loop answers it.               *)
PoppedResume ==
  /\ ctl = "popped"
  /\ ~ shutdown
  /\ waiting[popped] # NoTask
  /\ ResumeWaiting(popped)
  /\ ctl' = "top"
  /\ popped' = NoSession
  /\ UNCHANGED <<pendingSessions, pendingHints, pendingReruns, inFlight,
                 taskSessions, nextTask, changes, slotVars, shutdown,
                 holding>>

(* Mutant: the hint is not put back.                                       *)
PoppedNoSlotForgets ==
  /\ ctl = "popped"
  /\ ~ shutdown
  /\ waiting[popped] = NoTask
  /\ ~ CanReserve
  /\ ctl' = "top"
  /\ popped' = NoSession
  /\ UNCHANGED <<pendingHints, pendingSessions, pendingReruns, inFlight,
                 taskSessions, released, waiting, nextTask, changes,
                 slotVars, shutdown, passVars>>

(* A returning pass took the slot since the check: put the hint back.      *)
PoppedNoSlot ==
  /\ ctl = "popped"
  /\ ~ shutdown
  /\ waiting[popped] = NoTask
  /\ ~ CanReserve
  /\ RequeueFront(popped)
  /\ ctl' = "top"
  /\ popped' = NoSession
  /\ UNCHANGED <<pendingReruns, inFlight, taskSessions, released, waiting,
                 nextTask, changes, slotVars, shutdown, passVars>>

(* Mutant: the slot check made before the pop is trusted.                  *)
PoppedReserveStale ==
  /\ ctl = "popped"
  /\ ~ shutdown
  /\ waiting[popped] = NoTask
  /\ popped \notin inFlight
  /\ inFlight' = inFlight \cup {popped}
  /\ taskSessions' = [taskSessions EXCEPT ![nextTask] = popped]
  /\ pc' = [pc EXCEPT ![nextTask] = "running"]
  /\ holding' = holding \cup {nextTask}
  /\ nextTask' = nextTask + 1
  /\ active' = active + 1
  /\ ctl' = "top"
  /\ popped' = NoSession
  /\ UNCHANGED <<pendingReruns, slotDirty, pendingSessions, pendingHints,
                 released, waiting, changes, reacquire, shutdown>>

(* A slot is reserved: start a pass, or note a rerun (and drop the slot)   *)
(* when the session already has one.                                       *)
PoppedReserve ==
  /\ ctl = "popped"
  /\ ~ shutdown
  /\ waiting[popped] = NoTask
  /\ CanReserve
  /\ IF popped \in inFlight
     THEN /\ pendingReruns' = pendingReruns \cup {popped}
          /\ slotDirty' = TRUE
          /\ UNCHANGED <<inFlight, taskSessions, nextTask, active, pc,
                         holding>>
     ELSE /\ inFlight' = inFlight \cup {popped}
          /\ taskSessions' = [taskSessions EXCEPT ![nextTask] = popped]
          /\ pc' = [pc EXCEPT ![nextTask] = "running"]
          /\ holding' = holding \cup {nextTask}
          /\ nextTask' = nextTask + 1
          /\ active' = active + 1
          /\ UNCHANGED <<pendingReruns, slotDirty>>
  /\ ctl' = "top"
  /\ popped' = NoSession
  /\ UNCHANGED <<pendingSessions, pendingHints, released, waiting, changes,
                 reacquire, shutdown>>

Draining == ctl = "drainSelect"

(* The waits are biased selects: shutdown, then slot changes, then         *)
(* admission changes, then completions, then the work source.  The drain's *)
(* select is unbiased.                                                     *)
Selecting == (ctl \in {"poll", "blocked"} /\ ~ shutdown) \/ Draining

ShutdownSelected ==
  /\ ctl \in {"poll", "blocked"}
  /\ shutdown
  /\ ctl' = "drain"
  /\ UNCHANGED <<popped, pendingSessions, pendingHints, pendingReruns,
                 inFlight, taskSessions, released, waiting, nextTask,
                 changes, slotVars, shutdown, passVars>>

(* A slot change ends the wait with hints in hand; the wait that polls the *)
(* work source only reports occupancy.                                     *)
SlotChanged ==
  /\ Selecting
  /\ slotDirty
  /\ slotDirty' = FALSE
  /\ ctl' = CASE ctl = "blocked" -> "top"
              [] Draining        -> "drain"
              [] OTHER           -> ctl
  /\ UNCHANGED <<popped, pendingSessions, pendingHints, pendingReruns,
                 inFlight, taskSessions, released, waiting, nextTask,
                 changes, active, reacquire, shutdown, passVars>>

(* Mutant: a Release is believed even when its task was joined meanwhile.  *)
ApplyStaleRelease ==
  /\ Selecting
  /\ changes # << >>
  /\ Head(changes).kind = "Release"
  /\ changes' = Tail(changes)
  /\ released' = released \cup {Head(changes).task}
  /\ UNCHANGED <<ctl, popped, pendingSessions, pendingHints, pendingReruns,
                 inFlight, taskSessions, waiting, nextTask, slotVars,
                 shutdown, passVars>>

(* Admission::apply, then reconsider admission.  Messages of tasks that    *)
(* were joined meanwhile are ignored.                                      *)
ApplyChange ==
  LET change == Head(changes)
      t == change.task
      s == taskSessions[t]
      resumed == change.kind = "Resume" /\ t \in released /\ s # NoSession IN
  /\ Selecting
  /\ changes # << >>
  /\ ~ Draining => ~ slotDirty
  /\ changes' = Tail(changes)
  /\ released' = IF change.kind = "Release" /\ s # NoSession
                 THEN released \cup {t} ELSE released
  /\ IF resumed
     THEN /\ waiting' = [waiting EXCEPT ![s] = t]
          /\ pendingHints' = pendingHints \cup {s}
          /\ pendingSessions' = IF s \in pendingHints THEN pendingSessions
                                ELSE Append(pendingSessions, s)
     ELSE UNCHANGED <<waiting, pendingHints, pendingSessions>>
  /\ UNCHANGED <<active, holding>>
  /\ ctl' = CASE Draining                  -> "drain"
              [] ~ Draining /\ Admissible(pendingHints') -> "top"
              [] OTHER                     -> ctl
  /\ UNCHANGED <<popped, pendingReruns, inFlight, taskSessions, nextTask,
                 reacquire, slotDirty, shutdown, pc>>

(* Mutant: the session stays marked as in flight.                          *)
JoinKeepsSession(t) ==
  /\ Selecting
  /\ pc[t] \in Finished
  /\ pc' = [pc EXCEPT ![t] = "joined"]
  /\ taskSessions' = [taskSessions EXCEPT ![t] = NoSession]
  /\ DropSlot(t)
  /\ UNCHANGED <<ctl, popped, pendingSessions, pendingHints, pendingReruns,
                 inFlight, released, waiting, nextTask, changes, reacquire,
                 shutdown>>

(* Join a finished task: Admission::retire withdraws a waiting entry and   *)
(* its hint, observe_pass_completion forgets the task (dropping the slot a *)
(* panicked one left behind), and the rerun is queued unless the pass      *)
(* expired, which hands the turn to recovery.  Draining queues nothing.    *)
Join(t) ==
  LET s == taskSessions[t]
      withdrawn == waiting[s] # NoTask
      hints == IF withdrawn THEN pendingHints \ {s} ELSE pendingHints
      queue == IF withdrawn THEN Without(pendingSessions, s)
               ELSE pendingSessions
      flying == inFlight \ {s} IN
  /\ Selecting
  /\ pc[t] \in Finished
  /\ ~ Draining => ~ slotDirty /\ changes = << >>
  /\ pc' = [pc EXCEPT ![t] = "joined"]
  /\ released' = released \ {t}
  /\ waiting' = [waiting EXCEPT ![s] = NoTask]
  /\ taskSessions' = [taskSessions EXCEPT ![t] = NoSession]
  /\ inFlight' = flying
  /\ DropSlot(t)
  /\ IF ~ Draining /\ s \in pendingReruns
     THEN IF pc[t] # "expired"
          THEN EnqueueHint(s, flying, pendingReruns \ {s}, hints, queue)
          ELSE /\ pendingReruns' = pendingReruns \ {s}
               /\ pendingHints' = hints
               /\ pendingSessions' = queue
     ELSE /\ pendingHints' = hints
          /\ pendingSessions' = queue
          /\ UNCHANGED pendingReruns
  /\ ctl' = CASE Draining                  -> "drain"
              [] ctl = "blocked" \/ (ctl = "poll" /\ Admissible(pendingHints'))
                                           -> "top"
              [] OTHER                     -> ctl
  /\ UNCHANGED <<popped, nextTask, changes, reacquire, shutdown>>

(* The work source returns a hint.  The bound leaves a task identity for   *)
(* every hint accepted.                                                    *)
WithinBudget ==
  nextTask + Cardinality({s \in pendingHints : waiting[s] = NoTask})
           + Cardinality(pendingReruns) <= HintBudget

TakeHint(s) ==
  /\ ctl = "poll"
  /\ ~ shutdown
  /\ ~ slotDirty
  /\ changes = << >>
  /\ \A t \in Tasks : pc[t] \notin Finished
  /\ WithinBudget
  /\ EnqueueHint(s, inFlight, pendingReruns, pendingHints, pendingSessions)
  /\ ctl' = "top"
  /\ UNCHANGED <<popped, inFlight, taskSessions, released, waiting,
                 nextTask, changes, slotVars, shutdown, passVars>>

(* The sweep behind the work source fails: logged, and the loop goes on.   *)
SourceFails ==
  /\ ctl = "poll"
  /\ ~ shutdown
  /\ ~ slotDirty
  /\ changes = << >>
  /\ \A t \in Tasks : pc[t] \notin Finished
  /\ ctl' = "top"
  /\ UNCHANGED <<popped, pendingSessions, pendingHints, pendingReruns,
                 inFlight, taskSessions, released, waiting, nextTask,
                 changes, slotVars, shutdown, passVars>>

---------------------------------------------------------------------------
(* The drain.                                                              *)

(* Admission::occupied *)
Occupied == Cardinality({t \in holding : /\ taskSessions[t] # NoSession
                                         /\ t \notin released})

InFlightLeft == \E t \in Tasks : taskSessions[t] # NoSession

CanDrainHint == Occupied < MaxInFlight /\ HasHint

(* Mutant: the drain discards every hint it holds.                         *)
DrainHintDiscards ==
  /\ ctl = "drain"
  /\ InFlightLeft
  /\ CanDrainHint
  /\ \E s \in Sessions : PopHint(s)
  /\ UNCHANGED <<ctl, popped, pendingReruns, inFlight, taskSessions, released,
                 waiting, pc, nextTask, changes, slotVars, shutdown,
                 holding>>

(* The drain answers returning passes and discards fresh hints ...         *)
DrainHint ==
  /\ ctl = "drain"
  /\ InFlightLeft
  /\ CanDrainHint
  /\ \E s \in Sessions :
       /\ PopHint(s)
       /\ IF waiting[s] # NoTask THEN ResumeWaiting(s)
                                 ELSE UNCHANGED <<released, waiting, pc>>
  /\ UNCHANGED <<ctl, popped, pendingReruns, inFlight, taskSessions,
                 nextTask, changes, slotVars, shutdown, holding>>

(* ... until none is left or the slots are taken, and then waits.          *)
DrainWait ==
  /\ ctl = "drain"
  /\ InFlightLeft
  /\ ~ CanDrainHint
  /\ ctl' = "drainSelect"
  /\ UNCHANGED <<popped, pendingSessions, pendingHints, pendingReruns,
                 inFlight, taskSessions, released, waiting, nextTask,
                 changes, slotVars, shutdown, passVars>>

Exit ==
  /\ ctl = "drain"
  /\ ~ InFlightLeft
  /\ ctl' = "exited"
  /\ UNCHANGED <<popped, pendingSessions, pendingHints, pendingReruns,
                 inFlight, taskSessions, released, waiting, nextTask,
                 changes, slotVars, shutdown, passVars>>

(* The composition root requests shutdown. *)
RequestShutdown ==
  /\ ~ shutdown
  /\ shutdown' = TRUE
  /\ UNCHANGED <<loopVars, changes, slotVars, passVars>>

PassStep(t) ==
  \/ ReleaseSlot(t)
  \/ ReleaseAdmission(t)
  \/ SendRelease(t)
  \/ SendResume(t)
  \/ EnterAcquire(t)
  \/ Acquire(t)
  \/ Complete(t)
  \/ Expire(t)
  \/ Panic(t)

LoopStep ==
  \/ Top
  \/ Wait
  \/ PoppedShutdown
  \/ PoppedResume
  \/ PoppedNoSlot
  \/ PoppedReserve
  \/ ShutdownSelected
  \/ SlotChanged
  \/ ApplyChange
  \/ \E t \in Tasks : Join(t)
  \/ DrainHint
  \/ DrainWait
  \/ Exit

Next ==
  \/ \E t \in Tasks : PassStep(t)
  \/ LoopStep
  \/ \E s \in Sessions : TakeHint(s)
  \/ SourceFails
  \/ RequestShutdown

Spec == Init /\ [][Next]_vars

(* The loop task and the passes are tokio tasks that keep being polled.    *)
(* Store I/O ends (it is under a read deadline) and a pass performs        *)
(* finitely many I/O rounds before it returns, hence strong fairness for   *)
(* Complete.  Nothing is assumed of the work source, of shutdown, of       *)
(* expiry or of panics.                                                    *)
Fairness ==
  /\ WF_vars(LoopStep)
  /\ \A t \in Tasks : /\ WF_vars(SendRelease(t))
                       /\ WF_vars(SendResume(t))
                       /\ WF_vars(EnterAcquire(t))
                       /\ WF_vars(Acquire(t))
                       /\ SF_vars(Complete(t))

FairSpec == Spec /\ Fairness

---------------------------------------------------------------------------
(* Properties.                                                             *)

InFlightTasks(s) == {t \in Tasks : taskSessions[t] = s}

(* The slot counter is exact under releases, reacquisitions, cancelled     *)
(* waits, expiry and panics, and never exceeds the configured cap.         *)
SlotAccounting ==
  /\ active = Cardinality(holding)
  /\ active <= MaxInFlight

(* A session never has two passes in flight, and the session set, the task *)
(* map and the tasks that were started and not joined stay in step.        *)
OnePassPerSession ==
  /\ \A s \in Sessions : Cardinality(InFlightTasks(s)) =
                            IF s \in inFlight THEN 1 ELSE 0
  /\ \A t \in Tasks : taskSessions[t] # NoSession <=>
                       pc[t] \in Live \cup Finished

(* The hint queue and the hint set hold the same sessions, each once, and  *)
(* a hint for a session in flight is a returning pass's and no other: so   *)
(* the loop never pops a hint for a busy session and reserves a slot in    *)
(* vain.  Expiry, completion and stale messages leave nothing behind: what *)
(* the admission state names is in flight, a waiting entry's pass has      *)
(* asked to return, and only such a pass is reported as released.          *)
AdmissionHygiene ==
  /\ Len(pendingSessions) = Cardinality(pendingHints)
  /\ \A s \in pendingHints : \E i \in DOMAIN pendingSessions :
                                 pendingSessions[i] = s
  /\ \A s \in Sessions :
       (s \in pendingHints \/ popped = s) /\ s \in inFlight
          => waiting[s] \in InFlightTasks(s)
  /\ \A t \in released : taskSessions[t] # NoSession
  /\ \A s \in Sessions : waiting[s] # NoTask =>
       /\ waiting[s] \in released
       /\ waiting[s] \in InFlightTasks(s)
       /\ pc[waiting[s]] \in {"awaiting", "expired"}
       /\ s \in pendingHints \/ popped = s

(* A hint in hand for an idle session gets its pass, unless shutdown       *)
(* comes first.                                                            *)
HintServed ==
  \A s \in Sessions :
    (s \in pendingHints /\ waiting[s] = NoTask)
       ~> (s \in inFlight \/ shutdown)

(* A pass that asked to return gets a slot again, drain or not, unless its *)
(* occupancy bound ends it first.                                          *)
ReturnServed ==
  \A t \in Tasks : pc[t] = "awaiting" ~> pc[t] \notin {"awaiting", "admitted",
                                                      "reacquiring"}

(* Shutdown drains: the loop exits once the passes in flight are done.     *)
DrainTerminates == shutdown ~> ctl = "exited"
(***************************************************************************)
(* The parts of the inductive invariant.                                   *)
(***************************************************************************)

(* Only a popped hint is outside the queue, and the queue holds the hinted *)
(* sessions, each once.                                                    *)
QueueIsHints ==
  /\ IsInjective(pendingSessions)
  /\ ToSet(pendingSessions) = pendingHints
  /\ popped \in Sessions <=> ctl = "popped"
  /\ popped \notin pendingHints

(* Tasks are started in order; a task is in the map from its start to its  *)
(* join; a session is in flight through one task.                          *)
TasksMatchSessions ==
  /\ \A t \in Tasks : pc[t] = "unborn" <=> t >= nextTask
  /\ \A t \in Tasks : taskSessions[t] # NoSession <=> pc[t] \in Live \cup Finished
  /\ \A t, u \in Tasks :
       taskSessions[t] = taskSessions[u] /\ taskSessions[t] # NoSession => t = u
  /\ \A s \in Sessions : s \in inFlight <=> \E t \in Tasks : taskSessions[t] = s

(* Slots are held by running passes and by panicked ones not yet joined.   *)
SlotsHeld ==
  /\ SlotAccounting
  /\ \A t \in holding : pc[t] \in {"running", "panicked"}

(* The passes inside `acquire' are queued, each once.                      *)
ReacquireIsQueue ==
  /\ IsInjective(reacquire)
  /\ ToSet(reacquire) = {t \in Tasks : pc[t] = "reacquiring"}

(* The part of AdmissionHygiene about returning passes.                    *)
WaitingIsReturning ==
  /\ \A s \in Sessions :
       (s \in pendingHints \/ popped = s) /\ s \in inFlight
          => waiting[s] # NoTask
  /\ \A t \in released : taskSessions[t] # NoSession
  /\ \A s \in Sessions : waiting[s] # NoTask =>
       /\ waiting[s] \in released
       /\ taskSessions[waiting[s]] = s
       /\ pc[waiting[s]] \in {"awaiting", "expired"}
       /\ s \in pendingHints \/ popped = s

(* A pass that asked to return has asked once: its Resume is under way or  *)
(* has become its waiting entry, and it does nothing else meanwhile.       *)
IsResume(i, t) == changes[i] = [kind |-> "Resume", task |-> t]
ResumeOnce ==
  \A t \in Tasks, i \in DOMAIN changes : IsResume(i, t) =>
    /\ pc[t] \in {"awaiting", "expired", "joined"}
    /\ \A s \in Sessions : waiting[s] # t
    /\ \A j \in DOMAIN changes : IsResume(j, t) => i = j

(* Every hint accepted has a task identity left.                           *)
FreshHints == {s \in Sessions : /\ s \in pendingHints \/ popped = s
                                /\ waiting[s] = NoTask}
BudgetLeft ==
  /\ IsFiniteSet(FreshHints) /\ IsFiniteSet(pendingReruns)
  /\ nextTask + Cardinality(FreshHints) + Cardinality(pendingReruns)
       <= HintBudget + 1

LoopInv ==
  /\ TypeOK /\ QueueIsHints /\ TasksMatchSessions /\ SlotsHeld
  /\ ReacquireIsQueue /\ WaitingIsReturning /\ ResumeOnce /\ BudgetLeft
============================================================================
