------------------------------ MODULE HubFence ------------------------------
(***************************************************************************)
(* One writing daemon per database: the singleton guard                    *)
(* (apps/signalboxd/src/single_hub.rs), the durable generation and its     *)
(* advisory locks (crates/persistence/src/hub_fence.rs) and the life of a  *)
(* fenced database incarnation (apps/signalboxd/src/fenced_database.rs).   *)
(*                                                                         *)
(* A hub is one incarnation.  Its guard session holds the guard, runs the  *)
(* transaction that advances the generation, and keeps exclusive locks on  *)
(* generations; every session of its pool holds its own generation shared. *)
(* The server's sessions outlive their client: after a crash, or behind a  *)
(* dead network, they keep their locks, and a commit already sent may      *)
(* still be carried out, until the server ends them.                       *)
(*                                                                         *)
(* PostgreSQL is external: an advisory lock is granted when no other       *)
(* session's lock conflicts, a shared request also queues behind a waiting *)
(* exclusive one, and the end of a session releases all that it holds.     *)
(***************************************************************************)
EXTENDS Integers, FiniteSets

CONSTANTS
  Hubs,           \* daemon incarnations
  Conns,          \* pool sessions of an incarnation
  MaxGeneration   \* the largest generation (u64::MAX in the code)

ASSUME FenceAssumption == MaxGeneration \in Nat \ {0}

VARIABLES
  generation,  \* hub_fence_state.generation, committed
  phase,       \* where each incarnation is
  live,        \* incarnations whose guard session lives: it holds the guard
  tx,          \* the advancing transaction of each guard session
  prior,       \* the generation that transaction read
  fenced,      \* generations each guard session holds exclusively
  own,         \* the generation of each incarnation's pool, 0 for none
  conn,        \* the sessions of each incarnation's pool
  written      \* history: the generation of the last committed pool write

vars == <<generation, phase, live, tx, prior, fenced, own, conn, written>>

Phases == {"off", "guarded", "advancing", "advanced", "pool", "open",
           "closing", "retiring", "retired", "abandoned", "gone"}
TxStates == {"none", "locking", "locked"}

(***************************************************************************)
(* waiting: after_connect asked for the shared lock.  locked: holds it and *)
(* has not compared generations.  ready: in the pool.  busy: in a          *)
(* transaction.  detached: given up by the pool with its backend running.  *)
(***************************************************************************)
ConnStates == {"none", "waiting", "locked", "ready", "busy", "detached"}
HoldsShared == {"locked", "ready", "busy", "detached"}
MayWrite == {"ready", "busy", "detached"}

Init ==
  /\ generation = 1
  /\ phase = [h \in Hubs |-> "off"]
  /\ live = {}
  /\ tx = [h \in Hubs |-> "none"]
  /\ prior = [h \in Hubs |-> 0]
  /\ fenced = [h \in Hubs |-> {}]
  /\ own = [h \in Hubs |-> 0]
  /\ conn = [h \in Hubs |-> [c \in Conns |-> "none"]]
  /\ written = 0

Go(h, p) == phase' = [phase EXCEPT ![h] = p]

\* No session of hub h's pool is left on the server.
NoSessions(h) == \A c \in Conns : conn[h][c] = "none"

\* Some session holds the advisory lock of generation g shared.
SharedHeld(g) ==
  \E h \in Hubs, c \in Conns : conn[h][c] \in HoldsShared /\ own[h] = g

\* A guard session other than h's holds generation g exclusively.
ExclusiveHeldByOther(h, g) == \E k \in Hubs \ {h} : g \in fenced[k]

(***************************************************************************)
(* Starting: the guard, then the generation.                               *)
(***************************************************************************)

\* SingleHubGuard::acquire (AlreadyRunning leaves the incarnation off).
AcquireGuard(h) ==
  /\ phase[h] = "off"
  /\ live = {}
  /\ live' = {h}
  /\ Go(h, "guarded")
  /\ UNCHANGED <<generation, tx, prior, fenced, own, conn, written>>

\* advance_hub_fence reads the generation FOR UPDATE.
BeginAdvance(h) ==
  /\ phase[h] = "guarded" /\ h \in live
  /\ \A k \in Hubs : tx[k] = "none"
  /\ generation < MaxGeneration
  /\ tx' = [tx EXCEPT ![h] = "locking"]
  /\ prior' = [prior EXCEPT ![h] = generation]
  /\ Go(h, "advancing")
  /\ UNCHANGED <<generation, live, fenced, own, conn, written>>

\* GenerationExhausted.
Exhausted(h) ==
  /\ phase[h] = "guarded" /\ h \in live
  /\ generation = MaxGeneration
  /\ Go(h, "gone")
  /\ UNCHANGED <<generation, live, tx, prior, fenced, own, conn, written>>

\* pg_advisory_xact_lock on the prior generation is granted; the update of
\* the row and the session-level lock follow in the same transaction.
LockPrior(h) ==
  /\ tx[h] = "locking"
  /\ ~SharedHeld(prior[h]) /\ ~ExclusiveHeldByOther(h, prior[h])
  /\ tx' = [tx EXCEPT ![h] = "locked"]
  /\ fenced' = [fenced EXCEPT ![h] = @ \cup {prior[h]}]
  /\ UNCHANGED <<generation, phase, live, prior, own, conn, written>>

\* Mutant: the update is retried after a commit of uncertain outcome.
CommitAdvance_retried(h) ==
  /\ tx[h] = "locked" /\ phase[h] = "advancing"
  /\ generation' = prior[h] + 2
  /\ tx' = [tx EXCEPT ![h] = "none"]
  /\ own' = [own EXCEPT ![h] = prior[h] + 2]
  /\ Go(h, "advanced")
  /\ UNCHANGED <<live, prior, fenced, conn, written>>

\* The advance commits and the incarnation learns it.
CommitAdvance(h) ==
  /\ tx[h] = "locked" /\ phase[h] = "advancing"
  /\ generation' = prior[h] + 1
  /\ tx' = [tx EXCEPT ![h] = "none"]
  /\ own' = [own EXCEPT ![h] = prior[h] + 1]
  /\ Go(h, "advanced")
  /\ UNCHANGED <<live, prior, fenced, conn, written>>

\* The advance commits and its answer is lost: the incarnation unlocks and
\* gives up, or is gone already.
CommitAdvanceUnheard(h) ==
  /\ tx[h] = "locked"
  /\ generation' = prior[h] + 1
  /\ tx' = [tx EXCEPT ![h] = "none"]
  /\ fenced' = [fenced EXCEPT ![h] = {}]
  /\ Go(h, "gone")
  /\ UNCHANGED <<live, prior, own, conn, written>>

\* A failed statement or commit: rollback, unlock, give up.
AdvanceFails(h) ==
  /\ phase[h] = "advancing" /\ tx[h] # "none"
  /\ tx' = [tx EXCEPT ![h] = "none"]
  /\ fenced' = [fenced EXCEPT ![h] = {}]
  /\ Go(h, "gone")
  /\ UNCHANGED <<generation, live, prior, own, conn, written>>

\* connect_pool pings the guard session first.
ConnectPool(h) ==
  /\ phase[h] = "advanced" /\ h \in live
  /\ Go(h, "pool")
  /\ UNCHANGED <<generation, live, tx, prior, fenced, own, conn, written>>

\* The guard check after construction: the incarnation goes into service.
Constructed(h) ==
  /\ phase[h] = "pool" /\ h \in live
  /\ Go(h, "open")
  /\ UNCHANGED <<generation, live, tx, prior, fenced, own, conn, written>>

\* The construction monitor, or the ping, finds the guard session dead.
ConstructionLost(h) ==
  /\ phase[h] \in {"guarded", "advancing", "advanced"} /\ h \notin live
  /\ Go(h, "gone")
  /\ UNCHANGED <<generation, live, tx, prior, fenced, own, conn, written>>

(***************************************************************************)
(* The pool's sessions.                                                    *)
(***************************************************************************)
PoolServes(h) == phase[h] \in {"pool", "open", "abandoned"}

SetConn(h, c, state) == conn' = [conn EXCEPT ![h][c] = state]

Connect(h, c) ==
  /\ PoolServes(h) /\ conn[h][c] = "none"
  /\ SetConn(h, c, "waiting")
  /\ UNCHANGED <<generation, phase, live, tx, prior, fenced, own, written>>

\* pg_advisory_lock_shared in after_connect.
GrantShared(h, c) ==
  /\ conn[h][c] = "waiting"
  /\ \A k \in Hubs : own[h] \notin fenced[k]
  /\ \A k \in Hubs : tx[k] = "locking" => prior[k] # own[h]
  /\ SetConn(h, c, "locked")
  /\ UNCHANGED <<generation, phase, live, tx, prior, fenced, own, written>>

\* Mutant: after_connect trusts the lock and does not compare generations.
CheckGeneration_skips(h, c) ==
  /\ conn[h][c] = "locked"
  /\ SetConn(h, c, "ready")
  /\ UNCHANGED <<generation, phase, live, tx, prior, fenced, own, written>>

\* after_connect compares the stored generation under the shared lock: a
\* mismatch ends the session.
CheckGeneration(h, c) ==
  /\ conn[h][c] = "locked"
  /\ SetConn(h, c, IF generation = own[h] THEN "ready" ELSE "none")
  /\ UNCHANGED <<generation, phase, live, tx, prior, fenced, own, written>>

Begin(h, c) ==
  /\ phase[h] \in {"open", "abandoned"} /\ conn[h][c] = "ready"
  /\ SetConn(h, c, "busy")
  /\ UNCHANGED <<generation, phase, live, tx, prior, fenced, own, written>>

\* The server commits; the client may be gone by now.
Commit(h, c) ==
  /\ conn[h][c] = "busy"
  /\ SetConn(h, c, "ready")
  /\ written' = own[h]
  /\ UNCHANGED <<generation, phase, live, tx, prior, fenced, own>>

\* A connection whose setup query still runs is detached and its socket
\* dropped: the pool forgets it, the server does not yet.
Detach(h, c) ==
  /\ phase[h] \in {"open", "closing", "abandoned"} /\ conn[h][c] = "busy"
  /\ SetConn(h, c, "detached")
  /\ UNCHANGED <<generation, phase, live, tx, prior, fenced, own, written>>

\* A session ends, by its client, the network or the server.
EndSession(h, c) ==
  /\ conn[h][c] # "none"
  /\ SetConn(h, c, "none")
  /\ UNCHANGED <<generation, phase, live, tx, prior, fenced, own, written>>

(***************************************************************************)
(* Losing the guard, closing, crashing.                                    *)
(***************************************************************************)

\* The guard session ends: guard, transaction and exclusive locks with it.
EndGuardSession(h) ==
  /\ h \in live
  /\ live' = live \ {h}
  /\ tx' = [tx EXCEPT ![h] = "none"]
  /\ fenced' = [fenced EXCEPT ![h] = {}]

\* The server ends it, or the network does.
GuardDies(h) ==
  /\ EndGuardSession(h)
  /\ UNCHANGED <<generation, phase, prior, own, conn, written>>

\* Mutant: only a requested shutdown closes the pool.
CloseBegins_guarded(h) ==
  /\ phase[h] = "open" /\ h \in live
  /\ Go(h, "closing")
  /\ UNCHANGED <<generation, live, tx, prior, fenced, own, conn, written>>

\* check_guard fails, or shutdown is requested: the pool closes.
CloseBegins(h) ==
  /\ \/ phase[h] \in {"pool", "open"} /\ h \notin live
     \/ phase[h] = "open"
  /\ Go(h, "closing")
  /\ UNCHANGED <<generation, live, tx, prior, fenced, own, conn, written>>

\* Every session the pool still knows has been closed.
Drained(h) ==
  /\ phase[h] = "closing"
  /\ \A c \in Conns : conn[h][c] \in {"none", "detached"}
  /\ Go(h, "retiring")
  /\ UNCHANGED <<generation, live, tx, prior, fenced, own, conn, written>>

\* Mutant: the guard is released without waiting for detached sessions.
Retire_nowait(h) ==
  /\ phase[h] = "retiring" /\ h \in live
  /\ Go(h, "retired")
  /\ UNCHANGED <<generation, live, tx, prior, fenced, own, conn, written>>

\* retire_hub_fence_generation: waits for detached sessions.
Retire(h) ==
  /\ phase[h] = "retiring" /\ h \in live
  /\ ~SharedHeld(own[h]) /\ ~ExclusiveHeldByOther(h, own[h])
  /\ fenced' = [fenced EXCEPT ![h] = @ \cup {own[h]}]
  /\ Go(h, "retired")
  /\ UNCHANGED <<generation, live, tx, prior, own, conn, written>>

\* The guard session died meanwhile: close() answers GuardLost.
RetireFails(h) ==
  /\ phase[h] \in {"retiring", "retired"} /\ h \notin live
  /\ Go(h, "gone")
  /\ UNCHANGED <<generation, live, tx, prior, fenced, own, conn, written>>

\* The guard session closes and releases the guard.
Release(h) ==
  /\ phase[h] = "retired"
  /\ EndGuardSession(h)
  /\ Go(h, "gone")
  /\ UNCHANGED <<generation, prior, own, conn, written>>

\* FencedHubDatabase is dropped without close(): the guard is forgotten, not
\* closed, and clones of the pool go on working until the process exits.
Abandon(h) ==
  /\ phase[h] \in {"open", "closing", "retiring"}
  /\ Go(h, "abandoned")
  /\ UNCHANGED <<generation, live, tx, prior, fenced, own, conn, written>>

\* The process ends; the server does not know yet.
Exit(h) ==
  /\ phase[h] \notin {"off", "gone"}
  /\ Go(h, "gone")
  /\ UNCHANGED <<generation, live, tx, prior, fenced, own, conn, written>>

\* Another incarnation, once the server has ended the last one's sessions.
\* (Incarnations that linger keep their own name.)
Restart(h) ==
  /\ phase[h] = "gone" /\ h \notin live /\ NoSessions(h)
  /\ own' = [own EXCEPT ![h] = 0]
  /\ prior' = [prior EXCEPT ![h] = 0]
  /\ Go(h, "off")
  /\ UNCHANGED <<generation, live, tx, fenced, conn, written>>

HubStep(h) ==
  \/ AcquireGuard(h) \/ BeginAdvance(h) \/ Exhausted(h) \/ LockPrior(h)
  \/ CommitAdvance(h) \/ CommitAdvanceUnheard(h) \/ AdvanceFails(h)
  \/ ConnectPool(h) \/ Constructed(h) \/ ConstructionLost(h)
  \/ GuardDies(h) \/ CloseBegins(h) \/ Drained(h) \/ Retire(h)
  \/ RetireFails(h) \/ Release(h) \/ Abandon(h) \/ Exit(h) \/ Restart(h)

ConnStep(h, c) ==
  \/ Connect(h, c) \/ GrantShared(h, c) \/ CheckGeneration(h, c)
  \/ Begin(h, c) \/ Commit(h, c) \/ Detach(h, c) \/ EndSession(h, c)

Next == \E h \in Hubs : HubStep(h) \/ \E c \in Conns : ConnStep(h, c)

Spec == Init /\ [][Next]_vars

(***************************************************************************)
(* Fairness.  The server grants a lock that is free and ends the sessions  *)
(* of a client that is closing or gone; a running incarnation notices that *)
(* its guard is lost (it pings every second); a process that dropped its   *)
(* database without closing it is on its way out.  Nothing is assumed of   *)
(* crashes, of new connections or of the successor's own progress.         *)
(***************************************************************************)
Fairness ==
  /\ \A h \in Hubs : /\ WF_vars(LockPrior(h))
                     /\ WF_vars(h \notin live /\ CloseBegins(h))
                     /\ WF_vars(phase[h] = "abandoned" /\ Exit(h))
  /\ \A h \in Hubs, c \in Conns :
       WF_vars(phase[h] \in {"closing", "retiring", "gone"} /\ EndSession(h, c))

FairSpec == Spec /\ Fairness

-----------------------------------------------------------------------------

\* The state has its type.
TypeOK ==
  /\ generation \in 1 .. MaxGeneration
  /\ phase \in [Hubs -> Phases]
  /\ live \subseteq Hubs
  /\ tx \in [Hubs -> TxStates]
  /\ prior \in [Hubs -> 0 .. MaxGeneration]
  /\ fenced \in [Hubs -> SUBSET (0 .. MaxGeneration)]
  /\ own \in [Hubs -> 0 .. MaxGeneration]
  /\ conn \in [Hubs -> [Conns -> ConnStates]]
  /\ written \in 0 .. MaxGeneration

\* A session that may write belongs to the current generation, and to one
\* incarnation: no daemon, however late it learns that it lost the guard,
\* writes beside its successor.
SingleWriter ==
  \A h, k \in Hubs, c, d \in Conns :
    conn[h][c] \in MayWrite /\ conn[k][d] \in MayWrite =>
      h = k /\ own[h] = generation

\* The fence implements exclusive epochs (WriterEpochs): the generation
\* advances only with no writing session left of the old one, and every
\* write commits in the generation that is current.
Epochs == INSTANCE WriterEpochs WITH
            epoch <- generation,
            writers <- \E h \in Hubs, c \in Conns : conn[h][c] \in MayWrite,
            written <- written

ExclusiveEpochs == Epochs!Spec

\* After a clean close no session of the retired generation is left when the
\* guard becomes free (retire_hub_fence_generation holds its lock until then).
CleanRelease ==
  \A h \in Hubs : phase[h] = "retired" /\ h \in live => NoSessions(h)

(***************************************************************************)
(* The parts of the inductive invariant.                                   *)
(***************************************************************************)

\* The guard is held once, and the advancing transaction and the exclusive
\* locks belong to the session that holds it.
GuardOwnsFence ==
  /\ \A h, k \in live : h = k
  /\ \A h \in Hubs : tx[h] # "none" \/ fenced[h] # {} => h \in live

\* The row lock: what an open advance has read is what is stored.
AdvanceReadsCurrent ==
  \A h \in Hubs :
    /\ tx[h] # "none" => prior[h] = generation /\ generation < MaxGeneration
    /\ tx[h] = "locked" => prior[h] \in fenced[h]

\* Exclusive and shared locks of a generation exclude each other.
ExclusiveExcludesShared ==
  \A h \in Hubs : \A g \in fenced[h] : ~SharedHeld(g)

\* An incarnation has sessions only once it has a pool, and after the drain
\* only detached ones.
SessionsNeedPool ==
  \A h \in Hubs :
    /\ phase[h] \in {"off", "guarded", "advancing", "advanced"} => NoSessions(h)
    /\ phase[h] \in {"retiring", "retired"} =>
         \A c \in Conns : conn[h][c] \in {"none", "detached"}
    /\ phase[h] = "retired" /\ h \in live => own[h] \in fenced[h]

\* Pool generations are past or current and never shared by incarnations.
OwnGenerations ==
  /\ \A h \in Hubs : own[h] <= generation
  /\ \A h, k \in Hubs : own[h] = own[k] /\ own[h] # 0 => h = k

\* A session that may write is of the current generation.
WritersCurrent ==
  \A h \in Hubs, c \in Conns : conn[h][c] \in MayWrite => own[h] = generation

FenceInv ==
  /\ TypeOK /\ GuardOwnsFence /\ AdvanceReadsCurrent
  /\ ExclusiveExcludesShared /\ SessionsNeedPool /\ OwnGenerations
  /\ WritersCurrent

\* A successor is not kept out for ever: an advance that waits for the prior
\* generation's sessions gets the lock, or ends.
SuccessorPasses ==
  \A h \in Hubs : tx[h] = "locking" ~> tx[h] # "locking"
=============================================================================
