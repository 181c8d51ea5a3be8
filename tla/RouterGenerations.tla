------------------------- MODULE RouterGenerations -------------------------
(***************************************************************************)
(* RouterOwner of routing/router.py: one object that owns the Router the   *)
(* server answers with, replaces it while requests run, and shuts it down. *)
(* Requests lease the active generation (RequestContextMiddleware calls    *)
(* start, then acquire, and releases the lease when the response ends);    *)
(* administrative tasks rebuild it; one shared task shuts the owner down.  *)
(*                                                                         *)
(* The state lock is never held across an await, so a section under it is  *)
(* one step here.  The operation lock is held across awaits and is the     *)
(* variable op.  A section between two awaits is one action.               *)
(***************************************************************************)
EXTENDS Naturals, FiniteSets

CONSTANTS
    Requests,   \* tasks that call start and acquire
    Admins,     \* tasks that call rebuild
    Shutdown,   \* the task close() creates
    NoTask,     \* nobody holds the operation lock
    MaxGen      \* bound: generations that may be installed

Tasks == Requests \union Admins

ASSUME GenAssumption == MaxGen \in Nat \ {0}

ASSUME TaskAssumption ==
    /\ Requests \intersect Admins = {}
    /\ IsFiniteSet(Tasks)
    /\ Shutdown \notin Tasks
    /\ NoTask \notin Tasks
    /\ Shutdown # NoTask

Gens == 1..MaxGen

\* _active is None
NoGen == 0

VARIABLES
    ownerState,  \* _closing and _closed: "open", "closing" or "closed"
    op,          \* holder of _operation_lock
    active,      \* _active, a generation id or NoGen
    nextGen,     \* _next_generation_id
    refs,        \* references of each generation
    retired,     \* generations with the retired flag
    closing,     \* generations with the closing flag
    closeCalls,  \* times _close_generation was entered for each generation
    closed,      \* generations whose resources are closed and event is set
    stale,       \* generations whose provider configuration has outlived its TTL
    pc,          \* where each task is
    lease,       \* generation each task holds an unreleased lease on
    seen,        \* stale_generation_id in acquire
    awaits,      \* generation whose close a releasing task runs inline
    failing,     \* an exception is propagating while the task cleans up
    shutPc,      \* where the shutdown task is
    closeNow     \* close_now: generations shutdown still has to close

ownerVars == <<ownerState, active, nextGen>>
genVars   == <<refs, retired, closing, closeCalls, closed>>
taskVars  == <<pc, lease, seen, awaits, failing>>
shutVars  == <<shutPc, closeNow>>
vars == <<ownerVars, op, genVars, stale, taskVars, shutVars>>

RequestPcs ==
    {"idle", "start", "build", "discard", "acquire", "staleRelease",
     "closeStale", "reload", "reloadBuild", "reloadDiscard", "lockedRelease",
     "closeLocked", "reacquire", "using", "flushing", "release", "closeFinal"}

AdminPcs == {"idle", "rebuild", "rebuildBuild", "discard"}

\* Where a task holds a lease that it has not released yet.
LeasePcs ==
    {"using", "flushing", "release", "staleRelease", "reloadBuild", "reloadDiscard",
     "lockedRelease"}

\* Where a task holds the operation lock.
LockPcs ==
    {"build", "discard", "reloadBuild", "reloadDiscard", "lockedRelease",
     "closeLocked", "rebuildBuild"}

TypeOK ==
    /\ ownerState \in {"open", "closing", "closed"}
    /\ op \in Tasks \union {Shutdown, NoTask}
    /\ active \in Gens \union {NoGen}
    /\ nextGen \in 1..(MaxGen + 1)
    /\ refs \in [Gens -> Nat]
    /\ retired \in SUBSET Gens
    /\ closing \in SUBSET Gens
    /\ closeCalls \in [Gens -> Nat]
    /\ closed \in SUBSET Gens
    /\ stale \in SUBSET Gens
    /\ pc \in [Tasks -> RequestPcs \union AdminPcs]
    /\ lease \in [Tasks -> Gens \union {NoGen}]
    /\ seen \in [Tasks -> Gens \union {NoGen}]
    /\ awaits \in [Tasks -> Gens \union {NoGen}]
    /\ failing \in [Tasks -> BOOLEAN]
    /\ shutPc \in {"none", "wait", "close", "done"}
    /\ closeNow \in SUBSET Gens

Init ==
    /\ ownerState = "open"
    /\ op = NoTask
    /\ active = NoGen
    /\ nextGen = 1
    /\ refs = [g \in Gens |-> 0]
    /\ retired = {}
    /\ closing = {}
    /\ closeCalls = [g \in Gens |-> 0]
    /\ closed = {}
    /\ stale = {}
    /\ pc = [t \in Tasks |-> "idle"]
    /\ lease = [t \in Tasks |-> NoGen]
    /\ seen = [t \in Tasks |-> NoGen]
    /\ awaits = [t \in Tasks |-> NoGen]
    /\ failing = [t \in Tasks |-> FALSE]
    /\ shutPc = "none"
    /\ closeNow = {}

-----------------------------------------------------------------------------
(* The sections under the state lock.                                      *)

\* The generations in the _generations dictionary: installed, not yet closed.
Registered == {g \in Gens : g < nextGen /\ g \notin closed}

\* Tasks with an unreleased lease on g.
Holders(g) == {t \in Tasks : lease[t] = g}

Goto(t, place) == pc' = [pc EXCEPT ![t] = place]

MayAcquire == ownerState = "open" /\ active # NoGen /\ active \notin retired

\* _acquire_active, successful: one more reference to the active generation.
AcquireActive(t) ==
    /\ MayAcquire
    /\ refs' = [refs EXCEPT ![active] = @ + 1]
    /\ lease' = [lease EXCEPT ![t] = active]
    /\ UNCHANGED <<retired, closing, closeCalls, closed>>

\* _acquire_active raises RuntimeError and the request ends with an error.
AcquireRaises(t) ==
    /\ ~MayAcquire
    /\ Goto(t, "idle")
    /\ UNCHANGED <<lease, genVars>>

\* The reference that is given back is the last one of a retired generation.
LastReferenceEvenIfServing(g) == refs[g] = 1 /\ g \notin closing
LastReferenceNeverClosed(g) == g \in retired /\ refs[g] = 0 /\ g \notin closing
LastReference(g) == g \in retired /\ refs[g] = 1 /\ g \notin closing

\* _release: give the reference back; the last one of a retired generation
\* starts the close of its resources.
GiveBack(t) ==
    LET g == lease[t] IN
    /\ refs' = [refs EXCEPT ![g] = IF @ > 0 THEN @ - 1 ELSE @]
    /\ lease' = [lease EXCEPT ![t] = NoGen]
    /\ IF LastReference(g)
       THEN /\ closing' = closing \union {g}
            /\ closeCalls' = [closeCalls EXCEPT ![g] = @ + 1]
       ELSE UNCHANGED <<closing, closeCalls>>
    /\ UNCHANGED <<retired, closed>>

\* release: the releasing task runs that close inline before it goes on.
ReleaseLease(t, next, wait) ==
    /\ GiveBack(t)
    /\ IF LastReference(lease[t])
       THEN awaits' = [awaits EXCEPT ![t] = lease[t]] /\ Goto(t, wait)
       ELSE UNCHANGED awaits /\ Goto(t, next)

\* The active generation that a swap replaces can be closed right away.
UnusedOrClosing(g) == refs[g] = 0
Unused(g) == refs[g] = 0 /\ g \notin closing

\* The next generation is built and becomes the active one.
Install ==
    /\ nextGen \in Gens
    /\ active' = nextGen
    /\ nextGen' = nextGen + 1
    /\ UNCHANGED ownerState

\* The swap of _rebuild_locked retires the generation it replaces and hands
\* an unused one to a background close task.
RetirePrevious ==
    IF active = NoGen
    THEN UNCHANGED <<retired, closing, closeCalls>>
    ELSE /\ retired' = retired \union {active}
         /\ IF Unused(active)
            THEN /\ closing' = closing \union {active}
                 /\ closeCalls' = [closeCalls EXCEPT ![active] = @ + 1]
            ELSE UNCHANGED <<closing, closeCalls>>

TakeLock(t) ==
    /\ op = NoTask
    /\ op' = t

DropLock(t) ==
    /\ op = t
    /\ op' = NoTask

-----------------------------------------------------------------------------
(* A request: start, then acquire, then use and release.                   *)

BeginRequest(t) ==
    /\ pc[t] = "idle"
    /\ Goto(t, "start")
    /\ UNCHANGED <<ownerVars, op, genVars, stale, lease, seen, awaits, failing, shutVars>>

\* start gets the lock and returns at once: the owner is closed (the request
\* fails) or a generation is active.  No await separates the two.
StartReturns(t) ==
    /\ pc[t] = "start"
    /\ op = NoTask
    /\ \/ /\ ownerState # "open"
          /\ Goto(t, "idle")
       \/ /\ ownerState = "open"
          /\ active # NoGen
          /\ Goto(t, "acquire")
    /\ UNCHANGED <<ownerVars, op, genVars, stale, lease, seen, awaits, failing, shutVars>>

StartBuilds(t) ==
    /\ pc[t] = "start"
    /\ ownerState = "open"
    /\ active = NoGen
    /\ TakeLock(t)
    /\ Goto(t, "build")
    /\ UNCHANGED <<ownerVars, genVars, stale, lease, seen, awaits, failing, shutVars>>

StartInstalls(t) ==
    /\ pc[t] = "build"
    /\ Install
    /\ DropLock(t)
    /\ Goto(t, "acquire")
    /\ UNCHANGED <<genVars, stale, lease, seen, awaits, failing, shutVars>>

BuildFailsKeepingLock(t) ==
    /\ pc[t] \in {"build", "rebuildBuild"}
    /\ Goto(t, "idle")
    /\ UNCHANGED <<ownerVars, op, genVars, stale, lease, seen, awaits, failing, shutVars>>

\* The build raised: there is no router to close.
BuildFails(t) ==
    /\ pc[t] \in {"build", "rebuildBuild"}
    /\ DropLock(t)
    /\ Goto(t, "idle")
    /\ UNCHANGED <<ownerVars, genVars, stale, lease, seen, awaits, failing, shutVars>>

\* The caller was cancelled during the build, or before_swap raised: the built
\* router is not installed and is closed under the lock.
BuildDiscarded(t) ==
    /\ pc[t] \in {"build", "rebuildBuild"}
    /\ Goto(t, "discard")
    /\ UNCHANGED <<ownerVars, op, genVars, stale, lease, seen, awaits, failing, shutVars>>

UninstalledClosed(t) ==
    /\ pc[t] = "discard"
    /\ DropLock(t)
    /\ Goto(t, "idle")
    /\ UNCHANGED <<ownerVars, genVars, stale, lease, seen, awaits, failing, shutVars>>

\* acquire: the first _acquire_active and the staleness test that follows it.
Acquire(t) ==
    /\ pc[t] = "acquire"
    /\ \/ AcquireRaises(t) /\ UNCHANGED seen
       \/ /\ AcquireActive(t)
          /\ IF active \in stale
             THEN Goto(t, "staleRelease") /\ seen' = [seen EXCEPT ![t] = active]
             ELSE Goto(t, "using") /\ UNCHANGED seen
    /\ UNCHANGED <<ownerVars, op, stale, awaits, failing, shutVars>>

ReleaseStaleNever(t) ==
    /\ pc[t] = "staleRelease"
    /\ Goto(t, "reload")
    /\ UNCHANGED <<ownerVars, op, genVars, stale, lease, seen, awaits, failing, shutVars>>

\* The lease on a stale generation goes back before the lock is awaited.
ReleaseStale(t) ==
    /\ pc[t] = "staleRelease"
    /\ ReleaseLease(t, "reload", "closeStale")
    /\ UNCHANGED <<ownerVars, op, stale, seen, failing, shutVars>>

\* A close run inline by a release is done; a cancellation that arrived
\* meanwhile is delivered now.
StaleClosed(t) ==
    /\ pc[t] = "closeStale"
    /\ awaits[t] \in closed
    /\ awaits' = [awaits EXCEPT ![t] = NoGen]
    /\ Goto(t, "reload")
    /\ UNCHANGED <<ownerVars, op, genVars, stale, lease, seen, failing, shutVars>>

\* Under the lock: somebody else may have replaced the stale generation.
StillStaleUnchecked(t) == active \in Gens
StillStale(t) == active = seen[t] /\ active \in stale

TakeReload(t) ==
    /\ pc[t] = "reload"
    /\ \/ /\ op = NoTask
          /\ AcquireRaises(t)
          /\ UNCHANGED op
       \/ /\ TakeLock(t)
          /\ AcquireActive(t)
          /\ Goto(t, IF StillStale(t) THEN "reloadBuild" ELSE "lockedRelease")
    /\ UNCHANGED <<ownerVars, stale, seen, awaits, failing, shutVars>>

ReloadInstalls(t) ==
    /\ pc[t] = "reloadBuild"
    /\ Install
    /\ RetirePrevious
    /\ Goto(t, "lockedRelease")
    /\ UNCHANGED <<op, refs, closed, stale, lease, seen, awaits, failing, shutVars>>

ReloadFails(t) ==
    /\ pc[t] = "reloadBuild"
    /\ failing' = [failing EXCEPT ![t] = TRUE]
    /\ Goto(t, "lockedRelease")
    /\ UNCHANGED <<ownerVars, op, genVars, stale, lease, seen, awaits, shutVars>>

ReloadDiscarded(t) ==
    /\ pc[t] = "reloadBuild"
    /\ failing' = [failing EXCEPT ![t] = TRUE]
    /\ Goto(t, "reloadDiscard")
    /\ UNCHANGED <<ownerVars, op, genVars, stale, lease, seen, awaits, shutVars>>

ReloadRouterClosed(t) ==
    /\ pc[t] = "reloadDiscard"
    /\ Goto(t, "lockedRelease")
    /\ UNCHANGED <<ownerVars, op, genVars, stale, lease, seen, awaits, failing, shutVars>>

AfterReload(t) == IF failing[t] THEN "idle" ELSE "reacquire"

ReleaseLockedOnSuccess(t) ==
    /\ pc[t] = "lockedRelease"
    /\ IF failing[t]
       THEN /\ lease' = [lease EXCEPT ![t] = NoGen]
            /\ Goto(t, "idle")
            /\ UNCHANGED <<genVars, awaits>>
       ELSE ReleaseLease(t, AfterReload(t), "closeLocked")
    /\ IF ~failing[t] /\ LastReference(lease[t])
       THEN UNCHANGED <<op, failing>>
       ELSE DropLock(t) /\ failing' = [failing EXCEPT ![t] = FALSE]
    /\ UNCHANGED <<ownerVars, stale, seen, shutVars>>

\* The finally of acquire: release current; with nothing to close the lock is
\* dropped in the same step.
ReleaseLocked(t) ==
    /\ pc[t] = "lockedRelease"
    /\ ReleaseLease(t, AfterReload(t), "closeLocked")
    /\ IF LastReference(lease[t])
       THEN UNCHANGED <<op, failing>>
       ELSE DropLock(t) /\ failing' = [failing EXCEPT ![t] = FALSE]
    /\ UNCHANGED <<ownerVars, stale, seen, shutVars>>

LockedClosed(t) ==
    /\ pc[t] = "closeLocked"
    /\ awaits[t] \in closed
    /\ awaits' = [awaits EXCEPT ![t] = NoGen]
    /\ DropLock(t)
    /\ Goto(t, AfterReload(t))
    /\ failing' = [failing EXCEPT ![t] = FALSE]
    /\ UNCHANGED <<ownerVars, genVars, stale, lease, seen, shutVars>>

\* The last _acquire_active of acquire does not look at staleness again.
Reacquire(t) ==
    /\ pc[t] = "reacquire"
    /\ \/ AcquireRaises(t)
       \/ AcquireActive(t) /\ Goto(t, "using")
    /\ UNCHANGED <<ownerVars, op, stale, seen, awaits, failing, shutVars>>

\* RequestContext.finalize: the response is over, and the audit trace is written in a thread
\* while the lease is held.
BeginFlush(t) ==
    /\ pc[t] = "using"
    /\ Goto(t, "flushing")
    /\ UNCHANGED <<ownerVars, op, genVars, stale, lease, seen, awaits, failing, shutVars>>

\* The trace is written, or there is none; an OSError of the write is logged and counts as well.
FlushEnds(t) ==
    /\ pc[t] = "flushing"
    /\ Goto(t, "release")
    /\ UNCHANGED <<ownerVars, op, genVars, stale, lease, seen, awaits, failing, shutVars>>

FlushFailsUnreleased(t) ==   \* mutant: the release is not in a finally
    /\ pc[t] = "flushing"
    /\ Goto(t, "idle")
    /\ UNCHANGED <<ownerVars, op, genVars, stale, lease, seen, awaits, failing, shutVars>>

\* The trace is not written for another reason, which is raised when the lease is released.
FlushFails(t) ==
    /\ pc[t] = "flushing"
    /\ failing' = [failing EXCEPT ![t] = TRUE]
    /\ Goto(t, "release")
    /\ UNCHANGED <<ownerVars, op, genVars, stale, lease, seen, awaits, shutVars>>

FlushCancelledUnshielded(t) ==   \* mutant: the cleanup is not awaited to its end
    /\ pc[t] = "flushing"
    /\ Goto(t, "idle")
    /\ UNCHANGED <<ownerVars, op, genVars, stale, lease, seen, awaits, failing, shutVars>>

\* _await_cleanup: a cancellation of the request is kept back while the cleanup goes on.
FlushCancelled(t) ==
    /\ pc[t] = "flushing" /\ ~failing[t]
    /\ failing' = [failing EXCEPT ![t] = TRUE]
    /\ UNCHANGED <<ownerVars, op, genVars, stale, pc, lease, seen, awaits, shutVars>>

\* The finally of finalize; what was kept back is raised when the close is over, if there is one.
EndUse(t) ==
    /\ pc[t] = "release"
    /\ ReleaseLease(t, "idle", "closeFinal")
    /\ failing' = [failing EXCEPT ![t] = FALSE]
    /\ UNCHANGED <<ownerVars, op, stale, seen, shutVars>>

FinalClosed(t) ==
    /\ pc[t] = "closeFinal"
    /\ awaits[t] \in closed
    /\ awaits' = [awaits EXCEPT ![t] = NoGen]
    /\ Goto(t, "idle")
    /\ UNCHANGED <<ownerVars, op, genVars, stale, lease, seen, failing, shutVars>>

\* A task cancelled while it waits for the operation lock, or between two
\* steps of acquire where it holds nothing, ends.
CancelWait(t) ==
    /\ pc[t] \in {"start", "acquire", "reload", "reacquire", "rebuild"}
    /\ Goto(t, "idle")
    /\ UNCHANGED <<ownerVars, op, genVars, stale, lease, seen, awaits, failing, shutVars>>

-----------------------------------------------------------------------------
(* An administrative task: rebuild.                                        *)

BeginRebuild(t) ==
    /\ pc[t] = "idle"
    /\ Goto(t, "rebuild")
    /\ UNCHANGED <<ownerVars, op, genVars, stale, lease, seen, awaits, failing, shutVars>>

TakeRebuild(t) ==
    /\ pc[t] = "rebuild"
    /\ \/ /\ op = NoTask
          /\ ownerState # "open"
          /\ Goto(t, "idle")
          /\ UNCHANGED op
       \/ /\ ownerState = "open"
          /\ TakeLock(t)
          /\ Goto(t, "rebuildBuild")
    /\ UNCHANGED <<ownerVars, genVars, stale, lease, seen, awaits, failing, shutVars>>

RebuildInstalls(t) ==
    /\ pc[t] = "rebuildBuild"
    /\ Install
    /\ RetirePrevious
    /\ DropLock(t)
    /\ Goto(t, "idle")
    /\ UNCHANGED <<refs, closed, stale, lease, seen, awaits, failing, shutVars>>

-----------------------------------------------------------------------------
(* The owner: close tasks, shutdown, and the passing of time.              *)

\* _close_generation finishes, whether the resources closed cleanly or raised.
CloseFinishes(g) ==
    /\ closeCalls[g] > 0
    /\ g \notin closed
    /\ closed' = closed \union {g}
    /\ UNCHANGED <<ownerVars, op, refs, retired, closing, closeCalls, stale, taskVars, shutVars>>

\* The TTL of the active generation's provider configuration runs out.
ConfigExpires ==
    /\ active \in Gens \ stale
    /\ stale' = stale \union {active}
    /\ UNCHANGED <<ownerVars, op, genVars, taskVars, shutVars>>

\* close creates the one shutdown task.
BeginClose ==
    /\ shutPc = "none"
    /\ shutPc' = "wait"
    /\ UNCHANGED <<ownerVars, op, genVars, stale, taskVars, closeNow>>

\* Every registered generation that nobody uses or closes yet.
CloseNow == {g \in Registered : Unused(g)}

ActiveIfAny == {active} \ {NoGen}

ShutdownMarks ==
    /\ shutPc = "wait"
    /\ TakeLock(Shutdown)
    /\ shutPc' = "close"
    /\ ownerState' = "closing"
    /\ active' = NoGen
    /\ retired' = retired \union ActiveIfAny
    /\ closeNow' = CloseNow
    /\ closing' = closing \union CloseNow
    /\ UNCHANGED <<nextGen, refs, closeCalls, closed, stale, taskVars>>

\* Shutdown enters _close_generation for each of close_now in turn.
ShutdownCloses(g) ==
    /\ shutPc = "close"
    /\ g \in closeNow
    /\ closeNow' = closeNow \ {g}
    /\ closeCalls' = [closeCalls EXCEPT ![g] = @ + 1]
    /\ UNCHANGED <<ownerVars, op, refs, retired, closing, closed, stale, taskVars, shutPc>>

\* Shutdown waits for the close of every generation, those that a request
\* still has to release included.
AllClosed == Registered = {}

ShutdownFinishes ==
    /\ shutPc = "close"
    /\ closeNow = {}
    /\ AllClosed
    /\ DropLock(Shutdown)
    /\ shutPc' = "done"
    /\ ownerState' = "closed"
    /\ UNCHANGED <<active, nextGen, genVars, stale, taskVars, closeNow>>

-----------------------------------------------------------------------------

RequestStep(t) ==
    \/ StartInstalls(t) \/ BuildFails(t) \/ UninstalledClosed(t)
    \/ Acquire(t) \/ ReleaseStale(t) \/ StaleClosed(t)
    \/ ReloadInstalls(t) \/ ReloadFails(t) \/ ReloadRouterClosed(t)
    \/ ReleaseLocked(t) \/ LockedClosed(t) \/ Reacquire(t)
    \/ BeginFlush(t) \/ FlushEnds(t) \/ EndUse(t) \/ FinalClosed(t)

AdminStep(t) == RebuildInstalls(t) \/ BuildFails(t) \/ UninstalledClosed(t)

\* What a task does when the operation lock reaches it.
TakeTurn(t) ==
    IF t \in Requests
    THEN StartReturns(t) \/ StartBuilds(t) \/ TakeReload(t)
    ELSE TakeRebuild(t)

ShutdownStep == ShutdownFinishes \/ \E g \in Gens : ShutdownCloses(g)

Next ==
    \/ \E t \in Requests :
          \/ BeginRequest(t) \/ RequestStep(t) \/ ReloadDiscarded(t) \/ FlushFails(t) \/ FlushCancelled(t)
    \/ \E t \in Admins : BeginRebuild(t) \/ AdminStep(t)
    \/ \E t \in Tasks : TakeTurn(t) \/ BuildDiscarded(t) \/ CancelWait(t)
    \/ \E g \in Gens : CloseFinishes(g)
    \/ ConfigExpires \/ BeginClose \/ ShutdownMarks \/ ShutdownStep

Spec == Init /\ [][Next]_vars

(***************************************************************************)
(* asyncio runs every ready task; a provider build, a response, the write  *)
(* of a trace and a close end: weak fairness.  asyncio.Lock wakes its waiters in the *)
(* order they came, so a waiter is not passed over forever: strong         *)
(* fairness of taking the lock.  Nothing makes a request arrive, a caller  *)
(* be cancelled or the TTL run out.                                        *)
(***************************************************************************)
Fairness ==
    /\ \A t \in Requests : WF_vars(RequestStep(t))
    /\ \A t \in Admins : WF_vars(AdminStep(t))
    /\ \A t \in Tasks : SF_vars(TakeTurn(t))
    /\ \A g \in Gens : WF_vars(CloseFinishes(g))
    /\ SF_vars(ShutdownMarks)
    /\ WF_vars(ShutdownStep)

FairSpec == Spec /\ Fairness

-----------------------------------------------------------------------------
(* Properties.                                                             *)

\* No request ever works on a router whose resources are being closed or are
\* closed, whichever of release, swap and shutdown decided to close it.
NoUseAfterClose ==
    \A t \in Tasks : lease[t] # NoGen => closeCalls[lease[t]] = 0

\* A generation's resources are closed by one task only, although the release
\* of the last lease, the swap and shutdown may all decide to close it.
ClosedByOne == \A g \in Gens : closeCalls[g] <= 1

\* Each generation counts exactly the tasks that hold an unreleased lease on
\* it, cancelled and failing acquires included.
ReferencesExact ==
    \A g \in Gens : refs[g] = Cardinality(Holders(g))

\* When close() has returned, no installed router is left open, no lease is
\* out, and the owner stays that way.
ClosedOwnerOwnsNothing ==
    ownerState = "closed" =>
        /\ Registered = {}
        /\ \A t \in Tasks : lease[t] = NoGen

\* A generation nobody can lease any more is not forgotten: while a close of
\* it is not under way, somebody who will close it still refers to it.
RetiredIsNotForgotten ==
    \A g \in Registered :
        \/ g = active
        \/ refs[g] > 0
        \/ closeCalls[g] > 0
        \/ g \in closeNow

\* What becomes of every generation, whoever retires it: its users are counted
\* exactly, it is closed when nobody works on it, by one task and by no second,
\* never forgotten, and gone when close() has returned.
ClosedExactlyOnce ==
    /\ ReferencesExact
    /\ NoUseAfterClose /\ ClosedByOne /\ RetiredIsNotForgotten /\ ClosedOwnerOwnsNothing

\* Only an expired generation is replaced by a request, and requests that
\* waited for the same reload do not replace its result again: what a request
\* rebuilds is, until it installs the new one, the expired generation it saw.
ReloadReplacesOnlyStale ==
    \A t \in Requests : pc[t] = "reloadBuild" => active \in stale /\ active = seen[t]

\* A shutdown that was asked for ends although requests hold leases, wait for
\* the operation lock or close a generation while they hold it.
ShutdownEnds == (shutPc = "wait") ~> (shutPc = "done")

\* A request that asked for a router gets a lease or an error.
RequestAnswered ==
    \A t \in Requests : (pc[t] = "start") ~> (pc[t] \in {"using", "idle"})

\* A generation that was replaced is closed in the end.
RetiredIsClosed == \A g \in Gens : (g \in retired) ~> (g \in closed)

-----------------------------------------------------------------------------
(* The owner implements GenerationLifecycle.                               *)

StatusOf(g) ==
    IF g >= nextGen THEN "unborn"
    ELSE IF g = active THEN "serving"
    ELSE IF closeCalls[g] = 0 THEN "draining" ELSE "disposed"

Lifecycle == INSTANCE GenerationLifecycle WITH
    Users <- Tasks,
    status <- [g \in Gens |-> StatusOf(g)],
    users <- [g \in Gens |-> Holders(g)]

\* What callers may rely on: generations serve one after the other, a lease is
\* given on the serving one only, and disposal waits for the last user.
ImplementsLifecycle == Lifecycle!LifecycleSpec
=============================================================================
