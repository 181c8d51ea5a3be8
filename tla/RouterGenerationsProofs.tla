---------------------- MODULE RouterGenerationsProofs ----------------------
(***************************************************************************)
(* What RouterGenerations guarantees for any number of requests, of        *)
(* administrative tasks and of generations.  The inductive invariant IInv  *)
(* ties the three places that decide to close a generation (the release of *)
(* the last lease, the swap and shutdown) to the reference count, and the  *)
(* reference count to the leases that the tasks hold.                      *)
(***************************************************************************)
EXTENDS RouterGenerations, FiniteSetTheorems, TLAPS

\* Where the tasks are says who holds a lease and who holds the lock.
PcShape ==
    /\ \A t \in Tasks : lease[t] # NoGen <=> pc[t] \in LeasePcs
    /\ \A t \in Tasks : op = t <=> pc[t] \in LockPcs
    /\ op = Shutdown <=> shutPc = "close"
    /\ op \in Tasks => ownerState = "open"
    /\ \A t \in Tasks : pc[t] = "build" => active = NoGen

\* Every installed generation is the active one or a retired one.
GenShape ==
    /\ active < nextGen
    /\ \A g \in Gens : g \in retired <=> (g < nextGen /\ g # active)
    /\ \A g \in Gens : refs[g] > 0 => g < nextGen

\* Who closes a generation, and when.
CloseShape ==
    /\ closing \subseteq retired
    /\ \A g \in retired : g \in closing <=> refs[g] = 0
    /\ \A g \in Gens : closeCalls[g] = (IF g \in closing \ closeNow THEN 1 ELSE 0)
    /\ closed \subseteq closing \ closeNow
    /\ closeNow \subseteq closing

\* What shutdown has done already.
ShutdownShape ==
    /\ ownerState = "open" <=> shutPc \in {"none", "wait"}
    /\ ownerState = "closed" <=> shutPc = "done"
    /\ ownerState # "open" => active = NoGen
    /\ shutPc # "close" => closeNow = {}
    /\ ownerState = "closed" => \A g \in Gens : g < nextGen => g \in closed

IInv ==
    /\ TypeOK
    /\ PcShape
    /\ ReferencesExact
    /\ GenShape
    /\ CloseShape
    /\ ShutdownShape

-----------------------------------------------------------------------------
(* Counting the tasks that hold a lease.                                   *)

LEMMA HoldersFinite ==
    ASSUME TaskAssumption
    PROVE  \A g : IsFiniteSet(Holders(g)) /\ Cardinality(Holders(g)) \in Nat
  BY FS_Subset, FS_CardinalityType DEF TaskAssumption, Holders

\* A task that held nothing takes a lease on g: g has one holder more.
LEMMA HolderEnters ==
    ASSUME TaskAssumption, NEW t \in Tasks, NEW g \in Gens,
           lease \in [Tasks -> Gens \union {NoGen}],
           lease[t] = NoGen,
           lease' = [lease EXCEPT ![t] = g]
    PROVE  \A h \in Gens : Cardinality(Holders(h)') =
              (IF h = g THEN Cardinality(Holders(h)) + 1 ELSE Cardinality(Holders(h)))
  <1> SUFFICES ASSUME NEW h \in Gens
               PROVE  Cardinality(Holders(h)') =
                        (IF h = g THEN Cardinality(Holders(h)) + 1 ELSE Cardinality(Holders(h)))
    OBVIOUS
  <1>1. NoGen \notin Gens
    BY GenAssumption DEF Gens, NoGen, GenAssumption
  <1>2. CASE h = g
    <2>1. Holders(h)' = Holders(h) \union {t}
      BY <1>1, <1>2 DEF Holders
    <2>2. t \notin Holders(h)
      BY <1>1 DEF Holders
    <2> QED
      BY <2>1, <2>2, <1>2, HoldersFinite, FS_AddElement
  <1>3. CASE h # g
    <2>1. Holders(h)' = Holders(h)
      BY <1>1, <1>3 DEF Holders
    <2> QED
      BY <2>1, <1>3
  <1> QED
    BY <1>2, <1>3

\* A task gives its lease on g back: g has one holder fewer.
LEMMA HolderLeaves ==
    ASSUME TaskAssumption, NEW t \in Tasks,
           lease \in [Tasks -> Gens \union {NoGen}],
           lease[t] # NoGen,
           lease' = [lease EXCEPT ![t] = NoGen]
    PROVE  /\ Cardinality(Holders(lease[t])) > 0
           /\ \A h \in Gens : Cardinality(Holders(h)') =
                (IF h = lease[t] THEN Cardinality(Holders(h)) - 1
                                 ELSE Cardinality(Holders(h)))
  <1> DEFINE g == lease[t]
  <1>1. NoGen \notin Gens
    BY GenAssumption DEF Gens, NoGen, GenAssumption
  <1>2. t \in Holders(g)
    BY DEF Holders
  <1>3. Cardinality(Holders(g) \ {t}) = Cardinality(Holders(g)) - 1
    BY <1>2, HoldersFinite, FS_RemoveElement
  <1>4. Cardinality(Holders(g)) > 0
    BY <1>2, HoldersFinite, FS_EmptySet
  <1>5. ASSUME NEW h \in Gens
        PROVE  Cardinality(Holders(h)') =
                 (IF h = g THEN Cardinality(Holders(h)) - 1 ELSE Cardinality(Holders(h)))
    <2>1. CASE h = g
      <3>1. Holders(h)' = Holders(h) \ {t}
        BY <1>1, <2>1 DEF Holders
      <3> QED
        BY <3>1, <2>1, <1>3
    <2>2. CASE h # g
      <3>1. Holders(h)' = Holders(h)
        BY <1>1, <2>2 DEF Holders
      <3> QED
        BY <3>1, <2>2
    <2> QED
      BY <2>1, <2>2
  <1> QED
    BY <1>4, <1>5

-----------------------------------------------------------------------------
(* The initial state and the three kinds of step.                          *)

LEMMA InitInvariant ==
    ASSUME TaskAssumption, GenAssumption
    PROVE  Init => IInv
  <1> SUFFICES ASSUME Init PROVE IInv
    OBVIOUS
  <1> USE DEF Init, NoGen, Gens, GenAssumption
  <1>1. TypeOK
    BY DEF TypeOK, RequestPcs
  <1>2. PcShape
    BY DEF PcShape, LeasePcs, LockPcs, TaskAssumption
  <1>3. ReferencesExact
    <2> SUFFICES ASSUME NEW g \in Gens PROVE refs[g] = Cardinality(Holders(g))
      BY DEF ReferencesExact
    <2>1. Holders(g) = {}
      BY DEF Holders
    <2> QED
      BY <2>1, FS_EmptySet
  <1>4. GenShape /\ CloseShape /\ ShutdownShape
    BY DEF GenShape, CloseShape, ShutdownShape
  <1> QED
    BY <1>1, <1>2, <1>3, <1>4 DEF IInv

\* A step that changes neither leases nor generations nor the owner keeps
\* everything but the shape of the program counters for free.
LEMMA QuietStep ==
    ASSUME IInv, UNCHANGED <<ownerVars, genVars, lease, shutVars>>
    PROVE  ReferencesExact' /\ GenShape' /\ CloseShape' /\ ShutdownShape'
  <1> USE DEF IInv, ownerVars, genVars, shutVars
  <1>1. ReferencesExact'
    BY DEF ReferencesExact, Holders
  <1>2. GenShape'
    BY DEF GenShape
  <1>3. CloseShape'
    BY DEF CloseShape
  <1>4. ShutdownShape'
    BY DEF ShutdownShape
  <1> QED
    BY <1>1, <1>2, <1>3, <1>4

\* A task acquires the active generation and goes on to a place that holds a
\* lease.
LEMMA AcquireStep ==
    ASSUME TaskAssumption, IInv, NEW t \in Tasks, lease[t] = NoGen,
           AcquireActive(t), UNCHANGED <<ownerVars, shutVars>>
    PROVE  ReferencesExact' /\ GenShape' /\ CloseShape' /\ ShutdownShape'
  <1> USE DEF IInv, AcquireActive, MayAcquire
  <1>1. active \in Gens
    BY DEF TypeOK
  <1>2. ReferencesExact'
    <2>1. \A h \in Gens : Cardinality(Holders(h)') =
              (IF h = active THEN Cardinality(Holders(h)) + 1 ELSE Cardinality(Holders(h)))
      BY <1>1, HolderEnters DEF TypeOK
    <2>2. \A h \in Gens : refs'[h] = (IF h = active THEN refs[h] + 1 ELSE refs[h])
      BY <1>1 DEF TypeOK
    <2> QED
      BY <2>1, <2>2 DEF ReferencesExact
  <1>3. GenShape' /\ CloseShape' /\ ShutdownShape'
    BY <1>1 DEF GenShape, CloseShape, ShutdownShape, TypeOK, ownerVars, shutVars
  <1> QED
    BY <1>2, <1>3

\* A task gives its lease back and closes the generation if it was the last
\* lease of a retired one.
LEMMA ReleaseStep ==
    ASSUME TaskAssumption, GenAssumption, IInv, NEW t \in Tasks, lease[t] # NoGen,
           GiveBack(t), UNCHANGED <<ownerVars, shutVars>>
    PROVE  ReferencesExact' /\ GenShape' /\ CloseShape' /\ ShutdownShape'
  <1> USE DEF IInv
  <1> DEFINE g == lease[t]
  <1>1. g \in Gens
    BY DEF TypeOK
  <1>2. refs[g] > 0 /\ refs' = [refs EXCEPT ![g] = @ - 1]
    BY <1>1, HolderLeaves DEF ReferencesExact, GiveBack, TypeOK
  <1>3. ReferencesExact'
    <2>1. \A h \in Gens : Cardinality(Holders(h)') =
                (IF h = g THEN Cardinality(Holders(h)) - 1 ELSE Cardinality(Holders(h)))
      BY HolderLeaves DEF GiveBack, TypeOK
    <2>2. \A h \in Gens : refs'[h] = (IF h = g THEN refs[h] - 1 ELSE refs[h])
      BY <1>1, <1>2 DEF TypeOK
    <2> QED
      BY <2>1, <2>2 DEF ReferencesExact
  <1>4. GenShape' /\ ShutdownShape'
    BY <1>1, <1>2 DEF GenShape, ShutdownShape, TypeOK, GiveBack, ownerVars, shutVars
  <1>5. CloseShape'
    <2>1. CASE LastReference(g)
      <3>1. /\ g \in retired /\ refs[g] = 1 /\ g \notin closing
            /\ closing' = closing \union {g}
            /\ closeCalls' = [closeCalls EXCEPT ![g] = @ + 1]
            /\ UNCHANGED <<retired, closed, closeNow>>
        BY <2>1 DEF LastReference, GiveBack, shutVars
      <3> QED
        BY <1>1, <1>2, <3>1 DEF CloseShape, TypeOK
    <2>2. CASE ~LastReference(g)
      <3>1. UNCHANGED <<retired, closing, closeCalls, closed, closeNow>>
        BY <2>2 DEF GiveBack, shutVars
      <3>2. g \in retired => refs[g] # 1
        BY <1>1, <1>2, <2>2 DEF LastReference, CloseShape, TypeOK
      <3> QED
        BY <1>1, <1>2, <3>1, <3>2 DEF CloseShape, TypeOK
    <2> QED
      BY <2>1, <2>2
  <1> QED
    BY <1>3, <1>4, <1>5

\* A swap under the lock replaces the active generation.
LEMMA SwapStep ==
    ASSUME TaskAssumption, GenAssumption, IInv, ownerState = "open",
           Install, RetirePrevious, UNCHANGED <<refs, closed, lease, shutVars>>
    PROVE  ReferencesExact' /\ GenShape' /\ CloseShape' /\ ShutdownShape'
  <1> USE DEF IInv, NoGen
  <1>1. ReferencesExact'
    BY DEF ReferencesExact, Holders
  <1>2. nextGen \in Gens /\ nextGen \in Nat /\ refs[nextGen] = 0 /\ nextGen \notin retired
    BY DEF Install, Gens, GenShape, TypeOK
  <1>3. GenShape' /\ ShutdownShape'
    <2>1. CASE active = NoGen
      BY <1>2, <2>1 DEF Install, RetirePrevious, GenShape, ShutdownShape, TypeOK, Gens, shutVars
    <2>2. CASE active # NoGen
      BY <1>2, <2>2 DEF Install, RetirePrevious, GenShape, ShutdownShape, TypeOK, Gens, shutVars
    <2> QED
      BY <2>1, <2>2
  <1>4. CloseShape'
    <2>1. CASE active = NoGen
      BY <2>1 DEF RetirePrevious, CloseShape, shutVars
    <2>2. CASE active # NoGen
      <3>1. active \in Gens /\ active \notin retired /\ active \notin closing
        BY <2>2 DEF TypeOK, GenShape, CloseShape
      <3>2. CASE Unused(active)
        BY <2>2, <3>1, <3>2 DEF RetirePrevious, Unused, CloseShape, TypeOK, shutVars
      <3>3. CASE ~Unused(active)
        BY <2>2, <3>1, <3>3 DEF RetirePrevious, Unused, CloseShape, TypeOK, shutVars
      <3> QED
        BY <3>2, <3>3
    <2> QED
      BY <2>1, <2>2
  <1> QED
    BY <1>1, <1>3, <1>4

-----------------------------------------------------------------------------
(* Every step of a task preserves the invariant.                           *)

\* The quiet steps of requests and of administrative tasks.
LEMMA QuietSteps ==
    ASSUME TaskAssumption, GenAssumption, IInv, NEW t \in Tasks,
           \/ BeginRequest(t) \/ StartReturns(t) \/ StartBuilds(t)
           \/ BuildFails(t) \/ BuildDiscarded(t) \/ UninstalledClosed(t)
           \/ StaleClosed(t) \/ ReloadFails(t) \/ ReloadDiscarded(t)
           \/ ReloadRouterClosed(t) \/ LockedClosed(t) \/ FinalClosed(t)
           \/ CancelWait(t) \/ BeginRebuild(t) \/ TakeRebuild(t)
           \/ BeginFlush(t) \/ FlushEnds(t) \/ FlushFails(t) \/ FlushCancelled(t)
    PROVE  IInv'
  <1> USE DEF Goto, ownerVars, genVars, taskVars, shutVars
  <1>1. UNCHANGED <<ownerVars, genVars, lease, shutVars>>
    BY DEF BeginRequest, StartReturns, StartBuilds, BuildFails, BuildDiscarded, UninstalledClosed,
           StaleClosed, ReloadFails, ReloadDiscarded, ReloadRouterClosed, LockedClosed,
           FinalClosed, CancelWait, BeginRebuild, TakeRebuild,
           BeginFlush, FlushEnds, FlushFails, FlushCancelled
  <1>2. ReferencesExact' /\ GenShape' /\ CloseShape' /\ ShutdownShape'
    BY <1>1, QuietStep
  <1>3. ASSUME TypeOK, PcShape
        PROVE  TypeOK' /\ PcShape'
    <2> USE <1>3
    <2> USE DEF TypeOK, PcShape, LeasePcs, LockPcs, RequestPcs, AdminPcs,
                TaskAssumption, TakeLock, DropLock, AfterReload
    <2>1. CASE BeginRequest(t)
      BY <2>1 DEF BeginRequest
    <2>2. CASE StartReturns(t)
      BY <2>2 DEF StartReturns
    <2>3. CASE StartBuilds(t)
      BY <2>3 DEF StartBuilds
    <2>4. CASE BuildFails(t)
      BY <2>4 DEF BuildFails
    <2>5. CASE BuildDiscarded(t)
      BY <2>5 DEF BuildDiscarded
    <2>6. CASE UninstalledClosed(t)
      BY <2>6 DEF UninstalledClosed
    <2>7. CASE StaleClosed(t)
      BY <2>7 DEF StaleClosed
    <2>8. CASE ReloadFails(t)
      BY <2>8 DEF ReloadFails
    <2>9. CASE ReloadDiscarded(t)
      BY <2>9 DEF ReloadDiscarded
    <2>10. CASE ReloadRouterClosed(t)
      BY <2>10 DEF ReloadRouterClosed
    <2>11. CASE LockedClosed(t)
      BY <2>11 DEF LockedClosed
    <2>12. CASE FinalClosed(t)
      BY <2>12 DEF FinalClosed
    <2>13. CASE CancelWait(t)
      BY <2>13 DEF CancelWait
    <2>14. CASE BeginRebuild(t)
      BY <2>14 DEF BeginRebuild
    <2>15. CASE TakeRebuild(t)
      BY <2>15 DEF TakeRebuild
    <2>16. CASE BeginFlush(t) \/ FlushEnds(t)
      BY <2>16 DEF BeginFlush, FlushEnds
    <2>17. CASE FlushFails(t)
      BY <2>17 DEF FlushFails
    <2>18. CASE FlushCancelled(t)
      BY <2>18 DEF FlushCancelled
    <2> QED
      BY <2>1, <2>2, <2>3, <2>4, <2>5, <2>6, <2>7, <2>8,
         <2>9, <2>10, <2>11, <2>12, <2>13, <2>14, <2>15, <2>16, <2>17, <2>18
  <1> QED
    BY <1>2, <1>3 DEF IInv

\* The steps that take a lease: both calls of _acquire_active, and the one
\* under the operation lock.
LEMMA AcquireSteps ==
    ASSUME TaskAssumption, GenAssumption, IInv, NEW t \in Tasks,
           Acquire(t) \/ TakeReload(t) \/ Reacquire(t)
    PROVE  IInv'
  <1> USE DEF Goto, ownerVars, genVars, taskVars, shutVars
  <1>1. lease[t] = NoGen
    BY DEF IInv, PcShape, LeasePcs, Acquire, TakeReload, Reacquire
  <1>2. CASE AcquireActive(t)
    <2>1. UNCHANGED <<ownerVars, shutVars>>
      BY DEF Acquire, TakeReload, Reacquire
    <2>2. ReferencesExact' /\ GenShape' /\ CloseShape' /\ ShutdownShape'
      BY <1>1, <1>2, <2>1, AcquireStep
    <2>3. active \in Gens /\ active # NoGen
      BY <1>2 DEF AcquireActive, MayAcquire, IInv, TypeOK
    <2>4. TypeOK' /\ PcShape'
      <3> USE <1>2, <2>3 DEF IInv, TypeOK, PcShape, LeasePcs, LockPcs, RequestPcs,
              TaskAssumption, AcquireActive, AcquireRaises, MayAcquire, TakeLock
      <3>1. CASE Acquire(t)
        BY <3>1 DEF Acquire
      <3>2. CASE TakeReload(t)
        BY <3>2 DEF TakeReload
      <3>3. CASE Reacquire(t)
        BY <3>3 DEF Reacquire
      <3> QED
        BY <3>1, <3>2, <3>3
    <2> QED
      BY <2>2, <2>4 DEF IInv
  <1>3. CASE ~AcquireActive(t)
    <2>1. AcquireRaises(t) /\ UNCHANGED <<ownerVars, op, genVars, lease, seen, stale, awaits, failing, shutVars>>
      BY <1>3 DEF Acquire, TakeReload, Reacquire, AcquireRaises
    <2>2. ReferencesExact' /\ GenShape' /\ CloseShape' /\ ShutdownShape'
      BY <2>1, QuietStep
    <2>3. pc[t] \in {"acquire", "reload", "reacquire"}
      BY DEF Acquire, TakeReload, Reacquire
    <2>4. TypeOK' /\ PcShape'
      BY <2>1, <2>3 DEF IInv, TypeOK, PcShape, LeasePcs, LockPcs, RequestPcs,
         TaskAssumption, AcquireRaises
    <2> QED
      BY <2>2, <2>4 DEF IInv
  <1> QED
    BY <1>2, <1>3

\* The steps that give a lease back.
LEMMA ReleaseSteps ==
    ASSUME TaskAssumption, GenAssumption, IInv, NEW t \in Tasks,
           ReleaseStale(t) \/ ReleaseLocked(t) \/ EndUse(t)
    PROVE  IInv'
  <1> USE DEF Goto, ownerVars, genVars, taskVars, shutVars
  <1>1. lease[t] # NoGen /\ lease[t] \in Gens
    BY DEF IInv, TypeOK, PcShape, LeasePcs, ReleaseStale, ReleaseLocked, EndUse
  <1>2. GiveBack(t) /\ UNCHANGED <<ownerVars, shutVars>>
    BY DEF ReleaseStale, ReleaseLocked, EndUse, ReleaseLease
  <1>3. ReferencesExact' /\ GenShape' /\ CloseShape' /\ ShutdownShape'
    BY <1>1, <1>2, ReleaseStep
  <1>4. /\ refs' \in [Gens -> Nat]
        /\ closing' \in SUBSET Gens
        /\ closeCalls' \in [Gens -> Nat]
        /\ lease' = [lease EXCEPT ![t] = NoGen]
        /\ UNCHANGED <<retired, closed>>
    BY <1>1, <1>2 DEF GiveBack, IInv, TypeOK
  <1>5. TypeOK' /\ PcShape'
    <2> USE <1>1, <1>4 DEF IInv, TypeOK, PcShape, LeasePcs, LockPcs, RequestPcs,
            TaskAssumption, DropLock, AfterReload, ReleaseLease
    <2>1. CASE ReleaseStale(t)
      BY <2>1 DEF ReleaseStale
    <2>2. CASE ReleaseLocked(t)
      <3>1. CASE LastReference(lease[t])
        BY <2>2, <3>1 DEF ReleaseLocked
      <3>2. CASE ~LastReference(lease[t])
        <4>1. /\ op = t /\ op' = NoTask
              /\ failing' = [failing EXCEPT ![t] = FALSE]
              /\ UNCHANGED <<awaits, seen, stale, ownerVars, shutVars>>
          BY <2>2, <3>2 DEF ReleaseLocked
        <4>2. /\ pc[t] = "lockedRelease"
              /\ \/ pc' = [pc EXCEPT ![t] = "idle"]
                 \/ pc' = [pc EXCEPT ![t] = "reacquire"]
          BY <2>2, <3>2 DEF ReleaseLocked
        <4> QED
          BY <4>1, <4>2
      <3> QED
        BY <3>1, <3>2
    <2>3. CASE EndUse(t)
      BY <2>3 DEF EndUse
    <2> QED
      BY <2>1, <2>2, <2>3
  <1> QED
    BY <1>3, <1>5 DEF IInv

\* The steps that install a generation.  The first one replaces nothing: the
\* lock keeps _active at None while start builds.
LEMMA InstallSteps ==
    ASSUME TaskAssumption, GenAssumption, IInv, NEW t \in Tasks,
           StartInstalls(t) \/ ReloadInstalls(t) \/ RebuildInstalls(t)
    PROVE  IInv'
  <1> USE DEF Goto, ownerVars, genVars, taskVars, shutVars
  <1>1. op = t /\ ownerState = "open"
    BY DEF IInv, PcShape, LockPcs, StartInstalls, ReloadInstalls, RebuildInstalls
  <1>2. Install /\ UNCHANGED <<refs, closed, lease, shutVars, seen, stale, awaits, failing>>
    BY DEF StartInstalls, ReloadInstalls, RebuildInstalls
  <1>3. RetirePrevious
    BY DEF StartInstalls, ReloadInstalls, RebuildInstalls, RetirePrevious, IInv, PcShape
  <1>4. ReferencesExact' /\ GenShape' /\ CloseShape' /\ ShutdownShape'
    BY <1>1, <1>2, <1>3, SwapStep
  <1>5. /\ active' \in Gens
        /\ nextGen' \in 1..(MaxGen + 1)
        /\ retired' \in SUBSET Gens
        /\ closing' \in SUBSET Gens
        /\ closeCalls' \in [Gens -> Nat]
    <2> USE <1>2, <1>3 DEF Install, IInv, TypeOK
    <2>1. active' \in Gens /\ nextGen' \in 1..(MaxGen + 1)
      BY DEF Gens, GenAssumption
    <2>2. CASE active = NoGen
      BY <2>1, <2>2 DEF RetirePrevious
    <2>3. CASE active # NoGen
      <3>1. active \in Gens
        BY <2>3
      <3> QED
        <4>1. retired' = retired \union {active}
          BY <2>3 DEF RetirePrevious
        <4>2. CASE Unused(active)
          <5>1. /\ closing' = closing \union {active}
                /\ closeCalls' = [closeCalls EXCEPT ![active] = @ + 1]
            BY <2>3, <4>2 DEF RetirePrevious
          <5> QED
            BY <2>1, <3>1, <4>1, <5>1
        <4>3. CASE ~Unused(active)
          BY <2>1, <2>3, <3>1, <4>1, <4>3 DEF RetirePrevious
        <4> QED
          BY <4>2, <4>3
    <2> QED
      BY <2>2, <2>3
  <1>6. TypeOK' /\ PcShape'
    <2> USE <1>1, <1>2, <1>5 DEF IInv, TypeOK, PcShape, LeasePcs, LockPcs, RequestPcs,
            AdminPcs, TaskAssumption, DropLock, Install
    <2>1. CASE StartInstalls(t)
      BY <2>1 DEF StartInstalls
    <2>2. CASE ReloadInstalls(t)
      BY <2>2 DEF ReloadInstalls
    <2>3. CASE RebuildInstalls(t)
      BY <2>3 DEF RebuildInstalls
    <2> QED
      BY <2>1, <2>2, <2>3
  <1> QED
    BY <1>4, <1>6 DEF IInv

-----------------------------------------------------------------------------
(* Every step of the owner preserves the invariant.                        *)

LEMMA OwnerSteps ==
    ASSUME TaskAssumption, GenAssumption, IInv,
           \/ \E g \in Gens : CloseFinishes(g) \/ ShutdownCloses(g)
           \/ ConfigExpires \/ BeginClose \/ ShutdownFinishes
    PROVE  IInv'
  <1> USE DEF ownerVars, genVars, taskVars, shutVars, IInv
  <1>1. ASSUME NEW g \in Gens, CloseFinishes(g)
        PROVE  IInv'
    <2>1. TypeOK' /\ PcShape' /\ ReferencesExact' /\ GenShape'
      BY <1>1 DEF CloseFinishes, TypeOK, PcShape, ReferencesExact, GenShape, Holders
    <2>2. CloseShape' /\ ShutdownShape'
      BY <1>1 DEF CloseFinishes, TypeOK, CloseShape, ShutdownShape
    <2> QED
      BY <2>1, <2>2
  <1>2. ASSUME NEW g \in Gens, ShutdownCloses(g)
        PROVE  IInv'
    <2>1. TypeOK' /\ PcShape' /\ ReferencesExact' /\ GenShape' /\ ShutdownShape'
      BY <1>2 DEF ShutdownCloses, TypeOK, PcShape, ReferencesExact, GenShape,
                  ShutdownShape, Holders
    <2>2. CloseShape'
      BY <1>2 DEF ShutdownCloses, TypeOK, CloseShape
    <2> QED
      BY <2>1, <2>2
  <1>3. CASE ConfigExpires \/ BeginClose
    <2>1. TypeOK' /\ PcShape' /\ ShutdownShape'
      BY <1>3 DEF ConfigExpires, BeginClose, TypeOK, PcShape, ShutdownShape
    <2>2. ReferencesExact' /\ GenShape' /\ CloseShape'
      BY <1>3 DEF ConfigExpires, BeginClose, ReferencesExact, GenShape, CloseShape, Holders
    <2> QED
      BY <2>1, <2>2
  <1>4. CASE ShutdownFinishes
    <2>1. TypeOK' /\ PcShape'
      BY <1>4 DEF ShutdownFinishes, DropLock, TypeOK, PcShape, TaskAssumption, LockPcs
    <2>2. ReferencesExact' /\ GenShape' /\ CloseShape'
      BY <1>4 DEF ShutdownFinishes, ReferencesExact, GenShape, CloseShape, Holders
    <2>3. ShutdownShape'
      BY <1>4 DEF ShutdownFinishes, ShutdownShape, AllClosed, Registered
    <2> QED
      BY <2>1, <2>2, <2>3
  <1> QED
    BY <1>1, <1>2, <1>3, <1>4

LEMMA ShutdownMarksStep ==
    ASSUME TaskAssumption, GenAssumption, IInv, ShutdownMarks
    PROVE  IInv'
  <1> USE DEF ShutdownMarks, ownerVars, genVars, taskVars, shutVars, IInv, NoGen
  <1>1. CloseNow \subseteq Gens /\ ActiveIfAny \subseteq Gens
    BY DEF CloseNow, Registered, ActiveIfAny, TypeOK
  <1>2. TypeOK' /\ PcShape'
    BY <1>1 DEF TypeOK, PcShape, TakeLock, LockPcs, TaskAssumption
  <1>3. ReferencesExact'
    BY DEF ReferencesExact, Holders
  <1>4. GenShape'
    BY DEF GenShape, ActiveIfAny, TypeOK, Gens
  <1>5. closeNow = {}
    BY DEF ShutdownShape
  <1>6. CloseShape'
    <2>1. \A g \in CloseNow : g \notin closing /\ g \notin closed /\ refs[g] = 0 /\ g < nextGen
      BY DEF CloseNow, Unused, Registered
    <2>2. \A g \in retired' : g \notin closing /\ refs[g] = 0 => g \in CloseNow
      BY <1>2, <1>4 DEF CloseNow, Unused, Registered, GenShape, CloseShape, TypeOK
    <2>3. CloseNow \subseteq retired'
      BY <2>1, <1>1 DEF GenShape, ActiveIfAny, Gens
    <2>4. \A g \in retired' : g \in closing' <=> refs'[g] = 0
      BY <2>1, <2>2 DEF CloseShape
    <2> QED
      BY <1>1, <1>5, <2>1, <2>3, <2>4 DEF CloseShape, TypeOK
  <1>7. ShutdownShape'
    BY DEF ShutdownShape
  <1> QED
    BY <1>2, <1>3, <1>4, <1>6, <1>7

LEMMA NextInvariant ==
    ASSUME TaskAssumption, GenAssumption, IInv, [Next]_vars
    PROVE  IInv'
  <1>1. CASE UNCHANGED vars
    BY <1>1 DEF vars, ownerVars, genVars, taskVars, shutVars, IInv, TypeOK, PcShape,
       ReferencesExact, GenShape, CloseShape, ShutdownShape, Holders
  <1>2. ASSUME NEW t \in Requests,
               BeginRequest(t) \/ RequestStep(t) \/ ReloadDiscarded(t) \/ FlushFails(t) \/ FlushCancelled(t)
        PROVE  IInv'
    BY <1>2, QuietSteps, AcquireSteps, ReleaseSteps, InstallSteps DEF RequestStep, Tasks
  <1>3. ASSUME NEW t \in Admins, BeginRebuild(t) \/ AdminStep(t)
        PROVE  IInv'
    BY <1>3, QuietSteps, InstallSteps DEF AdminStep, Tasks
  <1>4. ASSUME NEW t \in Tasks, TakeTurn(t) \/ BuildDiscarded(t) \/ CancelWait(t)
        PROVE  IInv'
    BY <1>4, QuietSteps, AcquireSteps DEF TakeTurn
  <1>5. CASE ShutdownMarks
    BY <1>5, ShutdownMarksStep
  <1>6. CASE \/ \E g \in Gens : CloseFinishes(g)
             \/ ConfigExpires \/ BeginClose \/ ShutdownStep
    BY <1>6, OwnerSteps DEF ShutdownStep
  <1> QED
    BY <1>1, <1>2, <1>3, <1>4, <1>5, <1>6 DEF Next

\* The inductive invariant holds in every reachable state of RouterOwner.
THEOREM Invariance == Spec => []IInv
  <1>1. Init => IInv
    BY InitInvariant, TaskAssumption, GenAssumption
  <1>2. IInv /\ [Next]_vars => IInv'
    BY NextInvariant, TaskAssumption, GenAssumption
  <1> QED
    BY <1>1, <1>2, PTL DEF Spec

-----------------------------------------------------------------------------
(* The safety properties of RouterGenerations.                             *)

\* Every variable of the owner keeps its type.
THEOREM TypeCorrect == Spec => []TypeOK
  <1>1. IInv => TypeOK
    BY DEF IInv
  <1> QED
    BY <1>1, Invariance, PTL

\* No request works on a router whose close has begun (_release, the swap and
\* _shutdown never close a generation that somebody leases).
THEOREM LeasedRouterIsOpen == Spec => []NoUseAfterClose
  <1>1. IInv => NoUseAfterClose
    <2> SUFFICES ASSUME IInv, NEW t \in Tasks, lease[t] # NoGen
                 PROVE  closeCalls[lease[t]] = 0
      BY DEF NoUseAfterClose
    <2>1. lease[t] \in Gens
      BY DEF IInv, TypeOK
    <2>2. t \in Holders(lease[t])
      BY DEF Holders
    <2>3. Cardinality(Holders(lease[t])) # 0
      BY <2>2, HoldersFinite, TaskAssumption, FS_EmptySet
    <2>4. refs[lease[t]] # 0
      BY <2>1, <2>3 DEF IInv, ReferencesExact
    <2> QED
      BY <2>1, <2>4 DEF IInv, CloseShape
  <1> QED
    BY <1>1, Invariance, PTL

\* A generation is closed at most once.
THEOREM ClosedOnce == Spec => []ClosedByOne
  <1>1. IInv => ClosedByOne
    BY DEF IInv, CloseShape, ClosedByOne
  <1> QED
    BY <1>1, Invariance, PTL

\* The reference count of a generation is the number of leases that are out.
THEOREM ReferencesCounted == Spec => []ReferencesExact
  <1>1. IInv => ReferencesExact
    BY DEF IInv
  <1> QED
    BY <1>1, Invariance, PTL

\* close() returns only when every router is closed and no lease is out.
THEOREM ClosedMeansClosed == Spec => []ClosedOwnerOwnsNothing
  <1>1. IInv => ClosedOwnerOwnsNothing
    <2> SUFFICES ASSUME IInv, ownerState = "closed"
                 PROVE  Registered = {} /\ \A t \in Tasks : lease[t] = NoGen
      BY DEF ClosedOwnerOwnsNothing
    <2>1. Registered = {}
      BY DEF IInv, ShutdownShape, Registered
    <2>2. \A g \in Gens : refs[g] = 0
      BY DEF IInv, TypeOK, GenShape, CloseShape, ShutdownShape
    <2>3. ASSUME NEW t \in Tasks, lease[t] # NoGen PROVE FALSE
      <3>1. lease[t] \in Gens
        BY <2>3 DEF IInv, TypeOK
      <3>2. t \in Holders(lease[t])
        BY DEF Holders
      <3>3. Cardinality(Holders(lease[t])) # 0
        BY <3>2, HoldersFinite, TaskAssumption, FS_EmptySet
      <3> QED
        BY <2>2, <3>1, <3>3 DEF IInv, ReferencesExact
    <2> QED
      BY <2>1, <2>3
  <1> QED
    BY <1>1, Invariance, PTL

\* A retired generation is closed, being closed, leased, or on shutdown's list.
THEOREM NothingForgotten == Spec => []RetiredIsNotForgotten
  <1>1. IInv => RetiredIsNotForgotten
    <2> SUFFICES ASSUME IInv, NEW g \in Registered, g # active, ~(refs[g] > 0),
                        g \notin closeNow
                 PROVE  closeCalls[g] > 0
      BY DEF RetiredIsNotForgotten
    <2>1. g \in Gens /\ g \in retired /\ refs[g] = 0
      BY DEF Registered, IInv, TypeOK, GenShape
    <2> QED
      BY <2>1 DEF IInv, CloseShape
  <1> QED
    BY <1>1, Invariance, PTL

-----------------------------------------------------------------------------
(* RouterOwner implements GenerationLifecycle.                             *)

Status == [g \in Gens |-> StatusOf(g)]
HeldBy == [g \in Gens |-> Holders(g)]

LEMMA LifecycleInitially == Init => Lifecycle!LifecycleInit
  BY GenAssumption DEF Init, Lifecycle!LifecycleInit, Lifecycle!LifecycleGens, StatusOf,
     Holders, Gens, NoGen, GenAssumption

\* A step that leaves the leases and what a generation's status depends on
\* alone is invisible.
LEMMA InvisibleStep ==
    ASSUME UNCHANGED <<active, nextGen, closeCalls, lease>>
    PROVE  UNCHANGED Lifecycle!lifecycleVars
  BY DEF Lifecycle!lifecycleVars, StatusOf, Holders

\* Leasing the active generation is entering the one that serves.
LEMMA AcquireRefines ==
    ASSUME IInv, NEW t \in Tasks, lease[t] = NoGen, AcquireActive(t), UNCHANGED ownerVars
    PROVE  Lifecycle!LifecycleNext
  <1>1. active \in Gens /\ active < nextGen /\ active # NoGen
    BY DEF IInv, TypeOK, GenShape, AcquireActive, MayAcquire
  <1>2. NoGen \notin Gens
    BY DEF Gens, NoGen
  <1>3. Lifecycle!Enter(t, active)
    <2>1. Status[active] = "serving"
      BY <1>1 DEF Status, StatusOf, IInv, TypeOK, Gens
    <2>2. Status' = Status
      BY DEF Status, StatusOf, AcquireActive, ownerVars
    <2>3. HeldBy' = [HeldBy EXCEPT ![active] = @ \union {t}]
      <3>1. lease' = [lease EXCEPT ![t] = active] /\ lease \in [Tasks -> Gens \union {NoGen}]
        BY DEF AcquireActive, IInv, TypeOK
      <3>2. \A h \in Gens : Holders(h)' = IF h = active THEN Holders(h) \union {t} ELSE Holders(h)
        BY <3>1, <1>1, <1>2 DEF Holders
      <3> QED
        BY <3>2, <1>1 DEF HeldBy
    <2> QED
      BY <2>1, <2>2, <2>3, <1>1 DEF Lifecycle!Enter, Status, HeldBy
  <1> QED
    BY <1>1, <1>3 DEF Lifecycle!LifecycleNext, Lifecycle!LifecycleGens, Gens

\* Giving a lease back is leaving, and the last user of a draining generation
\* disposes of it.
LEMMA ReleaseRefines ==
    ASSUME TaskAssumption, IInv, NEW t \in Tasks, lease[t] # NoGen, GiveBack(t),
           UNCHANGED ownerVars
    PROVE  Lifecycle!LifecycleNext
  <1> DEFINE g == lease[t]
  <1>1. g \in Gens /\ t \in Holders(g)
    BY DEF IInv, TypeOK, Holders
  <1>2. IsFiniteSet(Holders(g)) /\ refs[g] = Cardinality(Holders(g)) /\ refs[g] # 0
    BY <1>1, HoldersFinite, FS_EmptySet DEF IInv, ReferencesExact
  <1>3. refs[g] = 1 <=> Holders(g) = {t}
    BY <1>1, <1>2, FS_Singleton
  <1>4. g < nextGen /\ g \notin closing /\ closeCalls[g] = 0
    BY <1>1, <1>2 DEF IInv, TypeOK, GenShape, CloseShape
  <1>5. LastReference(g) <=> Status[g] = "draining" /\ HeldBy[g] = {t}
    <2>1. ~(g >= nextGen) /\ (g \in retired <=> g # active)
      BY <1>1, <1>4 DEF IInv, TypeOK, GenShape, Gens
    <2>2. StatusOf(g) = IF g = active THEN "serving" ELSE "draining"
      BY <1>4, <2>1 DEF StatusOf
    <2> QED
      BY <1>1, <1>3, <1>4, <2>1, <2>2 DEF LastReference, Status, HeldBy
  <1>6. Status' = [Status EXCEPT ![g] =
                     IF @ = "draining" /\ HeldBy[g] = {t} THEN "disposed" ELSE @]
    <2>1. CASE LastReference(g)
      <3>1. closeCalls' = [closeCalls EXCEPT ![g] = 1] /\ UNCHANGED <<active, nextGen>>
        BY <2>1, <1>4 DEF GiveBack, ownerVars
      <3>2. g \in retired
        BY <2>1 DEF LastReference
      <3>3. g # active /\ ~(g >= nextGen)
        BY <1>1, <1>4, <3>2 DEF IInv, TypeOK, GenShape, Gens
      <3>4. \A h \in Gens : StatusOf(h)' = IF h = g THEN "disposed" ELSE StatusOf(h)
        BY <1>1, <3>1, <3>3 DEF StatusOf, IInv, TypeOK
      <3> QED
        BY <2>1, <1>1, <1>5, <3>4 DEF Status
    <2>2. CASE ~LastReference(g)
      BY <2>2, <1>1, <1>5 DEF GiveBack, Status, StatusOf, ownerVars
    <2> QED
      BY <2>1, <2>2
  <1>7. HeldBy' = [HeldBy EXCEPT ![g] = @ \ {t}]
    <2>1. lease' = [lease EXCEPT ![t] = NoGen] /\ lease \in [Tasks -> Gens \union {NoGen}]
      BY DEF GiveBack, IInv, TypeOK
    <2>2. NoGen \notin Gens
      BY DEF Gens, NoGen
    <2>3. \A h \in Gens : Holders(h)' = IF h = g THEN Holders(h) \ {t} ELSE Holders(h)
      BY <2>1, <2>2 DEF Holders
    <2> QED
      BY <2>3, <1>1 DEF HeldBy
  <1>8. Lifecycle!Leave(t, g)
    BY <1>1, <1>6, <1>7 DEF Lifecycle!Leave, Status, HeldBy
  <1> QED
    BY <1>1, <1>8 DEF Lifecycle!LifecycleNext, Lifecycle!LifecycleGens, Gens

\* A swap publishes the next generation.
LEMMA SwapRefines ==
    ASSUME TaskAssumption, IInv, Install, RetirePrevious, UNCHANGED lease
    PROVE  Lifecycle!LifecycleNext
  <1> DEFINE n == nextGen
  <1> USE DEF IInv
  <1>1. n \in Gens /\ n \in Nat /\ active < n /\ active' = n /\ nextGen' = n + 1
    BY DEF Install, Gens, GenShape, TypeOK
  <1>2. Status[n] = "unborn" /\ HeldBy' = HeldBy
    BY <1>1 DEF Status, StatusOf, HeldBy, Holders
  <1>3. Status' = [h \in Gens |->
                     IF h = n THEN "serving"
                     ELSE IF Status[h] = "serving"
                          THEN IF HeldBy[h] = {} THEN "disposed" ELSE "draining"
                          ELSE Status[h]]
    <2> SUFFICES ASSUME NEW h \in Gens
                 PROVE  StatusOf(h)' =
                     (IF h = n THEN "serving"
                     ELSE IF Status[h] = "serving"
                          THEN IF HeldBy[h] = {} THEN "disposed" ELSE "draining"
                          ELSE Status[h])
      BY DEF Status
    <2>1. CASE h = n
      BY <2>1, <1>1 DEF StatusOf
    <2>2. CASE h = active /\ h # n
      <3>1. h < n /\ Status[h] = "serving" /\ h \notin closing /\ closeCalls[h] = 0 /\ h # NoGen
        BY <2>2, <1>1 DEF Status, StatusOf, GenShape, CloseShape, TypeOK, Gens, NoGen
      <3>2. refs[h] = 0 <=> HeldBy[h] = {}
        BY HoldersFinite, FS_EmptySet DEF HeldBy, ReferencesExact
      <3>3. closeCalls'[h] = 0 <=> refs[h] # 0
        BY <2>2, <3>1 DEF RetirePrevious, Unused, TypeOK
      <3>4. StatusOf(h)' = IF closeCalls'[h] = 0 THEN "draining" ELSE "disposed"
        BY <2>2, <1>1, <3>1 DEF StatusOf, Gens
      <3> QED
        BY <2>2, <3>1, <3>2, <3>3, <3>4
    <2>3. CASE h # active /\ h # n
      <3>1. closeCalls'[h] = closeCalls[h]
        BY <2>3 DEF RetirePrevious, TypeOK
      <3>2. (h >= n + 1) <=> (h >= n)
        BY <2>3, <1>1 DEF Gens
      <3>3. StatusOf(h)' = StatusOf(h) /\ Status[h] # "serving"
        BY <2>3, <1>1, <3>1, <3>2 DEF StatusOf, Status
      <3> QED
        BY <2>3, <3>3 DEF Status
    <2> QED
      BY <2>1, <2>2, <2>3
  <1>4. Lifecycle!Publish(n)
    BY <1>1, <1>2, <1>3 DEF Lifecycle!Publish, Lifecycle!Retired, Lifecycle!LifecycleGens,
       Status, HeldBy, Gens
  <1> QED
    BY <1>1, <1>4 DEF Lifecycle!LifecycleNext, Lifecycle!LifecycleGens, Gens

\* Shutdown stops the generation that serves.
LEMMA ShutdownMarksRefines ==
    ASSUME IInv, ShutdownMarks
    PROVE  Lifecycle!LifecycleNext
  <1>1. Status' = [g \in Gens |-> IF Status[g] = "serving" THEN "draining" ELSE Status[g]]
    <2> SUFFICES ASSUME NEW g \in Gens
                 PROVE  StatusOf(g)' = (IF StatusOf(g) = "serving" THEN "draining" ELSE StatusOf(g))
      BY DEF Status
    <2>1. active' = NoGen /\ g # NoGen /\ UNCHANGED <<nextGen, closeCalls>>
      BY DEF ShutdownMarks, Gens, NoGen
    <2>2. g = active => closeCalls[g] = 0
      BY DEF IInv, TypeOK, GenShape, CloseShape
    <2> QED
      BY <2>1, <2>2 DEF StatusOf
  <1>2. HeldBy' = HeldBy
    BY DEF HeldBy, Holders, ShutdownMarks, taskVars
  <1>3. Lifecycle!StopServing
    BY <1>1, <1>2 DEF Lifecycle!StopServing, Lifecycle!LifecycleGens, Status, HeldBy, Gens
  <1> QED
    BY <1>3 DEF Lifecycle!LifecycleNext

\* Shutdown disposes of an idle generation.
LEMMA ShutdownClosesRefines ==
    ASSUME TaskAssumption, IInv, NEW g \in Gens, ShutdownCloses(g)
    PROVE  Lifecycle!LifecycleNext
  <1> USE DEF IInv
  <1>1. g \in retired /\ refs[g] = 0 /\ closeCalls[g] = 0
    BY DEF ShutdownCloses, CloseShape
  <1>2. HeldBy[g] = {} /\ HeldBy' = HeldBy
    <2>1. Holders(g) = {}
      BY <1>1, HoldersFinite, FS_EmptySet DEF ReferencesExact
    <2> QED
      BY <2>1 DEF HeldBy, Holders, ShutdownCloses, taskVars
  <1>3. Status[g] = "draining"
    BY <1>1 DEF Status, StatusOf, GenShape, TypeOK, Gens
  <1>4. Status' = [Status EXCEPT ![g] = "disposed"]
    <2>1. closeCalls' = [closeCalls EXCEPT ![g] = 1] /\ UNCHANGED ownerVars
      BY <1>1 DEF ShutdownCloses
    <2>2. \A h \in Gens : StatusOf(h)' = IF h = g THEN "disposed" ELSE StatusOf(h)
      <3>1. ~(g >= nextGen) /\ g # active
        BY <1>3 DEF Status, StatusOf
      <3> QED
        BY <2>1, <3>1 DEF StatusOf, TypeOK, ownerVars
    <2> QED
      BY <2>2 DEF Status
  <1>5. Lifecycle!Dispose(g)
    BY <1>2, <1>3, <1>4 DEF Lifecycle!Dispose, Status, HeldBy
  <1> QED
    BY <1>5 DEF Lifecycle!LifecycleNext, Lifecycle!LifecycleGens, Gens

LEMMA NextRefines ==
    ASSUME TaskAssumption, GenAssumption, IInv, [Next]_vars
    PROVE  [Lifecycle!LifecycleNext]_(Lifecycle!lifecycleVars)
  <1> USE DEF ownerVars, genVars, taskVars, shutVars
  <1>1. CASE UNCHANGED <<active, nextGen, closeCalls, lease>>
    BY <1>1, InvisibleStep
  <1>2. ASSUME NEW t \in Tasks, Acquire(t) \/ TakeReload(t) \/ Reacquire(t),
               ~UNCHANGED <<active, nextGen, closeCalls, lease>>
        PROVE  Lifecycle!LifecycleNext
    <2>1. lease[t] = NoGen
      BY <1>2 DEF IInv, PcShape, LeasePcs, Acquire, TakeReload, Reacquire
    <2>2. AcquireActive(t) /\ UNCHANGED ownerVars
      BY <1>2 DEF Acquire, TakeReload, Reacquire, AcquireRaises
    <2> QED
      BY <2>1, <2>2, AcquireRefines
  <1>3. ASSUME NEW t \in Tasks, ReleaseStale(t) \/ ReleaseLocked(t) \/ EndUse(t)
        PROVE  Lifecycle!LifecycleNext
    <2>1. lease[t] # NoGen
      BY <1>3 DEF IInv, PcShape, LeasePcs, ReleaseStale, ReleaseLocked, EndUse
    <2>2. GiveBack(t) /\ UNCHANGED ownerVars
      BY <1>3 DEF ReleaseStale, ReleaseLocked, EndUse, ReleaseLease
    <2> QED
      BY <2>1, <2>2, ReleaseRefines
  <1>4. ASSUME NEW t \in Tasks, StartInstalls(t) \/ ReloadInstalls(t) \/ RebuildInstalls(t)
        PROVE  Lifecycle!LifecycleNext
    <2>1. Install /\ UNCHANGED lease
      BY <1>4 DEF StartInstalls, ReloadInstalls, RebuildInstalls
    <2>2. RetirePrevious
      BY <1>4 DEF StartInstalls, ReloadInstalls, RebuildInstalls, RetirePrevious, IInv, PcShape
    <2> QED
      BY <2>1, <2>2, SwapRefines
  <1>5. ASSUME NEW t \in Tasks,
           \/ BeginRequest(t) \/ StartReturns(t) \/ StartBuilds(t)
           \/ BuildFails(t) \/ BuildDiscarded(t) \/ UninstalledClosed(t)
           \/ StaleClosed(t) \/ ReloadFails(t) \/ ReloadDiscarded(t)
           \/ ReloadRouterClosed(t) \/ LockedClosed(t) \/ FinalClosed(t)
           \/ CancelWait(t) \/ BeginRebuild(t) \/ TakeRebuild(t)
           \/ BeginFlush(t) \/ FlushEnds(t) \/ FlushFails(t) \/ FlushCancelled(t)
        PROVE  UNCHANGED <<active, nextGen, closeCalls, lease>>
    BY <1>5 DEF BeginRequest, StartReturns, StartBuilds, BuildFails, BuildDiscarded,
       UninstalledClosed, StaleClosed, ReloadFails, ReloadDiscarded, ReloadRouterClosed,
       LockedClosed, FinalClosed, CancelWait, BeginRebuild, TakeRebuild,
           BeginFlush, FlushEnds, FlushFails, FlushCancelled
  <1>6. ASSUME NEW g \in Gens, ShutdownCloses(g)
        PROVE  Lifecycle!LifecycleNext
    BY <1>6, ShutdownClosesRefines
  <1>7. CASE ShutdownMarks
    BY <1>7, ShutdownMarksRefines
  <1>8. ASSUME \/ \E g \in Gens : CloseFinishes(g)
               \/ ConfigExpires \/ BeginClose \/ ShutdownFinishes \/ UNCHANGED vars
        PROVE  UNCHANGED <<active, nextGen, closeCalls, lease>>
    BY <1>8 DEF CloseFinishes, ConfigExpires, BeginClose, ShutdownFinishes, vars
  <1>9. CASE \E t \in Requests : BeginRequest(t) \/ RequestStep(t) \/ ReloadDiscarded(t) \/ FlushFails(t) \/ FlushCancelled(t)
    BY <1>1, <1>2, <1>3, <1>4, <1>5, <1>9 DEF RequestStep, Tasks
  <1>10. CASE \E t \in Admins : BeginRebuild(t) \/ AdminStep(t)
    BY <1>1, <1>4, <1>5, <1>10 DEF AdminStep, Tasks
  <1>11. CASE \E t \in Tasks : TakeTurn(t) \/ BuildDiscarded(t) \/ CancelWait(t)
    BY <1>1, <1>2, <1>5, <1>11 DEF TakeTurn
  <1> QED
    BY <1>1, <1>6, <1>7, <1>8, <1>9, <1>10, <1>11 DEF Next, ShutdownStep

\* RouterOwner keeps the promise of GenerationLifecycle for any number of
\* requests, rebuilds and generations.
THEOREM Refinement == Spec => ImplementsLifecycle
  <1>1. Init => Lifecycle!LifecycleInit
    BY LifecycleInitially
  <1>2. IInv /\ [Next]_vars => [Lifecycle!LifecycleNext]_(Lifecycle!lifecycleVars)
    BY NextRefines, TaskAssumption, GenAssumption
  <1> QED
    BY <1>1, <1>2, Invariance, PTL DEF Spec, ImplementsLifecycle, Lifecycle!LifecycleSpec

-----------------------------------------------------------------------------
(* A reload replaces only what is stale.                                   *)

\* While a request rebuilds, the generation it saw is active and stale: nobody
\* else can swap it out, because the request holds the operation lock.
ReloadInv == \A t \in Requests : pc[t] = "reloadBuild" => StillStale(t)

LEMMA ReloadInvStep ==
    ASSUME TaskAssumption, IInv, IInv', ReloadInv, [Next]_vars
    PROVE  ReloadInv'
  <1> SUFFICES ASSUME NEW r \in Requests, pc'[r] = "reloadBuild"
               PROVE  active' = seen'[r] /\ active' \in stale'
    BY DEF ReloadInv, StillStale
  <1> USE DEF ownerVars, genVars, taskVars, shutVars, Goto, StillStale
  <1>1. r \in Tasks /\ op' = r /\ (pc[r] = "reloadBuild" => op = r)
    BY DEF IInv, PcShape, LockPcs, Tasks
  <1>2. pc \in [Tasks -> RequestPcs \union AdminPcs] /\ seen \in [Tasks -> Gens \union {NoGen}]
    BY DEF IInv, TypeOK
  <1>3. CASE TakeReload(r)
    BY <1>1, <1>2, <1>3 DEF TakeReload, AcquireRaises, AcquireActive
  <1>4. CASE UNCHANGED <<active, seen, stale>> /\ pc[r] = "reloadBuild"
    BY <1>4 DEF ReloadInv
  <1>5. ASSUME NEW t \in Tasks,
           \/ BeginRequest(t) \/ StartReturns(t) \/ StartBuilds(t)
           \/ BuildFails(t) \/ BuildDiscarded(t) \/ UninstalledClosed(t)
           \/ StaleClosed(t) \/ ReloadFails(t) \/ ReloadDiscarded(t)
           \/ ReloadRouterClosed(t) \/ LockedClosed(t) \/ FinalClosed(t)
           \/ CancelWait(t) \/ BeginRebuild(t) \/ TakeRebuild(t)
           \/ BeginFlush(t) \/ FlushEnds(t) \/ FlushFails(t) \/ FlushCancelled(t)
           \/ ReleaseStale(t) \/ ReleaseLocked(t) \/ EndUse(t) \/ Reacquire(t)
        PROVE  UNCHANGED <<active, seen, stale>> /\ pc[r] = "reloadBuild"
    BY <1>1, <1>2, <1>5 DEF BeginRequest, StartReturns, StartBuilds, BuildFails, BuildDiscarded,
       UninstalledClosed, StaleClosed, ReloadFails, ReloadDiscarded, ReloadRouterClosed,
       LockedClosed, FinalClosed, CancelWait, BeginRebuild, TakeRebuild,
           BeginFlush, FlushEnds, FlushFails, FlushCancelled, ReleaseStale,
       ReleaseLocked, EndUse, Reacquire, ReleaseLease, AcquireRaises, AfterReload
  <1>6. ASSUME NEW t \in Tasks, TakeReload(t), t # r
        PROVE  UNCHANGED <<active, seen, stale>> /\ pc[r] = "reloadBuild"
    BY <1>1, <1>2, <1>6 DEF TakeReload, AcquireRaises
  <1>7. ASSUME NEW t \in Tasks, Acquire(t)
        PROVE  UNCHANGED <<active, stale>> /\ seen'[r] = seen[r] /\ pc[r] = "reloadBuild"
    BY <1>1, <1>2, <1>7 DEF Acquire, AcquireRaises
  <1>8. ASSUME NEW t \in Tasks, StartInstalls(t) \/ ReloadInstalls(t) \/ RebuildInstalls(t)
        PROVE  FALSE
    <2>1. op = t /\ pc'[t] # "reloadBuild" /\ (t # r => pc'[r] = pc[r])
      BY <1>1, <1>2, <1>8 DEF IInv, PcShape, LockPcs, StartInstalls, ReloadInstalls, RebuildInstalls
    <2> QED
      BY <2>1, <1>1
  <1>9. ASSUME \/ \E g \in Gens : CloseFinishes(g) \/ ShutdownCloses(g)
               \/ BeginClose \/ UNCHANGED vars
        PROVE  UNCHANGED <<active, seen, stale>> /\ pc[r] = "reloadBuild"
    BY <1>9 DEF CloseFinishes, ShutdownCloses, BeginClose, vars
  <1>10. ASSUME ConfigExpires
         PROVE  UNCHANGED <<active, seen>> /\ stale \subseteq stale' /\ pc[r] = "reloadBuild"
    BY <1>10 DEF ConfigExpires
  <1>11. ASSUME ShutdownMarks \/ ShutdownFinishes
         PROVE  FALSE
    BY <1>1, <1>11 DEF ShutdownMarks, ShutdownFinishes, TakeLock, DropLock, TaskAssumption
  <1>12. CASE \E t \in Requests : BeginRequest(t) \/ RequestStep(t) \/ ReloadDiscarded(t) \/ FlushFails(t) \/ FlushCancelled(t)
    BY <1>4, <1>5, <1>7, <1>8, <1>12 DEF RequestStep, Tasks, ReloadInv
  <1>13. CASE \E t \in Admins : BeginRebuild(t) \/ AdminStep(t)
    BY <1>4, <1>5, <1>8, <1>13 DEF AdminStep, Tasks
  <1>14. CASE \E t \in Tasks : TakeTurn(t) \/ BuildDiscarded(t) \/ CancelWait(t)
    BY <1>3, <1>4, <1>5, <1>6, <1>14 DEF TakeTurn
  <1>15. CASE \/ \E g \in Gens : CloseFinishes(g)
              \/ ConfigExpires \/ BeginClose \/ ShutdownMarks \/ ShutdownStep \/ UNCHANGED vars
    BY <1>4, <1>9, <1>10, <1>11, <1>15 DEF ShutdownStep, ReloadInv
  <1> QED
    BY <1>12, <1>13, <1>14, <1>15 DEF Next

\* The users of a generation are counted exactly; it is closed when nobody works on it, by one
\* task and by no second, is never forgotten and is gone when close() has returned, for any
\* number of requests and rebuilds.
THEOREM AllClosedOnce == Spec => []ClosedExactlyOnce
  <1>1. ReferencesExact /\ NoUseAfterClose /\ ClosedByOne /\ RetiredIsNotForgotten /\ ClosedOwnerOwnsNothing
            => ClosedExactlyOnce
    BY DEF ClosedExactlyOnce
  <1> QED
    BY <1>1, ReferencesCounted, LeasedRouterIsOpen, ClosedOnce, NothingForgotten, ClosedMeansClosed, PTL

\* A request replaces only the expired generation it saw, so requests that
\* waited for the same reload do not replace its result again.
THEOREM ReloadsOnlyStale == Spec => []ReloadReplacesOnlyStale
  <1>1. Init => ReloadInv
    BY DEF Init, ReloadInv, Tasks
  <1>2. IInv /\ IInv' /\ ReloadInv /\ [Next]_vars => ReloadInv'
    BY ReloadInvStep, TaskAssumption
  <1>3. ReloadInv => ReloadReplacesOnlyStale
    BY DEF ReloadInv, StillStale, ReloadReplacesOnlyStale
  <1> QED
    BY <1>1, <1>2, <1>3, Invariance, PTL DEF Spec
=============================================================================
