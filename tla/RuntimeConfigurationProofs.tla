--------------------- MODULE RuntimeConfigurationProofs ---------------------
(***************************************************************************)
(* What the administrative operations guarantee for any set of tasks:      *)
(* nothing serves that was never persisted, a login that was acknowledged  *)
(* stands, and the active and the persisted configuration differ only      *)
(* through a snapshot that was read before its rebuild.                    *)
(***************************************************************************)
EXTENDS DeviceLogins, FiniteSetTheorems, TLAPS

\* Where a PATCH is between reading a revision and its answer.
UnderWay == {"sent", "wait", "build"}

\* What a task may install was persisted once.
OnlyCommitted ==
    /\ active \in committed
    /\ file \in committed
    /\ \A t \in Tasks : base[t] \in committed

\* While a login has not failed, only another write replaces its credential.
LoginsInForce ==
    \A t \in Logins : lastWriter = t /\ pc[t] # "failed" => credential = KeyOf(t)

\* The same for a logout.
LogoutsInForce ==
    \A t \in Logouts : lastWriter = t /\ pc[t] # "failed" => credential = NoCred

\* A reload holds the lock and rebuilds what is active.
LockShape ==
    /\ \A t \in Tasks : pc[t] = "build" => op = t
    /\ \A t \in Reloaders : pc[t] = "build" => base[t] = active

LEMMA TypeInitially == Init => TypeOK
  BY ConfigAssumption DEF Init, TypeOK, Creds

LEMMA TypeStep == TypeOK /\ [Next]_vars => TypeOK'
  <1> SUFFICES ASSUME TypeOK, [Next]_vars PROVE TypeOK'
    OBVIOUS
  <1> USE DEF TypeOK, configVars, credVars, localVars, Goto, Ends
  <1>1. ASSUME NEW t \in Patchers, SendPatch(t) \/ PatchArrives(t) PROVE TypeOK'
    BY <1>1 DEF SendPatch, PatchArrives, Tasks
  <1>2. ASSUME NEW t \in Refreshers, RefreshReads(t) PROVE TypeOK'
    BY <1>2 DEF RefreshReads, Tasks
  <1>3. ASSUME NEW t \in Reloaders, ReloadWaits(t) PROVE TypeOK'
    BY <1>3 DEF ReloadWaits, Tasks
  <1>4. ASSUME NEW t \in Mutators, MutationWrites(t) \/ OAuthReadsPrevious(t) PROVE TypeOK'
    BY <1>4 DEF MutationWrites, OAuthReadsPrevious, Write, Written, Tasks, Mutators, Logins, Creds
  <1>5. ASSUME NEW t \in OAuthLogins,
               OAuthFails(t) \/ OAuthWrites(t) \/ OAuthCompensates(t) \/ OAuthReadsConfig(t)
        PROVE TypeOK'
    <2>1. t \in Tasks /\ Written(t) \in Creds /\ t \in Mutators
      BY DEF Written, Tasks, Mutators, Logins, Creds
    <2> QED
      BY <1>5, <2>1 DEF OAuthFails, OAuthWrites, OAuthCompensates, OAuthReadsConfig, Write, Compensated
  <1>6. ASSUME NEW t \in Tasks, TakeLock(t) PROVE TypeOK'
    BY <1>6 DEF TakeLock
  <1>7. ASSUME NEW t \in Tasks, Swap(t) PROVE TypeOK'
    BY <1>7 DEF Swap, DropLock, CommitPatch, ConflictAtSwap, PersistWithSwap
  <1>8. ASSUME NEW t \in Tasks, RebuildFails(t) PROVE TypeOK'
    BY <1>8 DEF RebuildFails, Compensated
  <1>9. CASE UNCHANGED vars
    BY <1>9 DEF vars
  <1> QED
    BY <1>1, <1>2, <1>3, <1>4, <1>5, <1>6, <1>7, <1>8, <1>9 DEF Next

\* Every variable keeps its type.
THEOREM ConfigTypes == Spec => []TypeOK
  BY TypeInitially, TypeStep, PTL DEF Spec

\* A PATCH that fails, is cancelled or conflicts leaves nothing behind that
\* another operation could put in service (update_priorities, before_swap).
THEOREM CommittedOnly == Spec => []NothingUncommittedServes
  <1>1. Init => OnlyCommitted
    BY DEF Init, OnlyCommitted
  <1>2. TypeOK /\ OnlyCommitted /\ [Next]_vars => OnlyCommitted'
    <2> SUFFICES ASSUME TypeOK, OnlyCommitted, [Next]_vars PROVE OnlyCommitted'
      OBVIOUS
    <2> USE DEF TypeOK, OnlyCommitted, configVars, localVars
    <2>1. ASSUME NEW t \in Tasks,
             \/ SendPatch(t) \/ PatchArrives(t) \/ RefreshReads(t) \/ ReloadWaits(t)
             \/ MutationWrites(t) \/ OAuthReadsPrevious(t) \/ OAuthFails(t) \/ OAuthWrites(t)
             \/ OAuthCompensates(t) \/ OAuthReadsConfig(t) \/ TakeLock(t) \/ RebuildFails(t)
          PROVE OnlyCommitted'
      BY <2>1 DEF SendPatch, PatchArrives, RefreshReads, ReloadWaits, MutationWrites,
         OAuthReadsPrevious, OAuthFails, OAuthWrites, OAuthCompensates, OAuthReadsConfig, TakeLock, RebuildFails
    <2>2. ASSUME NEW t \in Tasks, Swap(t) PROVE OnlyCommitted'
      BY <2>2 DEF Swap, CommitPatch, ConflictAtSwap, PersistWithSwap
    <2>3. CASE UNCHANGED vars
      BY <2>3 DEF vars
    <2> QED
      BY <2>1, <2>2, <2>3 DEF Next, Tasks, Mutators, Logins
  <1>3. OnlyCommitted => NothingUncommittedServes
    BY DEF OnlyCommitted, NothingUncommittedServes
  <1> QED
    BY <1>1, <1>2, <1>3, ConfigTypes, PTL DEF Spec

\* Where no two logins carry one key, a login that was acknowledged and wrote
\* last is not undone by the compensation of any other operation.
THEOREM LoginStands ==
    ASSUME \A t, u \in Logins : KeyOf(t) = KeyOf(u) => t = u
    PROVE  Spec => []AcknowledgedLoginStands
  <1>1. Init => LoginsInForce
    BY NoTaskAssumption DEF Init, LoginsInForce, Tasks, Mutators
  <1>2. TypeOK /\ LoginsInForce /\ [Next]_vars => LoginsInForce'
    <2> SUFFICES ASSUME TypeOK, LoginsInForce, [Next]_vars,
                        NEW u \in Logins, lastWriter' = u, pc'[u] # "failed"
                 PROVE  credential' = KeyOf(u)
      BY DEF LoginsInForce
    <2> USE DEF TypeOK, LoginsInForce, credVars, Goto, Ends
    <2>1. ASSUME NEW t \in Tasks,
             \/ SendPatch(t) \/ PatchArrives(t) \/ RefreshReads(t) \/ ReloadWaits(t)
             \/ OAuthReadsPrevious(t) \/ OAuthFails(t) \/ OAuthReadsConfig(t)
             \/ TakeLock(t) \/ Swap(t)
          PROVE credential' = KeyOf(u)
      <3>1. UNCHANGED credVars /\ (pc[u] = "failed" => pc'[u] = "failed")
        BY <2>1 DEF SendPatch, PatchArrives, RefreshReads, ReloadWaits, OAuthReadsPrevious,
           OAuthFails, OAuthReadsConfig, TakeLock, Swap, CommitPatch, ConflictAtSwap, Tasks, Mutators
      <3> QED
        BY <3>1
    <2>2. ASSUME NEW t \in Tasks, MutationWrites(t) \/ OAuthWrites(t) PROVE credential' = KeyOf(u)
      <3>1. CASE Write(t)
        <4>1. t = u
          BY <3>1 DEF Write
        <4>2. u \notin Logouts
          BY KindAssumption
        <4> QED
          BY <3>1, <4>1, <4>2 DEF Write, Written
      <3>2. CASE ~Write(t)
        BY <2>2, <3>2 DEF MutationWrites, OAuthWrites, Tasks, Mutators
      <3> QED
        BY <3>1, <3>2
    <2>3. ASSUME NEW t \in Tasks,
             \/ t \in OAuthLogins /\ OAuthCompensates(t)
             \/ RebuildFails(t)
          PROVE credential' = KeyOf(u)
      <3>1. pc'[t] = "failed" /\ lastWriter = u
        BY <2>3 DEF OAuthCompensates, RebuildFails
      <3>2. t # u /\ pc[u] # "failed" /\ credential = KeyOf(u)
        BY <2>3, <3>1 DEF OAuthCompensates, RebuildFails, Tasks, Mutators
      <3>3. t \in Mutators => Written(t) # KeyOf(u)
        BY <3>2, CredAssumption DEF Written, Mutators
      <3> QED
        BY <2>3, <3>2, <3>3 DEF OAuthCompensates, RebuildFails, Compensated, Mutators, Logins
    <2>4. CASE UNCHANGED vars
      BY <2>4 DEF vars
    <2> QED
      BY <2>1, <2>2, <2>3, <2>4 DEF Next, Tasks, Mutators, Logins
  <1>3. LoginsInForce => AcknowledgedLoginStands
    BY DEF LoginsInForce, AcknowledgedLoginStands
  <1> QED
    BY <1>1, <1>2, <1>3, ConfigTypes, PTL DEF Spec

\* Where one logout runs, its acknowledgement is final as well: only another
\* logout expects "no credential" when it compensates.
THEOREM LogoutStands ==
    ASSUME \A u, v \in Logouts : u = v
    PROVE  Spec => []AcknowledgedLogoutStands
  <1>1. Init => LogoutsInForce
    BY NoTaskAssumption DEF Init, LogoutsInForce, Tasks, Mutators
  <1>2. TypeOK /\ LogoutsInForce /\ [Next]_vars => LogoutsInForce'
    <2> SUFFICES ASSUME TypeOK, LogoutsInForce, [Next]_vars,
                        NEW u \in Logouts, lastWriter' = u, pc'[u] # "failed"
                 PROVE  credential' = NoCred
      BY DEF LogoutsInForce
    <2> USE DEF TypeOK, LogoutsInForce, credVars, Goto, Ends
    <2>1. ASSUME NEW t \in Tasks,
             \/ SendPatch(t) \/ PatchArrives(t) \/ RefreshReads(t) \/ ReloadWaits(t)
             \/ OAuthReadsPrevious(t) \/ OAuthFails(t) \/ OAuthReadsConfig(t)
             \/ TakeLock(t) \/ Swap(t)
          PROVE credential' = NoCred
      <3>1. UNCHANGED credVars /\ (pc[u] = "failed" => pc'[u] = "failed")
        BY <2>1 DEF SendPatch, PatchArrives, RefreshReads, ReloadWaits, OAuthReadsPrevious,
           OAuthFails, OAuthReadsConfig, TakeLock, Swap, CommitPatch, ConflictAtSwap, Tasks, Mutators
      <3> QED
        BY <3>1
    <2>2. ASSUME NEW t \in Tasks, MutationWrites(t) \/ OAuthWrites(t) PROVE credential' = NoCred
      <3>1. CASE Write(t)
        <4>1. t = u
          BY <3>1 DEF Write
        <4> QED
          BY <3>1, <4>1 DEF Write, Written
      <3>2. CASE ~Write(t)
        BY <2>2, <3>2 DEF MutationWrites, OAuthWrites, Tasks, Mutators
      <3> QED
        BY <3>1, <3>2
    <2>3. ASSUME NEW t \in Tasks,
             \/ t \in OAuthLogins /\ OAuthCompensates(t)
             \/ RebuildFails(t)
          PROVE credential' = NoCred
      <3>1. pc'[t] = "failed" /\ lastWriter = u
        BY <2>3 DEF OAuthCompensates, RebuildFails
      <3>2. t # u /\ pc[u] # "failed" /\ credential = NoCred
        BY <2>3, <3>1 DEF OAuthCompensates, RebuildFails, Tasks, Mutators
      <3>3. t \in Mutators => Written(t) # NoCred
        BY <3>2, CredAssumption DEF Written, Mutators
      <3> QED
        BY <2>3, <3>2, <3>3 DEF OAuthCompensates, RebuildFails, Compensated, Mutators, Logins
    <2>4. CASE UNCHANGED vars
      BY <2>4 DEF vars
    <2> QED
      BY <2>1, <2>2, <2>3, <2>4 DEF Next, Tasks, Mutators, Logins
  <1>3. LogoutsInForce => AcknowledgedLogoutStands
    BY DEF LogoutsInForce, AcknowledgedLogoutStands
  <1> QED
    BY <1>1, <1>2, <1>3, ConfigTypes, PTL DEF Spec

\* Where one logout runs and no two logins carry one key, both are final.
THEOREM WritesStand ==
    ASSUME \A t, u \in Logins : KeyOf(t) = KeyOf(u) => t = u,
           \A u, v \in Logouts : u = v
    PROVE  Spec => []AcknowledgedWritesStand
  BY LoginStands, LogoutStands, PTL DEF AcknowledgedWritesStand

\* Until a login writes, nobody has seen its credential; and it would not restore its own.
KeysAreFresh ==
    \A t \in Logins :
        /\ previous[t] # KeyOf(t)
        /\ pc[t] \in {"idle", "write"} =>
               credential # KeyOf(t) /\ \A u \in Mutators : previous[u] # KeyOf(t)

\* What a login that failed wrote is in the file only if an operation that had built on it was
\* taken back in its turn (_rebuild_after_credential_mutation of each).
THEOREM FailuresLeaveNothing ==
    ASSUME \A t, u \in Logins : KeyOf(t) = KeyOf(u) => t = u,
           \A t \in Logins : KeyOf(t) # FirstCred
    PROVE  Spec => []FailedLoginsLeaveNothing
  <1> DEFINE Inv == KeysAreFresh /\ FailedLoginsLeaveNothing
  <1> USE DEF Inv, KeysAreFresh, FailedLoginsLeaveNothing
  <1>1. Init => Inv
    <2>1. \A t \in Logins : t \in Mutators /\ t \in Tasks /\ KeyOf(t) # NoCred
      BY CredAssumption DEF Mutators, Tasks
    <2>2. \A u \in Mutators : u \in Tasks
      BY DEF Tasks
    <2> QED
      BY <2>1, <2>2 DEF Init
  <1>2. TypeOK /\ Inv /\ [Next]_vars => Inv'
    <2> SUFFICES ASSUME TypeOK, Inv, [Next]_vars PROVE Inv'
      OBVIOUS
    <2> USE DEF TypeOK, credVars, localVars, Goto
    <2>0. /\ \A u \in Mutators : u \in Tasks
          /\ \A t \in Logins : t \in Mutators /\ t \notin Logouts /\ KeyOf(t) # NoCred
          /\ OAuthLogins \subseteq Logins
      BY KindAssumption, CredAssumption DEF Tasks, Mutators, Logins
    <2>1. ASSUME NEW t \in Tasks,
             \/ SendPatch(t) \/ PatchArrives(t) \/ RefreshReads(t) \/ ReloadWaits(t)
             \/ t \in OAuthLogins /\ OAuthReadsConfig(t)
             \/ TakeLock(t) \/ Swap(t)
          PROVE  Inv'
      <3>1. credential' = credential /\ previous' = previous
        BY <2>1 DEF SendPatch, PatchArrives, RefreshReads, ReloadWaits, OAuthReadsConfig,
           TakeLock, Swap
      <3>2. \A u \in Mutators : /\ pc'[u] \in {"idle", "write", "failed"} => pc'[u] = pc[u]
                                /\ pc[u] = "failed" => pc'[u] = "failed"
        BY <2>0, <2>1 DEF SendPatch, PatchArrives, RefreshReads, ReloadWaits, OAuthReadsConfig,
           TakeLock, Swap, CommitPatch, ConflictAtSwap
      <3> QED
        BY <2>0, <3>1, <3>2
    <2>2. ASSUME NEW t \in Mutators, MutationWrites(t) \/ OAuthReadsPrevious(t) PROVE Inv'
      <3>1. CASE OAuthReadsPrevious(t)
        BY <2>0, <3>1 DEF OAuthReadsPrevious
      <3>2. CASE MutationWrites(t) /\ (t \in Logouts => credential # NoCred)
        <4>1. /\ pc[t] = "idle" /\ pc' = [pc EXCEPT ![t] = "wait"]
              /\ previous' = [previous EXCEPT ![t] = credential] /\ Write(t)
          BY <3>2 DEF MutationWrites
        <4>2. \A u \in Logins : u # t => credential' # KeyOf(u)
          BY <2>0, <4>1 DEF Write, Written, Mutators
        <4>3. \A u \in Logins : u = t => credential # KeyOf(u)
          BY <4>1
        <4> QED
          BY <2>0, <4>1, <4>2, <4>3
      <3>3. CASE MutationWrites(t) /\ t \in Logouts /\ credential = NoCred
        <4>1. /\ pc[t] = "idle" /\ pc' = [pc EXCEPT ![t] = "failed"] /\ t \in Logouts
              /\ previous' = previous /\ credential' = credential
          BY <2>0, <3>3 DEF MutationWrites
        <4> QED
          BY <2>0, <4>1
      <3> QED
        BY <2>2, <3>1, <3>2, <3>3
    <2>3. ASSUME NEW t \in OAuthLogins, OAuthFails(t) PROVE Inv'
      <3>1. /\ pc[t] \in {"idle", "write"} /\ pc' = [pc EXCEPT ![t] = "failed"]
            /\ previous' = previous /\ credential' = credential
        BY <2>3 DEF OAuthFails
      <3>2. KeysAreFresh'
        BY <2>0, <3>1
      <3>3. ASSUME NEW u \in Logins, pc'[u] = "failed", credential' = KeyOf(u)
            PROVE  \E v \in Mutators \ {u} : pc'[v] = "failed" /\ previous'[v] = KeyOf(u)
        <4>1. u # t /\ pc[u] = "failed"
          BY <2>0, <3>1, <3>3
        <4> QED
          BY <2>0, <3>1, <3>3, <4>1
      <3> QED
        BY <3>2, <3>3
    <2>4. ASSUME NEW t \in OAuthLogins, OAuthWrites(t) PROVE Inv'
      BY <2>0, <2>4 DEF OAuthWrites, Write, Written
    <2>5. ASSUME NEW t \in Tasks,
             \/ t \in OAuthLogins /\ OAuthCompensates(t)
             \/ RebuildFails(t)
          PROVE  Inv'
      <3>1. /\ previous' = previous
            /\ pc[t] \notin {"idle", "write", "failed"}
            /\ pc' = [pc EXCEPT ![t] = "failed"]
            /\ credential' = IF t \in Mutators THEN Compensated(t) ELSE credential
        BY <2>0, <2>5 DEF OAuthCompensates, RebuildFails
      <3>2. KeysAreFresh'
        BY <2>0, <3>1 DEF Compensated
      <3>3. ASSUME NEW u \in Logins, pc'[u] = "failed", credential' = KeyOf(u)
            PROVE  \E v \in Mutators \ {u} : pc'[v] = "failed" /\ previous'[v] = KeyOf(u)
        <4>1. CASE t \in Mutators /\ t # u /\ credential = Written(t)
          BY <2>0, <3>1, <3>3, <4>1 DEF Compensated
        <4>2. CASE t = u
          BY <2>0, <3>1, <3>3, <4>2 DEF Compensated, Written
        <4>3. CASE t # u /\ ~(t \in Mutators /\ credential = Written(t))
          BY <2>0, <3>1, <3>3, <4>3 DEF Compensated
        <4> QED
          BY <4>1, <4>2, <4>3
      <3> QED
        BY <3>2, <3>3
    <2>6. CASE UNCHANGED vars
      BY <2>0, <2>6 DEF vars
    <2> QED
      BY <2>1, <2>2, <2>3, <2>4, <2>5, <2>6 DEF Next, Tasks, Mutators, Logins
  <1> QED
    BY <1>1, <1>2, ConfigTypes, PTL DEF Spec

\* Whatever operations overlap and fail, the active configuration differs from
\* the persisted one only after a refresh, a login or a logout installed the
\* configuration it had read before it waited for the lock (refresh_models,
\* _rebuild_after_credential_mutation).
THEOREM DivergenceExplained == Spec => []DivergenceHasItsSnapshot
  <1>1. Init => LockShape /\ DivergenceHasItsSnapshot
    BY DEF Init, LockShape, DivergenceHasItsSnapshot, Tasks
  <1>2. TypeOK /\ LockShape /\ [Next]_vars => LockShape'
    <2> SUFFICES ASSUME TypeOK, LockShape, [Next]_vars PROVE LockShape'
      OBVIOUS
    <2> USE DEF TypeOK, LockShape, configVars, localVars, Goto
    <2>1. ASSUME NEW t \in Tasks,
             \/ SendPatch(t) \/ PatchArrives(t) \/ RefreshReads(t) \/ ReloadWaits(t)
             \/ MutationWrites(t) \/ OAuthReadsPrevious(t) \/ OAuthFails(t) \/ OAuthWrites(t)
             \/ OAuthCompensates(t) \/ OAuthReadsConfig(t)
          PROVE  LockShape'
      BY <2>1 DEF SendPatch, PatchArrives, RefreshReads, ReloadWaits, MutationWrites,
         OAuthReadsPrevious, OAuthFails, OAuthWrites, OAuthCompensates, OAuthReadsConfig, Tasks
    <2>2. ASSUME NEW t \in Tasks, TakeLock(t) PROVE LockShape'
      BY <2>2, NoTaskAssumption DEF TakeLock, Tasks
    <2>3. ASSUME NEW t \in Tasks, RebuildFails(t) PROVE LockShape'
      BY <2>3, NoTaskAssumption DEF RebuildFails, Tasks
    <2>4. ASSUME NEW t \in Tasks, Swap(t) PROVE LockShape'
      BY <2>4 DEF Swap, DropLock, CommitPatch, ConflictAtSwap, Tasks
    <2>5. CASE UNCHANGED vars
      BY <2>5 DEF vars
    <2> QED
      BY <2>1, <2>2, <2>3, <2>4, <2>5 DEF Next, Mutators, Logins, Tasks
  <1>3. TypeOK /\ LockShape /\ DivergenceHasItsSnapshot /\ [Next]_vars
          => DivergenceHasItsSnapshot'
    <2> SUFFICES ASSUME TypeOK, LockShape, DivergenceHasItsSnapshot, [Next]_vars
                 PROVE  DivergenceHasItsSnapshot'
      OBVIOUS
    <2> USE DEF TypeOK, DivergenceHasItsSnapshot, configVars, localVars, Goto
    <2>1. ASSUME NEW t \in Tasks,
             \/ SendPatch(t) \/ PatchArrives(t) \/ RefreshReads(t) \/ ReloadWaits(t)
             \/ MutationWrites(t) \/ OAuthReadsPrevious(t) \/ OAuthFails(t) \/ OAuthWrites(t)
             \/ OAuthCompensates(t) \/ OAuthReadsConfig(t) \/ TakeLock(t) \/ RebuildFails(t)
          PROVE  DivergenceHasItsSnapshot'
      <3>1. active' = active /\ file' = file
        BY <2>1 DEF SendPatch, PatchArrives, RefreshReads, ReloadWaits, MutationWrites,
           OAuthReadsPrevious, OAuthFails, OAuthWrites, OAuthCompensates, OAuthReadsConfig, TakeLock,
           RebuildFails
      <3>2. \A u \in Tasks : pc[u] = "ok" => pc'[u] = "ok" /\ base'[u] = base[u]
        BY <2>1 DEF SendPatch, PatchArrives, RefreshReads, ReloadWaits, MutationWrites,
           OAuthReadsPrevious, OAuthFails, OAuthWrites, OAuthCompensates, OAuthReadsConfig, TakeLock,
           RebuildFails, Tasks
      <3> QED
        BY <3>1, <3>2 DEF Tasks
    <2>2. ASSUME NEW t \in Tasks, Swap(t) PROVE DivergenceHasItsSnapshot'
      <3>1. \A u \in Tasks : pc[u] = "ok" => pc'[u] = "ok" /\ base'[u] = base[u]
        BY <2>2 DEF Swap, CommitPatch, ConflictAtSwap
      <3>2. CASE t \in Patchers
        BY <2>2, <3>1, <3>2 DEF Swap, CommitPatch, ConflictAtSwap, PersistWithSwap, Tasks
      <3>3. CASE t \in Reloaders \ Patchers
        <4>1. active' = active /\ file' = file
          BY <2>2, <3>3 DEF Swap, LockShape
        <4> QED
          BY <3>1, <4>1 DEF Tasks
      <3>4. CASE t \in Refreshers \union Mutators /\ t \notin Patchers
        BY <2>2, <3>4 DEF Swap
      <3> QED
        BY <3>2, <3>3, <3>4 DEF Tasks
    <2>3. CASE UNCHANGED vars
      BY <2>3 DEF vars
    <2> QED
      BY <2>1, <2>2, <2>3 DEF Next, Mutators, Logins, Tasks
  <1> QED
    BY <1>1, <1>2, <1>3, ConfigTypes, PTL DEF Spec

\* What requests are served with was persisted once, and is the persisted configuration or the
\* snapshot of an operation that was accepted.
THEOREM ServedExplained == Spec => []ServedHasItsReason
  BY CommittedOnly, DivergenceExplained, PTL DEF ServedHasItsReason

\* The accepted PATCHes stay, with what they had read and written.
AcceptedStay ==
    \A u \in Accepted : u \in Accepted' /\ base'[u] = base[u] /\ candidate'[u] = candidate[u]

\* The file changes with the one PATCH that is accepted, which had read what it replaces.
FileTurns ==
    \/ file' = file /\ Accepted' = Accepted
    \/ \E t \in Patchers \ Accepted :
          Accepted' = Accepted \union {t} /\ base'[t] = file /\ file' = candidate'[t]

\* A PATCH under way has read the file as it is, or goes on; a conflict is told of a file that
\* is no longer what was read.
PatchGoesOn(u) ==
    /\ pc'[u] \in UnderWay =>
          \/ base'[u] = file /\ file' = file
          \/ pc[u] \in UnderWay /\ base'[u] = base[u]
    /\ pc'[u] = "conflict" =>
          /\ base'[u] = base[u]
          /\ pc[u] = "conflict" \/ (pc[u] \in UnderWay /\ file # base[u])

LEMMA PatchStep ==
    TypeOK /\ [Next]_vars => AcceptedStay /\ FileTurns /\ \A u \in Patchers : PatchGoesOn(u)
  <1> SUFFICES ASSUME TypeOK, [Next]_vars
               PROVE  AcceptedStay /\ FileTurns /\ \A u \in Patchers : PatchGoesOn(u)
    OBVIOUS
  <1> USE DEF TypeOK, Goto, UnderWay, Accepted, configVars, localVars
  <1>0. /\ Patchers \subseteq Tasks
        /\ Patchers \intersect (Refreshers \union Reloaders \union Mutators \union OAuthLogins) = {}
    BY KindAssumption DEF Tasks, Mutators, Logins
  <1>1. ASSUME NEW t \in Patchers, SendPatch(t)
        PROVE  AcceptedStay /\ FileTurns /\ \A u \in Patchers : PatchGoesOn(u)
    BY <1>0, <1>1 DEF SendPatch, AcceptedStay, FileTurns, PatchGoesOn
  <1>2. ASSUME NEW t \in Patchers, PatchArrives(t)
        PROVE  AcceptedStay /\ FileTurns /\ \A u \in Patchers : PatchGoesOn(u)
    <2>1. t \in Tasks /\ t \notin Accepted /\ pc[t] \in UnderWay
      BY <1>0, <1>2 DEF PatchArrives
    <2>2. CASE pc'[t] = "ok"
      <3>1. file = base[t] /\ candidate[t] = file /\ UNCHANGED <<file, base, candidate>>
        BY <1>2, <2>1, <2>2 DEF PatchArrives
      <3>2. pc' = [pc EXCEPT ![t] = "ok"]
        BY <1>2, <2>1, <2>2 DEF PatchArrives
      <3> QED
        BY <1>0, <2>1, <3>1, <3>2 DEF AcceptedStay, FileTurns, PatchGoesOn
    <2>3. CASE pc'[t] # "ok"
      BY <1>0, <1>2, <2>1, <2>3 DEF PatchArrives, AcceptedStay, FileTurns, PatchGoesOn
    <2> QED
      BY <2>2, <2>3
  <1>3. ASSUME NEW t \in Tasks \ Patchers,
           \/ RefreshReads(t) \/ ReloadWaits(t) \/ MutationWrites(t) \/ OAuthReadsPrevious(t)
           \/ OAuthFails(t) \/ OAuthWrites(t) \/ OAuthCompensates(t) \/ OAuthReadsConfig(t)
           \/ TakeLock(t) \/ Swap(t) \/ RebuildFails(t)
        PROVE  AcceptedStay /\ FileTurns /\ \A u \in Patchers : PatchGoesOn(u)
    <2>1. /\ file' = file /\ candidate' = candidate
          /\ \A u \in Patchers : pc'[u] = pc[u] /\ base'[u] = base[u]
      BY <1>0, <1>3 DEF RefreshReads, ReloadWaits, MutationWrites, OAuthReadsPrevious, OAuthFails,
         OAuthWrites, OAuthCompensates, OAuthReadsConfig, TakeLock, Swap, RebuildFails
    <2> QED
      BY <2>1 DEF AcceptedStay, FileTurns, PatchGoesOn
  <1>4. ASSUME NEW t \in Patchers, TakeLock(t) \/ RebuildFails(t)
        PROVE  AcceptedStay /\ FileTurns /\ \A u \in Patchers : PatchGoesOn(u)
    BY <1>0, <1>4 DEF TakeLock, RebuildFails, AcceptedStay, FileTurns, PatchGoesOn
  <1>5. ASSUME NEW t \in Patchers, Swap(t)
        PROVE  AcceptedStay /\ FileTurns /\ \A u \in Patchers : PatchGoesOn(u)
    <2>1. t \in Tasks /\ t \notin Accepted /\ UNCHANGED localVars
      BY <1>0, <1>5 DEF Swap
    <2>2. CASE CommitPatch(t)
      BY <1>0, <2>1, <2>2 DEF CommitPatch, MayCommit, PersistWithSwap, AcceptedStay, FileTurns,
         PatchGoesOn
    <2>3. CASE ConflictAtSwap(t)
      BY <1>0, <1>5, <2>1, <2>3 DEF Swap, ConflictAtSwap, MayCommit, AcceptedStay, FileTurns,
         PatchGoesOn
    <2> QED
      BY <1>5, <2>2, <2>3 DEF Swap
  <1>6. CASE UNCHANGED vars
    BY <1>6 DEF vars, AcceptedStay, FileTurns, PatchGoesOn
  <1> QED
    BY <1>0, <1>1, <1>2, <1>3, <1>4, <1>5, <1>6 DEF Next, Tasks, Mutators, Logins

\* An order of the accepted PATCHes goes on with the next one.
LEMMA OrderGoesOn ==
    IsFiniteSet(Accepted) /\ AcceptedInTurn /\ AcceptedStay /\ FileTurns
        => IsFiniteSet(Accepted') /\ AcceptedInTurn'
  <1> SUFFICES ASSUME IsFiniteSet(Accepted), AcceptedInTurn, AcceptedStay, FileTurns
               PROVE  IsFiniteSet(Accepted') /\ AcceptedInTurn'
    OBVIOUS
  <1>0. PICK n \in Nat : n = Cardinality(Accepted)
    BY FS_CardinalityType
  <1>1. PICK order \in [1 .. n -> Accepted] : Serial(order)
    BY <1>0 DEF AcceptedInTurn
  <1>2. CASE file' = file /\ Accepted' = Accepted
    <2>1. Serial(order)'
      BY <1>0, <1>1, <1>2 DEF Serial, Left, AcceptedStay
    <2> QED
      BY <1>0, <1>1, <1>2, <2>1 DEF AcceptedInTurn
  <1>3. ASSUME NEW t \in Patchers \ Accepted,
               Accepted' = Accepted \union {t}, base'[t] = file, file' = candidate'[t]
        PROVE  IsFiniteSet(Accepted') /\ AcceptedInTurn'
    <2> DEFINE longer == [i \in 1 .. n + 1 |-> IF i = n + 1 THEN t ELSE order[i]]
    <2>1. IsFiniteSet(Accepted') /\ Cardinality(Accepted') = n + 1
      BY <1>0, <1>3, FS_AddElement
    <2>2. longer \in [1 .. n + 1 -> Accepted']
      BY <1>0, <1>1, <1>3
    <2>3. \A i \in 0 .. n : Left(longer, i)' = Left(order, i)
      BY <1>0, <1>1 DEF Left, AcceptedStay
    <2>4. {longer[i] : i \in DOMAIN longer} = Accepted'
      <3>1. {order[i] : i \in 1 .. n} = Accepted
        BY <1>1 DEF Serial
      <3>2. longer[n + 1] = t /\ \A i \in 1 .. n : longer[i] = order[i]
        BY <1>0
      <3>3. 1 .. n + 1 = (1 .. n) \union {n + 1}
        BY <1>0
      <3> QED
        BY <1>3, <3>1, <3>2, <3>3
    <2>5. ASSUME NEW i \in 1 .. n + 1 PROVE base'[longer[i]] = Left(longer, i - 1)'
      <3>1. CASE i = n + 1
        BY <1>0, <1>1, <1>3, <2>3, <3>1 DEF Serial
      <3>2. CASE i # n + 1
        <4>1. i \in 1 .. n /\ i - 1 \in 0 .. n /\ longer[i] = order[i]
          BY <1>0, <2>5, <3>2
        <4>2. base[order[i]] = Left(order, i - 1)
          BY <1>1, <4>1 DEF Serial
        <4>3. base'[order[i]] = base[order[i]]
          BY <1>1, <4>1 DEF AcceptedStay
        <4> QED
          BY <2>3, <4>1, <4>2, <4>3
      <3> QED
        BY <3>1, <3>2
    <2>6. file' = Left(longer, n + 1)'
      BY <1>0, <1>3 DEF Left
    <2>7. Serial(longer)'
      BY <2>1, <2>2, <2>4, <2>5, <2>6 DEF Serial
    <2> QED
      BY <2>1, <2>2, <2>7 DEF AcceptedInTurn
  <1> QED
    BY <1>2, <1>3 DEF FileTurns

\* A PATCH under way that had read something else than the file holds was overtaken.
CauseOfConflicts ==
    /\ \A t \in Patchers : pc[t] \in UnderWay => file = base[t] \/ Replaced(t)
    /\ ConflictsHaveTheirCause

LEMMA CauseGoesOn ==
    CauseOfConflicts /\ AcceptedStay /\ FileTurns /\ (\A t \in Patchers : PatchGoesOn(t))
        => CauseOfConflicts'
  <1> SUFFICES ASSUME CauseOfConflicts, AcceptedStay, FileTurns, \A t \in Patchers : PatchGoesOn(t),
                      NEW t \in Patchers
               PROVE  /\ pc'[t] \in UnderWay => file' = base'[t] \/ Replaced(t)'
                      /\ pc'[t] = "conflict" => Replaced(t)'
    BY DEF CauseOfConflicts, ConflictsHaveTheirCause, UnderWay
  <1>1. Replaced(t) /\ base'[t] = base[t] => Replaced(t)'
    BY DEF Replaced, AcceptedStay
  <1>2. file = base[t] /\ base'[t] = base[t] => file' = base'[t] \/ Replaced(t)'
    BY DEF FileTurns, Replaced
  <1> QED
    BY <1>1, <1>2 DEF CauseOfConflicts, ConflictsHaveTheirCause, PatchGoesOn

\* Whatever rebuilds, failures and writes come between, the accepted PATCHes were made one after
\* the other, each on what the one before it left, and a PATCH is refused only because of one of
\* them (update_priorities: the check before the build and the one of before_swap).
THEOREM UpdatesSerial == Spec => []UpdatesAreSerial
  <1> DEFINE Inv == IsFiniteSet(Accepted) /\ AcceptedInTurn /\ CauseOfConflicts
  <1>1. Init => Inv
    <2> SUFFICES ASSUME Init PROVE Inv
      OBVIOUS
    <2>1. \A t \in Patchers : pc[t] = "idle"
      BY DEF Init, Tasks
    <2>2. Accepted = {} /\ IsFiniteSet(Accepted) /\ Cardinality(Accepted) = 0
      BY <2>1, FS_EmptySet DEF Accepted
    <2>3. AcceptedInTurn
      <3> DEFINE none == [i \in 1 .. 0 |-> FirstConfig]
      <3>1. none \in [1 .. 0 -> Accepted] /\ DOMAIN none = {}
        OBVIOUS
      <3>2. Serial(none)
        BY <2>2, <3>1 DEF Serial, Left, Init
      <3> QED
        BY <2>2, <3>1, <3>2 DEF AcceptedInTurn
    <2> QED
      BY <2>1, <2>2, <2>3 DEF CauseOfConflicts, ConflictsHaveTheirCause, UnderWay
  <1>2. TypeOK /\ Inv /\ [Next]_vars => Inv'
    <2> SUFFICES ASSUME TypeOK, Inv, [Next]_vars PROVE Inv'
      OBVIOUS
    <2>1. AcceptedStay /\ FileTurns /\ \A t \in Patchers : PatchGoesOn(t)
      BY PatchStep
    <2>2. (IsFiniteSet(Accepted) /\ AcceptedInTurn)'
      BY <2>1, OrderGoesOn
    <2>3. CauseOfConflicts'
      BY <2>1, CauseGoesOn
    <2> QED
      BY <2>2, <2>3
  <1>3. Inv => UpdatesAreSerial
    BY DEF UpdatesAreSerial, CauseOfConflicts
  <1> QED
    BY <1>1, <1>2, <1>3, ConfigTypes, PTL DEF Spec

-----------------------------------------------------------------------------

\* Beside the sessions of DeviceLogins the administrative operations are as specified, so that
\* the theorems about them hold there.
THEOREM AdministersAsSpecified == LoginSpec => Spec
  <1>1. LoginInit => Init
    BY DEF LoginInit
  <1>2. [LoginNext]_<<vars, session>> => [Next]_vars
    BY DEF LoginNext, CreateSession, ExpireSession, Administer
  <1> QED
    BY <1>1, <1>2, PTL DEF LoginSpec, Spec

LEMMA EndsAreEnds ==
    ASSUME TypeOK, Next, NEW t \in OAuthLogins, pc[t] \in {"ok", "failed"}
    PROVE  pc'[t] = pc[t]
  <1> USE DEF TypeOK, Goto, Ends
  <1>0. t \in Tasks
    BY DEF Tasks, Mutators, Logins
  <1>1. ASSUME NEW u \in Tasks,
           \/ SendPatch(u) \/ PatchArrives(u) \/ RefreshReads(u) \/ ReloadWaits(u)
           \/ MutationWrites(u) \/ OAuthReadsPrevious(u) \/ OAuthFails(u) \/ OAuthWrites(u)
           \/ OAuthCompensates(u) \/ OAuthReadsConfig(u)
        PROVE  pc'[t] = pc[t]
    BY <1>0, <1>1 DEF SendPatch, PatchArrives, RefreshReads, ReloadWaits, MutationWrites,
       OAuthReadsPrevious, OAuthFails, OAuthWrites, OAuthCompensates, OAuthReadsConfig
  <1>2. ASSUME NEW u \in Tasks, TakeLock(u) \/ Swap(u) \/ RebuildFails(u) PROVE pc'[t] = pc[t]
    BY <1>0, <1>2 DEF TakeLock, Swap, CommitPatch, ConflictAtSwap, RebuildFails
  <1> QED
    BY <1>1, <1>2 DEF Next, Tasks, Mutators, Logins

\* A session says that its login is complete, or has failed, only when it is so
\* (_poll_oauth_completion, update_session_status).
THEOREM SessionsAreTrue == LoginSpec => [](SessionsTypeOK /\ SessionsTellTheTruth)
  <1> DEFINE Inv == SessionsTypeOK /\ SessionsTellTheTruth
  <1> USE DEF Inv, SessionsTypeOK, SessionsTellTheTruth, Statuses
  <1>1. LoginInit => Inv
    BY DEF LoginInit
  <1>2. TypeOK /\ Inv /\ [LoginNext]_<<vars, session>> => Inv'
    <2> SUFFICES ASSUME TypeOK, Inv, [LoginNext]_<<vars, session>> PROVE Inv'
      OBVIOUS
    <2>1. ASSUME NEW t \in OAuthLogins, CreateSession(t) \/ ExpireSession(t) PROVE Inv'
      BY <2>1 DEF CreateSession, Swept, ExpireSession, vars
    <2>2. CASE Administer /\ UNCHANGED session
      BY <2>2, EndsAreEnds DEF Administer
    <2>3. ASSUME Administer, NEW t \in OAuthLogins, pc'[t] # pc[t], Report(t) PROVE Inv'
      <3>1. /\ Next
            /\ \A u \in OAuthLogins : pc[u] \in {"ok", "failed"} => pc'[u] = pc[u]
        BY <2>3, EndsAreEnds DEF Administer
      <3> QED
        BY <2>3, <3>1 DEF Report, SetStatus
    <2>4. CASE UNCHANGED <<vars, session>>
      BY <2>4 DEF vars
    <2> QED
      BY <2>1, <2>2, <2>3, <2>4 DEF LoginNext, Administer
  <1>3. LoginSpec => []TypeOK
    BY AdministersAsSpecified, ConfigTypes, PTL
  <1> QED
    BY <1>1, <1>2, <1>3, PTL DEF LoginSpec

\* Where every login carries a key of its own and one logout runs: what was acknowledged
\* stands, what failed left nothing behind, and the sessions say which.
THEOREM WordIsKept ==
    ASSUME \A t, u \in Logins : KeyOf(t) = KeyOf(u) => t = u,
           \A t \in Logins : KeyOf(t) # FirstCred,
           \A u, v \in Logouts : u = v
    PROVE  LoginSpec => []LoginsKeepTheirWord
  <1>1. Spec => []AcknowledgedWritesStand
    BY WritesStand
  <1>2. Spec => []FailedLoginsLeaveNothing
    BY FailuresLeaveNothing
  <1> QED
    BY <1>1, <1>2, SessionsAreTrue, AdministersAsSpecified, PTL DEF LoginsKeepTheirWord
=============================================================================
