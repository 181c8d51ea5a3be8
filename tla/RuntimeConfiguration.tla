----------------------- MODULE RuntimeConfiguration -----------------------
(***************************************************************************)
(* The administrative operations of server/routes/admin.py on the two      *)
(* persisted files (the runtime configuration and the credentials of one   *)
(* provider) and on the active Router generation.                          *)
(*                                                                         *)
(* The generation machinery is RouterGenerations; here a rebuild is: wait  *)
(* for the operation lock, build, swap.  A configuration stands for its    *)
(* content, so it is its own revision.  Credentials are compared by value, *)
(* as the repository compares them.  Every task runs once.                 *)
(***************************************************************************)
EXTENDS Naturals, FiniteSets

CONSTANTS
    Patchers,     \* PATCH /priorities
    Refreshers,   \* POST /models/refresh
    Reloaders,    \* a request whose acquire reloads expired providers
    KeyLogins,    \* POST /auth/login with an API key
    OAuthLogins,  \* the background task of a device-flow login
    Logouts,      \* DELETE /auth/{provider}
    Configs,      \* contents of the runtime configuration
    FirstConfig,  \* the configuration the server started with
    KeyOf(_),     \* the credential a login writes: two may carry one API key
    FirstCred,    \* the credential the server started with
    NoCred,       \* the provider has no credential
    NoTask        \* nobody holds the operation lock

Logins == KeyLogins \union OAuthLogins
Mutators == Logins \union Logouts
Tasks == Patchers \union Refreshers \union Reloaders \union Mutators
Creds == {KeyOf(t) : t \in Logins} \union {FirstCred, NoCred}

ASSUME ConfigAssumption == FirstConfig \in Configs
ASSUME CredAssumption == NoCred \notin {KeyOf(t) : t \in Logins} \union {FirstCred}
ASSUME NoTaskAssumption == NoTask \notin Tasks
ASSUME KindAssumption ==
    /\ Logins \intersect Logouts = {}
    /\ Patchers \intersect (Refreshers \union Reloaders \union Mutators) = {}

VARIABLES
    file,        \* the persisted runtime configuration
    active,      \* config_snapshot of the active generation
    credential,  \* the provider's entry in the credential file
    op,          \* holder of the owner's operation lock
    pc,          \* where each task is
    base,        \* configuration a task read: PATCH's revision, or the snapshot
    candidate,   \* the replacement a PATCH carries
    previous,    \* credential a mutation read before it wrote
    lastWriter,  \* task of the last credential write that was no compensation
    committed    \* configurations that were ever persisted

configVars == <<file, active, committed>>
credVars   == <<credential, lastWriter>>
localVars  == <<base, candidate, previous>>
vars == <<configVars, credVars, op, pc, localVars>>

Ends == {"ok", "failed", "conflict"}

TypeOK ==
    /\ file \in Configs
    /\ active \in Configs
    /\ credential \in Creds
    /\ op \in Tasks \union {NoTask}
    /\ pc \in [Tasks -> {"idle", "sent", "write", "compensate", "read", "wait", "build"}
                          \union Ends]
    /\ base \in [Tasks -> Configs]
    /\ candidate \in [Tasks -> Configs]
    /\ previous \in [Tasks -> Creds]
    /\ lastWriter \in Mutators \union {NoTask}
    /\ committed \in SUBSET Configs

Init ==
    /\ file = FirstConfig
    /\ active = FirstConfig
    /\ credential = FirstCred
    /\ op = NoTask
    /\ pc = [t \in Tasks |-> "idle"]
    /\ base = [t \in Tasks |-> FirstConfig]
    /\ candidate = [t \in Tasks |-> FirstConfig]
    /\ previous = [t \in Tasks |-> NoCred]
    /\ lastWriter = NoTask
    /\ committed = {FirstConfig}

Goto(t, place) == pc' = [pc EXCEPT ![t] = place]

-----------------------------------------------------------------------------
(* The runtime configuration.                                              *)

\* The administrator reads the configuration and sends a replacement with the
\* revision that was read.
SendPatch(t) ==
    /\ pc[t] = "idle"
    /\ base' = [base EXCEPT ![t] = file]
    /\ \E c \in Configs : candidate' = [candidate EXCEPT ![t] = c]
    /\ Goto(t, "sent")
    /\ UNCHANGED <<configVars, credVars, op, previous>>

\* The handler before its rebuild: a stale revision conflicts, a replacement
\* equal to what is persisted is answered without a rebuild.
PatchArrives(t) ==
    /\ pc[t] = "sent"
    /\ Goto(t, IF file # base[t] THEN "conflict"
               ELSE IF candidate[t] = file THEN "ok"
               ELSE "wait")
    /\ UNCHANGED <<configVars, credVars, op, localVars>>

\* before_swap: compare and swap the file against the revision of the request.
CommitAnyRevision(t) == TRUE
CommitAgainstActive(t) == active = base[t]
MayCommit(t) == file = base[t]

\* What PATCH installs and persists in the one step under the state lock.
SwapWithoutPersist(t) == file' = file /\ active' = candidate[t]
PersistWithoutSwap(t) == file' = candidate[t] /\ active' = active
PersistWithSwap(t) == file' = candidate[t] /\ active' = candidate[t]

CommitPatch(t) ==
    /\ MayCommit(t)
    /\ PersistWithSwap(t)
    /\ committed' = committed \union {file'}
    /\ Goto(t, "ok")

ConflictAtSwap(t) ==
    /\ ~MayCommit(t)
    /\ Goto(t, "conflict")
    /\ UNCHANGED configVars

\* Refresh reads the configuration before it waits for the lock.
RefreshReads(t) ==
    /\ pc[t] = "idle"
    /\ base' = [base EXCEPT ![t] = file]
    /\ Goto(t, "wait")
    /\ UNCHANGED <<configVars, credVars, op, candidate, previous>>

ReloadWaits(t) ==
    /\ pc[t] = "idle"
    /\ Goto(t, "wait")
    /\ UNCHANGED <<configVars, credVars, op, localVars>>

-----------------------------------------------------------------------------
(* Credentials.                                                            *)

\* The credential file after task t's own write.
Written(t) == IF t \in Logouts THEN NoCred ELSE KeyOf(t)

Write(t) ==
    /\ credential' = Written(t)
    /\ lastWriter' = t

\* An API key login or a logout reads, writes and reads the configuration for
\* its rebuild without an await in between.  A logout without a credential
\* answers 404.
MutationWrites(t) ==
    /\ t \in KeyLogins \union Logouts
    /\ pc[t] = "idle"
    /\ \/ /\ t \in Logouts /\ credential = NoCred
          /\ Goto(t, "failed")
          /\ UNCHANGED <<credVars, previous, base>>
       \/ /\ t \in Logouts => credential # NoCred
          /\ previous' = [previous EXCEPT ![t] = credential]
          /\ Write(t)
          /\ base' = [base EXCEPT ![t] = file]
          /\ Goto(t, "wait")
    /\ UNCHANGED <<configVars, op, candidate>>

\* The device-flow task does its file work in threads: previous is read in
\* one, the credential written in another.
OAuthReadsPrevious(t) ==
    /\ t \in OAuthLogins
    /\ pc[t] = "idle"
    /\ previous' = [previous EXCEPT ![t] = credential]
    /\ Goto(t, "write")
    /\ UNCHANGED <<configVars, credVars, op, base, candidate>>

\* Before the credential is replaced the flow may be refused or cancelled, and a file may not
\* be readable or writable.
OAuthFails(t) ==
    /\ pc[t] \in {"idle", "write"}
    /\ Goto(t, "failed")
    /\ UNCHANGED <<configVars, credVars, op, localVars>>

\* A cancellation that arrives during the write is compensated in a thread;
\* otherwise the task goes on to its rebuild.
OAuthWrites(t) ==
    /\ pc[t] = "write"
    /\ Write(t)
    /\ Goto(t, "read") \/ Goto(t, "compensate")
    /\ UNCHANGED <<configVars, op, localVars>>

\* The credential after a failed mutation: previous again, but only while the
\* file still holds what the mutation wrote.
CompensatedAlways(t) == previous[t]
CompensatedNever(t) == credential
Compensated(t) == IF credential = Written(t) THEN previous[t] ELSE credential

OAuthCompensates(t) ==
    /\ pc[t] = "compensate"
    /\ credential' = Compensated(t)
    /\ Goto(t, "failed")
    /\ UNCHANGED <<configVars, lastWriter, op, localVars>>

OAuthReadsConfig(t) ==
    /\ pc[t] = "read"
    /\ base' = [base EXCEPT ![t] = file]
    /\ Goto(t, "wait")
    /\ UNCHANGED <<configVars, credVars, op, candidate, previous>>

-----------------------------------------------------------------------------
(* The rebuild all of them end with.                                       *)

\* A reload builds from the snapshot of the generation it replaces.
TakeLock(t) ==
    /\ pc[t] = "wait"
    /\ op = NoTask
    /\ op' = t
    /\ base' = IF t \in Reloaders THEN [base EXCEPT ![t] = active] ELSE base
    /\ Goto(t, "build")
    /\ UNCHANGED <<configVars, credVars, candidate, previous>>

DropLock(t) ==
    /\ op = t
    /\ op' = NoTask

Swap(t) ==
    /\ pc[t] = "build"
    /\ DropLock(t)
    /\ \/ t \in Patchers /\ (CommitPatch(t) \/ ConflictAtSwap(t))
       \/ /\ t \notin Patchers
          /\ active' = base[t]
          /\ Goto(t, "ok")
          /\ UNCHANGED <<file, committed>>
    /\ UNCHANGED <<credVars, localVars>>

\* The configuration cannot be read, the build raises or the caller is cancelled while it waits
\* or builds.  A credential mutation takes its write back in the same step.
RebuildFails(t) ==
    /\ pc[t] \in {"read", "wait", "build"}
    /\ op' = IF op = t THEN NoTask ELSE op
    /\ credential' = IF t \in Mutators THEN Compensated(t) ELSE credential
    /\ Goto(t, "failed")
    /\ UNCHANGED <<configVars, lastWriter, localVars>>

-----------------------------------------------------------------------------

Next ==
    \/ \E t \in Patchers : SendPatch(t) \/ PatchArrives(t)
    \/ \E t \in Refreshers : RefreshReads(t)
    \/ \E t \in Reloaders : ReloadWaits(t)
    \/ \E t \in Mutators : MutationWrites(t) \/ OAuthReadsPrevious(t)
    \/ \E t \in OAuthLogins :
          OAuthFails(t) \/ OAuthWrites(t) \/ OAuthCompensates(t) \/ OAuthReadsConfig(t)
    \/ \E t \in Tasks : TakeLock(t) \/ Swap(t) \/ RebuildFails(t)

Spec == Init /\ [][Next]_vars

-----------------------------------------------------------------------------
(* Properties.                                                             *)

\* No candidate serves that was never persisted: a PATCH whose build fails, is
\* cancelled or loses the compare-and-swap leaves nothing behind.
NothingUncommittedServes == active \in committed

Accepted == {t \in Patchers : pc[t] = "ok"}

\* What the first i PATCHes of an order leave in the file.
Left(order, i) == IF i = 0 THEN FirstConfig ELSE candidate[order[i]]

\* The accepted PATCHes in an order in which each had read what the one before it left, up to
\* what is in the file now.
Serial(order) ==
    /\ {order[i] : i \in DOMAIN order} = Accepted
    /\ \A i \in DOMAIN order : base[order[i]] = Left(order, i - 1)
    /\ file = Left(order, Cardinality(Accepted))

\* The accepted PATCHes were made one after the other.
AcceptedInTurn == \E order \in [1 .. Cardinality(Accepted) -> Accepted] : Serial(order)

\* A PATCH that was accepted replaced what t had read.
Replaced(t) == \E u \in Accepted : base[u] = base[t] /\ candidate[u] # base[t]

\* A PATCH was refused as stale only if one that was accepted had replaced what it had read.
ConflictsHaveTheirCause == \A t \in Patchers : pc[t] = "conflict" => Replaced(t)

\* No update is lost and none is refused without cause, whatever rebuilds, failures and writes of
\* other tasks come between the reading of a revision, its check and its swap.
UpdatesAreSerial == AcceptedInTurn /\ ConflictsHaveTheirCause

\* The configuration requests are served with differs from the persisted one
\* only when an operation that carries no configuration of its own (a refresh,
\* a login, a logout) installed the snapshot it had read: PATCHes, conflicts,
\* failures and reloads keep the two equal.
DivergenceHasItsSnapshot ==
    active # file => \E t \in Refreshers \union Mutators : pc[t] = "ok" /\ base[t] = active

\* The configuration requests are served with has its reason: it was persisted, and where it is
\* not the persisted one there is an operation that had read it.
ServedHasItsReason == NothingUncommittedServes /\ DivergenceHasItsSnapshot

\* Once no administrative operation is under way, the configuration requests
\* are served with is the persisted one.  The code does not keep this: see the
\* observations of the README.
SettledActiveIsPersisted ==
    (\A t \in Tasks : pc[t] \in Ends \union {"idle", "sent"}) => active = file

\* A login that wrote last and was acknowledged stands: no compensation takes
\* its credential away.
AcknowledgedLoginStands ==
    \A t \in Logins : lastWriter = t /\ pc[t] = "ok" => credential = KeyOf(t)

\* The same for a logout: the compensation of another task puts no credential
\* back after it.
AcknowledgedLogoutStands ==
    \A t \in Logouts : lastWriter = t /\ pc[t] = "ok" => credential = NoCred

\* An acknowledged login or logout is undone by no compensation of another.
AcknowledgedWritesStand == AcknowledgedLoginStands /\ AcknowledgedLogoutStands

\* The credential of a login that failed is in the file only if another operation had built on
\* it and was taken back in its turn.
FailedLoginsLeaveNothing ==
    \A t \in Logins :
        pc[t] = "failed" /\ credential = KeyOf(t) =>
            \E u \in Mutators \ {t} : pc[u] = "failed" /\ previous[u] = KeyOf(t)
=============================================================================
