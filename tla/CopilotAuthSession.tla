-------------------------- MODULE CopilotAuthSession --------------------------
(***************************************************************************)
(* CopilotAuthSession of providers/copilot_support/auth_session.py: the    *)
(* short-lived token that requests share, its minting under one lock, and  *)
(* the credential in auth.json that the session writes back while logins   *)
(* and logouts write there too.                                            *)
(*                                                                         *)
(* Steps are what runs between two awaits.  Tokens are numbered in the     *)
(* order they are minted, by the session or by a login.                    *)
(***************************************************************************)
EXTENDS Naturals, FiniteSets

CONSTANTS
    Callers,     \* concurrent calls of ensure_token
    Accounts,    \* accounts the operator may log in with
    MaxRetries,  \* _MINT_MAX_RETRIES
    MaxTokens,   \* bound on tokens ever minted
    MaxAdmin     \* bound on logins and logouts

ASSUME AuthAssumption ==
    /\ MaxRetries \in Nat /\ MaxTokens \in Nat \ {0} /\ MaxAdmin \in Nat
    /\ Callers # {} /\ Accounts # {}

Tokens == 1..MaxTokens
NoToken == 0
Credentials == [account : Accounts, access : Tokens]
NoCredential == [account |-> "nobody", access |-> NoToken]
NoCaller == "nobody"
ASSUME NamesAssumption == NoCaller \notin Callers /\ "nobody" \notin Accounts

VARIABLES
    cached,   \* cached_token
    life,     \* how long each token still lives: more than a minute, less, expired
    minted,   \* number of tokens minted so far
    holder,   \* who holds token_refresh_lock
    stored,   \* the provider's credential in auth.json
    admin,    \* number of logins and logouts so far
    orphans,  \* credentials being written by threads whose caller was cancelled
    pc,
    force,    \* force argument of each call
    before,   \* token_before_lock
    cred,     \* the credential a minting call has read
    attempt   \* retries of the mint so far

tokenVars == <<cached, life, minted>>
diskVars  == <<stored, admin, orphans>>
callVars  == <<pc, force, before, cred, attempt>>
authVars  == <<tokenVars, holder, diskVars, callVars>>

Critical == {"minting", "persisting"}
Ended == {"returned", "failed"}

AuthTypeOK ==
    /\ cached \in Tokens \union {NoToken}
    /\ life \in [Tokens -> {"long", "short", "expired"}]
    /\ minted \in 0..MaxTokens
    /\ holder \in Callers \union {NoCaller}
    /\ stored \in Credentials \union {NoCredential}
    /\ admin \in 0..MaxAdmin
    /\ orphans \in SUBSET Credentials
    /\ pc \in [Callers -> {"idle", "waiting"} \union Critical \union Ended]
    /\ force \in [Callers -> BOOLEAN]
    /\ before \in [Callers -> Tokens \union {NoToken}]
    /\ cred \in [Callers -> Credentials \union {NoCredential}]
    /\ attempt \in [Callers -> 0..MaxRetries]
    /\ \A c \in Callers : pc[c] \in Critical <=> holder = c

\* The server starts with the credential of an earlier run.
AuthInit ==
    /\ cached = NoToken
    /\ life \in {[t \in Tokens |-> IF t = 1 THEN l ELSE "long"] : l \in {"long", "short", "expired"}}
    /\ minted = 1
    /\ holder = NoCaller
    /\ stored \in {[account |-> a, access |-> 1] : a \in Accounts}
    /\ admin = 0
    /\ orphans = {}
    /\ pc = [c \in Callers |-> "idle"]
    /\ force = [c \in Callers |-> FALSE]
    /\ before = [c \in Callers |-> NoToken]
    /\ cred = [c \in Callers |-> NoCredential]
    /\ attempt = [c \in Callers |-> 0]

-----------------------------------------------------------------------------
(* ensure_token.                                                           *)

LongLived(t) == t # NoToken /\ life[t] = "long"
Unexpired(t) == t # NoToken /\ life[t] # "expired"

Goto(c, place) == pc' = [pc EXCEPT ![c] = place]
Release(c, place) == holder' = NoCaller /\ Goto(c, place)

\* A session without a token takes over the one in auth.json while it lives.
Adopted == IF cached = NoToken /\ Unexpired(stored.access) THEN stored.access ELSE cached

Begin(c, f) ==
    /\ pc[c] = "idle"
    /\ force' = [force EXCEPT ![c] = f]
    /\ \/ /\ ~f /\ LongLived(cached)
          /\ Goto(c, "returned")
          /\ UNCHANGED <<cached, before>>
       \/ /\ f \/ ~LongLived(cached)
          /\ stored = NoCredential
          /\ Goto(c, "failed")
          /\ UNCHANGED <<cached, before>>
       \/ /\ f \/ ~LongLived(cached)
          /\ stored # NoCredential
          /\ cached' = Adopted
          /\ IF ~f /\ LongLived(Adopted)
             THEN Goto(c, "returned") /\ before' = before
             ELSE Goto(c, "waiting") /\ before' = [before EXCEPT ![c] = Adopted]
    /\ UNCHANGED <<life, minted, holder, diskVars, cred, attempt>>

NeverRefreshed(c) == FALSE

\* Somebody else has refreshed the token while this call waited for the lock.
AlreadyRefreshed(c) ==
    IF force[c] THEN cached # NoToken /\ cached # before[c] ELSE LongLived(cached)

\* The lock is free and this call is next.
Acquire(c) ==
    /\ pc[c] = "waiting"
    /\ holder = NoCaller
    /\ \/ /\ AlreadyRefreshed(c)
          /\ Goto(c, "returned")
          /\ UNCHANGED <<holder, cred, attempt>>
       \/ /\ ~AlreadyRefreshed(c) /\ stored = NoCredential
          /\ Goto(c, "failed")
          /\ UNCHANGED <<holder, cred, attempt>>
       \/ /\ ~AlreadyRefreshed(c) /\ stored # NoCredential
          /\ holder' = c
          /\ cred' = [cred EXCEPT ![c] = stored]
          /\ attempt' = [attempt EXCEPT ![c] = 0]
          /\ Goto(c, "minting")
    /\ UNCHANGED <<tokenVars, diskVars, force, before>>

\* A transient failure, repeated after a delay.
MintRetried(c) ==
    /\ pc[c] = "minting"
    /\ attempt[c] < MaxRetries
    /\ attempt' = [attempt EXCEPT ![c] = @ + 1]
    /\ UNCHANGED <<tokenVars, holder, diskVars, pc, force, before, cred>>

FallsBackForced(c) == Unexpired(cached)
FallsBackExpired(c) == ~force[c] /\ cached # NoToken

\* After the last retry the cached token serves until it expires, unless it is
\* the one to be replaced.
FallsBack(c) == ~force[c] /\ Unexpired(cached)

MintExhausted(c) ==
    /\ pc[c] = "minting"
    /\ attempt[c] = MaxRetries
    /\ Release(c, IF FallsBack(c) THEN "returned" ELSE "failed")
    /\ UNCHANGED <<tokenVars, diskVars, force, before, cred, attempt>>

\* Rejected credentials, or a failure that does not count as retryable.
MintRejected(c) ==
    /\ pc[c] = "minting"
    /\ Release(c, "failed")
    /\ UNCHANGED <<tokenVars, diskVars, force, before, cred, attempt>>

Minted(c) ==
    /\ pc[c] = "minting"
    /\ minted < MaxTokens
    /\ minted' = minted + 1
    /\ cached' = minted + 1
    /\ Goto(c, "persisting")
    /\ UNCHANGED <<life, holder, diskVars, force, before, cred, attempt>>

\* What the call writes back: the refresh token it read, the token it minted.
Refreshed(c) == [account |-> cred[c].account, access |-> cached]

Persisted(c) ==
    /\ pc[c] = "persisting"
    /\ stored' = Refreshed(c)
    /\ Release(c, "returned")
    /\ UNCHANGED <<tokenVars, admin, orphans, force, before, cred, attempt>>

PersistFails(c) ==
    /\ pc[c] = "persisting"
    /\ Release(c, "failed")
    /\ UNCHANGED <<tokenVars, diskVars, force, before, cred, attempt>>

LockKept(c) == Goto(c, "failed") /\ holder' = holder

ReleasedIfHeld(c) ==
    /\ Goto(c, "failed")
    /\ holder' = IF holder = c THEN NoCaller ELSE holder

\* The caller is cancelled.  A thread that writes auth.json goes on.
Cancel(c) ==
    /\ pc[c] \in {"waiting"} \union Critical
    /\ ReleasedIfHeld(c)
    /\ orphans' = IF pc[c] = "persisting" THEN orphans \union {Refreshed(c)} ELSE orphans
    /\ UNCHANGED <<tokenVars, stored, admin, force, before, cred, attempt>>

OrphanWrites ==
    /\ \E o \in orphans : stored' = o /\ orphans' = orphans \ {o}
    /\ UNCHANGED <<tokenVars, holder, admin, callVars>>

-----------------------------------------------------------------------------
(* The world around the session.                                           *)

\* The caller comes back with another request, a call with locals of its own.
Again(c) ==
    /\ pc[c] \in Ended
    /\ Goto(c, "idle")
    /\ force' = [force EXCEPT ![c] = FALSE]
    /\ before' = [before EXCEPT ![c] = NoToken]
    /\ cred' = [cred EXCEPT ![c] = NoCredential]
    /\ attempt' = [attempt EXCEPT ![c] = 0]
    /\ UNCHANGED <<tokenVars, holder, diskVars>>

Login(a) ==
    /\ admin < MaxAdmin /\ minted < MaxTokens
    /\ minted' = minted + 1
    /\ stored' = [account |-> a, access |-> minted + 1]
    /\ admin' = admin + 1
    /\ UNCHANGED <<cached, life, holder, orphans, callVars>>

Logout ==
    /\ admin < MaxAdmin
    /\ stored # NoCredential
    /\ stored' = NoCredential
    /\ admin' = admin + 1
    /\ UNCHANGED <<tokenVars, holder, orphans, callVars>>

\* Only the tokens in use matter.
TimePasses(t) ==
    /\ t \in {cached, stored.access}
    /\ life[t] # "expired"
    /\ life' = [life EXCEPT ![t] = IF @ = "long" THEN "short" ELSE "expired"]
    /\ UNCHANGED <<cached, minted, holder, diskVars, callVars>>

CallStep(c) ==
    \/ Acquire(c)
    \/ MintRetried(c) \/ MintExhausted(c) \/ MintRejected(c) \/ Minted(c)
    \/ Persisted(c) \/ PersistFails(c)

World ==
    \/ OrphanWrites \/ Logout
    \/ \E a \in Accounts : Login(a)
    \/ \E t \in Tokens : TimePasses(t)

AuthNext ==
    \/ \E c \in Callers : \/ \E f \in BOOLEAN : Begin(c, f)
                          \/ CallStep(c) \/ Cancel(c) \/ Again(c)
    \/ World

AuthSpec == AuthInit /\ [][AuthNext]_authVars

-----------------------------------------------------------------------------
(* Properties.                                                             *)

\* A call that is not forced never hands its caller an expired token, except
\* when a fresh one expires while it is written to disk.
ReturnsLiveToken ==
    [][\A c \in Callers :
        pc[c] # "persisting" /\ pc[c] # "returned" /\ pc'[c] = "returned" /\ ~force'[c]
            => cached' # NoToken /\ life'[cached'] # "expired"]_authVars

\* A forced call that returns has another token than the one it found, also
\* when mints fail or another caller does the work.
ForcedCallGetsNewToken ==
    [][\A c \in Callers :
        pc[c] # "returned" /\ pc'[c] = "returned" /\ force'[c]
            => cached' # NoToken /\ cached' # before'[c]]_authVars

\* What a call hands to its caller is of use.
ReturnsUsableToken == ReturnsLiveToken /\ ForcedCallGetsNewToken

\* A forced call mints only while the token is cached that it found when it began: of all the forced
\* calls that found one token, one replaces it, and the others take over what it minted.  It is the
\* found token that is compared and not the rejected one, which ensure_token is not told: a caller
\* that hears of the rejection only after the token was replaced has found the new one, and mints
\* again.
OneMintPerFoundToken ==
    [][\A c \in Callers :
        Minted(c) /\ force[c] /\ before[c] # NoToken => cached = before[c]]_authVars
=============================================================================
