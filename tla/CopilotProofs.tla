---------------------------- MODULE CopilotProofs ----------------------------
(***************************************************************************)
(* The Copilot token session, the transport over it and the catalog, with  *)
(* any number of callers, requests, retries, tokens, listings and          *)
(* administrators: what a forced refresh gives its caller, that a rejected *)
(* token is replaced once, that the transport uses the session as the      *)
(* session expects, that a request that was rejected is sent again with    *)
(* another token; and that a refresh of the catalog never costs what is    *)
(* known and leaves nothing behind its close.                              *)
(***************************************************************************)
EXTENDS CopilotTransport, CopilotCatalog, TLAPS

\* Nothing holds a token that was not minted yet.
AllMinted ==
    /\ cached <= minted
    /\ stored.access <= minted
    /\ \A o \in orphans : o.access <= minted
    /\ \A c \in Callers : before[c] <= minted

\* What a call has seen of the cached token while it refreshes it.
SeenInv ==
    \A c \in Callers :
        /\ pc[c] \in Critical => cred[c] # NoCredential
        /\ before[c] # NoToken => cached # NoToken
        /\ pc[c] = "minting" /\ force[c] /\ before[c] # NoToken => cached = before[c]
        /\ pc[c] = "persisting" => cached # NoToken /\ cached # before[c]

AuthInv == AuthTypeOK /\ AllMinted /\ SeenInv

LEMMA AuthInitially == AuthInit => AuthInv
  <1> SUFFICES ASSUME AuthInit PROVE AuthInv
    OBVIOUS
  <1> USE AuthAssumption, NamesAssumption DEF AuthInit
  <1>1. 1 \in Tokens /\ stored \in Credentials /\ stored.access = 1
    BY DEF Tokens, Credentials
  <1>2. life \in [Tokens -> {"long", "short", "expired"}]
    OBVIOUS
  <1>3. AuthTypeOK
    BY <1>1, <1>2 DEF AuthTypeOK, Tokens, Credentials, Critical, Ended
  <1>4. AllMinted /\ SeenInv
    BY <1>1 DEF AllMinted, SeenInv, NoToken, Critical
  <1> QED
    BY <1>3, <1>4 DEF AuthInv

\* What the tokens a call sees are.
LEMMA TokenFacts ==
    ASSUME AuthTypeOK
    PROVE  /\ Adopted \in Tokens \union {NoToken}
           /\ \A c \in Callers : cred[c] # NoCredential /\ cached # NoToken
                => Refreshed(c) \in Credentials /\ Refreshed(c).access = cached
           /\ NoCredential.access = NoToken
  BY DEF AuthTypeOK, Adopted, Credentials, NoCredential, NoToken, Refreshed

LEMMA AuthTypeStep ==
    ASSUME AuthInv, [AuthNext]_authVars
    PROVE  AuthTypeOK'
  <1> USE AuthAssumption, NamesAssumption, TokenFacts
      DEF AuthInv, AuthTypeOK, Critical, Ended, tokenVars, diskVars, callVars
  <1>1. ASSUME NEW c \in Callers, NEW f \in BOOLEAN, Begin(c, f) PROVE AuthTypeOK'
    BY <1>1 DEF Begin, Goto
  <1>2. ASSUME NEW c \in Callers, Acquire(c) PROVE AuthTypeOK'
    BY <1>2 DEF Acquire, Goto
  <1>3. ASSUME NEW c \in Callers, MintRetried(c) PROVE AuthTypeOK'
    BY <1>3 DEF MintRetried
  <1>4. ASSUME NEW c \in Callers, MintExhausted(c) PROVE AuthTypeOK'
    BY <1>4 DEF MintExhausted, Release, Goto
  <1>5. ASSUME NEW c \in Callers, MintRejected(c) PROVE AuthTypeOK'
    BY <1>5 DEF MintRejected, Release, Goto
  <1>6. ASSUME NEW c \in Callers, Minted(c) PROVE AuthTypeOK'
    BY <1>6 DEF Minted, Goto, Tokens
  <1>7. ASSUME NEW c \in Callers, Persisted(c) PROVE AuthTypeOK'
    BY <1>7 DEF Persisted, Release, Goto, SeenInv
  <1>8. ASSUME NEW c \in Callers, PersistFails(c) PROVE AuthTypeOK'
    BY <1>8 DEF PersistFails, Release, Goto
  <1>9. ASSUME NEW c \in Callers, Cancel(c) PROVE AuthTypeOK'
    BY <1>9 DEF Cancel, ReleasedIfHeld, Goto, SeenInv
  <1>10. ASSUME NEW c \in Callers, Again(c) PROVE AuthTypeOK'
    BY <1>10 DEF Again, Goto, NoToken
  <1>11. CASE OrphanWrites
    BY <1>11 DEF OrphanWrites
  <1>12. CASE Logout
    BY <1>12 DEF Logout
  <1>13. ASSUME NEW a \in Accounts, Login(a) PROVE AuthTypeOK'
    BY <1>13 DEF Login, Credentials, Tokens
  <1>14. ASSUME NEW t \in Tokens, TimePasses(t) PROVE AuthTypeOK'
    BY <1>14 DEF TimePasses
  <1>15. CASE UNCHANGED authVars
    BY <1>15 DEF authVars
  <1> QED
    BY <1>1, <1>2, <1>3, <1>4, <1>5, <1>6, <1>7, <1>8, <1>9, <1>10, <1>11, <1>12, <1>13, <1>14,
       <1>15 DEF AuthNext, World, CallStep

\* Tokens are numbers wherever they are kept.
LEMMA TokensAreNumbers ==
    ASSUME AuthTypeOK
    PROVE  /\ minted \in Nat /\ cached \in Nat /\ stored.access \in Nat
           /\ \A o \in orphans : o.access \in Nat
           /\ \A c \in Callers : before[c] \in Nat
  <1>1. minted \in Nat /\ cached \in Nat
    BY DEF AuthTypeOK, Tokens, NoToken
  <1>2. stored.access \in Nat
    BY DEF AuthTypeOK, Tokens, NoToken, Credentials, NoCredential
  <1>3. \A o \in orphans : o.access \in Nat
    BY DEF AuthTypeOK, Tokens, Credentials
  <1>4. \A c \in Callers : before[c] \in Nat
    BY DEF AuthTypeOK, Tokens, NoToken
  <1> QED
    BY <1>1, <1>2, <1>3, <1>4

LEMMA KnownStep ==
    ASSUME AuthInv, [AuthNext]_authVars
    PROVE  AllMinted'
  <1> USE AuthAssumption, TokenFacts
      DEF AuthInv, AuthTypeOK, AllMinted, Tokens, tokenVars, diskVars, callVars
  <1>n. /\ minted \in Nat /\ cached \in Nat /\ stored.access \in Nat
        /\ \A o \in orphans : o.access \in Nat
        /\ \A c \in Callers : before[c] \in Nat
    BY ONLY AuthInv, TokensAreNumbers DEF AuthInv
  <1>1. ASSUME NEW c \in Callers, NEW f \in BOOLEAN, Begin(c, f) PROVE AllMinted'
    BY <1>1 DEF Begin, Goto, Adopted, NoToken
  <1>2. ASSUME NEW c \in Callers, Acquire(c) PROVE AllMinted'
    BY <1>2 DEF Acquire, AlreadyRefreshed, Goto
  <1>3. ASSUME NEW c \in Callers, MintRetried(c) PROVE AllMinted'
    BY <1>3 DEF MintRetried
  <1>4. ASSUME NEW c \in Callers, MintExhausted(c) PROVE AllMinted'
    BY <1>4 DEF MintExhausted, Release, Goto
  <1>5. ASSUME NEW c \in Callers, MintRejected(c) PROVE AllMinted'
    BY <1>5 DEF MintRejected, Release, Goto
  <1>6. ASSUME NEW c \in Callers, Minted(c) PROVE AllMinted'
    <2>1. /\ minted' = minted + 1 /\ cached' = minted'
          /\ stored' = stored /\ orphans' = orphans /\ before' = before
      BY <1>6 DEF Minted
    <2> QED
      BY ONLY <2>1, <1>n, AllMinted DEF AllMinted
  <1>7. ASSUME NEW c \in Callers, Persisted(c) PROVE AllMinted'
    BY <1>7 DEF Persisted, Release, Goto, Critical, SeenInv
  <1>8. ASSUME NEW c \in Callers, PersistFails(c) PROVE AllMinted'
    BY <1>8 DEF PersistFails, Release, Goto
  <1>9. ASSUME NEW c \in Callers, Cancel(c) PROVE AllMinted'
    BY <1>9 DEF Cancel, ReleasedIfHeld, Goto, Critical, SeenInv
  <1>10. ASSUME NEW c \in Callers, Again(c) PROVE AllMinted'
    BY <1>10 DEF Again, Goto, NoToken
  <1>11. ASSUME OrphanWrites PROVE AllMinted'
    BY <1>11 DEF OrphanWrites
  <1>12. ASSUME Logout PROVE AllMinted'
    BY <1>12 DEF Logout, NoToken
  <1>13. ASSUME NEW a \in Accounts, Login(a) PROVE AllMinted'
    <2>1. /\ minted' = minted + 1 /\ stored'.access = minted' /\ cached' = cached
          /\ orphans' = orphans /\ before' = before
      BY <1>13 DEF Login, callVars
    <2> QED
      BY ONLY <2>1, <1>n, AllMinted DEF AllMinted
  <1>14. ASSUME NEW t \in Tokens, TimePasses(t) PROVE AllMinted'
    BY <1>14 DEF TimePasses
  <1>15. ASSUME UNCHANGED authVars PROVE AllMinted'
    BY <1>15 DEF authVars
  <1> QED
    BY <1>1, <1>2, <1>3, <1>4, <1>5, <1>6, <1>7, <1>8,
       <1>9, <1>10, <1>11, <1>12, <1>13, <1>14, <1>15 DEF AuthNext, World, CallStep

LEMMA SeenStep ==
    ASSUME AuthInv, [AuthNext]_authVars
    PROVE  SeenInv'
  <1> USE TokenFacts DEF AuthInv, AuthTypeOK, SeenInv, Critical, tokenVars, diskVars, callVars
  <1>1. ASSUME NEW c \in Callers, NEW f \in BOOLEAN, Begin(c, f) PROVE SeenInv'
    BY <1>1 DEF Begin, Goto, Adopted
  <1>2. ASSUME NEW c \in Callers, Acquire(c) PROVE SeenInv'
    BY <1>2 DEF Acquire, AlreadyRefreshed, Goto
  <1>3. ASSUME NEW c \in Callers, MintRetried(c) PROVE SeenInv'
    BY <1>3 DEF MintRetried
  <1>4. ASSUME NEW c \in Callers, MintExhausted(c) PROVE SeenInv'
    BY <1>4 DEF MintExhausted, Release, Goto
  <1>5. ASSUME NEW c \in Callers, MintRejected(c) PROVE SeenInv'
    BY <1>5 DEF MintRejected, Release, Goto
  <1>6. ASSUME NEW c \in Callers, Minted(c) PROVE SeenInv'
    BY <1>6 DEF Minted, Goto, Tokens, AllMinted, NoToken
  <1>7. ASSUME NEW c \in Callers, Persisted(c) PROVE SeenInv'
    BY <1>7 DEF Persisted, Release, Goto
  <1>8. ASSUME NEW c \in Callers, PersistFails(c) PROVE SeenInv'
    BY <1>8 DEF PersistFails, Release, Goto
  <1>9. ASSUME NEW c \in Callers, Cancel(c) PROVE SeenInv'
    BY <1>9 DEF Cancel, ReleasedIfHeld, Goto
  <1>10. ASSUME NEW c \in Callers, Again(c) PROVE SeenInv'
    BY <1>10 DEF Again, Goto, NoToken
  <1>11. ASSUME OrphanWrites PROVE SeenInv'
    BY <1>11 DEF OrphanWrites
  <1>12. ASSUME Logout PROVE SeenInv'
    BY <1>12 DEF Logout
  <1>13. ASSUME NEW a \in Accounts, Login(a) PROVE SeenInv'
    BY <1>13 DEF Login, Credentials, Tokens
  <1>14. ASSUME NEW t \in Tokens, TimePasses(t) PROVE SeenInv'
    BY <1>14 DEF TimePasses
  <1>15. ASSUME UNCHANGED authVars PROVE SeenInv'
    BY <1>15 DEF authVars
  <1> QED
    BY <1>1, <1>2, <1>3, <1>4, <1>5, <1>6, <1>7, <1>8,
       <1>9, <1>10, <1>11, <1>12, <1>13, <1>14, <1>15 DEF AuthNext, World, CallStep

LEMMA AuthInvariance == AuthSpec => []AuthInv
  <1>1. AuthInv /\ [AuthNext]_authVars => AuthInv'
    BY AuthTypeStep, KnownStep, SeenStep DEF AuthInv
  <1> QED
    BY <1>1, AuthInitially, PTL DEF AuthSpec

\* The session's variables stay within their types, and the lock is held by
\* exactly the call that mints or persists.
THEOREM SessionTypes == AuthSpec => []AuthTypeOK
  BY AuthInvariance, PTL DEF AuthInv

\* A forced call that returns has another token than the one it found.
THEOREM ForcedCallsRenew == AuthSpec => ForcedCallGetsNewToken
  <1>1. ASSUME AuthInv, [AuthNext]_authVars, NEW c \in Callers,
               pc[c] # "returned", pc'[c] = "returned", force'[c]
        PROVE  cached' # NoToken /\ cached' # before'[c]
    <2> USE <1>1 DEF AuthInv, AuthTypeOK, Critical, tokenVars, diskVars, callVars
    <2>1. \A d \in Callers : d # c => ~(Begin(d, TRUE) \/ Begin(d, FALSE) \/ CallStep(d) \/ Cancel(d) \/ Again(d))
      BY DEF Begin, CallStep, Acquire, MintRetried, MintExhausted, MintRejected, Minted, Persisted,
         PersistFails, Cancel, Again, Release, ReleasedIfHeld, Goto
    <2>2. ~World /\ ~UNCHANGED authVars
      BY DEF World, OrphanWrites, Login, Logout, TimePasses, authVars
    <2>3. CallStep(c)
      <3>1. ~Begin(c, TRUE) /\ ~Begin(c, FALSE) /\ ~Cancel(c) /\ ~Again(c)
        BY DEF Begin, Cancel, Again, ReleasedIfHeld, Goto
      <3> QED
        BY <2>1, <2>2, <3>1 DEF AuthNext
    <2>4. CASE Acquire(c)
      BY <2>4 DEF Acquire, AlreadyRefreshed, Goto
    <2>5. CASE Persisted(c)
      BY <2>5 DEF Persisted, SeenInv
    <2>6. ~MintRetried(c) /\ ~Minted(c) /\ ~MintRejected(c) /\ ~PersistFails(c)
      BY DEF MintRetried, Minted, MintRejected, PersistFails, Release, Goto
    <2>7. ~MintExhausted(c)
      BY DEF MintExhausted, FallsBack, Release, Goto
    <2> QED
      BY <2>3, <2>4, <2>5, <2>6, <2>7 DEF CallStep
  <1>2. AuthInv /\ [AuthNext]_authVars => \A c \in Callers :
            pc[c] # "returned" /\ pc'[c] = "returned" /\ force'[c]
                => cached' # NoToken /\ cached' # before'[c]
    BY <1>1
  <1> QED
    BY <1>2, AuthInvariance, PTL DEF AuthSpec, ForcedCallGetsNewToken

\* Of the forced calls that found one token, one replaces it, however many there are
\* (token_before_lock of ensure_token).
THEOREM FoundTokenReplacedOnce == AuthSpec => OneMintPerFoundToken
  <1>1. AuthInv => \A c \in Callers :
            Minted(c) /\ force[c] /\ before[c] # NoToken => cached = before[c]
    BY DEF AuthInv, SeenInv, Minted
  <1> QED
    BY <1>1, AuthInvariance, PTL DEF AuthSpec, OneMintPerFoundToken

\* A call that is not forced returns a token that still lives: from the cache, from auth.json,
\* from the call that had the lock before, or the cached one after its own mint failed.
THEOREM CallsReturnLive == AuthSpec => ReturnsLiveToken
  <1>1. ASSUME AuthInv, [AuthNext]_authVars, NEW c \in Callers,
               pc[c] # "persisting", pc[c] # "returned", pc'[c] = "returned", ~force'[c]
        PROVE  cached' # NoToken /\ life'[cached'] # "expired"
    <2> USE <1>1 DEF AuthInv, AuthTypeOK, Critical, tokenVars, diskVars, callVars
    <2>1. \A d \in Callers : d # c =>
              ~(Begin(d, TRUE) \/ Begin(d, FALSE) \/ CallStep(d) \/ Cancel(d) \/ Again(d))
      BY DEF Begin, CallStep, Acquire, MintRetried, MintExhausted, MintRejected, Minted, Persisted,
         PersistFails, Cancel, Again, Release, ReleasedIfHeld, Goto
    <2>2. ~World /\ ~UNCHANGED authVars
      BY DEF World, OrphanWrites, Login, Logout, TimePasses, authVars
    <2>3. ~Begin(c, TRUE) /\ ~Cancel(c) /\ ~Again(c)
      BY DEF Begin, Cancel, Again, ReleasedIfHeld, Goto
    <2>4. Begin(c, FALSE) \/ CallStep(c)
      BY <2>1, <2>2, <2>3 DEF AuthNext
    <2>5. CASE Begin(c, FALSE)
      BY <2>5 DEF Begin, Goto, LongLived
    <2>6. CASE Acquire(c)
      BY <2>6 DEF Acquire, AlreadyRefreshed, LongLived, Goto
    <2>7. CASE MintExhausted(c)
      BY <2>7 DEF MintExhausted, FallsBack, Unexpired, Release, Goto
    <2>8. ~MintRetried(c) /\ ~Minted(c) /\ ~MintRejected(c) /\ ~Persisted(c) /\ ~PersistFails(c)
      BY DEF MintRetried, Minted, MintRejected, Persisted, PersistFails, Release, Goto
    <2> QED
      BY <2>4, <2>5, <2>6, <2>7, <2>8 DEF CallStep
  <1>2. AuthInv /\ [AuthNext]_authVars => \A c \in Callers :
            pc[c] # "persisting" /\ pc[c] # "returned" /\ pc'[c] = "returned" /\ ~force'[c]
                => cached' # NoToken /\ life'[cached'] # "expired"
    BY <1>1
  <1> QED
    BY <1>2, AuthInvariance, PTL DEF AuthSpec, ReturnsLiveToken

\* ensure_token: whatever fails and whoever interferes, what a call returns is of use to it.
THEOREM CallsReturnUsable == AuthSpec => ReturnsUsableToken
  BY CallsReturnLive, ForcedCallsRenew, PTL DEF ReturnsUsableToken

-----------------------------------------------------------------------------
(* The transport.                                                          *)

\* What a forced call may rely on: the cached token is at least as new as the
\* one it found, and newer once the call is done.
ForcedInv ==
    \A c \in Callers :
        force[c] /\ pc[c] \in {"waiting", "minting", "persisting", "returned"}
            => /\ before[c] <= cached
               /\ pc[c] \in {"persisting", "returned"} => before[c] < cached

\* A request waiting for its retry is inside a forced call that found the
\* token of its first attempt or a later one.
HealInv ==
    \A r \in Requests :
        /\ sent[r] \in Nat
        /\ sent[r] <= cached
        /\ stage[r] = "healing" /\ pc[r] # "failed" => force[r] /\ sent[r] <= before[r]

Inv == TypeOK /\ AuthInv /\ ForcedInv /\ HealInv

LEMMA Numbers ==
    ASSUME AuthInv
    PROVE  /\ cached \in Nat /\ minted \in Nat /\ stored.access \in Nat
           /\ \A c \in Callers : before[c] \in Nat
           /\ cached <= minted
  BY DEF AuthInv, AuthTypeOK, Tokens, NoToken, AllMinted, Credentials, NoCredential

\* Every step of the transport is a step of the session, or none.
LEMMA StepOfSession ==
    ASSUME [Next]_vars
    PROVE  [AuthNext]_authVars
  <1>1. ASSUME NEW r \in Requests, Arrive(r) \/ Heal(r)
        PROVE  \E f \in BOOLEAN : Begin(r, f)
    BY <1>1 DEF Arrive, Heal, ForcedHeal
  <1>2. ASSUME NEW r \in Requests, AuthStep(r) \/ GivenUpEarly(r)
        PROVE  CallStep(r) \/ Cancel(r)
    BY <1>2 DEF AuthStep, GivenUpEarly
  <1>3. ASSUME NEW r \in Requests, FirstSend(r) \/ NoTokenForRequest(r) \/ Resend(r)
        PROVE  Again(r)
    BY <1>3 DEF FirstSend, NoTokenForRequest, Resend
  <1>4. ASSUME NEW r \in Requests,
               Accepted(r) \/ Rejected(r) \/ Disconnected(r) \/ DisconnectedAgain(r) \/ Recycled(r)
                 \/ SendFails(r) \/ Received(r) \/ GivenUp(r)
        PROVE  UNCHANGED authVars
    BY <1>4 DEF Accepted, Rejected, Disconnected, DisconnectedAgain, Recycled, SendFails, Received, GivenUp
  <1>5. ASSUME AgedClosed \/ Shutdown \/ UNCHANGED vars
        PROVE  UNCHANGED authVars
    BY <1>5 DEF AgedClosed, Shutdown, vars
  <1> QED
    BY <1>1, <1>2, <1>3, <1>4, <1>5 DEF Next, Advance, AuthNext, Requests

LEMMA AuthInvStep ==
    ASSUME AuthInv, [AuthNext]_authVars
    PROVE  AuthInv'
  BY AuthTypeStep, KnownStep, SeenStep DEF AuthInv

\* Tokens are only ever replaced by newer ones.
LEMMA OnlyNewer ==
    ASSUME AuthInv, [AuthNext]_authVars
    PROVE  cached <= cached' /\ cached' \in Nat
  <1> USE Numbers DEF tokenVars
  <1>1. ASSUME NEW c \in Callers, NEW f \in BOOLEAN, Begin(c, f) PROVE cached <= cached' /\ cached' \in Nat
    BY <1>1 DEF Begin, Adopted, NoToken
  <1>2. ASSUME NEW c \in Callers, Minted(c) PROVE cached <= cached' /\ cached' \in Nat
    BY <1>2 DEF Minted
  <1>3. ASSUME NEW c \in Callers,
               Acquire(c) \/ MintRetried(c) \/ MintExhausted(c) \/ MintRejected(c) \/ Persisted(c)
                 \/ PersistFails(c) \/ Cancel(c) \/ Again(c)
        PROVE  cached' = cached
    BY <1>3 DEF Acquire, MintRetried, MintExhausted, MintRejected, Persisted, PersistFails, Cancel, Again
  <1>4. ASSUME World PROVE cached' = cached
    BY <1>4 DEF World, OrphanWrites, Logout, Login, TimePasses
  <1>5. ASSUME UNCHANGED authVars PROVE cached' = cached
    BY <1>5 DEF authVars
  <1> QED
    BY <1>1, <1>2, <1>3, <1>4, <1>5 DEF AuthNext, CallStep

LEMMA ForcedStep ==
    ASSUME AuthInv, ForcedInv, [AuthNext]_authVars
    PROVE  ForcedInv'
  <1> USE Numbers, OnlyNewer, AuthInvStep DEF ForcedInv, AuthInv, AuthTypeOK, tokenVars, diskVars, callVars
  <1>1. ASSUME NEW c \in Callers, NEW f \in BOOLEAN, Begin(c, f) PROVE ForcedInv'
    BY <1>1 DEF Begin, Goto
  <1>2. ASSUME NEW c \in Callers, Acquire(c) PROVE ForcedInv'
    BY <1>2 DEF Acquire, AlreadyRefreshed, Goto
  <1>3. ASSUME NEW c \in Callers, MintRetried(c) PROVE ForcedInv'
    BY <1>3 DEF MintRetried
  <1>4. ASSUME NEW c \in Callers, MintExhausted(c) PROVE ForcedInv'
    BY <1>4 DEF MintExhausted, FallsBack, Release, Goto
  <1>5. ASSUME NEW c \in Callers, MintRejected(c) PROVE ForcedInv'
    BY <1>5 DEF MintRejected, Release, Goto
  <1>6. ASSUME NEW c \in Callers, Minted(c) PROVE ForcedInv'
    BY <1>6 DEF Minted, Goto
  <1>7. ASSUME NEW c \in Callers, Persisted(c) PROVE ForcedInv'
    BY <1>7 DEF Persisted, Release, Goto
  <1>8. ASSUME NEW c \in Callers, PersistFails(c) PROVE ForcedInv'
    BY <1>8 DEF PersistFails, Release, Goto
  <1>9. ASSUME NEW c \in Callers, Cancel(c) PROVE ForcedInv'
    BY <1>9 DEF Cancel, ReleasedIfHeld, Goto
  <1>10. ASSUME NEW c \in Callers, Again(c) PROVE ForcedInv'
    BY <1>10 DEF Again, Goto
  <1>11. ASSUME World PROVE ForcedInv'
    BY <1>11 DEF World, OrphanWrites, Logout, Login, TimePasses
  <1>12. ASSUME UNCHANGED authVars PROVE ForcedInv'
    BY <1>12 DEF authVars
  <1> QED
    BY <1>1, <1>2, <1>3, <1>4, <1>5, <1>6, <1>7, <1>8, <1>9, <1>10, <1>11, <1>12 DEF AuthNext, CallStep

\* A step of the session that is not the request's own leaves its call alone.
LEMMA CallsOfOthers ==
    ASSUME AuthTypeOK, NEW r \in Callers,
           World \/ UNCHANGED authVars
             \/ \E c \in Callers \ {r} : (\E f \in BOOLEAN : Begin(c, f)) \/ CallStep(c) \/ Cancel(c) \/ Again(c)
    PROVE  pc'[r] = pc[r] /\ force'[r] = force[r] /\ before'[r] = before[r]
  BY DEF AuthTypeOK, World, OrphanWrites, Logout, Login, TimePasses, authVars, callVars, Begin, CallStep,
     Acquire, MintRetried, MintExhausted, MintRejected, Minted, Persisted, PersistFails, Cancel, Again,
     Release, ReleasedIfHeld, Goto

\* The request's own call keeps what it found, and is not revived.
LEMMA CallOfOwn ==
    ASSUME AuthTypeOK, NEW r \in Callers, CallStep(r) \/ Cancel(r)
    PROVE  /\ force'[r] = force[r] /\ before'[r] = before[r]
           /\ pc[r] # "failed"
  <1>1. pc[r] \in {"waiting"} \union Critical
    BY DEF CallStep, Acquire, MintRetried, MintExhausted, MintRejected, Minted, Persisted, PersistFails,
       Cancel, Critical
  <1>2. UNCHANGED <<force, before>>
    BY DEF CallStep, callVars, Acquire, MintRetried, MintExhausted, MintRejected, Minted, Persisted,
       PersistFails, Cancel
  <1> QED
    BY <1>1, <1>2 DEF Critical

LEMMA HealStep ==
    ASSUME Inv, [Next]_vars
    PROVE  HealInv'
  <1> USE Numbers, StepOfSession, OnlyNewer, CallsOfOthers, CallOfOwn
      DEF Inv, HealInv, TypeOK, AuthTypeOK, Requests, sendVars, Move
  <1>1. SUFFICES ASSUME NEW r \in Requests
                 PROVE  /\ sent'[r] \in Nat /\ sent'[r] <= cached'
                        /\ stage'[r] = "healing" /\ pc'[r] # "failed" => force'[r] /\ sent'[r] <= before'[r]
    OBVIOUS
  <1> DEFINE Goal == /\ sent'[r] \in Nat /\ sent'[r] <= cached'
                     /\ stage'[r] = "healing" /\ pc'[r] # "failed" => force'[r] /\ sent'[r] <= before'[r]
  <1>2. ASSUME NEW s \in Requests, Arrive(s) PROVE Goal
    BY <1>2 DEF Arrive, Begin, Goto
  <1>3. ASSUME NEW s \in Requests, AuthStep(s) PROVE Goal
    BY <1>3 DEF AuthStep
  <1>4. ASSUME NEW s \in Requests, FirstSend(s) PROVE Goal
    BY <1>4 DEF FirstSend, Sends, Again, Goto, tokenVars
  <1>5. ASSUME NEW s \in Requests, NoTokenForRequest(s) PROVE Goal
    BY <1>5 DEF NoTokenForRequest, Again, Goto, tokenVars
  <1>6. ASSUME NEW s \in Requests, Accepted(s) \/ Rejected(s) PROVE Goal
    BY <1>6 DEF Accepted, Rejected, HealsOnce, authVars, callVars, tokenVars
  <1>7. ASSUME NEW s \in Requests, Heal(s) PROVE Goal
    BY <1>7 DEF Heal, ForcedHeal, Begin, Goto, Adopted
  <1>8. ASSUME NEW s \in Requests, Resend(s) PROVE Goal
    BY <1>8 DEF Resend, Sends, Again, Goto, tokenVars
  <1>9. ASSUME NEW s \in Requests, Disconnected(s) \/ DisconnectedAgain(s) \/ Recycled(s) PROVE Goal
    BY <1>9 DEF Disconnected, DisconnectedAgain, Recycled, Sends, authVars, callVars, tokenVars
  <1>10. ASSUME NEW s \in Requests, SendFails(s) \/ Received(s) \/ GivenUp(s) PROVE Goal
    BY <1>10 DEF SendFails, Received, GivenUp, authVars, callVars, tokenVars
  <1>11. ASSUME NEW s \in Requests, GivenUpEarly(s) PROVE Goal
    BY <1>11 DEF GivenUpEarly
  <1>12. ASSUME (World /\ UNCHANGED sendVars) \/ AgedClosed \/ Shutdown \/ UNCHANGED vars PROVE Goal
    BY <1>12 DEF AgedClosed, Shutdown, vars
  <1> QED
    BY <1>2, <1>3, <1>4, <1>5, <1>6, <1>7, <1>8, <1>9, <1>10, <1>11, <1>12 DEF Next, Advance

LEMMA Initially == Init => Inv
  <1> SUFFICES ASSUME Init PROVE Inv
    OBVIOUS
  <1> USE AuthInitially DEF Init, Requests
  <1>1. TypeOK
    BY DEF TypeOK, AuthInv, AuthInit, NoClient, NoToken
  <1>2. ForcedInv
    BY DEF ForcedInv, AuthInit
  <1>3. HealInv
    BY DEF HealInv, AuthInit, NoToken
  <1> QED
    BY <1>1, <1>2, <1>3 DEF Inv

\* Whatever get_client does, the pool and the current client keep their types.
LEMMA ClientGiven ==
    ASSUME NEW pool \in [Clients -> {"unused", "open", "aging", "closing", "closed"}],
           NEW now \in Clients \union {NoClient}, GetClient(pool, now)
    PROVE  /\ clients' \in [Clients -> {"unused", "open", "aging", "closing", "closed"}]
           /\ current' \in Clients /\ current' # NoClient
           /\ clients'[current'] = "open"
  BY TransportAssumption DEF GetClient, Clients, NoClient

LEMMA TypeStep ==
    ASSUME Inv, [Next]_vars
    PROVE  TypeOK'
  <1> USE StepOfSession, AuthInvStep, ClientGiven DEF Inv, Requests, sendVars, Move
  <1>a. AuthTypeOK /\ AuthTypeOK'
    BY DEF AuthInv
  <1>1. ASSUME NEW r \in Requests, Arrive(r) PROVE TypeOK'
    <2>1. \A s \in Requests : s # r => pc'[s] = pc[s]
      BY <1>1, <1>a, CallsOfOthers DEF Arrive
    <2> QED
      BY <1>1, <1>a, <2>1 DEF TypeOK, Arrive
  <1>2. ASSUME NEW r \in Requests, AuthStep(r) PROVE TypeOK'
    <2>1. \A s \in Requests : s # r => pc'[s] = pc[s]
      BY <1>2, <1>a, CallsOfOthers DEF AuthStep
    <2> QED
      BY <1>2, <1>a, <2>1 DEF TypeOK, AuthStep
  <1>3. ASSUME NEW r \in Requests, FirstSend(r) PROVE TypeOK'
    <2>1. pc' = [pc EXCEPT ![r] = "idle"] /\ cached' = cached
      BY <1>3 DEF FirstSend, Again, Goto, tokenVars
    <2>2. /\ clients' \in [Clients -> {"unused", "open", "aging", "closing", "closed"}]
          /\ current' \in Clients \union {NoClient}
          /\ current' # NoClient => clients'[current'] \in {"open", "closing", "closed"}
          /\ using' \in [Requests -> Clients \union {NoClient, OwnClient}]
          /\ \A s \in Requests : s # r => using'[s] = using[s]
          /\ using'[r] # NoClient
      BY <1>3, TransportAssumption DEF FirstSend, TypeOK, OwnClient, NoClient
    <2>3. /\ stage' = [stage EXCEPT ![r] = "sending"]
          /\ tries' = [tries EXCEPT ![r] = 0]
          /\ sent' = [sent EXCEPT ![r] = cached]
          /\ shut' = shut
      BY <1>3 DEF FirstSend, Sends
    <2> QED
      BY <1>a, <2>1, <2>2, <2>3 DEF TypeOK, AuthTypeOK
  <1>4. ASSUME NEW r \in Requests, NoTokenForRequest(r) PROVE TypeOK'
    BY <1>4, <1>a DEF TypeOK, NoTokenForRequest, Again, Goto, AuthTypeOK
  <1>5. ASSUME NEW r \in Requests, Accepted(r) PROVE TypeOK'
    BY <1>5, <1>a DEF TypeOK, Accepted, authVars, callVars
  <1>6. ASSUME NEW r \in Requests, Rejected(r) PROVE TypeOK'
    <2>1. HealsOnce(r) \in {"rejected", "ended"}
      BY DEF HealsOnce
    <2>2. UNCHANGED <<pc, clients, current, using, tries, sent, shut>>
      BY <1>6 DEF Rejected, authVars, callVars
    <2> QED
      BY <1>6, <1>a, <2>1, <2>2 DEF TypeOK, Rejected
  <1>7. ASSUME NEW r \in Requests, Heal(r) PROVE TypeOK'
    <2>1. \A s \in Requests : s # r => pc'[s] = pc[s]
      BY <1>7, <1>a, CallsOfOthers DEF Heal, ForcedHeal
    <2> QED
      BY <1>7, <1>a, <2>1 DEF TypeOK, Heal
  <1>8. ASSUME NEW r \in Requests, Resend(r) PROVE TypeOK'
    <2>1. /\ pc' = [pc EXCEPT ![r] = "idle"]
          /\ stage' = [stage EXCEPT ![r] = "sending"]
          /\ tries' = [tries EXCEPT ![r] = 1]
          /\ sent' = [sent EXCEPT ![r] = cached]
          /\ UNCHANGED <<clients, current, using, shut>>
      BY <1>8 DEF Resend, Sends, Again, Goto
    <2>2. using[r] # NoClient
      BY <1>8 DEF TypeOK, Resend
    <2> QED
      BY <1>a, <2>1, <2>2 DEF TypeOK, AuthTypeOK
  <1>9. ASSUME NEW r \in Requests, Disconnected(r) PROVE TypeOK'
    <2>1. current \in Clients /\ current # NoClient
      BY <1>9 DEF Disconnected, Open, Clients, NoClient
    <2> QED
      BY <1>9, <1>a, <2>1 DEF TypeOK, Disconnected, authVars, callVars
  <1>10. ASSUME NEW r \in Requests, DisconnectedAgain(r) \/ Recycled(r) PROVE TypeOK'
    <2>1. NoClient \in Clients \union {NoClient}
          /\ [clients EXCEPT ![using[r]] = "closed"] \in [Clients -> {"unused", "open", "aging", "closing", "closed"}]
      BY DEF TypeOK
    <2>2. /\ clients' \in [Clients -> {"unused", "open", "aging", "closing", "closed"}]
          /\ current' \in Clients /\ current' # NoClient
          /\ clients'[current'] = "open"
      BY <1>10, <2>1 DEF TypeOK, DisconnectedAgain, Recycled
    <2>3. UNCHANGED <<authVars, pc, shut>>
      BY <1>10 DEF DisconnectedAgain, Recycled, authVars, callVars
    <2>4. /\ stage' = [stage EXCEPT ![r] = "sending"]
          /\ tries' = [tries EXCEPT ![r] = 1]
          /\ sent' = [sent EXCEPT ![r] = cached]
          /\ using' = [using EXCEPT ![r] = current']
      BY <1>10 DEF DisconnectedAgain, Recycled, Sends
    <2>5. pc[r] = "idle"
      BY <1>10 DEF DisconnectedAgain, Recycled, TypeOK
    <2> QED
      BY <1>a, <2>2, <2>3, <2>4, <2>5 DEF TypeOK, AuthTypeOK
  <1>11. ASSUME NEW r \in Requests, SendFails(r) \/ Received(r) PROVE TypeOK'
    BY <1>11, <1>a DEF TypeOK, SendFails, Received, authVars, callVars
  <1>12. ASSUME NEW r \in Requests, GivenUp(r) PROVE TypeOK'
    BY <1>12, <1>a DEF TypeOK, GivenUp, authVars, callVars
  <1>13. ASSUME NEW r \in Requests, GivenUpEarly(r) PROVE TypeOK'
    <2>1. \A s \in Requests : s # r => pc'[s] = pc[s]
      BY <1>13, <1>a, CallsOfOthers DEF GivenUpEarly
    <2> QED
      BY <1>13, <1>a, <2>1 DEF TypeOK, GivenUpEarly
  <1>14. ASSUME World, UNCHANGED sendVars PROVE TypeOK'
    BY <1>14, <1>a, CallsOfOthers DEF TypeOK
  <1>15. ASSUME AgedClosed PROVE TypeOK'
    BY <1>15, <1>a DEF TypeOK, AgedClosed, authVars, callVars
  <1>16. ASSUME Shutdown PROVE TypeOK'
    BY <1>16, <1>a DEF TypeOK, Shutdown, authVars, callVars
  <1>17. ASSUME UNCHANGED vars PROVE TypeOK'
    BY <1>17, <1>a DEF TypeOK, vars, authVars, callVars
  <1> QED
    BY <1>1, <1>2, <1>3, <1>4, <1>5, <1>6, <1>7, <1>8, <1>9, <1>10, <1>11, <1>12, <1>13, <1>14, <1>15,
       <1>16, <1>17 DEF Next, Advance

LEMMA Invariance == Spec => []Inv
  <1>1. Inv /\ [Next]_vars => Inv'
    BY TypeStep, HealStep, ForcedStep, AuthInvStep, StepOfSession DEF Inv
  <1> QED
    BY <1>1, Initially, PTL DEF Spec

\* Sessions, clients and requests stay within their types, and only requests
\* that wait for a token have a call of ensure_token under way.
THEOREM TransportTypes == Spec => []TypeOK
  BY Invariance, PTL DEF Inv

\* The transport uses the session as the session's own specification says:
\* what holds of the session under any callers holds of it here.
THEOREM ActsAsSession == Spec => AuthSpec
  <1>1. Init => AuthInit
    BY DEF Init
  <1> QED
    BY <1>1, StepOfSession, PTL DEF Spec, AuthSpec

\* A request that was rejected is never sent again with the rejected token,
\* however many requests share the session and whatever fails meanwhile.
THEOREM RetriesWithNewToken == Spec => RetryCarriesNewToken
  <1>1. ASSUME Inv, [Next]_vars, NEW r \in Requests, stage[r] = "healing", stage'[r] = "sending"
        PROVE  sent'[r] # sent[r]
    <2>1. Resend(r)
      <3> USE <1>1 DEF Inv, TypeOK, Requests, sendVars
      <3>1. \A s \in Requests : s # r => ~(Arrive(s) \/ FirstSend(s) \/ NoTokenForRequest(s) \/ Accepted(s)
                \/ Rejected(s) \/ Heal(s) \/ Resend(s) \/ Disconnected(s) \/ DisconnectedAgain(s)
                \/ Recycled(s) \/ SendFails(s) \/ Received(s) \/ GivenUp(s))
        <4> SUFFICES ASSUME NEW s \in Requests, s # r
                     PROVE  ~(Arrive(s) \/ FirstSend(s) \/ NoTokenForRequest(s) \/ Accepted(s)
                               \/ Rejected(s) \/ Heal(s) \/ Resend(s) \/ Disconnected(s)
                               \/ DisconnectedAgain(s) \/ Recycled(s) \/ SendFails(s)
                               \/ Received(s) \/ GivenUp(s))
          OBVIOUS
        <4>1. \A place : ~Move(s, place)
          BY DEF Move
        <4> QED
          BY ONLY <4>1 DEF Arrive, FirstSend, NoTokenForRequest, Accepted, Rejected, Heal, Resend,
             Disconnected, DisconnectedAgain, Recycled, SendFails, Received, GivenUp, Sends
      <3>2. ~(Arrive(r) \/ FirstSend(r) \/ NoTokenForRequest(r) \/ Accepted(r)
                \/ Rejected(r) \/ Heal(r) \/ Disconnected(r) \/ DisconnectedAgain(r)
                \/ Recycled(r) \/ SendFails(r) \/ Received(r) \/ GivenUp(r))
        BY DEF Arrive, FirstSend, NoTokenForRequest, Accepted, Rejected, Heal, Disconnected,
           DisconnectedAgain, Recycled, SendFails, Received, GivenUp, Sends, Move
      <3>3. \A s \in Requests : ~AuthStep(s) /\ ~GivenUpEarly(s)
        BY DEF AuthStep, GivenUpEarly, Move
      <3>4. ~UNCHANGED sendVars /\ ~AgedClosed /\ ~Shutdown /\ ~UNCHANGED vars
        BY DEF AgedClosed, Shutdown, vars
      <3> QED
        BY <3>1, <3>2, <3>3, <3>4 DEF Next, Advance
    <2>2. sent'[r] = cached /\ force[r] /\ sent[r] <= before[r] /\ before[r] < cached
      BY <1>1, <2>1 DEF Resend, Sends, Inv, HealInv, ForcedInv, TypeOK, Requests
    <2> QED
      BY <1>1, <2>2, Numbers DEF Inv, HealInv, Requests
  <1>2. Inv /\ [Next]_vars => \A r \in Requests :
            stage[r] = "healing" /\ stage'[r] = "sending" => sent'[r] # sent[r]
    BY <1>1
  <1> QED
    BY <1>2, Invariance, PTL DEF Spec, RetryCarriesNewToken

-----------------------------------------------------------------------------
(* The catalog.                                                            *)

CatalogStates == {"none", "begins", "token", "fetching", "upgrading", "refetching"}

CatalogTypeOK ==
    /\ token \in Nat /\ found \in Nat /\ fetchedWith \in Nat
    /\ catalog \in {"none", "fresh", "stale"}
    /\ at \in CatalogStates
    /\ upgraded \in BOOLEAN /\ cancelling \in BOOLEAN
    /\ closing \in {"no", "joining", "done"}
    /\ listing \in [Listings -> {"idle", "joined", "answered", "failed"}]

\* Only a task that runs is joined; the close cancels it, and what it waits for is the end.
RefreshTaskInv ==
    /\ at = "none" => \A l \in Listings : listing[l] # "joined"
    /\ cancelling => at # "none" /\ Closed
    /\ closing = "done" => at = "none"

\* The token that a fetch was sent with is not newer than the one that is there, and the
\* one that a forced call found lies between them.
FetchTokenInv ==
    /\ at \in {"fetching", "upgrading"} => fetchedWith <= token
    /\ at = "upgrading" => fetchedWith <= found /\ found <= token

CatalogInv == CatalogTypeOK /\ RefreshTaskInv /\ FetchTokenInv

-----------------------------------------------------------------------------
LEMMA CatalogInitially == CatalogInit => CatalogInv
  <1>1. CatalogInit => CatalogTypeOK
    <2>1. CatalogInit => upgraded \in BOOLEAN /\ cancelling \in BOOLEAN
      BY Zenon DEF CatalogInit
    <2>2. CatalogInit => /\ token \in Nat /\ found \in Nat /\ fetchedWith \in Nat
                  /\ catalog \in {"none", "fresh", "stale"} /\ at \in CatalogStates
                  /\ closing \in {"no", "joining", "done"}
                  /\ listing \in [Listings -> {"idle", "joined", "answered", "failed"}]
      BY DEF CatalogInit, CatalogStates, Unsent
    <2> QED
      BY <2>1, <2>2 DEF CatalogTypeOK
  <1>2. CatalogInit => RefreshTaskInv /\ FetchTokenInv
    BY Zenon DEF CatalogInit, RefreshTaskInv, FetchTokenInv, Closed
  <1> QED
    BY <1>1, <1>2 DEF CatalogInv

\* The end of a refresh keeps the types, and nobody is joined any more.
LEMMA RefreshEnding ==
    ASSUME CatalogTypeOK, NEW outcome \in {"answered", "failed"}, EndRefresh(outcome)
    PROVE  /\ at' = "none" /\ fetchedWith' \in Nat
           /\ listing' \in [Listings -> {"idle", "joined", "answered", "failed"}]
           /\ \A l \in Listings : listing'[l] # "joined"
           /\ \A l \in Listings : listing'[l] = "failed" => listing[l] = "failed" \/ outcome = "failed"
  BY DEF CatalogTypeOK, EndRefresh, Tell, Unsent

\* So does a refresh that fails, and listings fail only if no catalog stands in.
LEMMA RefreshFailing ==
    ASSUME CatalogTypeOK, NEW caught \in BOOLEAN, FailRefresh(caught)
    PROVE  /\ at' = "none" /\ fetchedWith' \in Nat
           /\ listing' \in [Listings -> {"idle", "joined", "answered", "failed"}]
           /\ \A l \in Listings : listing'[l] # "joined"
           /\ catalog' \in {"none", "fresh", "stale"}
           /\ caught /\ Known => \A l \in Listings : listing'[l] = "failed" => listing[l] = "failed"
  <1>1. CASE caught /\ Known
    <2>1. EndRefresh("answered") /\ catalog' = "fresh"
      BY <1>1 DEF FailRefresh
    <2> QED
      BY <2>1, RefreshEnding
  <1>2. CASE ~(caught /\ Known)
    <2>1. EndRefresh("failed") /\ UNCHANGED catalog
      BY <1>2 DEF FailRefresh
    <2> QED
      BY <1>2, <2>1, RefreshEnding DEF CatalogTypeOK
  <1> QED
    BY <1>1, <1>2

LEMMA CatalogStep == CatalogInv /\ [CatalogNext]_catalogVars => CatalogInv'
  <1> SUFFICES ASSUME CatalogInv, [CatalogNext]_catalogVars PROVE CatalogInv'
    OBVIOUS
  <1> USE DEF CatalogInv, CatalogTypeOK, RefreshTaskInv, FetchTokenInv, CatalogStates, Closed, sessionVars
  <1>1. ASSUME NEW l \in Listings, LeaveListing(l) PROVE CatalogInv'
    BY <1>1 DEF LeaveListing
  <1>2. ASSUME NEW l \in Listings, NEW forced \in BOOLEAN, List(l, forced) PROVE CatalogInv'
    <2>1. CASE AnswerFresh(l, forced) \/ RefuseClosed(l, forced)
      BY <1>2, <2>1 DEF List, AnswerFresh, RefuseClosed
    <2>2. CASE JoinRefresh(l, forced)
      BY <1>2, <2>2 DEF List, JoinRefresh
    <2> QED
      BY <1>2, <2>1, <2>2 DEF List
  <1>3. CASE AskToken
    BY <1>3 DEF AskToken, Runs
  <1>4. CASE TokenReady
    <2>1. token' \in Nat /\ token <= token'
      BY <1>4 DEF TokenReady
    <2> QED
      BY <1>4, <2>1 DEF TokenReady, Runs
  <1>5. CASE TokenFails
    BY <1>5, RefreshFailing DEF TokenFails, Runs
  <1>6. CASE CredentialNotWritten
    <2>1. /\ ~cancelling /\ token' = token + 1 /\ FailRefresh(FALSE)
          /\ UNCHANGED <<found, upgraded, cancelling, closing>>
      BY <1>6 DEF CredentialNotWritten, Runs
    <2>2. /\ at' = "none" /\ fetchedWith' \in Nat
          /\ listing' \in [Listings -> {"idle", "joined", "answered", "failed"}]
          /\ \A l \in Listings : listing'[l] # "joined"
          /\ catalog' \in {"none", "fresh", "stale"}
      BY <2>1, RefreshFailing
    <2> QED
      BY <2>1, <2>2
  <1>7. CASE UpgradeClient
    BY <1>7 DEF UpgradeClient, Runs
  <1>8. CASE Fetched
    BY <1>8, RefreshEnding DEF Fetched, Runs
  <1>9. CASE FetchFails
    BY <1>9, RefreshFailing DEF FetchFails, Runs
  <1>10. CASE CancelRefresh
    BY <1>10, RefreshEnding DEF CancelRefresh
  <1>11. CASE Close
    <2> USE <1>11 DEF Close
    <2>1. CASE at = "none"
      <3>1. cancelling' = FALSE /\ closing' = "done"
        BY <2>1, Zenon
      <3> QED
        BY <2>1, <3>1
    <2>2. CASE at # "none"
      <3>1. cancelling' = TRUE /\ closing' = "joining"
        BY <2>2, Zenon
      <3> QED
        BY <2>2, <3>1
    <2> QED
      BY <2>1, <2>2
  <1>12. CASE CloseReturns
    BY <1>12 DEF CloseReturns
  <1>13. CASE Expire
    BY <1>13 DEF Expire
  <1>14. CASE OthersMint
    BY <1>14 DEF OthersMint
  <1>15. CASE UNCHANGED catalogVars
    BY <1>15 DEF catalogVars
  <1> QED
    BY <1>1, <1>2, <1>3, <1>4, <1>5, <1>6, <1>7, <1>8, <1>9, <1>10, <1>11, <1>12, <1>13, <1>14, <1>15
    DEF CatalogNext, RefreshStep

\* The variables of the catalog stay within their types.
THEOREM CatalogTypes == CatalogSpec => []CatalogTypeOK
  BY CatalogInitially, CatalogStep, PTL DEF CatalogSpec, CatalogInv

\* Once the close has returned no task of the refresh runs and no listing waits for one.
THEOREM NothingLeftAfterClose == CatalogSpec => []CloseJoinsRefresh
  <1>1. CatalogInv => CloseJoinsRefresh
    BY DEF CatalogInv, RefreshTaskInv, CloseJoinsRefresh
  <1> QED
    BY CatalogInitially, CatalogStep, <1>1, PTL DEF CatalogSpec

\* The second fetch of an upgrade is sent with another token than the first, whoever mints
\* in between.
THEOREM UpgradesWithNewToken == CatalogSpec => UpgradeFetchesWithNewToken
  <1>1. CatalogInv /\ [CatalogNext]_catalogVars => [at # "refetching" /\ at' = "refetching" => fetchedWith' # fetchedWith]_catalogVars
    <2> SUFFICES ASSUME CatalogInv, CatalogNext, at # "refetching", at' = "refetching" PROVE fetchedWith' # fetchedWith
      OBVIOUS
    <2> USE DEF CatalogInv, CatalogTypeOK, FetchTokenInv, sessionVars
    <2>1. CASE TokenReady
      BY <2>1 DEF TokenReady, ForcesToken
    <2>2. CASE TokenFails \/ CredentialNotWritten \/ FetchFails
      BY <2>2, RefreshFailing DEF TokenFails, CredentialNotWritten, FetchFails
    <2>3. CASE Fetched \/ CancelRefresh
      BY <2>3, RefreshEnding DEF Fetched, CancelRefresh
    <2>4. CASE \E l \in Listings : LeaveListing(l) \/ \E forced \in BOOLEAN : List(l, forced)
      BY <2>4 DEF LeaveListing, List, AnswerFresh, RefuseClosed, JoinRefresh
    <2>5. CASE AskToken \/ UpgradeClient \/ Close \/ CloseReturns \/ Expire \/ OthersMint
      BY <2>5 DEF AskToken, UpgradeClient, Close, CloseReturns, Expire, OthersMint
    <2> QED
      BY <2>1, <2>2, <2>3, <2>4, <2>5 DEF CatalogNext, RefreshStep
  <1> QED
    BY CatalogInitially, CatalogStep, <1>1, PTL DEF CatalogSpec, UpgradeFetchesWithNewToken

\* A listing fails only while no catalog is known, after the close, or when the credential
\* cannot be written.
THEOREM CatalogStands == CatalogSpec => KnownCatalogStands
  <1>1. CatalogInv /\ [CatalogNext]_catalogVars =>
            [\A l \in Listings :
                listing[l] # "failed" /\ listing'[l] = "failed"
                    => ~Known \/ Closed \/ CredentialNotWritten]_catalogVars
    <2> SUFFICES ASSUME CatalogInv, CatalogNext, NEW l \in Listings, listing[l] # "failed", listing'[l] = "failed",
                        Known, ~Closed, ~CredentialNotWritten
                 PROVE  FALSE
      OBVIOUS
    <2> USE DEF CatalogInv, CatalogTypeOK, RefreshTaskInv
    <2>1. CASE TokenFails \/ FetchFails
      BY <2>1, RefreshFailing DEF TokenFails, FetchFails
    <2>2. CASE Fetched
      BY <2>2, RefreshEnding DEF Fetched
    <2>3. CASE CancelRefresh
      BY <2>3 DEF CancelRefresh
    <2>4. CASE \E k \in Listings : LeaveListing(k) \/ \E forced \in BOOLEAN : List(k, forced)
      BY <2>4 DEF LeaveListing, List, AnswerFresh, RefuseClosed, JoinRefresh
    <2>5. CASE AskToken \/ TokenReady \/ UpgradeClient \/ Close \/ CloseReturns \/ Expire \/ OthersMint
      BY <2>5 DEF AskToken, TokenReady, UpgradeClient, Close, CloseReturns, Expire, OthersMint
    <2> QED
      BY <2>1, <2>2, <2>3, <2>4, <2>5 DEF CatalogNext, RefreshStep
  <1> QED
    BY CatalogInitially, CatalogStep, <1>1, PTL DEF CatalogSpec, KnownCatalogStands

\* No refresh costs a catalog that is known, and none is upgraded with the token that was
\* warned of.
THEOREM RefreshesSafe == CatalogSpec => RefreshesAreSafe
  BY CatalogStands, UpgradesWithNewToken DEF RefreshesAreSafe
=============================================================================
