---------------------------- MODULE CopilotCatalog ----------------------------
(***************************************************************************)
(* CopilotCatalog of providers/copilot_support/catalog.py: the list of     *)
(* models that listings share, its refresh by one task that they join, and *)
(* the close that cancels and joins that task.  Of the session it uses it  *)
(* knows what CopilotAuthSession promises: a call returns with a token, a  *)
(* forced one with another token than it found, or it fails.  What send    *)
(* does about a rejected token is in CopilotTransport; here a fetch ends   *)
(* either way.                                                             *)
(***************************************************************************)
EXTENDS Naturals

CONSTANTS Listings,    \* concurrent calls of list_models
          MaxMinted    \* bound on the tokens that are ever minted

ASSUME CatalogAssumption == MaxMinted \in Nat

Unsent == 0

VARIABLES token,       \* the token that is cached, numbered in the order of minting
          found,       \* the token that the refresh's call of ensure_token found
          catalog,     \* models_ttl_cache: "none", "fresh" or "stale"
          at,          \* where the refresh task is, "none" when there is no task that runs
          fetchedWith,        \* the token of its last fetch
          upgraded,    \* _client_upgrade_retry_done
          cancelling,  \* the task was cancelled and has not run since
          closing,     \* aclose: "no", "joining" the task, "done"
          listing      \* each listing: "idle", "joined" to the task, "answered" or "failed"

sessionVars == <<token, found>>
catalogVars == <<sessionVars, catalog, at, fetchedWith, upgraded, cancelling, closing, listing>>

CatalogInit ==
    /\ token = Unsent /\ found = Unsent
    /\ catalog = "none" /\ at = "none" /\ fetchedWith = Unsent
    /\ upgraded = FALSE /\ cancelling = FALSE
    /\ closing = "no"
    /\ listing = [l \in Listings |-> "idle"]

-----------------------------------------------------------------------------
(* Listings.                                                               *)

Known == catalog # "none"
Closed == closing # "no"

AnswerFresh(l, forced) ==
    /\ catalog = "fresh" /\ ~forced
    /\ listing' = [listing EXCEPT ![l] = "answered"]
    /\ UNCHANGED at

RefuseClosed(l, forced) ==
    /\ forced \/ catalog # "fresh"
    /\ Closed
    /\ listing' = [listing EXCEPT ![l] = "failed"]
    /\ UNCHANGED at

\* The task that runs, or a new one, is joined; a listing that knows a stale catalog does not wait.
JoinRefresh(l, forced) ==
    /\ forced \/ catalog # "fresh"
    /\ ~Closed
    /\ at' = IF at = "none" THEN "begins" ELSE at
    /\ listing' = [listing EXCEPT ![l] = IF Known /\ ~forced THEN "answered" ELSE "joined"]

List(l, forced) ==
    /\ listing[l] = "idle"
    /\ AnswerFresh(l, forced) \/ RefuseClosed(l, forced) \/ JoinRefresh(l, forced)
    /\ UNCHANGED <<sessionVars, catalog, fetchedWith, upgraded, cancelling, closing>>

\* The listing is cancelled, which the task does not notice, or the caller comes back.
LeaveListing(l) ==
    /\ listing[l] # "idle"
    /\ listing' = [listing EXCEPT ![l] = "idle"]
    /\ UNCHANGED <<sessionVars, catalog, at, fetchedWith, upgraded, cancelling, closing>>

-----------------------------------------------------------------------------
(* The refresh.  Nothing of it runs between its cancellation and its end.  *)

Runs == at # "none" /\ ~cancelling

TellAnswered(outcome) ==
    [l \in Listings |-> IF listing[l] = "joined" /\ outcome = "answered" THEN outcome ELSE listing[l]]

Tell(outcome) == [l \in Listings |-> IF listing[l] = "joined" THEN outcome ELSE listing[l]]

EndRefresh(outcome) ==
    /\ at' = "none"
    /\ fetchedWith' = Unsent
    /\ listing' = Tell(outcome)

FailBare(caught) == EndRefresh("failed") /\ UNCHANGED catalog

\* Failures of the provider and of HTTP renew the catalog that is there; others pass through.
FailRefresh(caught) ==
    IF caught /\ Known
    THEN catalog' = "fresh" /\ EndRefresh("answered")
    ELSE EndRefresh("failed") /\ UNCHANGED catalog

UnforcedUpgrade == FALSE
ForcesToken == at = "upgrading"

AskToken ==
    /\ Runs /\ at = "begins"
    /\ at' = "token"
    /\ found' = token
    /\ UNCHANGED <<token, catalog, fetchedWith, upgraded, cancelling, closing, listing>>

\* The token that is there will do, another request has renewed it, or this call mints one.
TokenReady ==
    /\ Runs /\ at \in {"token", "upgrading"}
    /\ token' \in {token, token + 1} \cap (1 .. MaxMinted)
    /\ ForcesToken => token' # found
    /\ at' = IF at = "token" THEN "fetching" ELSE "refetching"
    /\ fetchedWith' = token'
    /\ UNCHANGED <<found, catalog, upgraded, cancelling, closing, listing>>

\* No credential, or a mint that fails.
TokenFails ==
    /\ Runs /\ at \in {"token", "upgrading"}
    /\ FailRefresh(TRUE)
    /\ UNCHANGED <<sessionVars, upgraded, cancelling, closing>>

\* The new token cannot be written to auth.json, which is no failure of a provider.
CredentialNotWritten ==
    /\ Runs /\ at \in {"token", "upgrading"}
    /\ token < MaxMinted
    /\ token' = token + 1
    /\ FailRefresh(FALSE)
    /\ UNCHANGED <<found, upgraded, cancelling, closing>>

\* The first answer to warn that the token was minted for an older client.
UpgradeClient ==
    /\ Runs /\ at = "fetching"
    /\ ~upgraded
    /\ upgraded' = TRUE
    /\ at' = "upgrading"
    /\ found' = token
    /\ UNCHANGED <<token, catalog, fetchedWith, cancelling, closing, listing>>

Fetched ==
    /\ Runs /\ at \in {"fetching", "refetching"}
    /\ catalog' = "fresh"
    /\ EndRefresh("answered")
    /\ UNCHANGED <<sessionVars, upgraded, cancelling, closing>>

\* No answer, an error status, or an answer that cannot be read.
FetchFails ==
    /\ Runs /\ at \in {"fetching", "refetching"}
    /\ FailRefresh(TRUE)
    /\ UNCHANGED <<sessionVars, upgraded, cancelling, closing>>

-----------------------------------------------------------------------------
(* The close, and time.                                                    *)

CloseAtOnce ==
    /\ closing = "no"
    /\ closing' = "done"
    /\ cancelling' = (at # "none")
    /\ UNCHANGED <<sessionVars, catalog, at, fetchedWith, upgraded, listing>>

Close ==
    /\ closing = "no"
    /\ closing' = IF at = "none" THEN "done" ELSE "joining"
    /\ cancelling' = (at # "none")
    /\ UNCHANGED <<sessionVars, catalog, at, fetchedWith, upgraded, listing>>

CancelRefresh ==
    /\ cancelling
    /\ cancelling' = FALSE
    /\ EndRefresh("failed")
    /\ UNCHANGED <<sessionVars, catalog, upgraded, closing>>

CloseReturns ==
    /\ closing = "joining" /\ at = "none"
    /\ closing' = "done"
    /\ UNCHANGED <<sessionVars, catalog, at, fetchedWith, upgraded, cancelling, listing>>

Expire ==
    /\ catalog = "fresh"
    /\ catalog' = "stale"
    /\ UNCHANGED <<sessionVars, at, fetchedWith, upgraded, cancelling, closing, listing>>

\* Another request mints a token.
OthersMint ==
    /\ token < MaxMinted
    /\ token' = token + 1
    /\ UNCHANGED <<found, catalog, at, fetchedWith, upgraded, cancelling, closing, listing>>

RefreshStep ==
    \/ AskToken \/ TokenReady \/ TokenFails \/ CredentialNotWritten
    \/ UpgradeClient \/ Fetched \/ FetchFails \/ CancelRefresh

CatalogNext ==
    \/ \E l \in Listings : LeaveListing(l) \/ \E forced \in BOOLEAN : List(l, forced)
    \/ RefreshStep
    \/ Close \/ CloseReturns \/ Expire \/ OthersMint

CatalogSpec == CatalogInit /\ [][CatalogNext]_catalogVars

\* Network calls time out and the disk answers, so that whatever the task waits for ends.
FairCatalogSpec == CatalogSpec /\ WF_catalogVars(RefreshStep) /\ WF_catalogVars(CloseReturns)

-----------------------------------------------------------------------------
(* Properties.                                                             *)

\* A catalog that was fetched once is never lost to a later failure: a listing fails only while
\* none is known, after the close, or when the session's token could not be written to disk.
KnownCatalogStands ==
    [][\A l \in Listings :
        listing[l] # "failed" /\ listing'[l] = "failed"
            => ~Known \/ Closed \/ CredentialNotWritten]_catalogVars

\* A catalog that warned of an older client is fetched again with another token, whoever minted
\* it and however calls of the session interleave.
UpgradeFetchesWithNewToken ==
    [][at # "refetching" /\ at' = "refetching" => fetchedWith' # fetchedWith]_catalogVars

\* A refresh never costs what is known, and what it is upgraded with is new.
RefreshesAreSafe == KnownCatalogStands /\ UpgradeFetchesWithNewToken

\* When the close has returned nothing of the refresh is left: no task that could use the
\* transport that is closed next, and no listing that waits for it.
CloseJoinsRefresh ==
    closing = "done" =>
        /\ at = "none"
        /\ \A l \in Listings : listing[l] # "joined"

\* Whoever joins a refresh is answered or told that it failed, and the close returns.
ListingsEnd ==
    /\ \A l \in Listings : listing[l] = "joined" ~> listing[l] # "joined"
    /\ closing = "joining" ~> closing = "done"
=============================================================================
