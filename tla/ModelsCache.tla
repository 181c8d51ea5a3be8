------------------------------ MODULE ModelsCache ------------------------------
(***************************************************************************)
(* The model catalog of a managed Router generation (routing/router.py,    *)
(* _ensure_models_cache): each request that finds the cache out of date    *)
(* refreshes it, provider after provider, with no lock.                    *)
(*                                                                         *)
(* A model is known by its public name <<provider, id>>, and by its id     *)
(* alone, the alias, which belongs to the first provider that lists it.    *)
(* An id may contain a slash and read like a public name: it shadows it.   *)
(***************************************************************************)
EXTENDS Naturals

CONSTANTS
    NumProviders,  \* providers are numbered in the order of the registry
    Models,        \* upstream ids
    Shadowing,     \* the ids that read like public names
    Shadowed,      \* the public name each of them reads like
    Unreliable,    \* providers whose catalog requests may fail
    Callers,       \* concurrent requests
    MaxChanges     \* bound on changes of catalogs and credentials

Providers == 1..NumProviders
PublicNames == Providers \X Models
Names == PublicNames \union {<<m>> : m \in Models}
Nothing == <<>>

ASSUME CatalogAssumption ==
    /\ NumProviders \in Nat \ {0} /\ MaxChanges \in Nat
    /\ Unreliable \subseteq Providers /\ Shadowing \subseteq Models
    /\ Shadowed \in [Shadowing -> PublicNames]
    /\ \A m, n \in Shadowing : Shadowed[m] = Shadowed[n] => m = n

Alias(m) == IF m \in Shadowing THEN Shadowed[m] ELSE <<m>>

VARIABLES
    offered,   \* what each provider lists now
    signedIn,  \* providers that have a credential now
    changes,
    cache,     \* _models_cache: the public name behind each name
    fresh,     \* _models_cache_ttl is valid
    whole,     \* history: no provider failed in the refresh the cache is from
    pc,
    at,        \* provider whose answer each request waits for
    previous,  \* previous_cache
    building,  \* new_cache
    failed     \* providers that failed in this refresh

worldVars == <<offered, signedIn, changes>>
cacheVars == <<cache, fresh, whole>>
callVars  == <<pc, at, previous, building, failed>>
vars == <<worldVars, cacheVars, callVars>>

Catalogs == [Names -> PublicNames \union {Nothing}]
Empty == [k \in Names |-> Nothing]

TypeOK ==
    /\ offered \in [Providers -> SUBSET Models]
    /\ signedIn \subseteq Providers
    /\ changes \in 0..MaxChanges
    /\ cache \in Catalogs /\ fresh \in BOOLEAN /\ whole \in BOOLEAN
    /\ pc \in [Callers -> {"idle", "refreshing", "ready", "failed"}]
    /\ at \in [Callers -> Providers]
    /\ previous \in [Callers -> Catalogs] /\ building \in [Callers -> Catalogs]
    /\ failed \in [Callers -> SUBSET Providers]

Init ==
    /\ offered \in [Providers -> {Models, Models \ Shadowing}]
    /\ signedIn = Providers
    /\ changes = 0
    /\ cache = Empty /\ fresh = FALSE /\ whole = FALSE
    /\ pc = [c \in Callers |-> "idle"]
    /\ at = [c \in Callers |-> 1]
    /\ previous = [c \in Callers |-> Empty]
    /\ building = [c \in Callers |-> Empty]
    /\ failed = [c \in Callers |-> {}]

-----------------------------------------------------------------------------
(* What a provider's answer adds to the new cache.                         *)

\* A public name is its model's; an alias is its first lister's.
Listed(old, p, listed) ==
    [k \in Names |->
        IF k \in {p} \X listed THEN k
        ELSE IF old[k] # Nothing THEN old[k]
        ELSE IF \E m \in listed : Alias(m) = k THEN <<p, CHOOSE m \in listed : Alias(m) = k>>
        ELSE Nothing]

RetainedNone(old, p, known) == old

RetainedAliases(old, p, known) ==
    [k \in Names |->
        IF old[k] = Nothing /\ known[k] \in {p} \X Models /\ k \notin PublicNames
        THEN known[k] ELSE old[k]]

\* A provider that fails keeps the names it had, where they are still free.
Retained(old, p, known) ==
    [k \in Names |->
        IF old[k] = Nothing /\ known[k] \in {p} \X Models THEN known[k] ELSE old[k]]

-----------------------------------------------------------------------------
(* _ensure_models_cache of one request.                                    *)

Goto(c, place) == pc' = [pc EXCEPT ![c] = place]

FreshAfter(failures) == fresh \/ failures = {}

\* What follows the last answer, without another await.
Finish(c, new, failures) ==
    IF new = Empty /\ failures # {}
    THEN Goto(c, "failed") /\ UNCHANGED cacheVars
    ELSE /\ Goto(c, "ready")
         /\ cache' = new
         /\ fresh' = FreshAfter(failures)
         /\ whole' = (failures = {})

\* On to the next provider that is signed in, if there is one after p.
GoOn(c, p, new, failures) ==
    /\ building' = [building EXCEPT ![c] = new]
    /\ failed' = [failed EXCEPT ![c] = failures]
    /\ \/ /\ \A r \in signedIn : r <= p
          /\ Finish(c, new, failures)
          /\ UNCHANGED at
       \/ \E q \in signedIn :
             /\ q > p /\ \A r \in signedIn : r > p => q <= r
             /\ at' = [at EXCEPT ![c] = q]
             /\ Goto(c, "refreshing")
             /\ UNCHANGED cacheVars

Start(c) ==
    /\ pc[c] = "idle"
    /\ \/ /\ fresh
          /\ Goto(c, "ready")
          /\ UNCHANGED <<cacheVars, at, previous, building, failed>>
       \/ /\ ~fresh
          /\ previous' = [previous EXCEPT ![c] = cache]
          /\ GoOn(c, 0, Empty, {})
    /\ UNCHANGED worldVars

ProviderAnswers(c) ==
    /\ pc[c] = "refreshing"
    /\ GoOn(c, at[c], Listed(building[c], at[c], offered[at[c]]), failed[c])
    /\ UNCHANGED <<worldVars, previous>>

ProviderFails(c) ==
    /\ pc[c] = "refreshing"
    /\ at[c] \in Unreliable
    /\ GoOn(c, at[c], Retained(building[c], at[c], previous[c]), failed[c] \union {at[c]})
    /\ UNCHANGED <<worldVars, previous>>

\* The request is cancelled, or fails in a way that is no ProviderError.
Abandoned(c) ==
    /\ pc[c] = "refreshing"
    /\ Goto(c, "failed")
    /\ UNCHANGED <<worldVars, cacheVars, at, previous, building, failed>>

\* Another request takes this one's place.
Again(c) ==
    /\ pc[c] \in {"ready", "failed"}
    /\ Goto(c, "idle")
    /\ at' = [at EXCEPT ![c] = 1]
    /\ previous' = [previous EXCEPT ![c] = Empty]
    /\ building' = [building EXCEPT ![c] = Empty]
    /\ failed' = [failed EXCEPT ![c] = {}]
    /\ UNCHANGED <<worldVars, cacheVars>>

-----------------------------------------------------------------------------
(* The world around it.                                                    *)

\* CACHE_TTL_SECONDS have passed.
Expires ==
    /\ fresh
    /\ fresh' = FALSE
    /\ UNCHANGED <<worldVars, cache, whole, callVars>>

Changes == changes < MaxChanges /\ changes' = changes + 1

CatalogChanges(p, listed) ==
    /\ Changes
    /\ listed # offered[p]
    /\ offered' = [offered EXCEPT ![p] = listed]
    /\ UNCHANGED <<signedIn, cacheVars, callVars>>

CredentialChanges(p) ==
    /\ Changes
    /\ signedIn' = IF p \in signedIn THEN signedIn \ {p} ELSE signedIn \union {p}
    /\ UNCHANGED <<offered, cacheVars, callVars>>

Next ==
    \/ \E c \in Callers : Start(c) \/ ProviderAnswers(c) \/ ProviderFails(c) \/ Abandoned(c) \/ Again(c)
    \/ Expires
    \/ \E p \in Providers : CredentialChanges(p) \/ \E listed \in SUBSET Models : CatalogChanges(p, listed)

Spec == Init /\ [][Next]_vars

-----------------------------------------------------------------------------
(* Properties.                                                             *)

\* An alias leads to a model of that id, and that model's public name leads
\* there too unless some id reads like it, however many refreshes overlap and
\* whichever providers fail.
AliasResolves ==
    \A m \in Models \ Shadowing :
        cache[<<m>>] # Nothing =>
            /\ cache[<<m>>][2] = m
            /\ (\A s \in Shadowing : Shadowed[s] # cache[<<m>>]) => cache[cache[<<m>>]] = cache[<<m>>]

\* Every model that is known by its public name has its alias too, and the alias is that of the
\* first provider that has the model, unless a provider failed in the refresh.
AliasOfFirst ==
    whole => \A m \in Models \ Shadowing, p \in Providers :
        cache[<<p, m>>] = <<p, m>> => cache[<<m>>] # Nothing /\ cache[<<m>>][1] <= p

\* However refreshes overlap and whichever providers fail, names lead where
\* they should: an alias to a model of its id, and to the first provider that
\* has it when all of them answered.
NamesLeadRight == AliasResolves /\ AliasOfFirst

\* The cache counts as fresh only when every provider answered.  The code does not keep this:
\* see the observations of the README.
FreshIsWhole == fresh => whole

\* A provider's failure does not take away the models it had, unless another
\* refresh filled the cache meanwhile or an alias that reads like the public
\* name takes it.
FailureKeepsModels ==
    [][\A c \in Callers :
        pc[c] = "refreshing" /\ pc'[c] = "ready" /\ cache = previous[c] =>
            \A p \in failed'[c], m \in Models :
                (\A s \in Shadowing : Shadowed[s] # <<p, m>>) /\ cache[<<p, m>>] = <<p, m>>
                    => cache'[<<p, m>>] = <<p, m>>]_vars
=============================================================================
