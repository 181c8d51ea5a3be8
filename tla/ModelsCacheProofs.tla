--------------------------- MODULE ModelsCacheProofs ---------------------------
(***************************************************************************)
(* The model catalog with any number of providers, models and overlapping  *)
(* refreshes, whichever ids read like public names: what a name leads to,  *)
(* and that a failing provider keeps its models.                           *)
(***************************************************************************)
EXTENDS ModelsCache, Integers, TLAPS

\* The public names that no id reads like.
Unshadowed == {k \in PublicNames : \A s \in Shadowing : Shadowed[s] # k}

\* The names of a catalog fit together.
Resolves(b) ==
    /\ \A k \in Unshadowed : b[k] \in {Nothing, k}
    /\ \A m \in Models \ Shadowing : b[<<m>>] # Nothing =>
            /\ b[<<m>>] \in PublicNames /\ b[<<m>>][2] = m
            /\ b[<<m>>] \in Unshadowed => b[b[<<m>>]] = b[<<m>>]

\* Names lead to providers up to n, and aliases to the first of them.
FirstUpTo(b, n) ==
    /\ \A k \in Names : b[k] # Nothing => b[k][1] <= n
    /\ \A p \in Providers, m \in Models \ Shadowing :
            b[<<p, m>>] = <<p, m>> => b[<<m>>] # Nothing /\ b[<<m>>][1] <= p

\* What failed so far kept, of the catalog before, what only it can have.
KeepsFailed(b, known, failures) ==
    \A p \in failures, m \in Models :
        <<p, m>> \in Unshadowed /\ known[<<p, m>>] = <<p, m>> => b[<<p, m>>] = <<p, m>>

\* Catalogs being built, and those they fall back to, fit together.
AliasInv ==
    /\ Resolves(cache)
    /\ whole => FirstUpTo(cache, NumProviders)
    /\ \A c \in Callers :
        /\ Resolves(previous[c])
        /\ Resolves(building[c])
        /\ pc[c] = "refreshing" => KeepsFailed(building[c], previous[c], failed[c])
        /\ pc[c] = "refreshing" /\ failed[c] = {} => FirstUpTo(building[c], at[c] - 1)

Inv == TypeOK /\ AliasInv

LEMMA NameFacts ==
    /\ \A k \in PublicNames : k \in Names /\ k # Nothing /\ k = <<k[1], k[2]>> /\ k[1] \in Providers /\ k[2] \in Models
    /\ \A m \in Models : <<m>> \in Names /\ <<m>> \notin PublicNames /\ <<m>> # Nothing
    /\ \A p \in Providers, m \in Models : <<p, m>> \in PublicNames /\ <<p, m>> \in Names
    /\ \A k \in Names \ PublicNames : \E m \in Models : k = <<m>>
    /\ Unshadowed \subseteq PublicNames
  BY DEF PublicNames, Names, Nothing, Unshadowed

LEMMA EmptyFacts == Empty \in Catalogs /\ Resolves(Empty) /\ FirstUpTo(Empty, 0)
  BY NameFacts DEF Empty, Catalogs, Resolves, FirstUpTo, Nothing

LEMMA ListedTypes ==
    ASSUME NEW b \in Catalogs, NEW p \in Providers, NEW S \in SUBSET Models
    PROVE  Listed(b, p, S) \in Catalogs
  <1>1. \A k \in {p} \X S : k \in PublicNames
    BY DEF PublicNames
  <1>2. \A k \in Names : (\E m \in S : Alias(m) = k) =>
            <<p, CHOOSE m \in S : Alias(m) = k>> \in PublicNames
    BY DEF PublicNames
  <1> QED
    BY <1>1, <1>2 DEF Listed, Catalogs

\* An id that reads like nothing else is the only one with its alias, and what no id reads like
\* is nobody's alias.
LEMMA AliasFacts ==
    /\ \A m \in Models \ Shadowing, n \in Models : Alias(n) = <<m>> <=> m = n
    /\ \A k \in Unshadowed, n \in Models : Alias(n) # k
  BY CatalogAssumption, NameFacts DEF Alias, Unshadowed

\* What a provider's answer changes: its own public names, the aliases that are free, and what
\* one of its ids reads like.
LEMMA ListedFacts ==
    ASSUME NEW b \in Catalogs, NEW p \in Providers, NEW S \in SUBSET Models,
           NEW d, d = Listed(b, p, S)
    PROVE  /\ \A k \in Names : b[k] # Nothing /\ k \notin {p} \X S => d[k] = b[k]
           /\ \A m \in S : d[<<p, m>>] = <<p, m>>
           /\ \A k \in Names : d[k] # b[k] => \E n \in S : d[k] = <<p, n>>
           /\ \A k \in Unshadowed : k \notin {p} \X S => d[k] = b[k]
           /\ \A m \in Models \ Shadowing :
                 d[<<m>>] = IF b[<<m>>] = Nothing /\ m \in S THEN <<p, m>> ELSE b[<<m>>]
  <1>1. \A k \in Names : d[k] =
            IF k \in {p} \X S THEN k
            ELSE IF b[k] # Nothing THEN b[k]
            ELSE IF \E m \in S : Alias(m) = k THEN <<p, CHOOSE m \in S : Alias(m) = k>>
            ELSE Nothing
    BY DEF Listed
  <1>2. \A m \in S : <<p, m>> \in Names /\ <<p, m>> \in {p} \X S
    BY NameFacts
  <1>3. ASSUME NEW k \in Names, d[k] # b[k] PROVE \E n \in S : d[k] = <<p, n>>
    <2>1. CASE k \in {p} \X S
      <3>1. PICK n \in S : k = <<p, n>>
        BY <2>1
      <3> QED
        BY <2>1, <3>1, <1>1
    <2>2. CASE k \notin {p} \X S
      <3>1. b[k] = Nothing /\ (\E m \in S : Alias(m) = k)
            /\ d[k] = <<p, CHOOSE m \in S : Alias(m) = k>>
        BY <2>2, <1>1, <1>3
      <3>2. (CHOOSE m \in S : Alias(m) = k) \in S
        BY <3>1
      <3> QED
        BY <3>1, <3>2
    <2> QED
      BY <2>1, <2>2
  <1>4. \A k \in Unshadowed : k \notin {p} \X S => d[k] = b[k]
    BY <1>1, AliasFacts, NameFacts
  <1>5. ASSUME NEW m \in Models \ Shadowing
        PROVE  d[<<m>>] = IF b[<<m>>] = Nothing /\ m \in S THEN <<p, m>> ELSE b[<<m>>]
    <2>1. <<m>> \in Names /\ <<m>> \notin {p} \X S
      BY NameFacts DEF PublicNames
    <2>2. (\E n \in S : Alias(n) = <<m>>) <=> m \in S
      BY AliasFacts
    <2>3. m \in S => (CHOOSE n \in S : Alias(n) = <<m>>) = m
      BY AliasFacts
    <2> QED
      BY <2>1, <2>2, <2>3, <1>1
  <1>6. \A k \in Names : b[k] # Nothing /\ k \notin {p} \X S => d[k] = b[k]
    BY <1>1
  <1>7. \A m \in S : d[<<p, m>>] = <<p, m>>
    BY <1>1, <1>2
  <1> QED
    BY <1>3, <1>4, <1>5, <1>6, <1>7

LEMMA RetainedFacts ==
    ASSUME NEW b \in Catalogs, NEW p \in Providers, NEW known \in Catalogs
    PROVE  /\ Retained(b, p, known) \in Catalogs
           /\ \A k \in Names : Retained(b, p, known)[k]
                  = IF b[k] = Nothing /\ known[k] \in {p} \X Models THEN known[k] ELSE b[k]
  BY DEF Retained, Catalogs

\* A provider's answer keeps a catalog in order.
LEMMA ListedResolves ==
    ASSUME NEW b \in Catalogs, NEW p \in Providers, NEW S \in SUBSET Models, Resolves(b)
    PROVE  Resolves(Listed(b, p, S))
  <1>0. PICK d : d = Listed(b, p, S)
    OBVIOUS
  <1>1. /\ \A k \in Names : b[k] # Nothing /\ k \notin {p} \X S => d[k] = b[k]
        /\ \A m \in S : d[<<p, m>>] = <<p, m>>
        /\ \A k \in Unshadowed : k \notin {p} \X S => d[k] = b[k]
        /\ \A m \in Models \ Shadowing :
              d[<<m>>] = IF b[<<m>>] = Nothing /\ m \in S THEN <<p, m>> ELSE b[<<m>>]
    BY <1>0, ListedFacts, SMT
  <1>2. ASSUME NEW k \in Unshadowed PROVE d[k] \in {Nothing, k}
    <2>1. CASE k \in {p} \X S
      BY <2>1, <1>1
    <2>2. CASE k \notin {p} \X S
      BY <2>2, <1>1 DEF Resolves
    <2> QED
      BY <2>1, <2>2
  <1>3. ASSUME NEW m \in Models \ Shadowing, d[<<m>>] # Nothing
        PROVE  /\ d[<<m>>] \in PublicNames /\ d[<<m>>][2] = m
               /\ d[<<m>>] \in Unshadowed => d[d[<<m>>]] = d[<<m>>]
    <2>1. CASE b[<<m>>] = Nothing
      <3>1. m \in S /\ d[<<m>>] = <<p, m>>
        BY <1>1, <1>3, <2>1
      <3> QED
        BY <3>1, <1>1, NameFacts
    <2>2. CASE b[<<m>>] # Nothing
      <3>1. d[<<m>>] = b[<<m>>] /\ b[<<m>>] \in PublicNames /\ b[<<m>>][2] = m
        BY <1>1, <2>2 DEF Resolves
      <3>2. ASSUME b[<<m>>] \in Unshadowed PROVE d[b[<<m>>]] = b[<<m>>]
        <4>1. b[b[<<m>>]] = b[<<m>>]
          BY <2>2, <3>2 DEF Resolves
        <4> QED
          BY <4>1, <3>2, <1>1, NameFacts
      <3> QED
        BY <3>1, <3>2
    <2> QED
      BY <2>1, <2>2
  <1> QED
    BY <1>2, <1>3, <1>0 DEF Resolves

\* Listed in the order of the registry, the first provider has the alias.
LEMMA ListedFirst ==
    ASSUME NEW b \in Catalogs, NEW p \in Providers, NEW S \in SUBSET Models, FirstUpTo(b, p - 1)
    PROVE  FirstUpTo(Listed(b, p, S), p)
  <1>0. PICK d : d = Listed(b, p, S)
    OBVIOUS
  <1>1. /\ \A k \in Names : d[k] # b[k] => \E n \in S : d[k] = <<p, n>>
        /\ \A m \in Models \ Shadowing :
              d[<<m>>] = IF b[<<m>>] = Nothing /\ m \in S THEN <<p, m>> ELSE b[<<m>>]
    BY <1>0, ListedFacts, SMT
  <1>4. p \in Int
    BY DEF Providers
  <1>2. ASSUME NEW k \in Names, d[k] # Nothing PROVE d[k][1] <= p
    <2>1. CASE d[k] = b[k]
      <3>1. b[k] \in PublicNames /\ b[k][1] <= p - 1
        BY <1>2, <2>1 DEF FirstUpTo, Catalogs
      <3>2. b[k][1] \in Int
        BY <3>1, NameFacts DEF Providers
      <3> QED
        BY <3>1, <3>2, <2>1, <1>4
    <2>2. CASE d[k] # b[k]
      BY <2>2, <1>4, <1>1
    <2> QED
      BY <2>1, <2>2
  <1>3. ASSUME NEW q \in Providers, NEW m \in Models \ Shadowing, d[<<q, m>>] = <<q, m>>
        PROVE  d[<<m>>] # Nothing /\ d[<<m>>][1] <= q
    <2>1. CASE b[<<q, m>>] = <<q, m>>
      <3>1. b[<<m>>] # Nothing /\ b[<<m>>][1] <= q
        BY <2>1 DEF FirstUpTo
      <3> QED
        BY <3>1, <1>1
    <2>2. CASE b[<<q, m>>] # <<q, m>>
      <3>1. q = p /\ m \in S
        BY <2>2, <1>1, <1>3, NameFacts
      <3>2. d[<<m>>] # Nothing
        BY <3>1, <1>1, NameFacts
      <3> QED
        BY <3>1, <3>2, <1>2, NameFacts
    <2> QED
      BY <2>1, <2>2
  <1> QED
    BY <1>2, <1>3, <1>0 DEF FirstUpTo

\* An answer takes nothing from those that failed before.
LEMMA ListedKeeps ==
    ASSUME NEW b \in Catalogs, NEW p \in Providers, NEW S \in SUBSET Models,
           NEW known, NEW failures \in SUBSET Providers, KeepsFailed(b, known, failures)
    PROVE  KeepsFailed(Listed(b, p, S), known, failures)
  <1>0. PICK d : d = Listed(b, p, S)
    OBVIOUS
  <1>1. /\ \A k \in Names : b[k] # Nothing /\ k \notin {p} \X S => d[k] = b[k]
        /\ \A m \in S : d[<<p, m>>] = <<p, m>>
    BY <1>0, ListedFacts, SMT
  <1>2. ASSUME NEW q \in failures, NEW m \in Models, b[<<q, m>>] = <<q, m>>
        PROVE  d[<<q, m>>] = <<q, m>>
    BY <1>1, <1>2, NameFacts
  <1> QED
    BY <1>2, <1>0 DEF KeepsFailed

\* So does what a failing provider keeps.
LEMMA RetainedResolves ==
    ASSUME NEW b \in Catalogs, NEW p \in Providers, NEW known \in Catalogs, Resolves(b), Resolves(known)
    PROVE  Resolves(Retained(b, p, known))
  <1> DEFINE d == Retained(b, p, known)
  <1>1. \A k \in Names : d[k] = IF b[k] = Nothing /\ known[k] \in {p} \X Models THEN known[k] ELSE b[k]
    BY RetainedFacts
  <1> HIDE DEF d
  <1>2. \A k \in Unshadowed : d[k] \in {Nothing, k}
    BY <1>1, NameFacts DEF Resolves
  <1>3. ASSUME NEW m \in Models \ Shadowing, d[<<m>>] # Nothing
        PROVE  /\ d[<<m>>] \in PublicNames /\ d[<<m>>][2] = m
               /\ d[<<m>>] \in Unshadowed => d[d[<<m>>]] = d[<<m>>]
    <2>1. CASE b[<<m>>] # Nothing
      <3>1. d[<<m>>] = b[<<m>>] /\ b[<<m>>] \in PublicNames /\ b[<<m>>][2] = m
        BY <2>1, <1>1, NameFacts DEF Resolves
      <3>2. ASSUME b[<<m>>] \in Unshadowed PROVE d[b[<<m>>]] = b[<<m>>]
        <4>1. b[b[<<m>>]] = b[<<m>>]
          BY <2>1, <3>2 DEF Resolves
        <4> QED
          BY <4>1, <3>2, <1>1, NameFacts
      <3> QED
        BY <3>1, <3>2
    <2>2. CASE b[<<m>>] = Nothing
      <3>1. d[<<m>>] = known[<<m>>] /\ known[<<m>>] \in {p} \X Models
        BY <2>2, <1>1, <1>3, NameFacts
      <3>2. known[<<m>>] \in PublicNames /\ known[<<m>>][2] = m
        BY <3>1, <1>3 DEF Resolves
      <3>3. ASSUME known[<<m>>] \in Unshadowed PROVE d[known[<<m>>]] = known[<<m>>]
        <4>1. known[known[<<m>>]] = known[<<m>>]
          BY <3>1, <3>3, <1>3 DEF Resolves
        <4>2. known[<<m>>] \in Names /\ b[known[<<m>>]] \in {Nothing, known[<<m>>]}
          BY <3>2, <3>3, NameFacts DEF Resolves
        <4> QED
          BY <3>1, <4>1, <4>2, <1>1
      <3> QED
        BY <3>1, <3>2, <3>3
    <2> QED
      BY <2>1, <2>2
  <1> QED
    BY <1>2, <1>3 DEF Resolves, d

\* A failure keeps what the provider had, and takes nothing from those before.
LEMMA RetainedKeeps ==
    ASSUME NEW b \in Catalogs, NEW p \in Providers, NEW known \in Catalogs,
           NEW failures \in SUBSET Providers, Resolves(b), KeepsFailed(b, known, failures)
    PROVE  KeepsFailed(Retained(b, p, known), known, failures \union {p})
  <1> DEFINE d == Retained(b, p, known)
  <1>1. \A k \in Names : d[k] = IF b[k] = Nothing /\ known[k] \in {p} \X Models THEN known[k] ELSE b[k]
    BY RetainedFacts
  <1> HIDE DEF d
  <1>2. ASSUME NEW q \in failures \union {p}, NEW m \in Models,
               <<q, m>> \in Unshadowed, known[<<q, m>>] = <<q, m>>
        PROVE  d[<<q, m>>] = <<q, m>>
    <2>1. <<q, m>> \in Names /\ <<q, m>> # Nothing
      BY NameFacts
    <2>2. CASE q = p
      BY <2>1, <2>2, <1>1, <1>2 DEF Resolves
    <2>3. CASE q \in failures
      BY <2>1, <2>3, <1>1, <1>2 DEF KeepsFailed
    <2> QED
      BY <2>2, <2>3
  <1> QED
    BY <1>2 DEF KeepsFailed, d

LEMMA FirstGrows ==
    ASSUME NEW b \in Catalogs, NEW n \in Int, NEW k \in Int, n <= k, FirstUpTo(b, n)
    PROVE  FirstUpTo(b, k)
  <1>1. \A j \in Names : b[j] # Nothing => b[j][1] \in Int
    BY NameFacts DEF Catalogs, Providers
  <1> QED
    BY <1>1 DEF FirstUpTo

LEMMA Initially == Init => Inv
  <1> SUFFICES ASSUME Init PROVE Inv
    OBVIOUS
  <1> USE CatalogAssumption, EmptyFacts DEF Init
  <1>1. TypeOK
    <2>1. offered \in [Providers -> SUBSET Models]
      <3> DEFINE Either == {Models, Models \ Shadowing}
      <3>1. Either \subseteq SUBSET Models
        OBVIOUS
      <3>2. offered \in [Providers -> Either]
        OBVIOUS
      <3> HIDE DEF Either
      <3> QED
        BY <3>1, <3>2
    <2>2. 1 \in Providers /\ 0 \in 0..MaxChanges
      BY DEF Providers
    <2> QED
      BY <2>1, <2>2 DEF TypeOK
  <1>2. AliasInv
    BY DEF AliasInv
  <1> QED
    BY <1>1, <1>2 DEF Inv

\* Going on after an answer keeps the invariant, if the catalog that the answer
\* led to is in order.
LEMMA GoOnKeeps ==
    ASSUME Inv, NEW c \in Callers, NEW p \in Providers \union {0}, NEW new \in Catalogs,
           NEW failures \in SUBSET Providers, GoOn(c, p, new, failures),
           Resolves(new), failures = {} => FirstUpTo(new, p),
           KeepsFailed(new, previous'[c], failures),
           UNCHANGED worldVars,
           \/ UNCHANGED previous
           \/ previous' = [previous EXCEPT ![c] = cache]
    PROVE  Inv'
  <1> USE CatalogAssumption DEF Inv, TypeOK, worldVars, cacheVars, Goto
  <1>1. /\ building' = [building EXCEPT ![c] = new]
        /\ failed' = [failed EXCEPT ![c] = failures]
        /\ offered' \in [Providers -> SUBSET Models] /\ signedIn' \subseteq Providers /\ changes' \in 0..MaxChanges
        /\ previous' \in [Callers -> Catalogs]
    BY DEF GoOn
  <1>2. \A d \in Callers : Resolves(previous'[d]) /\ Resolves(building'[d])
    BY <1>1 DEF AliasInv
  <1>5. \A d \in Callers : pc'[d] = "refreshing" /\ (d = c \/ pc'[d] = pc[d]) =>
            KeepsFailed(building'[d], previous'[d], failed'[d])
    BY <1>1 DEF AliasInv
  <1>3. CASE Finish(c, new, failures) /\ UNCHANGED at
    <2>1. \/ pc' = [pc EXCEPT ![c] = "failed"] /\ UNCHANGED cacheVars
          \/ /\ pc' = [pc EXCEPT ![c] = "ready"]
             /\ cache' = new /\ whole' = (failures = {}) /\ fresh' \in BOOLEAN
      BY <1>3 DEF Finish, FreshAfter
    <2>2. TypeOK'
      BY <1>1, <1>3, <2>1
    <2>3. failures = {} => FirstUpTo(new, NumProviders)
      <3>1. p \in Int /\ NumProviders \in Int /\ p <= NumProviders
        BY DEF Providers
      <3> QED
        BY <3>1, FirstGrows
    <2>5. Resolves(cache') /\ (whole' => FirstUpTo(cache', NumProviders))
      <3>1. CASE UNCHANGED cacheVars
        BY <3>1 DEF AliasInv
      <3>2. CASE cache' = new /\ whole' = (failures = {})
        BY <3>2, <2>3, Zenon
      <3> QED
        BY <2>1, <3>1, <3>2
    <2>4. \A d \in Callers : pc'[d] = "refreshing" /\ failed'[d] = {} => FirstUpTo(building'[d], at'[d] - 1)
      BY <1>1, <1>3, <2>1 DEF AliasInv
    <2>6. \A d \in Callers : pc'[d] = "refreshing" => pc'[d] = pc[d]
      BY <2>1
    <2> QED
      BY <1>2, <1>5, <2>2, <2>4, <2>5, <2>6 DEF AliasInv
  <1>4. CASE \E q \in signedIn : /\ q > p
                                 /\ at' = [at EXCEPT ![c] = q]
                                 /\ Goto(c, "refreshing")
                                 /\ UNCHANGED cacheVars
    <2>1. PICK q \in Providers : /\ q > p
                                 /\ at' = [at EXCEPT ![c] = q]
                                 /\ pc' = [pc EXCEPT ![c] = "refreshing"]
                                 /\ UNCHANGED cacheVars
      BY <1>4
    <2>2. TypeOK'
      BY <1>1, <2>1
    <2>3. Resolves(cache') /\ (whole' => FirstUpTo(cache', NumProviders))
      BY <2>1 DEF AliasInv
    <2>4. failures = {} => FirstUpTo(new, q - 1)
      BY <2>1, FirstGrows DEF Providers
    <2>5. \A d \in Callers : pc'[d] = "refreshing" /\ failed'[d] = {} => FirstUpTo(building'[d], at'[d] - 1)
      BY <1>1, <2>1, <2>4 DEF AliasInv
    <2>6. \A d \in Callers : d = c \/ pc'[d] = pc[d]
      BY <2>1
    <2> QED
      BY <1>2, <1>5, <2>2, <2>3, <2>5, <2>6 DEF AliasInv
  <1> QED
    BY <1>3, <1>4 DEF GoOn

LEMMA InvStep ==
    ASSUME Inv, [Next]_vars
    PROVE  Inv'
  <1> USE CatalogAssumption, EmptyFacts
  <1>1. ASSUME NEW c \in Callers, Start(c) PROVE Inv'
    <2>1. CASE fresh
      BY <1>1, <2>1 DEF Start, Inv, TypeOK, AliasInv, Goto, cacheVars, worldVars
    <2>2. CASE ~fresh
      <3>1. KeepsFailed(Empty, previous'[c], {})
        BY DEF KeepsFailed
      <3> QED
        BY <1>1, <2>2, <3>1, GoOnKeeps DEF Start
    <2> QED
      BY <2>1, <2>2
  <1>2. ASSUME NEW c \in Callers, ProviderAnswers(c) PROVE Inv'
    <2> DEFINE p == at[c]
               new == Listed(building[c], p, offered[p])
    <2>1. p \in Providers /\ building[c] \in Catalogs /\ offered[p] \in SUBSET Models /\ failed[c] \in SUBSET Providers
      BY DEF Inv, TypeOK
    <2>2. new \in Catalogs /\ Resolves(new)
      BY <2>1, ListedTypes, ListedResolves DEF Inv, AliasInv
    <2>3. failed[c] = {} => FirstUpTo(new, p)
      BY <1>2, <2>1, ListedFirst DEF Inv, AliasInv, ProviderAnswers
    <2>5. KeepsFailed(new, previous[c], failed[c])
      BY <1>2, <2>1, ListedKeeps DEF Inv, AliasInv, ProviderAnswers
    <2>4. GoOn(c, p, new, failed[c]) /\ UNCHANGED worldVars /\ UNCHANGED previous
      BY <1>2 DEF ProviderAnswers
    <2> HIDE DEF p, new
    <2> QED
      BY <2>1, <2>2, <2>3, <2>4, <2>5, GoOnKeeps
  <1>3. ASSUME NEW c \in Callers, ProviderFails(c) PROVE Inv'
    <2> DEFINE p == at[c]
               new == Retained(building[c], p, previous[c])
               failures == failed[c] \union {p}
    <2>1. p \in Providers /\ building[c] \in Catalogs /\ previous[c] \in Catalogs /\ failures \in SUBSET Providers
      BY DEF Inv, TypeOK
    <2>2. new \in Catalogs /\ Resolves(new)
      BY <2>1, RetainedFacts, RetainedResolves DEF Inv, AliasInv
    <2>3. failures # {}
      OBVIOUS
    <2>5. KeepsFailed(new, previous[c], failures)
      BY <1>3, <2>1, RetainedKeeps DEF Inv, AliasInv, ProviderFails
    <2>4. GoOn(c, p, new, failures) /\ UNCHANGED worldVars /\ UNCHANGED previous
      BY <1>3 DEF ProviderFails
    <2> HIDE DEF p, new, failures
    <2> QED
      BY <2>1, <2>2, <2>3, <2>4, <2>5, GoOnKeeps
  <1>4. ASSUME NEW c \in Callers, Abandoned(c) PROVE Inv'
    BY <1>4 DEF Abandoned, Inv, TypeOK, AliasInv, Goto, cacheVars, worldVars
  <1>5. ASSUME NEW c \in Callers, Again(c) PROVE Inv'
    <2>1. TypeOK'
      BY <1>5 DEF Again, Inv, TypeOK, Goto, cacheVars, worldVars, Providers
    <2>2. AliasInv'
      BY <1>5 DEF Again, Inv, TypeOK, AliasInv, Goto, cacheVars
    <2> QED
      BY <2>1, <2>2 DEF Inv
  <1>6. CASE Expires
    BY <1>6 DEF Expires, Inv, TypeOK, AliasInv, callVars, worldVars
  <1>7. ASSUME NEW p \in Providers, CredentialChanges(p) PROVE Inv'
    BY <1>7 DEF CredentialChanges, Changes, Inv, TypeOK, AliasInv, callVars, cacheVars
  <1>8. ASSUME NEW p \in Providers, NEW listed \in SUBSET Models, CatalogChanges(p, listed) PROVE Inv'
    BY <1>8 DEF CatalogChanges, Changes, Inv, TypeOK, AliasInv, callVars, cacheVars
  <1>9. CASE UNCHANGED vars
    BY <1>9 DEF vars, Inv, TypeOK, AliasInv, callVars, cacheVars, worldVars
  <1> QED
    BY <1>1, <1>2, <1>3, <1>4, <1>5, <1>6, <1>7, <1>8, <1>9 DEF Next

LEMMA Invariance == Spec => []Inv
  <1>1. Inv /\ [Next]_vars => Inv'
    BY InvStep
  <1> QED
    BY <1>1, Initially, PTL DEF Spec

LEMMA InvMeans == Inv => AliasResolves /\ AliasOfFirst
  <1> SUFFICES ASSUME Inv PROVE AliasResolves /\ AliasOfFirst
    OBVIOUS
  <1>1. AliasResolves
    BY DEF Inv, AliasInv, AliasResolves, Resolves, Unshadowed
  <1>2. AliasOfFirst
    BY DEF Inv, AliasInv, AliasOfFirst, FirstUpTo
  <1> QED
    BY <1>1, <1>2

\* Every variable keeps its type.
THEOREM CacheTypes == Spec => []TypeOK
  BY Invariance, PTL DEF Inv

\* Whatever refreshes overlap and providers fail, an alias leads to a model of
\* that id whose public name leads there too.
THEOREM AliasesResolve == Spec => []AliasResolves
  BY Invariance, InvMeans, PTL

\* A catalog that every provider answered for gives each model its alias, and
\* the alias to the first provider.
THEOREM FirstProviderNames == Spec => []AliasOfFirst
  BY Invariance, InvMeans, PTL

\* Both together, for any providers, models and overlapping refreshes.
THEOREM NamesAreRight == Spec => []NamesLeadRight
  BY AliasesResolve, FirstProviderNames, PTL DEF NamesLeadRight

\* What the refresh of one request installs when it is done.
LEMMA Installs ==
    ASSUME Inv, NEW c \in Callers, NEW p \in Providers, NEW new \in Catalogs,
           NEW failures \in SUBSET Providers, GoOn(c, p, new, failures),
           pc[c] = "refreshing", pc'[c] = "ready"
    PROVE  cache' = new /\ failed'[c] = failures
  <1> USE DEF Inv, TypeOK, Goto
  <1>1. failed' = [failed EXCEPT ![c] = failures]
    BY DEF GoOn
  <1>2. Finish(c, new, failures)
    BY DEF GoOn
  <1>3. cache' = new
    BY <1>2 DEF Finish
  <1> QED
    BY <1>1, <1>3

\* Unless another refresh filled the cache meanwhile, the models of a provider that fails are
\* still there afterwards (the previous_cache of _ensure_models_cache).
THEOREM FailuresKeepModels == Spec => FailureKeepsModels
  <1>1. ASSUME Inv, [Next]_vars, NEW c \in Callers,
               pc[c] = "refreshing", pc'[c] = "ready", cache = previous[c],
               NEW p \in failed'[c], NEW m \in Models,
               \A s \in Shadowing : Shadowed[s] # <<p, m>>, cache[<<p, m>>] = <<p, m>>
        PROVE  cache'[<<p, m>>] = <<p, m>>
    <2> USE <1>1 DEF Inv, TypeOK
    <2>1. ProviderAnswers(c) \/ ProviderFails(c)
      <3>1. ASSUME NEW d \in Callers, d # c,
                   Start(d) \/ ProviderAnswers(d) \/ ProviderFails(d) \/ Abandoned(d) \/ Again(d)
            PROVE  FALSE
        BY <3>1 DEF Start, ProviderAnswers, ProviderFails, Abandoned, Again, GoOn, Finish, Goto
      <3>2. ~Start(c) /\ ~Abandoned(c) /\ ~Again(c)
        BY DEF Start, Abandoned, Again, Goto
      <3>3. pc' # pc
        OBVIOUS
      <3> QED
        BY <3>1, <3>2, <3>3 DEF Next, Expires, CredentialChanges, CatalogChanges, vars, callVars
    <2>2. /\ at[c] \in Providers /\ building[c] \in Catalogs /\ previous[c] \in Catalogs
          /\ offered[at[c]] \in SUBSET Models /\ failed[c] \in SUBSET Providers
      OBVIOUS
    <2>3. KeepsFailed(building[c], previous[c], failed[c]) /\ Resolves(building[c])
      BY <1>1 DEF AliasInv
    <2>4. KeepsFailed(cache', previous[c], failed'[c]) /\ failed'[c] \in SUBSET Providers
      <3>1. CASE ProviderAnswers(c)
        <4>1. /\ cache' = Listed(building[c], at[c], offered[at[c]])
              /\ failed'[c] = failed[c]
          BY <1>1, <2>2, <3>1, ListedTypes, Installs DEF ProviderAnswers
        <4> QED
          BY <2>2, <2>3, <4>1, ListedKeeps
      <3>2. CASE ProviderFails(c)
        <4>1. /\ cache' = Retained(building[c], at[c], previous[c])
              /\ failed'[c] = failed[c] \union {at[c]}
          BY <1>1, <2>2, <3>2, RetainedFacts, Installs DEF ProviderFails
        <4> QED
          BY <2>2, <2>3, <4>1, RetainedKeeps
      <3> QED
        BY <2>1, <3>1, <3>2
    <2>5. <<p, m>> \in Unshadowed
      BY <1>1, <2>4, NameFacts DEF Unshadowed
    <2> QED
      BY <1>1, <2>4, <2>5 DEF KeepsFailed
  <1>2. Inv /\ [Next]_vars =>
          [\A c \in Callers :
            pc[c] = "refreshing" /\ pc'[c] = "ready" /\ cache = previous[c] =>
                \A p \in failed'[c], m \in Models :
                    (\A s \in Shadowing : Shadowed[s] # <<p, m>>) /\ cache[<<p, m>>] = <<p, m>>
                        => cache'[<<p, m>>] = <<p, m>>]_vars
    BY <1>1
  <1> QED
    BY <1>2, Invariance, PTL DEF Spec, FailureKeepsModels
=============================================================================
