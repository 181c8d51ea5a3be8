----------------------------- MODULE RoutePlanning -----------------------------
(***************************************************************************)
(* Which models a request is tried on, and in which order                  *)
(* (routing/generation_plan.py, routing/auto_router.py, the planning part  *)
(* of server/dispatcher.py and the name resolution of routing/router.py):  *)
(* a client asks for a model by its public name, by its id alone or by the *)
(* name of a family, or leaves the choice to Auto; the plan is made from   *)
(* the catalog, which may be replaced at every await, from the settings of *)
(* the generation and from what the request needs; the next request of the *)
(* conversation may carry private state that binds it to one model.        *)
(*                                                                         *)
(* A public name is <<provider, id>>, an id or a family alone <<id>>.      *)
(* GenerationDispatch is about how a plan is executed.                     *)
(***************************************************************************)
EXTENDS CatalogEntries

CONSTANTS
    Order,      \* the providers, in the order they are made in
    Entries,    \* of each public name: the entry that its provider lists it with
    Listings,   \* what the providers may list, one after the other
    Aliases,    \* synthetic names that a provider declares, with the public name each stands for
    Parts,      \* of every id: the words it is made of and the date behind them, 0 if there is none
    Alphabet,   \* the names of the providers and the texts in titles and ids, in their order
    Native,     \* how many Responses endpoints of its own each provider has
    Settings,   \* the priorities.json files of the generations
    Requests    \* what a client may ask for

AutoModel == <<"router-maestro">>
Providers == ToSet(Order)
Names == DOMAIN Entries
Tasks == <<"fast", "general", "coding", "deep_reasoning">>
None == {}

ASSUME CatalogAssumption ==
    /\ Order \in Seq(Providers)
    /\ Names \subseteq Providers \X DOMAIN Parts
    /\ \A l \in Listings : l \in Seq(Names) /\ Cardinality(ToSet(l)) = Len(l)
    /\ \A a \in DOMAIN Aliases : Aliases[a] \in Providers \X DOMAIN Parts
    /\ DOMAIN Aliases \cap Names = {}   \* _normalize_model_alias: a real name is mapped to itself
    /\ \A i \in DOMAIN Parts : Parts[i].words # <<>> /\ Parts[i].date \in Nat
    /\ \A n \in Names : \A i \in DOMAIN Entries[n].title : Len(Entries[n].title[i].number) <= 3
    /\ Native \in [Providers -> Nat]
ASSUME EntriesAssumption ==
    \A n \in Names :
        LET e == Entries[n]
        IN /\ IsLength(e.prompt) /\ IsLength(e.output) /\ IsLength(e.window)
           /\ \A tiers \in {e.prices.default, e.prices.long} :
                  /\ \A t, u \in tiers : t = u
                  /\ \A t \in tiers : IsLength(t.prompt) /\ IsLength(t.context)
ASSUME RequestsAssumption ==
    \A r \in Requests :
        /\ DOMAIN r = {"name", "needs", "tokens", "output", "previous"}
        /\ r.needs \subseteq Features /\ r.tokens \in Nat /\ IsLength(r.output)
\* AutoConfig.validate_priority_chain
ASSUME SettingsAssumption ==
    \A s \in Settings :
        /\ s.priorities \in Seq(ToSet(s.priorities)) /\ s.chain \in Seq(ToSet(s.chain))
        /\ s.overrides \in Seq(ToSet(s.overrides))
        /\ \A o \in ToSet(s.overrides) : IsLength(o.prompt) /\ IsLength(o.output) /\ IsLength(o.window)
        /\ s.mode \in {"chain", "tasks"} /\ s.strategy \in {"priority", "same-model", "none"}
        /\ s.mode = "chain" => s.chain # <<>>
        /\ Cardinality(ToSet(s.chain)) = Len(s.chain)
        /\ s.maxRetries \in Nat

VARIABLES
    catalog,   \* the public names of _models_cache, in its order
    fresh,     \* no provider failed in the refresh that it is from
    signedIn,  \* providers that are authenticated
    settings,  \* of the generation that serves the request
    request,   \* [name, needs, tokens, output, previous]
    bound,     \* the model that a capsule in the request binds it to, if any
    pc,
    ordered,   \* the candidates as a plan under way found them
    question,  \* what the classifier is asked: [model, among, quiet]
    plan,
    served,    \* the model that gave the last answer, if one did
    continued

worldVars == <<catalog, fresh, signedIn>>
vars == <<worldVars, settings, request, bound, pc, ordered, question, plan, served, continued>>

-----------------------------------------------------------------------------
(* Candidates.  A plan is made of the catalog and the providers as the     *)
(* await before it has left them, so that these operators read the primed  *)
(* variables.                                                              *)

\* _apply_model_overrides: what the user sets over the entries, of one public name or of an id
\* at every provider.
Overrides(s, n) == Kept(s.overrides, {o \in ToSet(s.overrides) : o.key \in {n, <<n[2]>>}})
Infos ==
    [s \in Settings |-> [n \in Names |-> Overridden(InfoOf(Entries[n]), Overrides(s, n))]]
Rooms == [s \in Settings |-> [n \in Names |-> Capacity(Infos[s][n])]]
Info(n) == Infos[settings][n]
Room(n) == Rooms[settings][n]

\* _catalog_candidate
UsableNames == {n \in ToSet(catalog') : n[1] \in signedIn'}
Usable(n) == n \in UsableNames

\* _ordered_catalog_candidates: the configured ones lead.
OrderedCandidates == Distinct(Kept(settings.priorities \o catalog', UsableNames))

\* model_supports_manifest: only a denial counts, unless what is unknown is to be excluded.
Supports(n, needs, strict) ==
    /\ \A f \in needs \ (IF strict THEN {} ELSE {"files"}) :
           Info(n).features[f] # "no" /\ (strict => Info(n).features[f] = "yes")

CapableOf(candidates) == Kept(candidates, {n \in ToSet(candidates) : Supports(n, request.needs, FALSE)})

\* auto_candidate_for_id
AutoTakes(n, needs, strict) ==
    /\ Usable(n)
    /\ Supports(n, needs, strict)
    /\ \A most \in Info(n).output, asked \in request.output : asked <= most

\* auto_context_is_safe: below 70 % of the window, or of none that is known.
Safe(n) == \A w \in Room(n) : request.tokens * 10 < w * 7

\* select_auto_context_candidates: the safe ones; else those of no known window; else the
\* largest.
RoomyOrNone(names) == {n \in names : Safe(n)}   \* mutant: the window rejects

Roomy(names) ==
    LET safe == {n \in names : Safe(n)}
        unknown == {n \in names : Room(n) = {}}
        largest == Max(UNION {Room(n) : n \in names})
    IN CASE safe # {} -> safe
         [] safe = {} /\ unknown # {} -> unknown
         [] OTHER -> {n \in names : \A w \in Room(n) : w = largest}

Plan(primary, fallbacks, explicit, overflowOnly) ==
    [primary |-> primary, fallbacks |-> fallbacks, explicit |-> explicit, overflowOnly |-> overflowOnly]
NoPlan == Plan(<<>>, <<>>, FALSE, FALSE)
Candidates == {plan.primary} \cup ToSet(plan.fallbacks)

-----------------------------------------------------------------------------
(* Names (_normalize_model_alias, _find_model_in_cache, fuzzy_match_model). *)

Meant(name) == IF name \in DOMAIN Aliases THEN Aliases[name] ELSE name
IsExplicit(name) == Len(name) = 2

\* The last path segment of a name, and the entries it is looked for among: of its provider,
\* or the first of every id.
Id(name) == name[Len(name)]

\* strip_date_suffix, parse_model_id: what is left of an id without its date is the family that
\* names match; a known variant is not a part of it where models are sorted.
Variants == {"preview", "latest", "turbo", "mini"}
Undated(id) == Parts[id].words
ParsedId(id) ==
    LET words == Undated(id)
        last == words[Len(words)]
    IN IF Len(words) > 1 /\ last \in Variants
       THEN [family |-> Front(words), variant |-> <<last>>, version |-> Parts[id].date]
       ELSE [family |-> words, variant |-> <<>>, version |-> Parts[id].date]

Among(name) ==
    IF IsExplicit(name) THEN Kept(catalog', {n \in ToSet(catalog') : n[1] = name[1]})
    ELSE Kept(catalog', {catalog'[i] : i \in Firsts([j \in DOMAIN catalog' |-> catalog'[j][2]])})

\* An id that is listed, or the newest of the family, the first of them if there are several.
Matches(name) ==
    LET entries == Among(name)
        exact == {i \in DOMAIN entries : entries[i][2] = Id(name)}
        kin == {i \in DOMAIN entries : Id(name) \in DOMAIN Parts /\ Undated(entries[i][2]) = Undated(Id(name))}
        version(i) == ParsedId(entries[i][2]).version
        newest == {i \in kin : \A j \in kin : version(j) <= version(i)}
    IN CASE exact # {} -> {entries[Min(exact)]}
         [] exact = {} /\ kin # {} -> {entries[Min(newest)]}
         [] OTHER -> {}

\* _resolve_provider, of a public name: what it matches, if its provider is authenticated.
Resolved(name) == {n \in Matches(name) : n[1] \in signedIn'}

-----------------------------------------------------------------------------
(* plan_generation_route, past the resolution of the name.                 *)

UpTo(s, n) == SubSeq(s, 1, IF Len(s) < n THEN Len(s) ELSE n)
After(s, n) == SubSeq(s, SelectInSeq(s, LAMBDA e : e = n) + 1, Len(s))
Limit == IF settings.strategy = "none" THEN 0 ELSE settings.maxRetries

\* mutant: every other configured one
ExplicitFromTheTop(primary, candidates) ==
    LET capable == CapableOf(candidates)
    IN IF settings.strategy = "same-model"
       THEN Kept(capable, {n \in ToSet(capable) : n # primary /\ n[2] = primary[2]})
       ELSE Kept(capable, ToSet(settings.priorities) \ {primary})

\* Of the capable candidates, those with the same id, or the configured ones that come after.
ExplicitFallbacks(primary, candidates) ==
    LET capable == CapableOf(candidates)
        configured == Kept(capable, ToSet(settings.priorities))
    IN IF settings.strategy = "same-model"
       THEN Kept(capable, {n \in ToSet(capable) : n # primary /\ n[2] = primary[2]})
       ELSE IF primary \in ToSet(configured) THEN After(configured, primary) ELSE configured

ExplicitPlan(primary, candidates) ==
    Plan(primary, UpTo(ExplicitFallbacks(primary, candidates), Limit), TRUE, FALSE)

\* The providers of one id, in the order of the priorities.
AliasPlans(name) ==
    LET capable(id) == CapableOf(Kept(OrderedCandidates, {n \in UsableNames : n[2] = id}))
    IN {Plan(Head(found), UpTo(Tail(found), Limit), FALSE, FALSE) :
            found \in {capable(m[2]) : m \in Matches(name)} \ {<<>>}}

-----------------------------------------------------------------------------
(* Auto.                                                                   *)

\* eligible_auto_candidates
ChainPlans ==
    LET taken == {n \in ToSet(settings.chain) : AutoTakes(n, request.needs, FALSE)}
    IN {Plan(Head(roomy), Tail(roomy), FALSE, FALSE) : roomy \in {Kept(settings.chain, Roomy(taken))} \ {<<>>}}

\* eligible_auto_tasks: a need that no model of a task declares anything about is not held
\* against them.
Published(f) ==
    \E t \in ToSet(Tasks) :
        settings.tasks[t] \in ToSet(catalog') /\ Info(settings.tasks[t]).features[f] # "unknown"
StrictNeeds == {f \in request.needs : f = "files" /\ settings.strict => Published(f)}

EligibleTasks ==
    LET hard == {t \in ToSet(Tasks) : AutoTakes(settings.tasks[t], StrictNeeds, settings.strict)}
        roomy == Roomy({settings.tasks[t] : t \in hard})
    IN Kept(Tasks, {t \in hard : settings.tasks[t] \in roomy})

\* _auto_overflow_fallbacks: larger windows, smallest first, and the others of the largest;
\* an unknown window may be larger.
Window(n) == Max(Room(n) \cup {0})
OverflowFallbacks(among, selected) ==
    LET models == Distinct([i \in DOMAIN among |-> settings.tasks[among[i]]])
        largest == Max({Window(n) : n \in ToSet(models)})
        climbs(n) ==
            /\ n # selected
            /\ CASE Room(selected) = {} -> Room(n) = {}
                 [] Room(selected) # {} /\ Room(n) = {} -> TRUE
                 [] OTHER -> Window(n) > Window(selected) \/ (Window(n) = Window(selected) /\ Window(n) = largest)
        larger == {n \in ToSet(models) : climbs(n)}
        known(w) == {n \in larger : Room(n) # {} /\ Window(n) = w}
    IN FlattenSeq([w \in 1..largest |-> Kept(models, known(w))]) \o Kept(models, {n \in larger : Room(n) = {}})

\* build_classifier_payload: the router model is asked once about the tasks that are left, and
\* told not to think where it lists that it can do without.
ClassifierQuestion(eligible) ==
    [model |-> settings.router, among |-> Distinct(eligible),
     quiet |-> \E efforts \in Info(settings.router).efforts : "none" \in ToSet(efforts)]
NoQuestion == [model |-> <<>>, among |-> <<>>, quiet |-> FALSE]

\* parse_classifier_result: a task as the object that was asked for, as one inside a text, or as
\* a bare word; another JSON value, a quoted word too, names none, and neither does an answer
\* without text.
Replies == [form : {"object", "inText", "word"}, task : ToSet(Tasks) \cup {"another"}]
               \cup [form : {"value", "no text"}, task : {"another"}]
ClassifierResult(reply, allowed) ==
    {t \in ToSet(allowed) : reply.form \in {"object", "inText", "word"} /\ t = reply.task}

TaskPlan(among, task) ==
    LET fallbacks == OverflowFallbacks(among, settings.tasks[task])
    IN Plan(settings.tasks[task], fallbacks, FALSE, fallbacks # <<>>)

-----------------------------------------------------------------------------
(* The list of models, and its pages.                                      *)

\* _natural_sort_key: numbers before text, dotted ones part by part, the larger first where
\* they descend.  A title is a sequence of [number, text], one of them empty.
Part3(number, i) == IF i \in DOMAIN number THEN number[i] ELSE 0
Letters(text) == SelectInSeq(Alphabet, LAMBDA t : t = text)
NaturalKey(title, descending) ==
    FlattenSeq([i \in DOMAIN title |->
        IF title[i].number # <<>>
        THEN <<0>> \o [k \in 1..3 |-> IF descending THEN -Part3(title[i].number, k) ELSE Part3(title[i].number, k)]
        ELSE <<1, Letters(title[i].text)>>]) \o <<-1>>

\* _sort_key: by provider, title, variant, and the newer date first.
SortKey(n) ==
    LET parsed == ParsedId(n[2])
        variant == [i \in DOMAIN parsed.variant |-> [number |-> <<>>, text |-> parsed.variant[i]]]
    IN <<Letters(n[1])>> \o NaturalKey(Entries[n].title, TRUE) \o NaturalKey(variant, FALSE) \o <<-parsed.version>>

Before(k, l) ==
    \E i \in 1..Least(Len(k), Len(l)) : k[i] < l[i] /\ \A j \in 1..(i - 1) : k[j] = l[j]
SortKeys == [n \in Names |-> SortKey(n)]
SortModels(s) == SortSeq(s, LAMBDA n, m : Before(SortKeys[n], SortKeys[m]))

\* Router.list_models, list_models_with_auto: Auto, the configured models that are listed, the
\* others sorted.
ListedModels(models, s) ==
    LET first == Distinct(Kept(s.priorities, ToSet(models)))
    IN <<AutoModel>> \o first \o SortModels(Kept(models, ToSet(models) \ ToSet(first)))

\* list_models of the Anthropic surface: at most limit of the models past the one that after
\* names and short of the one that before names; a name that is not in the list does not count.
PageWithRest(list, limit, after, before) ==   \* mutant: the named one is told again
    LET start == SelectInSeq(list, LAMBDA n : n = after) - (IF after \in ToSet(list) THEN 1 ELSE 0)
        end == IF before \in ToSet(list) THEN SelectInSeq(list, LAMBDA n : n = before) - 1 ELSE Len(list)
    IN [data |-> SubSeq(list, start + 1, Least(start + limit, end)), more |-> start + limit < end]

PageWithNamed(list, limit, after, before) ==   \* mutant: so is the one it stops at
    LET start == SelectInSeq(list, LAMBDA n : n = after)
        end == IF before \in ToSet(list) THEN SelectInSeq(list, LAMBDA n : n = before) ELSE Len(list)
    IN [data |-> SubSeq(list, start + 1, Least(start + limit, end)), more |-> start + limit < end]

Page(list, limit, after, before) ==
    LET start == SelectInSeq(list, LAMBDA n : n = after)   \* 0: not there
        end == IF before \in ToSet(list) THEN SelectInSeq(list, LAMBDA n : n = before) - 1 ELSE Len(list)
    IN [data |-> SubSeq(list, start + 1, Least(start + limit, end)), more |-> start + limit < end]

-----------------------------------------------------------------------------
(* The requests of one conversation.                                       *)

Init ==
    /\ catalog = <<>> /\ fresh = FALSE
    /\ signedIn \in {Providers} \cup {Providers \ {p} : p \in Providers}
    /\ settings \in Settings
    /\ request \in Requests
    /\ bound = None /\ pc = "asked" /\ ordered = <<>> /\ question = NoQuestion /\ plan = NoPlan /\ served = None
    /\ continued = FALSE

\* _ensure_models_cache: a cache that is out of date is replaced, and so it is by others
\* meanwhile.  A provider that fails, or whose listing is spoilt, keeps the models it had, and
\* the cache stays out of date.
Failed(listing, down) == down \cup {n[1] : n \in {m \in ToSet(listing) : m[1] \in signedIn /\ Spoils(Entries[m])}}
Part(p, listing, failed) ==
    IF p \in failed THEN Kept(catalog, {n \in ToSet(catalog) : n[1] = p})
    ELSE Kept(listing, {n \in ToSet(listing) : n[1] = p /\ Offered(Entries[n])})
Refreshed(listing, failed) ==
    LET listed == Kept(Order, signedIn)
    IN FlattenSeq([i \in DOMAIN listed |-> Part(listed[i], listing, failed)])

EnsureModelsCache ==
    /\ UNCHANGED signedIn
    /\ \/ fresh /\ UNCHANGED <<catalog, fresh>>
       \/ /\ ~fresh
          /\ \E listing \in Listings, down \in SUBSET signedIn :
                 LET failed == Failed(listing, down)
                 IN /\ catalog' = Refreshed(listing, failed)
                    /\ failed # {} => catalog' # <<>>
                    /\ fresh' = (failed = {})

\* A cold start at which providers fail is an outage.
Outage ==
    /\ pc \in {"asked", "resolving"} /\ ~fresh
    /\ \E listing \in Listings, down \in SUBSET signedIn :
           LET failed == Failed(listing, down)
           IN failed # {} /\ Refreshed(listing, failed) = <<>>
    /\ pc' = "failed"
    /\ UNCHANGED <<worldVars, settings, request, bound, ordered, question, plan, served, continued>>

Planned(p) == plan' = p /\ pc' = "planned"
Refused == plan' = NoPlan /\ pc' = "refused"
Unclassified == plan' = NoPlan /\ pc' = "unclassified"

\* _plan_generation_route: a continuation of Auto asks for the model it is bound to.
UnpinnedName == request.name   \* mutant: Auto chooses anew
RequestedName == IF request.name = AutoModel /\ bound # None THEN CHOOSE n \in bound : TRUE ELSE request.name

PlanChain ==
    /\ pc = "asked" /\ RequestedName = AutoModel /\ settings.mode = "chain"
    /\ EnsureModelsCache
    /\ IF ChainPlans = {} THEN Refused ELSE \E p \in ChainPlans : Planned(p)
    /\ UNCHANGED <<settings, request, bound, ordered, question, served, continued>>

\* One model for all tasks needs no classification.
PlanTasks ==
    /\ pc = "asked" /\ RequestedName = AutoModel /\ settings.mode = "tasks"
    /\ EnsureModelsCache
    /\ \E eligible \in {EligibleTasks} :
           LET models == {settings.tasks[t] : t \in ToSet(eligible)}
           IN \/ /\ eligible = <<>>
                 /\ Refused /\ UNCHANGED question
              \/ /\ Cardinality(models) = 1
                 /\ Planned(TaskPlan(eligible, Head(eligible))) /\ UNCHANGED question
              \/ /\ Cardinality(models) > 1
                 /\ IF Usable(settings.router)
                    THEN question' = ClassifierQuestion(eligible) /\ pc' = "classifying" /\ UNCHANGED plan
                    ELSE Unclassified /\ UNCHANGED question
    /\ UNCHANGED <<settings, request, bound, ordered, served, continued>>

Classified(reply) ==
    /\ pc = "classifying"
    /\ LET answer == ClassifierResult(reply, question.among)
       IN IF answer = {} THEN Unclassified ELSE \E task \in answer : Planned(TaskPlan(question.among, task))
    /\ question' = NoQuestion
    /\ UNCHANGED <<worldVars, settings, request, bound, ordered, served, continued>>

PlanAlias ==
    /\ pc = "asked" /\ RequestedName # AutoModel /\ ~IsExplicit(Meant(RequestedName))
    /\ EnsureModelsCache
    /\ LET plans == AliasPlans(Meant(RequestedName))
       IN IF plans = {} THEN Refused ELSE \E p \in plans : Planned(p)
    /\ UNCHANGED <<settings, request, bound, ordered, question, served, continued>>

\* The candidates are found before the name is resolved, which ensures the cache again.
PlanExplicit ==
    /\ pc = "asked" /\ RequestedName # AutoModel /\ IsExplicit(Meant(RequestedName))
    /\ EnsureModelsCache
    /\ ordered' = OrderedCandidates
    /\ IF ordered' = <<>> THEN Refused ELSE pc' = "resolving" /\ UNCHANGED plan
    /\ UNCHANGED <<settings, request, bound, question, served, continued>>

Resolve ==
    /\ pc = "resolving"
    /\ EnsureModelsCache
    /\ LET found == Resolved(Meant(RequestedName)) \cap ToSet(ordered)
       IN IF found = {} THEN Refused ELSE \E n \in found : Planned(ExplicitPlan(n, ordered))
    /\ UNCHANGED <<settings, request, bound, ordered, question, served, continued>>

\* _previous_response_affinity: only the very model that is named, with one endpoint.
Continuable ==
    /\ plan.explicit /\ request.name = plan.primary
    /\ Native[plan.primary[1]] = 1

\* _dispatch_route: one of the candidates answers, where the request may be sent there.
Serve(n) ==
    /\ pc = "planned"
    /\ n \in Candidates
    /\ \E p \in Protocols : Available(Info(n), p)
    /\ request.previous => Continuable /\ n = plan.primary
    /\ bound # None => n \in bound
    /\ served' = {n}
    /\ pc' = "served"
    /\ UNCHANGED <<worldVars, settings, request, bound, ordered, question, plan, continued>>

\* The answer is an error, of the classifier or of the plan.
Fail ==
    /\ pc \in {"planned", "classifying"}
    /\ pc' = "failed" /\ question' = NoQuestion
    /\ UNCHANGED <<worldVars, settings, request, bound, ordered, plan, served, continued>>

\* The client goes on, with the private state of the answer or without it, and may leave the
\* choice to Auto now; another generation may serve it, and a provider may have signed out.
\* Bound: once.
Continue(name, sealed, other, gone) ==
    /\ pc = "served" /\ ~continued /\ ~request.previous
    /\ continued' = TRUE
    /\ request' = [request EXCEPT !.name = name]
    /\ bound' = IF sealed THEN served ELSE None
    /\ settings' = other
    /\ signedIn' = signedIn \ gone
    /\ fresh' = FALSE
    /\ pc' = "asked"
    /\ plan' = NoPlan /\ ordered' = <<>>
    /\ IF other = settings THEN catalog' \in {catalog, <<>>} ELSE catalog' = <<>>
    /\ UNCHANGED <<question, served>>

Next ==
    \/ Outage \/ PlanChain \/ PlanTasks \/ PlanAlias \/ PlanExplicit \/ Resolve \/ Fail
    \/ \E reply \in Replies : Classified(reply)
    \/ \E n \in Names : Serve(n)
    \/ \E name \in {AutoModel, request.name}, sealed \in BOOLEAN, other \in Settings, gone \in {{}} \cup {{p} : p \in Providers} :
           Continue(name, sealed, other, gone)

Spec == Init /\ [][Next]_vars

-----------------------------------------------------------------------------
(* Properties.                                                             *)

TypeOK ==
    /\ ToSet(catalog) \subseteq Names /\ fresh \in BOOLEAN /\ signedIn \subseteq Providers
    /\ settings \in Settings
    /\ bound \in {None} \cup {{n} : n \in Names} /\ served \in {None} \cup {{n} : n \in Names}
    /\ pc \in {"asked", "resolving", "classifying", "planned", "served", "refused", "unclassified", "failed"}

Fallbacks == plan.fallbacks
Rank(n) == SelectInSeq(settings.priorities, LAMBDA m : m = n)   \* 0: not configured
Never(n) == ~(n \in ToSet(catalog) /\ n[1] \in signedIn)

\* Fallbacks are what the user configured: no more of them than allowed and none twice, each
\* of them fit for the request and its provider signed in; of the same model if that is the
\* strategy or the name left the provider open; else further down the priorities than the
\* model that was asked for, if that is among them and fit itself, and in their order.
FallbacksAreConfigured ==
    pc = "planned" /\ RequestedName # AutoModel =>
        /\ Len(Fallbacks) <= Limit
        /\ Cardinality(Candidates) = 1 + Len(Fallbacks)
        /\ \A n \in ToSet(Fallbacks) : n[1] \in signedIn /\ Supports(n, request.needs, FALSE)
        /\ IF settings.strategy = "same-model" \/ ~plan.explicit
           THEN \A n \in ToSet(Fallbacks) : n[2] = plan.primary[2]
           ELSE \A i \in DOMAIN Fallbacks :
                    /\ Rank(Fallbacks[i]) > 0
                    /\ \A j \in 1..(i - 1) : Rank(Fallbacks[j]) < Rank(Fallbacks[i])
                    /\ Supports(plan.primary, request.needs, FALSE) => Rank(plan.primary) < Rank(Fallbacks[i])
        /\ ~plan.explicit => \A n \in ToSet(settings.priorities) :
               n[2] = plan.primary[2] /\ Supports(n, request.needs, FALSE) /\ ~Never(n) =>
                   Rank(plan.primary) # 0 /\ Rank(plan.primary) <= Rank(n)

\* The models that the active profile of Auto holds.
Profile == IF settings.mode = "chain" THEN ToSet(settings.chain) ELSE {settings.tasks[t] : t \in ToSet(Tasks)}

Fits(n) ==
    /\ ~Never(n)
    /\ \A f \in request.needs : Info(n).features[f] = "no" => f = "files" /\ ~(settings.mode = "tasks" /\ settings.strict)
    /\ \A most \in Info(n).output, asked \in request.output : asked <= most

\* The classifier is asked only where its answer decides something, at a model that is there,
\* and about tasks whose models fit.  Auto sends a request only to models of its profile that do
\* not deny what it needs, and, while one of them has room for it, to none whose window it fills
\* beyond 70 %.  A request that overflows a window is next tried in a larger one, or in one as
\* large as any; windows that are not known come last.
AutoFits ==
    /\ pc = "classifying" =>
           /\ \A t \in ToSet(question.among) : Fits(settings.tasks[t])
           /\ Cardinality({settings.tasks[t] : t \in ToSet(question.among)}) > 1
           /\ ~Never(question.model)
    /\ pc = "planned" /\ RequestedName = AutoModel =>
        /\ \A n \in Candidates : n \in Profile /\ Fits(n)
        /\ (\E n \in Candidates : ~Safe(n)) => \A n \in Candidates : ~Safe(n)
        /\ settings.mode = "tasks" =>
               \A i \in DOMAIN Fallbacks : \A w \in Room(Fallbacks[i]) :
                   /\ \A v \in Room(plan.primary) : v < w \/ (v = w /\ \A n \in Candidates : Window(n) <= w)
                   /\ \A j \in 1..(i - 1) : Room(Fallbacks[j]) # {} /\ Window(Fallbacks[j]) <= w

Declared(f) == \E n \in Profile \cap ToSet(catalog) : Info(n).features[f] # "unknown"

\* It refuses none for its length, and none for files that no model says anything about: each
\* model of the profile is gone, does not declare the features or puts out less.
AutoKeepsItsWord ==
    pc = "refused" /\ RequestedName = AutoModel =>
        \A n \in Profile :
            \/ Never(n)
            \/ \E f \in request.needs : Info(n).features[f] # "yes" /\ (f = "files" => Declared(f))
            \/ \E most \in Info(n).output, asked \in request.output : asked > most

\* list_models_with_auto: what clients are told of Auto.
Advertisement == AutoInfo({Info(n) : n \in Profile \cap ToSet(catalog)})

\* The list of models does not promise more of Auto than a model of the profile keeps: a
\* request that fills less than 70 % of the largest window it shows goes, with every provider
\* signed in and every model fit, to a model that it leaves that room in; one window is the
\* default, where any is known.
AutoIsAsAdvertised ==
    LET windows == Advertisement.windows
        fills(o) == request.tokens * 10 < o.limit * 7
        allFit == \A n \in Profile : Fits(n) /\ \A f \in request.needs : Info(n).features[f] = "yes"
    IN /\ windows # {} => Cardinality({o \in windows : o.default}) = 1
       /\ pc = "planned" /\ RequestedName = AutoModel /\ allFit /\ (\E o \in windows : fills(o)) => Safe(plan.primary)

\* A limit that the user sets for the prompts of a model, the last one that names it, is all
\* the room it has, whatever its listing says.
UserLimitsHold ==
    \A n \in ToSet(catalog) :
        LET set == Kept(Overrides(settings, n), {o \in ToSet(settings.overrides) : o.prompt # {}})
        IN set # <<>> => Room(n) = set[Len(set)].prompt

\* The numbers that a listing names agree where the total window leaves room for the prompt and
\* for the default tier, with the output set aside.
Agrees(e) ==
    \A w \in e.window : \A limit \in e.prompt \cup UNION {TierLimit(t) : t \in e.prices.default} :
        limit <= UsablePrompt(w, e.output, w)

\* Where the user sets none and the numbers of a listing agree, the room of a model is what its
\* total window leaves beside the output, or less, and no less than the prompt that is listed.
\* Where they do not agree the room may be more than the total leaves, or less than the prompt.
ListedLimitsHold ==
    \A n \in ToSet(catalog) :
        Overrides(settings, n) = <<>> /\ Agrees(Entries[n]) =>
            \A r \in Room(n) :
                /\ \A w \in Entries[n].window : r <= UsablePrompt(w, Entries[n].output, w)
                /\ \A p \in Entries[n].prompt : p <= r

\* What a client has read when it asks for page after page behind the last model it was told of,
\* short of one that it names or of none, as long as there are more, in so many pages.
ReadThrough(list, limit, before) ==
    LET read[k \in 0..Len(list)] ==
            IF k = 0 THEN [told |-> <<>>, more |-> TRUE]
            ELSE IF ~read[k - 1].more THEN read[k - 1]
            ELSE LET told == read[k - 1].told
                     page == Page(list, limit, IF told = <<>> THEN <<>> ELSE told[Len(told)], before)
                 IN [told |-> told \o page.data, more |-> page.more]
    IN read[Len(list)]

\* A client that reads the models page by page, from a catalog that stays the same, is told of
\* Auto and of every model once, or of all that come before the one it names, whatever the size
\* of the pages; what the user prefers comes first, and of two dates of one model of a provider
\* the newer before the older.  It has to read from the top: a page before a model, with nothing
\* said of what it comes after, holds the first of the list and not those next to that model.
PagesTellAll ==
    LET list == ListedModels(catalog, settings)
        place(n) == SelectInSeq(list, LAMBDA m : m = n)
        others == ToSet(catalog) \ ToSet(settings.priorities)
    IN /\ \A limit \in 1..3 :
              /\ ReadThrough(list, limit, <<>>) = [told |-> list, more |-> FALSE]
              /\ \A n \in ToSet(list) :
                     ReadThrough(list, limit, n) = [told |-> SubSeq(list, 1, place(n) - 1), more |-> FALSE]
       /\ Len(list) = 1 + Len(catalog) /\ ToSet(list) = {AutoModel} \cup ToSet(catalog)
       /\ \A n \in ToSet(catalog) \ others, m \in others : place(n) < place(m)
       /\ \A n, m \in others :
              n[1] = m[1] /\ Entries[n].title = Entries[m].title /\ Undated(n[2]) = Undated(m[2]) =>
                  (Parts[n[2]].date > Parts[m[2]].date => place(n) < place(m))

\* What Auto promises of the models it sends a request to, when it has none, and what it tells
\* its clients beforehand.
AutoChooses == AutoFits /\ AutoKeepsItsWord /\ AutoIsAsAdvertised

\* What the program says of its models: how much room they have, and which there are.
ListedIsTrue == UserLimitsHold /\ ListedLimitsHold /\ (pc = "refused" => PagesTellAll)

\* A request to Auto that is bound to a model by its private state is planned on that model while
\* the catalog lists it, whatever the settings have become, and refused only if the catalog, or
\* the one that the candidates were found in, does not list it or its provider has signed out.
\* Once it is not listed, another date of the same model of the same provider is planned, if
\* there is one, and no other.  Requests that name a model are planned by that name.
ContinuationIsPlanned ==
    request.name = AutoModel /\ bound # None =>
        \A n \in bound :
            /\ pc \in {"planned", "served"} /\ plan.primary # n =>
                   /\ n \notin ToSet(catalog)
                   /\ plan.primary[1] = n[1] /\ Undated(plan.primary[2]) = Undated(n[2])
            /\ pc \in {"refused", "unclassified"} =>
                   n[1] \notin signedIn \/ n \notin ToSet(catalog) \/ n \notin ToSet(ordered)
=============================================================================
