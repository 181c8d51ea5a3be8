---------------------------- MODULE CatalogEntries ----------------------------
(***************************************************************************)
(* What a model's entry in Copilot's listing comes to                      *)
(* (providers/copilot_support/catalog.py, utils/context_window.py,         *)
(* ModelInfo of providers/base.py): the windows a client may choose, the   *)
(* features, the endpoints; the limits that the user sets over them; and   *)
(* the one model that stands for all that Auto may choose.                 *)
(*                                                                         *)
(* A listed entry is [wrong, picker, kind, title, prompt, output, window,  *)
(* supports, efforts, endpoints, knownFor, prices]; a value that it may    *)
(* leave out is the empty set or a set of one.  Lengths are in thousands   *)
(* of tokens.                                                              *)
(***************************************************************************)
EXTENDS Integers, FiniteSets, SequencesExt

Protocols == {"chat", "messages", "responses"}
Features == {"tools", "vision", "files", "reasoning"}
Efforts == <<"none", "minimal", "low", "medium", "high", "xhigh", "max", "ultra">>

\* A length that may be left out.
IsLength(l) == l \subseteq Nat /\ \A a, b \in l : a = b
The(option) == CHOOSE v \in option : TRUE
OneOf(first, second) == IF first # {} THEN first ELSE second
Least(a, b) == IF a < b THEN a ELSE b

\* The members of a sequence that are in S, in their order; the arguments are evaluated once.
KeptOf(s, S) ==
    LET kept[i \in 0..Len(s)] ==
            IF i = 0 THEN <<>> ELSE IF s[i] \in S THEN Append(kept[i - 1], s[i]) ELSE kept[i - 1]
    IN kept[Len(s)]
Kept(s, S) == The({KeptOf(t, T) : t \in {s}, T \in {S}})

\* The first of all that are equal.
Firsts(s) == {i \in DOMAIN s : \A j \in 1..(i - 1) : s[j] # s[i]}
Distinct(s) ==
    LET firsts == Kept([i \in DOMAIN s |-> i], Firsts(s))
    IN [k \in DOMAIN firsts |-> s[firsts[k]]]

-----------------------------------------------------------------------------
(* Windows.                                                                *)

\* calculate_context_budget: an output of at most 15 % of the window is set aside.
UsablePrompt(prompt, output, window) ==
    LET out == Least(IF output = {} THEN 4 ELSE The(output), (prompt * 15) \div 100)
    IN Least(prompt, window - out)

Option(tier, limit, default) == [tier |-> tier, limit |-> limit, default |-> default]
\* _single_context_window_option
SingleOption(limit) == [i \in 1..Cardinality(limit) |-> Option("default", The(limit), TRUE)]

\* _normalize_context_tier_limit, _context_tier_price_signature: a price is <<>> or <<amount>>.
TierLimit(tier) == OneOf(tier.prompt, tier.context)
Signature(tier) == <<tier.input, tier.out, tier.cached, tier.written>>
Surcharge(default, long) ==
    \/ \E price \in {default.input, default.out, long.input, long.out} : price = <<>>
    \/ Signature(default) # Signature(long)

WindowOptionsOfTotal(e) ==   \* mutant: nothing is set aside of the total window
    LET whole == OneOf(e.prompt, e.window)
        base == UNION {TierLimit(t) : t \in e.prices.default}
        full == Max(base \cup (IF e.window # {} THEN e.window ELSE e.prompt \cup UNION {TierLimit(t) : t \in e.prices.long}))
        costs == \E d \in e.prices.default, l \in e.prices.long : Surcharge(d, l)
    IN CASE base = {} -> SingleOption(whole)
         [] base # {} /\ The(base) >= full -> SingleOption({full})
         [] OTHER -> <<Option("default", The(base), costs), Option("long_context", full, ~costs)>>

\* normalize_context_window_options: of the prices there are a default and a long tier; a tier
\* of the whole window is the default unless it costs more.
WindowOptions(e) ==
    LET usable(w) == UsablePrompt(w, e.output, w)
        whole == OneOf(e.prompt, {usable(w) : w \in e.window})
        base == UNION {TierLimit(t) : t \in e.prices.default}
        full == Max(base \cup (IF e.window # {} THEN {usable(w) : w \in e.window}
                               ELSE e.prompt \cup UNION {TierLimit(t) : t \in e.prices.long}))
        costs == \E d \in e.prices.default, l \in e.prices.long : Surcharge(d, l)
    IN CASE base = {} -> SingleOption(whole)
         [] base # {} /\ The(base) >= full -> SingleOption({full})
         [] OTHER -> <<Option("default", The(base), costs), Option("long_context", full, ~costs)>>

-----------------------------------------------------------------------------
(* Entries (parse_models).                                                 *)

\* An entry of the wrong shape spoils the whole listing; what is not offered is not looked at
\* in detail.
Offered(e) == e.picker /\ e.kind # "completion"
Spoils(e) == e.wrong = "shape" \/ (e.wrong = "detail" /\ Offered(e))

\* normalize_reasoning_effort_values
EffortValues(e) == {Distinct(efforts) : efforts \in e.efforts}
Reasons(e) == e.supports.thinking = "yes" \/ \E efforts \in e.efforts : efforts # <<>>
\* normalize_catalog_boolean, and the features of parse_models
FeaturesOf(e) ==
    [f \in Features |->
        CASE f # "reasoning" -> e.supports[f]
          [] f = "reasoning" /\ e.supports.thinking = "unknown" /\ e.efforts = {} -> "unknown"
          [] OTHER -> IF Reasons(e) THEN "yes" ELSE "no"]

Verdict(yes) == IF yes THEN "yes" ELSE "no"
\* transport_capabilities: only what the entry says.
TransportsOf(e) ==
    [p \in Protocols |-> IF e.endpoints = {} THEN "unknown" ELSE Verdict(p \in The(e.endpoints))]
\* operation_capabilities: else what the name of the model tells.
OperationsOf(e) ==
    IF e.endpoints # {} THEN TransportsOf(e)
    ELSE [p \in Protocols |->
             CASE p = "chat" -> "yes"
               [] p = "messages" -> Verdict("claude" \in e.knownFor)
               [] OTHER -> IF "responses" \in e.knownFor THEN "yes" ELSE "unknown"]

InfoOf(e) ==
    [prompt |-> e.prompt, output |-> e.output, window |-> e.window, options |-> WindowOptions(e),
     features |-> FeaturesOf(e), efforts |-> EffortValues(e),
     transports |-> TransportsOf(e), operations |-> OperationsOf(e)]

-----------------------------------------------------------------------------
(* Models.                                                                 *)

\* with_overrides: one limit of the user's takes the place of every window that was listed.
WithOverridesBeside(info, o) ==   \* mutant: the windows stay
    [info EXCEPT !.prompt = OneOf(o.prompt, @), !.output = OneOf(o.output, @), !.window = OneOf(o.window, @)]
WithOverrides(info, o) ==
    [info EXCEPT !.prompt = OneOf(o.prompt, @), !.output = OneOf(o.output, @), !.window = OneOf(o.window, @),
                 !.options = IF o.prompt \cup o.output \cup o.window = {} THEN @ ELSE <<>>]
Overridden(info, overrides) ==
    LET over[i \in 0..Len(overrides)] ==
            IF i = 0 THEN info ELSE WithOverrides(over[i - 1], overrides[i])
    IN over[Len(overrides)]

\* effective_context_window_options, advertised_context_window_options
Effective(info) ==
    LET rest(w) == Max({1} \cup {r \in 1..w : r + (IF info.output = {} THEN 0 ELSE The(info.output)) = w})
    IN IF info.options # <<>> THEN info.options
       ELSE SingleOption(OneOf(info.prompt, {rest(w) : w \in info.window}))
Advertised(info) == IF info.options # <<>> THEN info.options ELSE SingleOption(info.prompt)

\* model_prompt_capacity
Capacity(info) ==
    IF Effective(info) # <<>> THEN {Max({o.limit : o \in ToSet(Effective(info))})} ELSE info.prompt

\* _binding_is_available: a denial of the protocol, or of every operation, rules an endpoint out.
Available(info, protocol) ==
    IF info.transports[protocol] # "unknown" THEN info.transports[protocol] = "yes"
    ELSE info.operations[protocol] # "no"

\* auto_model_info: of all models that Auto may choose, the best of each limit and of each
\* window, what one of them can do, and what none can.
Union(declared) ==
    CASE "yes" \in declared -> "yes"
      [] declared # {} /\ declared \subseteq {"no"} -> "no"
      [] OTHER -> "unknown"
AutoWindows(infos) ==
    LET options == UNION {ToSet(Advertised(i)) : i \in infos}
        best(tier) == Max({o.limit : o \in {p \in options : p.tier = tier}})
        default == {o.tier : o \in {p \in options : p.default}}
        chosen == CHOOSE t \in default : \A u \in default : best(u) <= best(t)
    IN {Option(tier, best(tier), default # {} /\ tier = chosen) : tier \in {o.tier : o \in options}}
AutoEfforts(infos) ==
    LET known == UNION {ToSet(s) : s \in UNION {i.efforts : i \in infos}}
    IN Kept(Efforts, known)
AutoInfo(infos) ==
    [windows |-> AutoWindows(infos), efforts |-> AutoEfforts(infos),
     output |-> LET known == UNION {i.output : i \in infos} IN IF known = {} THEN {} ELSE {Max(known)},
     features |-> [f \in Features |-> Union({i.features[f] : i \in infos})],
     operations |-> [p \in Protocols |-> Union({i.operations[p] : i \in infos})]]
=============================================================================
