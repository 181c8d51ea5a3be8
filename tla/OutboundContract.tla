--------------------------- MODULE OutboundContract ---------------------------
(***************************************************************************)
(* What the dialect of a provider makes of a request before it is sent     *)
(* (prepare_attempt of the bindings): GitHub Copilot drops, renames and    *)
(* rewrites what its endpoints do not take, and rejects the rest, so that  *)
(* the dispatcher may try another binding; DeepSeek maps budgets; the      *)
(* others send the request as it is.                                       *)
(*                                                                         *)
(* model.family stands for the name of the model, by whose prefix the code *)
(* knows it; model.catalog is the efforts that the provider's catalog      *)
(* lists, {} while the catalog is cold; model.thinks is supports_thinking  *)
(* in the router's cache and model.limit its max_output_tokens.            *)
(***************************************************************************)
EXTENDS RequestSettings

LOCAL INSTANCE SequencesExt
LOCAL INSTANCE FiniteSetsExt
LOCAL INSTANCE TLC

ModelFacts(family, catalog, thinks, limit) ==
    [family |-> family, catalog |-> catalog, thinks |-> thinks, limit |-> limit]

\* claude is one that reasons; legacy stands for gpt-4, gemini-2.5 and the older claudes.
Families == {"gpt-5.4", "gpt-5", "claude", "legacy", "grok", "other"}
KnownReasoningSupport(m) ==
    CASE m.family \in {"gpt-5.4", "gpt-5", "claude"} -> {TRUE}
      [] m.family = "legacy" -> {FALSE}
      [] OTHER -> {}

Warm(m) == m.catalog # {}
Without(o, names) == [n \in DOMAIN o \ names |-> o[n]]

\* A mutant of EffortWithin: the list of the tiers below, sorted, is read at its wrong end.
EffortWithinLowest(desired, tiers) ==
    LET valid == tiers \cap Efforts
        below == {e \in valid : desired \in Efforts /\ Rank(e) <= Rank(desired)}
    IN IF below # {} THEN Lowest(below) ELSE Lowest(valid)

\* resolve_effort_within_catalog: the highest tier not above the desired one, or the lowest
\* of all; an effort that is no tier is below all of them.
EffortWithin(desired, tiers) ==
    LET valid == tiers \cap Efforts
        below == {e \in valid : desired \in Efforts /\ Rank(e) <= Rank(desired)}
    IN IF below # {} THEN Highest(below) ELSE Lowest(valid)

\* "none" is sent only to a model that lists it.
CatalogEffort(m, desired) ==
    IF desired = {None} THEN desired \cap The(m.catalog)
    ELSE UNION {EffortWithin(e, The(m.catalog)) : e \in desired}

-----------------------------------------------------------------------------
\* Copilot Chat: thinking becomes an effort, which must be one that the model takes.

ColdChatTier(m, effort) ==
    CASE m.family = "claude" /\ effort \in {"xhigh", "max"} -> "high"
      [] m.family # "claude" /\ effort = "max" -> "xhigh"
      [] KnownReasoningSupport(m) = {} /\ effort = "xhigh" -> "high"
      [] OTHER -> effort

\* A budget too small for any effort asks for the smallest.
ResolveReasoningChat(m, effort, budget) ==
    LET desired == IF effort # {} THEN effort ELSE UNION {BudgetToEffort(b) : b \in budget}
        small == desired = {} /\ budget # {}
    IN CASE Warm(m) -> CatalogEffort(m, IF small THEN {"minimal"} ELSE desired)
         [] ~Warm(m) /\ KnownReasoningSupport(m) = {FALSE} -> {}
         [] OTHER -> IF small THEN {"low"} ELSE {ColdChatTier(m, e) : e \in desired} \cap (Efforts \ {"max"})

\* allows_top_p
TopPAllowed(m, protocol) == protocol = "chat" \/ m.family # "gpt-5.4"

CopilotChatTakes(body, m) == "stop" \in DOMAIN body.options => m.family \notin {"gpt-5.4", "gpt-5"}

DowngradeForUpstream(effort) ==
    CASE effort \in {"xhigh", "max"} -> {"high"} [] effort \in Efforts -> {effort} [] OTHER -> {}

ResolveReasoningResponses(m, effort) ==
    CASE Warm(m) -> CatalogEffort(m, effort)
      [] ~Warm(m) /\ KnownReasoningSupport(m) = {FALSE} -> {}
      [] ~Warm(m) /\ KnownReasoningSupport(m) = {TRUE} -> effort
      [] OTHER -> UNION {DowngradeForUpstream(e) : e \in effort}

\* resolve_reasoning: only Chat knows a budget.
ResolveReasoning(m, protocol, effort, budget) ==
    IF protocol = "responses" THEN ResolveReasoningResponses(m, effort) ELSE ResolveReasoningChat(m, effort, budget)

\* apply_copilot_chat_reasoning: gpt-5.4 has another name for the bound of the answer.
ApplyChatReasoning(o, m, effort, budget) ==
    LET bound == IF m.family = "gpt-5.4" THEN "max_completion_tokens" ELSE "max_tokens"
    IN Without(o, {"max_tokens"})
           @@ Field(bound, Of(o, "max_tokens"))
           @@ Field("reasoning_effort", ResolveReasoning(m, "chat", effort, budget))

PrepareCopilotChat(body, m) ==
    LET o == body.options
        budget == UNION {t.budget : t \in Of(o, "thinking")}
        rest == Without(o, {"thinking", "reasoning_effort"})
    IN [body EXCEPT !.options = ApplyChatReasoning(rest, m, Of(o, "reasoning_effort"), budget)]

-----------------------------------------------------------------------------
\* Copilot Responses

\* An effort that is not sent takes the rest of the reasoning with it; one that is brings a
\* summary and the encrypted reasoning.
ResolvedReasoning(m, o) ==
    LET resolved(r) == ResolveReasoning(m, "responses", r.effort, {})
    IN {[r EXCEPT !.effort = resolved(r), !.summary = IF @ = {} /\ r.effort # {} THEN {"auto"} ELSE @] :
            r \in {r \in Of(o, "reasoning") : r.effort = {} \/ resolved(r) # {}}}

UnsupportedTools == {"web_search", "web_search_preview", "code_interpreter"}
NormalizeCopilotTool(t) == IF t.type = "namespace" /\ t.about = {} THEN [t EXCEPT !.about = {"about"}] ELSE t
FilterTools(tools) ==
    Each(NormalizeCopilotTool, SelectSeq(tools, LAMBDA t : t.type \notin UnsupportedTools))

\* Grok has no namespaces.
FlattenTool(t) ==
    IF t.type # "namespace" THEN <<t>>
    ELSE Each(LAMBDA f : [f EXCEPT !.name = EncodedName(t.name \o f.name), !.defer = FALSE], t.members)
SentTools(m, tools) == IF m.family = "grok" THEN FlatEach(FlattenTool, FilterTools(tools)) ELSE FilterTools(tools)
SentName(m, tool) == IF m.family = "grok" THEN EncodedName(tool) ELSE tool

\* Private state without the ID it was signed with is left out.
NormalizeItem(m, item) ==
    CASE item.kind = "reasoning" /\ item.id = {} -> [item EXCEPT !.secret = {}]
      [] item.kind = "call" /\ item.of = "function" -> [item EXCEPT !.tool = SentName(m, @)]
      [] OTHER -> item

CopilotResponsesTakes(body, m) ==
    LET o == body.options
        tools == UNION {ToSet(ts) : ts \in Of(o, "tools")}
        named == {item.tool : item \in {item \in ToSet(body.items) : item.kind = "call" /\ item.of = "function"}}
                     \cup {c.tool : c \in Of(o, "tool_choice")}
                     \cup UNION {{t.name \o f.name : f \in ToSet(t.members)} : t \in tools}
    IN /\ "temperature" \notin DOMAIN o
       /\ "top_p" \in DOMAIN o => TopPAllowed(m, "responses")
       /\ \A t \in tools : t.type = "namespace" => t.members # <<>>
       /\ m.family = "grok" => \A tool \in named : Encodable(tool)

PrepareCopilotResponses(body, m) ==
    LET o == body.options
        reasoning == ResolvedReasoning(m, o)
        tools == {SentTools(m, ts) : ts \in Of(o, "tools")} \ {<<>>}
        include == IF \E r \in reasoning : r.effort # {} THEN {"reasoning.encrypted_content"} ELSE {}
    IN [body EXCEPT
            !.items = Each(LAMBDA item : NormalizeItem(m, item), @),
            !.options = Without(o, {"store", "reasoning", "tools", "tool_choice"})
                            @@ Field("reasoning", reasoning)
                            @@ Field("tools", tools)
                            @@ Field("tool_choice", {[c EXCEPT !.tool = SentName(m, @)] : c \in Of(o, "tool_choice")})
                            @@ Field("include", include)]

-----------------------------------------------------------------------------
\* Copilot Messages

DefaultBudget == 16000        \* priorities.json: thinking.default_budget; auto_enable is off
LowestBudget == 1024

\* A budget must leave room in the bound of the answer.
NormalizeThinkingBudget(budget, bound) ==
    LET upper == Min({EffortToBudget.max, bound - 1})
    IN IF upper < LowestBudget THEN {} ELSE {Max({LowestBudget, Min({budget, upper})})}

\* No thinking, or enabled with a budget.
ResolveThinkingBudget(t, bound) ==
    IF t.type = "disabled" THEN {}
    ELSE {ThinkingConfig("enabled", {b}) :
              b \in NormalizeThinkingBudget(IF t.budget = {} THEN DefaultBudget ELSE The(t.budget), bound)}

WithoutReasoning(m) == KnownReasoningSupport(m) = {FALSE} \/ (Warm(m) /\ ~m.thinks)

\* sanitize_output_config: an effort of no known kind is dropped, and so is what the endpoint
\* rejects; the format and whatever else it may know goes on.
SanitizeOutputConfig(o) ==
    Without(o, {"task_budget"} \cup IF Of(o, "effort") \subseteq Efforts THEN {} ELSE {"effort"})
\* _strip_output_config_effort
StripOutputConfigEffort(o) == Without(o, {"effort"})

\* resolve_native_effort
NativeEffort(m, wished) ==
    IF Warm(m) THEN UNION {EffortWithin(e, The(m.catalog)) : e \in wished} ELSE wished

NativeThinking(m, o) ==
    LET bound == Min({m.limit} \cup Of(o, "max_tokens"))
    IN UNION {IF t.type = "adaptive" THEN {ThinkingConfig("adaptive", {})}
              ELSE ResolveThinkingBudget(t, bound) : t \in Of(o, "thinking")}

CopilotMessagesTakes(body, m) ==
    LET o == body.options
        wished == Of(SanitizeOutputConfig(o), "effort")
    IN /\ "top_p" \in DOMAIN o => TopPAllowed(m, "messages") /\ "temperature" \notin DOMAIN o
       /\ ~WithoutReasoning(m) /\ wished # {} => NativeEffort(m, wished) # {}

PrepareCopilotMessages(body, m) ==
    LET o == body.options
        rest == Without(o, {"thinking", "mcp_servers", "container"})
        config == SanitizeOutputConfig(rest)
    IN [body EXCEPT !.options =
            IF WithoutReasoning(m) THEN StripOutputConfigEffort(rest)
            ELSE StripOutputConfigEffort(config) @@ Field("thinking", NativeThinking(m, o))
                     @@ Field("effort", NativeEffort(m, Of(config, "effort")))]

-----------------------------------------------------------------------------
\* What Copilot is told in the headers: whether the request holds a picture, and whether a
\* user or an agent asks, which is what it bills by.

\* _reconcile_chat_messages, _chat_initiator_from_wire
ChatVision(body) == \E m \in ToSet(body.messages) : \E p \in ToSet(m.content) : p.kind = "image"
ChatInitiator(body) ==
    IF \E m \in ToSet(body.messages) : m.role \in {"assistant", "tool"} THEN "agent" ELSE "user"

\* input_has_vision, which does not look into the output of a tool; responses_initiator: any
\* item that is no message is an agent's.
ResponsesVision(body) ==
    \E item \in ToSet(body.items) : item.kind = "message" /\ \E p \in ToSet(item.content) : p.kind = "image"
ResponsesInitiatorOfTurn(body) ==   \* mutant: only what the assistant wrote
    IF \E item \in ToSet(body.items) : item.kind = "message" /\ item.role = "assistant" THEN "agent" ELSE "user"
ResponsesInitiator(body) ==
    IF \E item \in ToSet(body.items) : item.kind = "message" => item.role = "assistant" THEN "agent" ELSE "user"

HasVision(b, body) == IF b.protocol = "chat" THEN ChatVision(body) ELSE ResponsesVision(body)
Initiator(b, body) == IF b.protocol = "chat" THEN ChatInitiator(body) ELSE ResponsesInitiator(body)

-----------------------------------------------------------------------------
\* DeepSeek Chat: the budget of a converted request becomes an effort, of which minimal is none.
PrepareDeepSeekChat(body) ==
    LET o == body.options
        budget == UNION {t.budget : t \in Of(o, "thinking")}
        derived == UNION {IF b <= 0 THEN {} ELSE IF BudgetToEffort(b) = {} THEN {"low"} ELSE BudgetToEffort(b) :
                              b \in budget}
        effort == IF Of(o, "reasoning_effort") # {} THEN Of(o, "reasoning_effort") ELSE derived
    IN IF "thinking" \notin DOMAIN o THEN body
       ELSE [body EXCEPT !.options =
                 Without(o, {"thinking", "reasoning_effort"})
                     @@ Field("thinking", {[t EXCEPT !.budget = {}] : t \in Of(o, "thinking")})
                     @@ Field("reasoning_effort", {IF e = "minimal" THEN "low" ELSE e : e \in effort})]

-----------------------------------------------------------------------------
\* EndpointBinding.prepare_attempt: whether the dialect rejects, and what it sends.
Preparable(b, body, m) ==
    b.provider = "copilot" =>
        CASE b.protocol = "messages" -> CopilotMessagesTakes(body, m)
          [] b.protocol = "chat" -> CopilotChatTakes(body, m)
          [] b.protocol = "responses" -> CopilotResponsesTakes(body, m)

Prepared(b, body, m, converted) ==
    CASE b.provider = "copilot" /\ b.protocol = "messages" -> PrepareCopilotMessages(body, m)
      [] b.provider = "copilot" /\ b.protocol = "chat" -> PrepareCopilotChat(body, m)
      [] b.provider = "copilot" /\ b.protocol = "responses" -> PrepareCopilotResponses(body, m)
      [] b.provider = "deepseek" /\ b.protocol = "chat" /\ converted -> PrepareDeepSeekChat(body)
      [] OTHER -> body

\* CopilotHttpExecutor._project_response: the answer names the model that was asked, a Grok
\* model calls tools by their flat names, and private state is kept only to be converted.
RestoreItem(m, item) ==
    IF m.family = "grok" /\ item.kind = "call" /\ item.of = "function" THEN [item EXCEPT !.tool = DecodedName(@)] ELSE item

ProjectResponse(b, reply, m, upstream, converted) ==
    CASE b.provider # "copilot" -> reply
      [] b.protocol = "messages" -> [reply EXCEPT !.model = upstream]
      [] b.protocol = "chat" ->
             [reply EXCEPT !.model = upstream, !.message.secret = IF converted THEN @ ELSE {}]
      [] b.protocol = "responses" ->
             [reply EXCEPT !.model = upstream, !.items = Each(LAMBDA item : RestoreItem(m, item), @)]
=============================================================================
