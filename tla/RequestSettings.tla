--------------------------- MODULE RequestSettings ---------------------------
(***************************************************************************)
(* What a request asks for besides its conversation: bounds, sampling,     *)
(* tools and their choice, reasoning, the format of the answer.  For every *)
(* protocol, how a request is decoded into the semantic settings of        *)
(* protocols/models.py and encoded from them; Read or Take says what is    *)
(* not rejected.                                                           *)
(*                                                                         *)
(* Settings are a function from the names of the fields that are given to  *)
(* their values.  A field whose value only passes through has the value    *)
(* "given".  The name of a tool is <<namespace, name>> or <<name>>, and     *)
(* <<"rmn2", namespace, name>> where a transport has no namespaces.        *)
(***************************************************************************)
EXTENDS SemanticRequests

LOCAL INSTANCE SequencesExt
LOCAL INSTANCE FiniteSetsExt
LOCAL INSTANCE TLC

Of(settings, name) == {settings[n] : n \in DOMAIN settings \cap {name}}
Field(name, values) == IF values = {} THEN <<>> ELSE name :> The(values)
Given(settings, names) == [n \in DOMAIN settings \cap names |-> settings[n]]

\* A tool, with the description of its namespace; a choice of tools; what is asked of the
\* thinking; a format of the answer, of the type json_schema, json_object, text or None.
\* nested is the form of Chat, which has the schema, its name and strict in an object.
ToolDefinition(tool, strict, about) == [tool |-> tool, strict |-> strict, about |-> about]
ToolChoice(mode, tool) == [mode |-> mode, tool |-> tool]
ReasoningConfig(enabled, effort, budget) == [enabled |-> enabled, effort |-> effort, budget |-> budget]
Format(type, nested, name, strict, verbosity) ==
    [type |-> type, nested |-> nested, name |-> name, strict |-> strict, verbosity |-> verbosity]

\* utils/reasoning.py
EffortOrder == <<"minimal", "low", "medium", "high", "xhigh", "max">>
EffortToBudget == [low |-> 1024, medium |-> 4096, high |-> 8192, xhigh |-> 16384, max |-> 32768]
Efforts == ToSet(EffortOrder)
Rank(effort) == SelectInSeq(EffortOrder, LAMBDA e : e = effort)
Highest(efforts) == IF efforts = {} THEN {} ELSE {EffortOrder[Max({Rank(e) : e \in efforts})]}
Lowest(efforts) == IF efforts = {} THEN {} ELSE {EffortOrder[Min({Rank(e) : e \in efforts})]}
BudgetToEffort(budget) == Highest({e \in DOMAIN EffortToBudget : EffortToBudget[e] <= budget})

\* A function for transports without namespaces: "rmn2" marks the name, which must not be long.
Encodable(tool) == Len(tool) = 2 => tool[2] # "long"
EncodedName(tool) == IF Len(tool) = 2 THEN <<"rmn2">> \o tool ELSE tool
DecodedName(tool) == IF Len(tool) = 3 THEN Tail(tool) ELSE tool

\* The choice of a tool in OpenAI's protocols (openai_common.py): a mode, or a function.  nested is
\* the form of Chat, where the name of the function has no namespace beside it.
OpenAIChoice(type, tool) == [type |-> type, tool |-> tool]
ToolChoiceReads(c) == c.type \in {"auto", "none", "required", "function"}
DecodeToolChoice(c) == ToolChoice(c.type, c.tool)
EncodeToolChoice(c, nested) == OpenAIChoice(c.mode, IF nested THEN EncodedName(c.tool) ELSE c.tool)

-----------------------------------------------------------------------------
\* Anthropic Messages.  effort and format are the members of output_config.

MessagesTool(name, strict, cache) == [name |-> name, strict |-> strict, cache |-> cache]
MessagesChoice(type, name, serial) == [type |-> type, name |-> name, serial |-> serial]
ThinkingConfig(type, budget) == [type |-> type, budget |-> budget]

MessagesMode == [auto |-> "auto", any |-> "required", none |-> "none", tool |-> "function"]

\* Thinking and effort are one reasoning.
DecodeMessagesReasoning(o) ==
    LET thinking == Of(o, "thinking")
    IN IF thinking = {} /\ Of(o, "effort") = {} THEN {}
       ELSE {ReasoningConfig({t.type # "disabled" : t \in thinking}, Of(o, "effort"),
                             UNION {t.budget : t \in thinking})}

DecodeMessagesTools(tools) == Each(LAMBDA t : ToolDefinition(t.name, t.strict, {}), tools)

\* A cache hint of its own duration is not portable.
MessagesSettingsRead(o) ==
    /\ "max_tokens" \in DOMAIN o
    /\ \A tools \in Of(o, "tools") : \A i \in DOMAIN tools : tools[i].cache # "ttl"
    /\ \A t \in Of(o, "thinking") : t.type = "adaptive" => t.budget = {}

\* Context management that keeps everything is consumed; any other stays for a target to reject.
DecodeMessagesSettings(o) ==
    Given(o, {"temperature", "top_p", "top_k", "service_tier", "metadata", "stop_sequences"})
        @@ Field("max_output_tokens", Of(o, "max_tokens"))
        @@ Field("provider_extensions", Of(o, "context_management") \ {"keep_all"})
        @@ Field("tools", {DecodeMessagesTools(tools) : tools \in Of(o, "tools")})
        @@ Field("tool_choice", {ToolChoice(MessagesMode[c.type], c.name) : c \in Of(o, "tool_choice")})
        @@ Field("parallel_tool_calls", {~serial : serial \in UNION {c.serial : c \in Of(o, "tool_choice")}})
        @@ Field("reasoning", DecodeMessagesReasoning(o))
        @@ Field("structured_output", Of(o, "format"))

MessagesSettingsTaken(s) ==
    /\ DOMAIN s \cap {"provider_extensions", "frequency_penalty", "presence_penalty",
                      "response_mime_type", "user"} = {}
    /\ "max_output_tokens" \in DOMAIN s
    /\ \A r \in Of(s, "reasoning") : FALSE \in r.enabled => r.budget = {}
    /\ \A f \in Of(s, "structured_output") : f.type = "json_schema"

\* Only the name of a tool is sent: its namespace is dropped.
Plain(tool) == <<Last(tool)>>
EncodeMessagesTools(tools) == Each(LAMBDA t : MessagesTool(Plain(t.tool), t.strict, None), tools)

\* Whether calls may be parallel is part of the choice, which is then auto if there is none.
EncodeMessagesChoice(s) ==
    LET parallel == Of(s, "parallel_tool_calls")
        serial == {~p : p \in parallel}
    IN IF Of(s, "tool_choice") = {}
       THEN {MessagesChoice("auto", <<>>, {~p}) : p \in parallel}
       ELSE {MessagesChoice(CHOOSE type \in DOMAIN MessagesMode : MessagesMode[type] = c.mode,
                            IF c.tool = <<>> THEN <<>> ELSE Plain(c.tool), serial) :
                 c \in Of(s, "tool_choice")}

\* Adaptive thinking is told as enabled.
EncodeThinking(s) ==
    {ThinkingConfig(IF FALSE \in r.enabled THEN "disabled" ELSE "enabled", r.budget) :
         r \in {r \in Of(s, "reasoning") : r.enabled # {} \/ r.budget # {}}}
Effort(s) == UNION {r.effort : r \in Of(s, "reasoning")}

\* Only the schema is taken out of the form of Chat.
MessagesFormat(f) ==
    IF f.nested THEN Format("json_schema", FALSE, {}, {}, {}) ELSE [f EXCEPT !.verbosity = {}]

EncodeMessagesSettings(s) ==
    Given(s, {"temperature", "top_p", "top_k", "service_tier", "metadata", "stop_sequences"})
        @@ Field("max_tokens", Of(s, "max_output_tokens"))
        @@ Field("tools", {EncodeMessagesTools(tools) : tools \in Of(s, "tools")})
        @@ Field("tool_choice", EncodeMessagesChoice(s))
        @@ Field("thinking", EncodeThinking(s))
        @@ Field("effort", Effort(s))
        @@ Field("format", {MessagesFormat(f) : f \in Of(s, "structured_output")})


-----------------------------------------------------------------------------
\* OpenAI Chat Completions

ChatTool(name, strict) == [type |-> "function", name |-> name, strict |-> strict]

DecodeChatTools(tools) == Each(LAMBDA t : ToolDefinition(DecodedName(t.name), t.strict, {}), tools)

\* Options of the stream are consumed; there are only functions.
StreamOptionsRead(o) == Of(o, "stream_options") \subseteq {"include_usage"}
ChatSettingsRead(o) ==
    /\ StreamOptionsRead(o)
    /\ \A tools \in Of(o, "tools") : \A i \in DOMAIN tools : tools[i].type = "function"
    /\ \A c \in Of(o, "tool_choice") : ToolChoiceReads(c)

DecodeChatReasoning(o) ==
    LET thinking == Of(o, "thinking")
    IN IF thinking = {} /\ Of(o, "reasoning_effort") = {} THEN {}
       ELSE {ReasoningConfig({t.type # "disabled" : t \in thinking}, Of(o, "reasoning_effort"),
                             UNION {t.budget : t \in thinking})}

Shared == {"temperature", "top_p", "service_tier", "metadata", "parallel_tool_calls"}

\* The name of a chosen tool is left as it came.
DecodeChatSettings(o) ==
    Given(o, Shared \cup {"frequency_penalty", "presence_penalty", "user"})
        @@ Field("max_output_tokens", Of(o, "max_tokens"))
        @@ Field("stop_sequences", Of(o, "stop"))
        @@ Field("tools", {DecodeChatTools(tools) : tools \in Of(o, "tools")})
        @@ Field("tool_choice", {DecodeToolChoice(c) : c \in Of(o, "tool_choice")})
        @@ Field("reasoning", DecodeChatReasoning(o))
        @@ Field("structured_output", Of(o, "response_format"))

ChatSettingsTaken(s) ==
    /\ DOMAIN s \cap {"top_k", "response_mime_type", "provider_extensions"} = {}
    /\ \A tools \in Of(s, "tools") : \A i \in DOMAIN tools : Encodable(tools[i].tool)
    /\ \A c \in Of(s, "tool_choice") : Encodable(c.tool)
    /\ \A f \in Of(s, "structured_output") : f.type \in {"json_schema", "json_object"}

\* A schema needs a name here.
ChatFormat(f) ==
    IF f.nested THEN f
    ELSE IF f.type = "json_object" THEN Format("json_object", FALSE, {}, {}, {})
    ELSE Format("json_schema", TRUE, IF f.name = {} THEN {"response"} ELSE f.name, f.strict, {})

EncodeChatSettings(s) ==
    Given(s, Shared \cup {"frequency_penalty", "presence_penalty", "user"})
        @@ Field("max_tokens", Of(s, "max_output_tokens"))
        @@ Field("stop", Of(s, "stop_sequences"))
        @@ Field("tools", {Each(LAMBDA t : ChatTool(EncodedName(t.tool), t.strict), tools) :
                               tools \in Of(s, "tools")})
        @@ Field("tool_choice", {EncodeToolChoice(c, TRUE) : c \in Of(s, "tool_choice")})
        @@ Field("reasoning_effort", Effort(s))
        @@ Field("thinking", EncodeThinking(s))
        @@ Field("response_format", {ChatFormat(f) : f \in Of(s, "structured_output")})

-----------------------------------------------------------------------------
\* OpenAI Responses.  A tool is a function, a namespace of functions, or of another kind.

FunctionTool(name, strict) ==
    [type |-> "function", name |-> name, strict |-> strict, about |-> {}, members |-> <<>>, defer |-> FALSE]
NamespaceTool(name, about, members) ==
    [FunctionTool(name, {}) EXCEPT !.type = "namespace", !.about = about, !.members = members]
ReasoningOption(effort, summary) == [effort |-> effort, summary |-> summary]

\* The summary that is asked for has no place in the semantic form.
DecodeReasoningOption(r) ==
    IF r.effort = {None} THEN ReasoningConfig({FALSE}, {}, {}) ELSE ReasoningConfig({TRUE}, r.effort, {})

DecodeTool(t) ==
    IF t.type = "function" THEN <<ToolDefinition(t.name, t.strict, {})>>
    ELSE Each(LAMBDA m : ToolDefinition(t.name \o m.name, m.strict, t.about), t.members)

\* What only a Responses endpoint can do is not decoded.
ResponsesSettingsRead(o) ==
    /\ "previous_response_id" \notin DOMAIN o
    /\ TRUE \notin Of(o, "store")
    /\ Of(o, "include") \subseteq {"reasoning.encrypted_content"}
    /\ \A tools \in Of(o, "tools") : \A i \in DOMAIN tools :
           /\ tools[i].type \in {"function", "namespace"}
           /\ \A k \in DOMAIN tools[i].members : ~tools[i].members[k].defer
    /\ \A c \in Of(o, "tool_choice") : ToolChoiceReads(c)

\* metadata is the set of its keys; hints of the client become keys of their own.
DecodeMetadata(o) ==
    LET hints == DOMAIN o \cap {"client_metadata", "prompt_cache_key"}
    IN IF "metadata" \notin DOMAIN o /\ hints = {} THEN {} ELSE {UNION Of(o, "metadata") \cup hints}

DecodeResponsesSettings(o) ==
    Given(o, (Shared \ {"metadata"}) \cup {"max_output_tokens"})
        @@ Field("tool_choice", {DecodeToolChoice(c) : c \in Of(o, "tool_choice")})
        @@ Field("metadata", DecodeMetadata(o))
        @@ Field("tools", {FlatEach(DecodeTool, tools) : tools \in Of(o, "tools")})
        @@ Field("reasoning", {DecodeReasoningOption(r) : r \in Of(o, "reasoning")})
        @@ Field("structured_output", Of(o, "text"))

\* A budget must be that of an effort, and a namespace has one description.
ResponsesSettingsTaken(s) ==
    /\ DOMAIN s \cap {"frequency_penalty", "presence_penalty", "top_k", "response_mime_type", "user",
                      "stop_sequences", "provider_extensions"} = {}
    /\ \A r \in Of(s, "reasoning") :
           FALSE \in r.enabled \/ r.effort # {} \/ \A b \in r.budget : BudgetToEffort(b) # {}
    /\ \A tools \in Of(s, "tools") : \A i, j \in DOMAIN tools :
           Namespace(tools[i].tool) = Namespace(tools[j].tool) => tools[i].about = tools[j].about

\* The tools of a namespace come together, where the first of them was.
EncodeTool(tools, i) ==
    LET ns == Namespace(tools[i].tool)
        members == SelectSeq(tools, LAMBDA t : Namespace(t.tool) = ns)
    IN IF ns = {} THEN <<FunctionTool(tools[i].tool, tools[i].strict)>>
       ELSE IF \E j \in 1..(i - 1) : Namespace(tools[j].tool) = ns THEN <<>>
       ELSE <<NamespaceTool(<<The(ns)>>, tools[i].about,
                            Each(LAMBDA t : FunctionTool(Plain(t.tool), t.strict), members))>>
EncodeTools(tools) == FlattenSeq([i \in DOMAIN tools |-> EncodeTool(tools, i)])

EncodeReasoningOption(r) ==
    ReasoningOption(IF FALSE \in r.enabled THEN {None}
                    ELSE IF r.effort # {} THEN r.effort
                    ELSE UNION {BudgetToEffort(b) : b \in r.budget}, {})

ResponsesFormat(f) ==
    CASE f.nested -> [f EXCEPT !.nested = FALSE]
      [] f.type = "json_schema" /\ f.name = {} -> [f EXCEPT !.name = {"response"}]
      [] OTHER -> f

EncodeResponsesSettings(s) ==
    Given(s, Shared \cup {"max_output_tokens"})
        @@ Field("tool_choice", {EncodeToolChoice(c, FALSE) : c \in Of(s, "tool_choice")})
        @@ Field("tools", {EncodeTools(tools) : tools \in Of(s, "tools")})
        @@ Field("reasoning", {EncodeReasoningOption(r) : r \in Of(s, "reasoning")})
        @@ Field("text", {ResponsesFormat(f) : f \in Of(s, "structured_output")})

-----------------------------------------------------------------------------
\* Gemini: only read.  The members of generationConfig and toolConfig are fields here.

GeminiTool(name) == [name |-> name]
CallingConfig(mode, allowed) == [mode |-> mode, allowed |-> allowed]
GeminiThinking(budget, include) == [budget |-> budget, include |-> include]
Dynamic == -1

GeminiSettingsRead(o) ==
    /\ Of(o, "candidateCount") \subseteq {1}
    /\ ~{"responseSchema", "responseJsonSchema"} \subseteq DOMAIN o
    /\ \A t \in Of(o, "thinkingConfig") : 0 \in t.budget => TRUE \notin t.include
    /\ \A c \in Of(o, "toolConfig") :
           /\ c.mode \in {"AUTO", "NONE", "ANY"}
           /\ Cardinality(c.allowed) <= IF c.mode = "ANY" THEN 1 ELSE 0

DecodeToolConfig(c) ==
    CASE c.mode = "AUTO" -> ToolChoice("auto", <<>>)
      [] c.mode = "NONE" -> ToolChoice("none", <<>>)
      [] c.mode = "ANY" /\ c.allowed = {} -> ToolChoice("required", <<>>)
      [] OTHER -> ToolChoice("function", The(c.allowed))

DecodeThinkingConfig(t) ==
    CASE 0 \in t.budget -> ReasoningConfig({FALSE}, {}, {})
      [] Dynamic \in t.budget -> ReasoningConfig({TRUE}, {"adaptive"}, {})
      [] OTHER -> ReasoningConfig(IF TRUE \in t.include \/ t.budget # {} THEN {TRUE} ELSE {}, {}, t.budget)

DecodeGeminiSettings(o) ==
    Given(o, {"temperature"})
        @@ Field("max_output_tokens", Of(o, "maxOutputTokens"))
        @@ Field("top_p", Of(o, "topP"))
        @@ Field("top_k", Of(o, "topK"))
        @@ Field("frequency_penalty", Of(o, "frequencyPenalty"))
        @@ Field("presence_penalty", Of(o, "presencePenalty"))
        @@ Field("stop_sequences", Of(o, "stopSequences"))
        @@ Field("response_mime_type", Of(o, "responseMimeType"))
        @@ Field("tools", {Each(LAMBDA t : ToolDefinition(t.name, {}, {}), tools) : tools \in Of(o, "tools")})
        @@ Field("tool_choice", {DecodeToolConfig(c) : c \in Of(o, "toolConfig")})
        @@ Field("reasoning", {DecodeThinkingConfig(t) : t \in Of(o, "thinkingConfig")})
        @@ Field("structured_output", {Format("json_schema", FALSE, {}, {}, {}) :
                                           f \in Of(o, "responseSchema") \cup Of(o, "responseJsonSchema")})
=============================================================================
