---------------------------- MODULE SettingsReaders ----------------------------
(***************************************************************************)
(* How a party of each protocol reads the settings of a request, and the   *)
(* settings that a client may give.  Nothing here is code of the program.  *)
(***************************************************************************)
EXTENDS OutboundContract

LOCAL INSTANCE SequencesExt
LOCAL INSTANCE FiniteSetsExt
LOCAL INSTANCE TLC

\* Fields that mean the same under several names; context management that keeps everything
\* asks for nothing.
Meaning ==
    [topP |-> "top_p", topK |-> "top_k", frequencyPenalty |-> "frequency_penalty",
     presencePenalty |-> "presence_penalty", stopSequences |-> "stop", stop_sequences |-> "stop",
     client_metadata |-> "metadata", prompt_cache_key |-> "metadata"]
Plainly ==
    {"temperature", "top_p", "top_k", "frequency_penalty", "presence_penalty", "stop", "user",
     "service_tier", "metadata", "context_management", "previous_response_id", "responseMimeType"}
FieldsAsked(o) ==
    LET asked == {n \in DOMAIN o : n = "context_management" => o[n] # "keep_all"}
    IN {IF n \in DOMAIN Meaning THEN Meaning[n] ELSE n : n \in asked} \cap Plainly
BoundAsked(o) ==
    UNION {Of(o, n) : n \in {"max_tokens", "max_output_tokens", "maxOutputTokens", "max_completion_tokens"}}

\* A flat name is the name it stands for.
ToolsAsked(protocol, o) ==
    FlattenSeq(SetToSeq(
        {IF protocol = "responses" THEN FlatEach(DecodeTool, tools)
         ELSE Each(LAMBDA t : ToolDefinition(t.name, IF protocol = "gemini" THEN {} ELSE t.strict, {}), tools) :
             tools \in Of(o, "tools")}))
NamesAsked(protocol, o) ==
    Each(LAMBDA t : [tool |-> DecodedName(t.tool), strict |-> t.strict], ToolsAsked(protocol, o))

\* A tool is chosen freely and calls are parallel unless the request says otherwise.
ChoiceAsked(protocol, o) ==
    LET choices == CASE protocol = "messages" -> {ToolChoice(MessagesMode[c.type], c.name) : c \in Of(o, "tool_choice")}
                     [] protocol = "gemini" -> {DecodeToolConfig(c) : c \in Of(o, "toolConfig")}
                     [] OTHER -> {ToolChoice(c.type, DecodedName(c.tool)) : c \in Of(o, "tool_choice")}
    IN IF choices = {} THEN ToolChoice("auto", <<>>) ELSE The(choices)
SerialAsked(protocol, o) ==
    IF protocol = "messages" THEN \E c \in Of(o, "tool_choice") : TRUE \in c.serial
    ELSE FALSE \in Of(o, "parallel_tool_calls")

\* Thinking is off, or is on: with an effort, with a budget, or with neither.
Thought(off, on, effort, budget) ==
    [off |-> off, on |-> ~off /\ (on \/ effort # {} \/ budget # {}), effort |-> effort, budget |-> budget]
ThoughtAsked(protocol, o) ==
    LET thinking == Of(o, "thinking")
        types == {t.type : t \in thinking}
        effort == IF protocol = "responses" THEN UNION {r.effort : r \in Of(o, "reasoning")}
                  ELSE Of(o, "effort") \cup Of(o, "reasoning_effort")
        budgets == UNION {t.budget : t \in thinking \cup Of(o, "thinkingConfig")}
        on == types # {} \/ DOMAIN o \cap {"reasoning", "thinkingConfig"} # {}
    IN Thought("disabled" \in types \/ None \in effort \/ 0 \in budgets, on,
               effort \ {None}, {b \in budgets : b > 0})

\* json_schema, json_object, or None for text.
FormatAsked(protocol, o) ==
    LET formats == UNION {Of(o, n) : n \in {"format", "response_format", "text"}}
    IN CASE {"responseSchema", "responseJsonSchema"} \cap DOMAIN o # {} -> "json_schema"
         [] formats = {} -> None
         [] OTHER -> LET type == The(formats).type IN IF type = "text" THEN None ELSE type
VerbosityAsked(o) == UNION {f.verbosity : f \in Of(o, "text")}

-----------------------------------------------------------------------------
\* What clients ask for: the usual settings, and these instead or besides.

Roomy == 8000
Narrow == 1000
Budgets == {500, 5000, 40000}
Tool == <<"tool">>
Grouped == <<"group", "tool">>

Fields(names) == {n :> "given" : n \in names}
Schema(nested, verbosity) == Format("json_schema", nested, IF nested THEN {"name"} ELSE {}, {}, verbosity)

MessagesVariants ==
    LET tools == "tools" :> <<MessagesTool(Tool, {}, None)>>
        budget(b) == "thinking" :> ThinkingConfig("enabled", {b})
    IN Fields({"temperature", "top_p", "top_k", "service_tier", "metadata", "stop_sequences"})
        \cup {<<>>, [temperature |-> "given", top_p |-> "given"], "context_management" :> "keep_all",
              "context_management" :> "clear", "tools" :> <<MessagesTool(Tool, {TRUE}, "ttl")>>,
              tools, "tools" :> <<MessagesTool(Tool, {TRUE}, "hint")>>}
        \cup {tools @@ "tool_choice" :> MessagesChoice(type, IF type = "tool" THEN Tool ELSE <<>>, serial) :
                  type \in DOMAIN MessagesMode, serial \in {{}, {TRUE}}}
        \cup {budget(b) : b \in Budgets} \cup {budget(b) @@ "max_tokens" :> Narrow : b \in Budgets}
        \cup {"thinking" :> ThinkingConfig(type, {}) : type \in {"enabled", "adaptive", "disabled"}}
        \cup {"effort" :> e : e \in Efforts}
        \cup {"effort" :> "high" @@ "thinking" :> ThinkingConfig(type, {}) : type \in {"adaptive", "disabled"}}
        \cup {"effort" :> "low" @@ budget(5000), "format" :> Schema(FALSE, {})}

ChatVariants ==
    LET tools(strict) == "tools" :> <<ChatTool(Tool, strict)>>
    IN Fields({"temperature", "top_p", "frequency_penalty", "presence_penalty", "user", "service_tier",
               "metadata", "stop"})
        \cup {<<>>, tools({}), tools({TRUE})}
        \cup {tools({}) @@ "tool_choice" :> OpenAIChoice(type, IF type = "function" THEN Tool ELSE <<>>) :
                  type \in {"auto", "none", "required", "function", "allowed_tools"}}
        \cup {"tools" :> <<[ChatTool(Tool, {}) EXCEPT !.type = "custom"]>>}
        \cup {"stream_options" :> option : option \in {"include_usage", "include_obfuscation"}}
        \cup {tools({}) @@ "parallel_tool_calls" :> p : p \in BOOLEAN}
        \cup {"reasoning_effort" :> e : e \in Efforts \cup {None}}
        \cup {"thinking" :> ThinkingConfig("enabled", {b}) : b \in Budgets}
        \cup {"thinking" :> ThinkingConfig(type, {}) : type \in {"enabled", "disabled"}}
        \cup {"response_format" :> Schema(TRUE, {}), "response_format" :> Format("json_object", FALSE, {}, {}, {})}

ResponsesVariants ==
    LET function == FunctionTool(Tool, {TRUE})
        group == NamespaceTool(<<"group">>, {}, <<FunctionTool(Tool, {})>>)
        deferred == [group EXCEPT !.members[1].defer = TRUE]
        long == [group EXCEPT !.members[1].name = <<"long">>]
        search == [FunctionTool(<<"search">>, {}) EXCEPT !.type = "web_search"]
    IN Fields({"temperature", "top_p", "service_tier", "client_metadata", "prompt_cache_key",
               "previous_response_id"})
        \cup {<<>>, "metadata" :> {"key"}, "store" :> TRUE, "store" :> FALSE,
              "include" :> "reasoning.encrypted_content", "include" :> "other"}
        \cup {"tools" :> <<t>> : t \in {function, group, deferred, long, search}}
        \cup {"tools" :> <<function, group>>, "tools" :> <<group, search>>}
        \cup {"tools" :> <<group>> @@ "tool_choice" :> OpenAIChoice("function", Grouped)}
        \cup {"tools" :> <<function>> @@ "tool_choice" :> OpenAIChoice("required", <<>>),
              "tools" :> <<function>> @@ "parallel_tool_calls" :> FALSE}
        \cup {"reasoning" :> ReasoningOption({e}, {}) : e \in Efforts \cup {None}}
        \cup {"reasoning" :> ReasoningOption({}, {"detailed"}), "reasoning" :> ReasoningOption({"low"}, {"detailed"})}
        \cup {"text" :> Schema(FALSE, {}), "text" :> [Schema(FALSE, {"low"}) EXCEPT !.name = {"name"}, !.strict = {TRUE}],
              "text" :> Format("text", FALSE, {}, {}, {}), "text" :> Format("json_object", FALSE, {}, {}, {}),
              "text" :> Format(None, FALSE, {}, {}, {"low"})}

GeminiVariants ==
    LET tools == "tools" :> <<GeminiTool(Tool)>>
    IN Fields({"temperature", "topP", "topK", "frequencyPenalty", "presencePenalty", "stopSequences",
               "responseMimeType", "responseSchema"})
        \cup {<<>>, tools, "candidateCount" :> 1, "candidateCount" :> 2,
              [responseSchema |-> "given", responseJsonSchema |-> "given"]}
        \cup {tools @@ "toolConfig" :> CallingConfig(mode, allowed) :
                  mode \in {"AUTO", "NONE", "ANY", "VALIDATED"}, allowed \in {{}, {Tool}, {Tool, <<"other">>}}}
        \cup {"thinkingConfig" :> GeminiThinking(budget, include) :
                  budget \in {{}, {0}, {Dynamic}} \cup {{b} : b \in Budgets}, include \in {{}, {TRUE}}}

\* The settings of a long conversation: only Messages requires a bound of the answer.
Bound(protocol) == (IF protocol = "gemini" THEN "maxOutputTokens"
                    ELSE IF protocol = "responses" THEN "max_output_tokens" ELSE "max_tokens") :> Roomy
UsualSettings(protocol) == IF protocol = "messages" THEN Bound(protocol) ELSE <<>>
Settings(protocol) ==
    LET variants == CASE protocol = "messages" -> MessagesVariants [] protocol = "chat" -> ChatVariants
                      [] protocol = "responses" -> ResponsesVariants [] protocol = "gemini" -> GeminiVariants
    IN {v @@ Bound(protocol) : v \in variants} \cup {<<>>}
=============================================================================
