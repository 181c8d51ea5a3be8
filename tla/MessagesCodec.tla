---------------------------- MODULE MessagesCodec ----------------------------
(***************************************************************************)
(* Requests and whole answers of Anthropic Messages (protocols/            *)
(* anthropic.py).  For every direction, Reads or Takes says what the code  *)
(* does not reject, and Decode or Encode what it makes of the rest.        *)
(* Texts, images and documents have the same form on the wire and in the   *)
(* semantic request.                                                       *)
(***************************************************************************)
EXTENDS RequestSettings

LOCAL INSTANCE SequencesExt

ToolUse(call, tool, args) == [kind |-> "tool_use", call |-> call, tool |-> tool, args |-> args]
ToolResult(call, content, error) ==
    [kind |-> "tool_result", call |-> call, content |-> content, error |-> error]
Thinking(text, signature) == [kind |-> "thinking", text |-> text, signature |-> signature]
Redacted(data) == [kind |-> "redacted_thinking", signature |-> data]
MessagesMessage(role, blocks) == [role |-> role, blocks |-> blocks]
MessagesBody(system, messages, options) ==
    [system |-> system, messages |-> messages, options |-> options]
MessagesReply(model, blocks, stop, metadata) ==
    [model |-> model, blocks |-> blocks, stop |-> stop, metadata |-> metadata]

-----------------------------------------------------------------------------
\* inspect_request: the blocks of the messages, and those inside the results of tools

\* A mutant of InspectMessageFeatures: what the results of tools hold is not looked for.
InspectTopBlocks(messages) ==
    LET visited == UNION {ToSet(m.blocks) : m \in ToSet(messages)}
        reasoning == {b \in visited : b.kind \in {"thinking", "redacted_thinking"}}
    IN RequestManifest(When(\E b \in visited : b.kind = "image", "images")
                           \cup When(\E b \in visited : b.kind = "file", "files")
                           \cup When(reasoning # {}, "reasoning"),
                       UNION {b.signature : b \in reasoning})

InspectMessageFeatures(messages) ==
    LET within(b) == {b} \cup (IF b.kind = "tool_result" THEN ToSet(b.content) ELSE {})
        visited == UNION {UNION {within(b) : b \in ToSet(m.blocks)} : m \in ToSet(messages)}
        reasoning == {b \in visited : b.kind \in {"thinking", "redacted_thinking"}}
    IN RequestManifest(When(\E b \in visited : b.kind = "image", "images")
                           \cup When(\E b \in visited : b.kind = "file", "files")
                           \cup When(reasoning # {}, "reasoning"),
                       UNION {b.signature : b \in reasoning})

\* Any thinking is asked for, be it disabled, and any output_config is a format, be it an effort.
InspectMessages(body) ==
    LET o == body.options
        seen == InspectMessageFeatures(body.messages)
    IN [seen EXCEPT !.needs = @ \cup When("tools" \in DOMAIN o, "tools")
                                \cup When("thinking" \in DOMAIN o, "reasoning")
                                \cup When(\E c \in Of(o, "tool_choice") : FALSE \in c.serial, "parallel_tools")
                                \cup When({"effort", "format"} \cap DOMAIN o # {}, "structured_output")]

-----------------------------------------------------------------------------
\* _decode_request

\* A block is its own state: the origin has no binding, so that it can never be sealed.
DecodeOpaqueBlock(b, model, provider) ==
    Opened(b.signature, OpaqueState("messages", provider, model, None, "thinking", b))

DecodeReasoningBlock(b, model, provider) ==
    ReasoningPart(IF b.kind = "thinking" THEN b.text ELSE <<>>, DecodeOpaqueBlock(b, model, provider))

DecodeToolUse(b) == CallPart(b.call, {}, b.tool, b.args)
DecodeToolResult(b) == ResultPart(b.call, b.content, b.error)

DecodeBlock(b, model, provider) ==
    CASE b.kind = "tool_use" -> DecodeToolUse(b)
      [] b.kind = "tool_result" -> DecodeToolResult(b)
      [] b.kind \in {"thinking", "redacted_thinking"} -> DecodeReasoningBlock(b, model, provider)
      [] OTHER -> b

\* Empty reasoning is dropped; every tool result becomes a message of the role tool.
DecodeMessagesMessage(m, model, provider) ==
    LET parts == SelectSeq(Each(LAMBDA b : DecodeBlock(b, model, provider), m.blocks),
                           LAMBDA p : IsReasoning(p) => p.text # <<>> \/ p.opaque # {})
    IN IF parts = <<>> THEN <<SemanticMessage(m.role, <<>>)>>
       ELSE Each(LAMBDA s : SemanticMessage(IF IsResult(s[1]) THEN "tool" ELSE m.role, s),
                 Segments(parts, IsResult))

\* Only base64 images are supported, in messages and in tool results.
ReadableImage(b) == b.kind = "image" => b.how = "base64"
ReadableBlock(b) ==
    /\ ReadableImage(b)
    /\ b.kind = "tool_result" => \A j \in DOMAIN b.content : ReadableImage(b.content[j])

MessagesReads(body) ==
    /\ MessagesSettingsRead(body.options)
    /\ \A i \in DOMAIN body.messages : \A k \in DOMAIN body.messages[i].blocks : ReadableBlock(body.messages[i].blocks[k])

DecodeMessagesRequest(body) ==
    Request((IF body.system = <<>> THEN <<>> ELSE <<SemanticMessage("system", body.system)>>)
                \o FlatEach(LAMBDA m : DecodeMessagesMessage(m, "public", None), body.messages),
            DecodeMessagesSettings(body.options))

-----------------------------------------------------------------------------
\* _encode_request

ImageFits(p) == p.how = "base64"
DocumentFits(p) == p.how \in {"base64", "url", "text", "content"}
DataFits(p) ==
    CASE p.kind = "image" -> ImageFits(p) [] p.kind = "file" -> DocumentFits(p) [] OTHER -> p.kind = "text"

\* Foreign state must be sealed; own state must go back to its model.
OpaqueFits(state, model) == IF state.protocol = "messages" THEN state.model = model ELSE Sealable(state)

CallFits(p) == p.of = "function" /\ Namespace(p.tool) = {} /\ p.opaque = {}

ResultFits(p) ==
    /\ p.of = "function" /\ p.ns = {}
    /\ \A k \in DOMAIN p.content : DataFits(p.content[k])
    /\ p.content = <<>> \/ p.data = {}

BlockFits(p, role, model) ==
    CASE p.kind = "call" -> role = "assistant" /\ CallFits(p)
      [] p.kind = "result" -> role = "user" /\ ResultFits(p)
      [] p.kind = "reasoning" -> role = "assistant" /\ \A state \in p.opaque : OpaqueFits(state, model)
      [] p.kind = "refusal" -> FALSE
      [] OTHER -> DataFits(p) /\ (p.kind \in {"image", "file"} => role = "user")

RoleOnWire(m) == IF m.role \in {"user", "tool"} THEN "user" ELSE "assistant"

MessagesTakes(request, model) ==
    /\ MessagesSettingsTaken(request.options)
    /\ SystemFirst(request.messages) /\ PlainSystem(request.messages)
    /\ \A i \in DOMAIN request.messages :
           LET m == AsMessage(request.messages[i])
           IN m.role # "system" =>
                  ~HasMeta(m) /\ \A k \in DOMAIN m.parts : BlockFits(m.parts[k], RoleOnWire(m), model)

\* Own state is the block as it came; a capsule is the signature of the text it belongs to.
EncodeReasoningBlock(p) ==
    CASE p.opaque = {} -> Thinking(p.text, {})
      [] The(p.opaque).protocol = "messages" -> The(p.opaque).blob
      [] OTHER -> IF p.text # <<>> THEN Thinking(p.text, {Capsule(The(p.opaque))})
                  ELSE Redacted({Capsule(The(p.opaque))})

EncodeToolResult(p) ==
    ToolResult(p.call, IF p.data = {} THEN p.content ELSE <<TextPart(The(p.data))>>, p.error)

EncodeToolCall(p) == ToolUse(p.call, p.tool, p.args)

EncodeBlock(p) ==
    CASE p.kind = "call" -> EncodeToolCall(p)
      [] p.kind = "result" -> EncodeToolResult(p)
      [] p.kind = "reasoning" -> EncodeReasoningBlock(p)
      [] p.kind = "refusal" -> TextPart(p.text)
      [] OTHER -> p

EncodeMessagesRequest(request) ==
    MessagesBody(SystemParts(request.messages),
                 Each(LAMBDA m : MessagesMessage(RoleOnWire(AsMessage(m)), Each(EncodeBlock, m.parts)),
                      Spoken(request.messages)),
                 EncodeMessagesSettings(request.options))

-----------------------------------------------------------------------------
\* _decode_response

StopReason ==
    [end_turn |-> "stop", stop_sequence |-> "stop", max_tokens |-> "length",
     tool_use |-> "tool_calls", refusal |-> "content_filter"]

DecodeMessagesReply(reply, provider) ==
    LET reason == StopReason[reply.stop]
        m == DecodeMessagesMessage(MessagesMessage("assistant", reply.blocks), reply.model, provider)
    IN [Response(reply.model, m, reason, StatusOf(reason), reply.metadata)
            EXCEPT !.sequence = reply.stop = "stop_sequence"]

-----------------------------------------------------------------------------
\* _encode_response

MessagesStop ==
    [stop |-> "end_turn", length |-> "max_tokens", tool_calls |-> "tool_use", content_filter |-> "refusal"]
UsageMetadata == {"cache_creation_input_tokens", "service_tier"}

\* A refusal has to be the reason the answer ended.
MessagesTells(response) ==
    LET parts == OutputParts(response)
    IN /\ Succeeded(response)
       /\ response.metadata \subseteq Portable \cup UsageMetadata
       /\ \A k \in DOMAIN parts :
              /\ parts[k].kind = "call" => CallFits(parts[k])
              /\ parts[k].kind = "reasoning" =>
                     \A state \in parts[k].opaque : OpaqueFits(state, response.model)
              /\ parts[k].kind = "refusal" => response.reason = "content_filter"
       /\ response.reason \in DOMAIN MessagesStop

EncodeMessagesReply(response) ==
    MessagesReply(response.model, Each(EncodeBlock, OutputParts(response)),
                  IF response.sequence THEN "stop_sequence" ELSE MessagesStop[response.reason],
                  response.metadata \cap UsageMetadata)
=============================================================================
