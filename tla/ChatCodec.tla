------------------------------ MODULE ChatCodec ------------------------------
(***************************************************************************)
(* Requests and whole answers of OpenAI Chat Completions (protocols/       *)
(* openai_chat.py), in the form of MessagesCodec: Reads or Takes says what *)
(* is not rejected, Decode or Encode what the code makes of it.  A content *)
(* of a single text stands for the string form of the wire.                *)
(***************************************************************************)
EXTENDS RequestSettings

LOCAL INSTANCE SequencesExt
LOCAL INSTANCE FiniteSetsExt

\* answers is the tool_call_id of a message of the role tool.
ChatMessage(role, content) ==
    [role |-> role, content |-> content, name |-> {}, answers |-> {}, refusal |-> {},
     thought |-> {}, secret |-> {}, calls |-> <<>>]
ChatCall(call, tool, args) == [call |-> call, tool |-> tool, args |-> args]
ChatBody(messages, options) == [messages |-> messages, options |-> options]
ChatReply(model, message, finish) == [model |-> model, message |-> message, finish |-> finish]

\* The string that stands for the bytes of an image.
DataUrl(source) == <<-2>> \o source

-----------------------------------------------------------------------------
\* inspect_request: private state and thoughts in the history are not looked for

HasTypedBlock(messages, kind) ==
    \E i \in DOMAIN messages : \E k \in DOMAIN messages[i].content : messages[i].content[k].kind = kind

InspectChat(body) ==
    LET o == body.options
    IN RequestManifest(When("tools" \in DOMAIN o, "tools")
                           \cup When(HasTypedBlock(body.messages, "image"), "images")
                           \cup When(HasTypedBlock(body.messages, "file"), "files")
                           \cup When({"reasoning_effort", "thinking"} \cap DOMAIN o # {}, "reasoning")
                           \cup When(TRUE \in Of(o, "parallel_tool_calls"), "parallel_tools")
                           \cup When("response_format" \in DOMAIN o, "structured_output"),
                       {})

-----------------------------------------------------------------------------
\* _decode_request: no provider, so that private state has nowhere to belong to

DecodeChatCall(c) == CallPart(c.call, {}, DecodedName(c.tool), c.args)

IsString(content) == Len(content) = 1 /\ IsText(content[1])

DecodeChatToolMessage(m) ==
    LET projected == IsString(m.content)
        text == IF projected THEN m.content[1].text ELSE <<>>
    IN [SemanticMessage("tool",
            <<ResultPart(The(m.answers),
                         IF projected THEN <<TextPart(Unprojected(text))>> ELSE m.content,
                         SaysFailure(text))>>) EXCEPT !.name = m.name]

\* The order of the parts: content, refusal, reasoning, calls.
DecodeChatMessage(m, binding, model) ==
    LET refusal == SetToSeq({RefusalPart(t) : t \in m.refusal})
        reasoning == IF m.thought = {} /\ m.secret = {} THEN <<>>
                     ELSE <<ReasoningPart(IF m.thought = {} THEN <<>> ELSE The(m.thought),
                                          {OpaqueState("chat", binding.provider, model, binding.id, "reasoning", s) : s \in m.secret})>>
    IN IF m.role = "tool" THEN DecodeChatToolMessage(m)
       ELSE [SemanticMessage(m.role, m.content \o refusal \o reasoning \o Each(DecodeChatCall, m.calls))
                EXCEPT !.name = m.name]

ChatReads(body) ==
    /\ ChatSettingsRead(body.options)
    /\ \A i \in DOMAIN body.messages : body.messages[i].secret = {}

DecodeChatRequest(body) ==
    Request(Each(LAMBDA m : DecodeChatMessage(m, Nobody, "public"), body.messages),
            DecodeChatSettings(body.options))

-----------------------------------------------------------------------------
\* _encode_request

ChatOpaqueFits(state, binding, model) ==
    /\ binding.private
    /\ state.protocol = "chat"
    /\ state.provider = binding.provider /\ state.binding = binding.id /\ state.model = model

ChatToolFits(m) ==
    /\ Len(m.parts) = 1
    /\ LET p == m.parts[1]
       IN /\ IsResult(p) /\ p.of = "function" /\ p.item = {}
          /\ \A k \in DOMAIN p.content : IsText(p.content[k])
          /\ p.data = {} \/ p.content = <<>>

ChatPartFits(p, role, binding, model) ==
    CASE p.kind = "text" -> TRUE
      [] p.kind = "image" -> p.how \in {"base64", "inline_data", "url", None}
      [] p.kind = "refusal" -> role = "assistant"
      [] p.kind = "reasoning" -> role = "assistant" /\ \A s \in p.opaque : ChatOpaqueFits(s, binding, model)
      [] p.kind = "call" -> role = "assistant" /\ p.item = {} /\ p.of = "function" /\ p.opaque = {} /\ Encodable(p.tool)
      [] OTHER -> FALSE

\* At most one refusal and one opaque state in a message.
ChatFits(m, binding, model) ==
    IF m.role = "tool" THEN ChatToolFits(m)
    ELSE /\ \A k \in DOMAIN m.parts : ChatPartFits(m.parts[k], m.role, binding, model)
         /\ \A j, k \in DOMAIN m.parts :
                /\ m.parts[j].kind = "refusal" /\ m.parts[k].kind = "refusal" => j = k
                /\ IsReasoning(m.parts[j]) /\ IsReasoning(m.parts[k]) =>
                       j = k \/ m.parts[j].opaque = {} \/ m.parts[k].opaque = {}

ChatTakes(request, binding, model) ==
    /\ ChatSettingsTaken(request.options)
    /\ \A i \in DOMAIN request.messages : ChatFits(AsMessage(request.messages[i]), binding, model)

EncodeChatImage(p) ==
    ImagePart(None, IF p.how \in {"base64", "inline_data"} THEN DataUrl(p.source) ELSE p.source)

EncodeChatToolMessage(m) ==
    LET p == m.parts[1]
        output == IF p.data = {} THEN Texts(p.content) ELSE The(p.data)
    IN [ChatMessage("tool", <<TextPart(Projected(output, p.error))>>)
            EXCEPT !.answers = {p.call}, !.name = m.name]

\* The visible content, the calls and the reasoning each have a field of their own.
EncodeChatMessage(m) ==
    LET visible == SelectSeq(m.parts, LAMBDA p : p.kind \in {"text", "image"})
        reasoning == SelectSeq(m.parts, IsReasoning)
        calls == SelectSeq(m.parts, IsCall)
    IN IF m.role = "tool" THEN EncodeChatToolMessage(m)
       ELSE [ChatMessage(m.role, Each(LAMBDA p : IF IsText(p) THEN p ELSE EncodeChatImage(p), visible))
                EXCEPT !.name = m.name,
                       !.refusal = {p.text : p \in {q \in ToSet(m.parts) : q.kind = "refusal"}},
                       !.thought = IF reasoning = <<>> THEN {} ELSE {Texts(reasoning)},
                       !.secret = {s.blob : s \in UNION {p.opaque : p \in ToSet(reasoning)}},
                       !.calls = Each(LAMBDA p : ChatCall(p.call, EncodedName(p.tool), p.args), calls)]

EncodeChatRequest(request) ==
    ChatBody(Each(LAMBDA m : EncodeChatMessage(AsMessage(m)), request.messages),
             EncodeChatSettings(request.options))

-----------------------------------------------------------------------------
\* _decode_response and _encode_response

ChatReplyReads(reply, binding) == reply.message.secret = {} \/ binding.private

\* The ID of the private state is made from the state.
DecodeChatReply(reply, binding) ==
    Response(reply.model, <<DecodeChatMessage(reply.message, binding, reply.model)>>,
             reply.finish, StatusOf(reply.finish), {"created", "object"})

\* All output is one message, and private state is left out of it.
ChatAnswer(response) ==
    SemanticMessage("assistant",
        Each(LAMBDA p : IF IsReasoning(p) THEN [p EXCEPT !.opaque = {}] ELSE p, OutputParts(response)))

ChatTells(response) ==
    /\ Succeeded(response)
    /\ response.metadata \subseteq Portable
    /\ \A i \in DOMAIN response.output : response.output[i].name = {}
    /\ ChatFits(ChatAnswer(response), [private |-> FALSE], response.model)

EncodeChatReply(response) ==
    ChatReply(response.model, EncodeChatMessage(ChatAnswer(response)), response.reason)
=============================================================================
