--------------------------- MODULE ResponsesCodec ---------------------------
(***************************************************************************)
(* Requests and whole answers of OpenAI Responses (protocols/              *)
(* openai_responses.py), in the form of MessagesCodec: Reads or Takes says *)
(* what is not rejected, Decode or Encode what the code makes of it.  An   *)
(* output of a single text stands for the string form of the wire; calls   *)
(* and results are of the kinds function and custom.                       *)
(***************************************************************************)
EXTENDS RequestSettings

LOCAL INSTANCE SequencesExt
LOCAL INSTANCE FiniteSetsExt

\* tagged: the message has an ID or a status.  An image has a URL or an ID; a file has an ID, a
\* URL or its data; an annotated text is one with citations.
InputImage(url, id) == [kind |-> "image", url |-> url, id |-> id]
InputFile(id, url, data) == [kind |-> "file", id |-> id, url |-> url, data |-> data]
AnnotatedText(text) == [kind |-> "annotated", text |-> text]
MessageItem(role, content) ==
    [kind |-> "message", role |-> role, content |-> content, name |-> {}, tagged |-> FALSE]
CallItem(call, item, tool, args, of) ==
    [kind |-> "call", call |-> call, item |-> item, tool |-> tool, args |-> args, of |-> of]
OutputItem(call, output, of) ==
    [kind |-> "result", call |-> call, item |-> {}, output |-> output, of |-> of]
ReasoningItem(id, summary, secret) ==
    [kind |-> "reasoning", id |-> id, summary |-> summary, secret |-> secret]
ResponsesBody(instructions, items, options) ==
    [instructions |-> instructions, items |-> items, options |-> options]
ResponsesReply(model, items, status, reason) ==
    [model |-> model, items |-> items, status |-> status, reason |-> reason]

OneText(parts) == Len(parts) = 1 /\ IsText(parts[1])

-----------------------------------------------------------------------------
\* inspect_request

InspectReasoningContinuation(items) ==
    UNION {item.secret : item \in {item \in ToSet(items) : item.kind = "reasoning"}}

\* An effort "none" asks for no reasoning; that of the history counts if it is private.
InspectResponses(body) ==
    LET o == body.options
        carriers == InspectReasoningContinuation(body.items)
        held == UNION {ToSet(IF item.kind = "result" THEN item.output ELSE item.content) :
                           item \in {item \in ToSet(body.items) : item.kind \in {"message", "result"}}}
    IN RequestManifest(When("tools" \in DOMAIN o, "tools")
                           \cup When(\E b \in held : b.kind = "image", "images")
                           \cup When(\E b \in held : b.kind = "file", "files")
                           \cup When(carriers # {} \/ \E r \in Of(o, "reasoning") : r.effort # {None}, "reasoning")
                           \cup When(TRUE \in Of(o, "parallel_tool_calls"), "parallel_tools")
                           \cup When("text" \in DOMAIN o, "structured_output"),
                       carriers)

-----------------------------------------------------------------------------
\* _decode_request

DecodeCallItem(item) == [CallPart(item.call, item.item, item.tool, item.args) EXCEPT !.of = item.of]

DecodeImage(b) == IF b.url # {} THEN ImagePart("url", The(b.url)) ELSE ImagePart("file_id", The(b.id))
DecodeFile(b) ==
    CASE b.id # {} -> FilePart("file_id", The(b.id))
      [] b.url # {} -> FilePart("url", The(b.url))
      [] OTHER -> FilePart("base64", The(b.data))
DecodeData(b) == CASE b.kind = "image" -> DecodeImage(b) [] b.kind = "file" -> DecodeFile(b) [] OTHER -> b
DecodeMessageContent(content) == Each(DecodeData, content)

\* A source is given once, and citations have no place in the semantic form.
ImageReads(b) == Cardinality(b.url) + Cardinality(b.id) = 1
FileReads(b) == Cardinality(b.id) + Cardinality(b.url) + Cardinality(b.data) = 1
DataReads(b) == CASE b.kind = "image" -> ImageReads(b) [] b.kind = "file" -> FileReads(b) [] OTHER -> IsText(b)
ContentReads(b) == b.kind = "refusal" \/ DataReads(b)

\* The whole item is the state, so that it can be sent back as it came.
DecodeReasoningItemOfPublic(item, binding, model) ==
    ReasoningPart(item.summary,
                  {OpaqueState("responses", binding.provider, "public", binding.id, The(item.id), item) :
                       s \in item.secret})
DecodeReasoningItem(item, binding, model) ==
    ReasoningPart(item.summary,
                  {OpaqueState("responses", binding.provider, model, binding.id, The(item.id), item) :
                       s \in item.secret})

\* The call an output item answers: the last one before it that has its ID.
CallsBefore(items, i) ==
    LET js == {j \in 1..(i - 1) : items[j].kind = "call" /\ items[j].call = items[i].call}
    IN IF js = {} THEN {} ELSE {items[Max(js)]}

\* A result is in the namespace of its call.
DecodeOutputItem(items, i) ==
    LET text == IF OneText(items[i].output) THEN items[i].output[1].text ELSE <<>>
    IN [ResultPart(items[i].call,
                   IF OneText(items[i].output) THEN <<TextPart(Unprojected(text))>>
                   ELSE Each(DecodeData, items[i].output),
                   SaysFailure(text))
           EXCEPT !.item = items[i].item, !.of = items[i].of,
                  !.ns = UNION {Namespace(c.tool) : c \in CallsBefore(items, i)}]

DecodeItem(items, i, binding, model) ==
    LET item == items[i]
    IN CASE item.kind = "call" -> Bare(DecodeCallItem(item))
         [] item.kind = "result" -> Bare(DecodeOutputItem(items, i))
         [] item.kind = "reasoning" -> Bare(DecodeReasoningItem(item, binding, model))
         [] OTHER -> [SemanticMessage(IF item.role = "developer" THEN "system" ELSE item.role,
                                             DecodeMessageContent(item.content))
                         EXCEPT !.name = item.name, !.tagged = item.tagged]

DecodeItems(items, binding, model) == [i \in DOMAIN items |-> DecodeItem(items, i, binding, model)]

\* Reasoning needs its ID, and a result is of the kind of its call.
ItemReads(item) ==
    CASE item.kind = "message" -> \A k \in DOMAIN item.content : ContentReads(item.content[k])
      [] item.kind = "result" -> \A k \in DOMAIN item.output : DataReads(item.output[k])
      [] item.kind = "reasoning" -> item.id # {}
      [] OTHER -> TRUE

ResponsesReads(body) ==
    /\ ResponsesSettingsRead(body.options)
    /\ \A i \in DOMAIN body.items :
           /\ ItemReads(body.items[i])
           /\ body.items[i].kind = "result" => \A c \in CallsBefore(body.items, i) : c.of = body.items[i].of

DecodeResponsesRequest(body) ==
    Request((IF body.instructions = {} THEN <<>>
             ELSE <<SemanticMessage("system", <<TextPart(The(body.instructions))>>)>>)
                \o DecodeItems(body.items, Nobody, "public"),
            DecodeResponsesSettings(body.options))

-----------------------------------------------------------------------------
\* _encode_request

\* The sent item is the preserved one; its summary must still be what the request says.
ResponsesOpaqueFits(p, state, binding, model) ==
    /\ state.protocol = "responses" /\ state.model = model
    /\ binding = Nobody \/ (state.provider = binding.provider /\ state.binding = binding.id)
    /\ state.blob.summary = p.text

ContentFits(p, role) ==
    CASE p.kind = "text" -> TRUE
      [] p.kind = "refusal" -> role = "assistant"
      [] p.kind = "image" -> p.how \in {"base64", "inline_data", "url", "file_id", None}
      [] p.kind = "file" -> p.how \in {"base64", "url", "file_id", None}
      [] OTHER -> FALSE

\* Only a string can be put in the envelope that says failure.
OutputFits(p) ==
    /\ p.data = {} \/ p.content = <<>>
    /\ \A k \in DOMAIN p.content : ContentFits(p.content[k], "user")
    /\ p.error => p.data # {} \/ p.content = <<>> \/ OneText(p.content)

ResponsesPartFits(p, role, binding, model) ==
    CASE p.kind = "call" -> role = "assistant" /\ p.opaque = {}
      [] p.kind = "result" -> OutputFits(p)
      [] p.kind = "reasoning" ->
             role = "assistant" /\ \A s \in p.opaque : ResponsesOpaqueFits(p, s, binding, model)
      [] OTHER -> ContentFits(p, role)

\* Calls, results and reasoning are items of their own between the runs of content.
IsItem(p) == p.kind \in {"call", "result", "reasoning"}
ContentRuns(m) == SelectSeq(Segments(m.parts, IsItem), LAMBDA s : ~IsItem(s[1]))

\* A name, an ID or a status must stay with one message.
MetaFits(m) ==
    HasMeta(m) => Len(ContentRuns(m)) + (IF m.parts = <<>> THEN 1 ELSE 0) = 1

\* Every result is of the kind and in the namespace of its call.
LinksFit(parts) ==
    \A k \in DOMAIN parts :
        IsResult(parts[k]) =>
            LET js == {j \in 1..(k - 1) : IsCall(parts[j]) /\ parts[j].call = parts[k].call}
            IN /\ js # {} => parts[Max(js)].of = parts[k].of
               /\ parts[k].ns # {} =>
                      \/ js = {} /\ parts[k].of = "custom"
                      \/ js # {} /\ Namespace(parts[Max(js)].tool) = parts[k].ns

ResponsesTakes(request, binding, model) ==
    /\ ResponsesSettingsTaken(request.options)
    /\ PlainSystem(request.messages)
    /\ LinksFit(FlatEach(LAMBDA m : m.parts, request.messages))
    /\ \A i \in DOMAIN request.messages :
           LET m == AsMessage(request.messages[i])
           IN m.role # "system" =>
                  /\ MetaFits(m)
                  /\ \A k \in DOMAIN m.parts : ResponsesPartFits(m.parts[k], m.role, binding, model)

EncodeContent(p) ==
    LET when(condition, source) == IF condition THEN {source} ELSE {}
    IN CASE p.kind = "image" ->
                InputImage(when(p.how # "file_id",
                                IF p.how \in {"base64", "inline_data"} THEN <<-2>> \o p.source ELSE p.source),
                           when(p.how = "file_id", p.source))
         [] p.kind = "file" ->
                InputFile(when(p.how \in {"file_id", None}, p.source), when(p.how = "url", p.source),
                          when(p.how = "base64", p.source))
         [] OTHER -> p

EncodeOutput(p) ==
    CASE p.data # {} -> <<TextPart(Projected(The(p.data), p.error))>>
      [] p.data = {} /\ p.content = <<>> -> <<TextPart(Projected(<<>>, p.error))>>
      [] OTHER -> IF OneText(p.content) THEN <<TextPart(Projected(p.content[1].text, p.error))>>
                  ELSE Each(EncodeContent, p.content)

EncodeItem(p) ==
    CASE IsCall(p) -> CallItem(p.call, p.item, p.tool, p.args, p.of)
      [] IsResult(p) -> [OutputItem(p.call, EncodeOutput(p), p.of) EXCEPT !.item = p.item]
      [] OTHER -> IF p.opaque = {} THEN ReasoningItem({}, p.text, {}) ELSE The(p.opaque).blob

\* The items of a message; AsOutput adds what an answer always has, an ID and a status.
EncodeInputItem(m, AsOutput) ==
    LET message(content) == [MessageItem(m.role, Each(EncodeContent, content))
                                EXCEPT !.name = m.name, !.tagged = AsOutput \/ m.tagged]
    IN IF m.parts = <<>> THEN <<message(<<>>)>>
       ELSE Each(LAMBDA s : IF IsItem(s[1]) THEN EncodeItem(s[1]) ELSE message(s), Segments(m.parts, IsItem))

EncodeResponsesRequest(request) ==
    LET system == SystemParts(request.messages)
    IN ResponsesBody(IF system = <<>> THEN {} ELSE {Texts(system)},
                     FlatEach(LAMBDA m : EncodeInputItem(AsMessage(m), FALSE), Spoken(request.messages)),
                     EncodeResponsesSettings(request.options))

-----------------------------------------------------------------------------
\* _decode_response and _encode_response

ResponsesReplyReads(reply) == \A i \in DOMAIN reply.items : ItemReads(reply.items[i])

FinishReason(reply) ==
    CASE reply.status = "completed" ->
             IF \E i \in DOMAIN reply.items : reply.items[i].kind = "call" THEN "tool_calls" ELSE "stop"
      [] reply.status = "incomplete" -> IF reply.reason = "max_output_tokens" THEN "length" ELSE reply.reason
      [] OTHER -> None

DecodeResponsesReply(reply, binding) ==
    Response(reply.model, DecodeItems(reply.items, binding, reply.model), FinishReason(reply),
             reply.status, {"created_at", "object"})

\* Private state of another protocol has no place in an answer.
ResponsesTells(response) ==
    /\ response.metadata \subseteq Portable
    /\ \A i \in DOMAIN response.output :
           LET m == AsMessage(response.output[i])
           IN /\ m.name = {} /\ MetaFits(m)
              /\ \A k \in DOMAIN m.parts :
                     /\ m.parts[k].kind \in {"text", "refusal", "call", "reasoning"}
                     /\ ResponsesPartFits(m.parts[k], "assistant", Nobody, response.model)

EncodeResponsesReply(response) ==
    ResponsesReply(response.model,
                   FlatEach(LAMBDA m : EncodeInputItem(AsMessage(m), TRUE), response.output),
                   response.status,
                   IF response.status # "incomplete" THEN None
                   ELSE IF response.reason = "length" THEN "max_output_tokens" ELSE response.reason)
=============================================================================
