----------------------------- MODULE GeminiCodec -----------------------------
(***************************************************************************)
(* Requests and whole answers of Gemini (protocols/gemini.py), as its      *)
(* clients send and receive them: the transport policy sends a request to  *)
(* a Gemini endpoint only as it came, so that requests are decoded and     *)
(* answers encoded, never the reverse.                                     *)
(***************************************************************************)
EXTENDS RequestSettings

LOCAL INSTANCE SequencesExt
LOCAL INSTANCE FiniteSetsExt

\* The id of a functionCall or a functionResponse may be absent.
GeminiText(text) == [kind |-> "text", text |-> text]
GeminiThought(text, signature) == [kind |-> "thought", text |-> text, signature |-> signature]
FunctionCall(id, name, args, signature) ==
    [kind |-> "functionCall", id |-> id, name |-> name, args |-> args, signature |-> signature]
FunctionResponse(id, name, data) ==
    [kind |-> "functionResponse", id |-> id, name |-> name, data |-> data]
\* of is image or file, by the media type.
InlineData(of, source) == [kind |-> "inlineData", of |-> of, source |-> source]
FileData(of, source) == [kind |-> "fileData", of |-> of, source |-> source]
GeminiContent(role, parts) == [role |-> role, parts |-> parts]
GeminiBody(system, contents, options) ==
    [system |-> system, contents |-> contents, options |-> options]
GeminiReply(model, parts, finish) == [model |-> model, parts |-> parts, finish |-> finish]

\* The data of a response are an object; its one key is "error" or "result".
ErrorKey == -3
ResultKey == -4

-----------------------------------------------------------------------------
\* inspect_request

PartsOf(contents) == UNION {ToSet(c.parts) : c \in ToSet(contents)}
ThoughtSignatures(contents) ==
    UNION {p.signature : p \in {p \in PartsOf(contents) : p.kind \in {"thought", "functionCall"}}}
HasGeminiMedia(contents, of) ==
    \E p \in PartsOf(contents) : p.kind \in {"inlineData", "fileData"} /\ p.of = of

\* Parallel calls cannot be asked for.
InspectGemini(body) ==
    LET o == body.options
    IN RequestManifest(When("tools" \in DOMAIN o, "tools")
                           \cup When(HasGeminiMedia(body.contents, "image"), "images")
                           \cup When(HasGeminiMedia(body.contents, "file"), "files")
                           \cup When("thinkingConfig" \in DOMAIN o
                                      \/ \E p \in PartsOf(body.contents) : p.kind = "thought", "reasoning")
                           \cup When({"responseSchema", "responseJsonSchema"} \cap DOMAIN o # {}, "structured_output"),
                       ThoughtSignatures(body.contents))

-----------------------------------------------------------------------------
\* _decode_request

GeminiState(signature, model) ==
    Opened(signature, OpaqueState("gemini", None, model, None, "part", The(signature)))

\* The ID of a call, made from its place when the wire has none.
CallId(body, i, j) ==
    LET p == body.contents[i].parts[j] IN IF p.id = {} THEN <<"gemini-call", i, j>> ELSE The(p.id)

\* prior_calls: the calls by name; a response takes the one with its ID, or the only one left.
PriorCall(body, name, prior, place) ==
    LET p == body.contents[place[1]].parts[place[2]]
        at == SelectInSeq(prior, LAMBDA c : {c} = p.id)
    IN CASE p.kind = "functionCall" /\ p.name = name -> Append(prior, CallId(body, place[1], place[2]))
         [] p.kind = "functionResponse" /\ p.name = name /\ p.id = {} ->
                IF prior = <<>> THEN prior ELSE Front(prior)
         [] p.kind = "functionResponse" /\ p.name = name /\ at > 0 -> RemoveAt(prior, at)
         [] OTHER -> prior

PlacesBefore(body, i, j) ==
    FlattenSeq([k \in 1..i |-> [l \in 1..(IF k = i THEN j - 1 ELSE Len(body.contents[k].parts)) |-> <<k, l>>]])

Unanswered(body, i, j) ==
    FoldLeft(LAMBDA prior, place : PriorCall(body, body.contents[i].parts[j].name, prior, place),
             <<>>, PlacesBefore(body, i, j))

\* A response without an ID answers the only call of its function that waits.
DecodeFunctionResponse(body, i, j) ==
    LET p == body.contents[i].parts[j]
        call == IF p.id = {} THEN Last(Unanswered(body, i, j)) ELSE The(p.id)
    IN [ResultPart(call, <<>>, Head(p.data) = ErrorKey) EXCEPT !.data = {p.data}]

DecodeInlineData(p) ==
    IF p.of = "image" THEN ImagePart("inline_data", p.source) ELSE FilePart("inline_data", p.source)
DecodeFileData(p) ==
    IF p.of = "image" THEN ImagePart("file_uri", p.source) ELSE FilePart("file_uri", p.source)

DecodePart(body, i, j) ==
    LET p == body.contents[i].parts[j]
    IN CASE p.kind = "thought" -> ReasoningPart(p.text, GeminiState(p.signature, "public"))
         [] p.kind = "functionCall" ->
                [CallPart(CallId(body, i, j), p.id, <<p.name>>, p.args)
                    EXCEPT !.opaque = GeminiState(p.signature, "public")]
         [] p.kind = "functionResponse" -> DecodeFunctionResponse(body, i, j)
         [] p.kind = "inlineData" -> DecodeInlineData(p)
         [] p.kind = "fileData" -> DecodeFileData(p)
         [] OTHER -> TextPart(p.text)

\* A response becomes a message of its own, with the name of the function.
DecodeGeminiContent(body, i) ==
    LET content == body.contents[i]
        role == IF content.role = "model" THEN "assistant" ELSE "user"
        places == [j \in DOMAIN content.parts |-> j]
        IsResponse(j) == content.parts[j].kind = "functionResponse"
    IN IF places = <<>> THEN <<SemanticMessage(role, <<>>)>>
       ELSE Each(LAMBDA js :
                     LET parts == Each(LAMBDA j : DecodePart(body, i, j), js)
                     IN IF IsResponse(js[1])
                        THEN [SemanticMessage("tool", parts) EXCEPT !.name = {content.parts[js[1]].name}]
                        ELSE SemanticMessage(role, parts),
                 Segments(places, IsResponse))

GeminiReads(body) ==
    /\ GeminiSettingsRead(body.options)
    /\ \A i \in DOMAIN body.contents : \A j \in DOMAIN body.contents[i].parts :
           LET p == body.contents[i].parts[j]
           IN p.kind = "functionResponse" => p.id # {} \/ Len(Unanswered(body, i, j)) = 1

DecodeGeminiRequest(body) ==
    Request((IF body.system = <<>> THEN <<>> ELSE <<SemanticMessage("system", body.system)>>)
                \o FlattenSeq([i \in DOMAIN body.contents |-> DecodeGeminiContent(body, i)]),
            DecodeGeminiSettings(body.options))

-----------------------------------------------------------------------------
\* _encode_response

GeminiFinish == [stop |-> "STOP", length |-> "MAX_TOKENS", tool_calls |-> "STOP", content_filter |-> "SAFETY"]

GeminiStateFits(state, model) ==
    IF state.protocol = "gemini" THEN state.model = model ELSE Sealable(state)

GeminiTells(response) ==
    LET parts == OutputParts(response)
    IN /\ Succeeded(response)
       /\ ~response.sequence
       /\ response.metadata \subseteq Portable
       /\ response.reason \in DOMAIN GeminiFinish
       /\ \A k \in DOMAIN parts :
              /\ parts[k].kind # "refusal"
              /\ IsCall(parts[k]) => parts[k].of = "function" /\ Namespace(parts[k].tool) = {}
              /\ parts[k].kind \in {"call", "reasoning"} =>
                     \A s \in parts[k].opaque : GeminiStateFits(s, response.model)

Signature(opaque) == {IF s.protocol = "gemini" THEN s.blob ELSE Capsule(s) : s \in opaque}

EncodeGeminiPart(p) ==
    CASE IsCall(p) -> FunctionCall({p.call}, p.tool[1], p.args, Signature(p.opaque))
      [] IsReasoning(p) -> GeminiThought(p.text, Signature(p.opaque))
      [] OTHER -> GeminiText(p.text)

EncodeGeminiReply(response) ==
    GeminiReply(response.model, Each(EncodeGeminiPart, OutputParts(response)), GeminiFinish[response.reason])
=============================================================================
