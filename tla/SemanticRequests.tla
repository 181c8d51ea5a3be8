-------------------------- MODULE SemanticRequests --------------------------
(***************************************************************************)
(* The semantic form of requests and answers (protocols/models.py) that    *)
(* the codecs of the four wire protocols read and write, and the two hooks *)
(* that seal the private state of an upstream into a capsule and restore   *)
(* it (server/protocols/runtime_factory.py).                               *)
(*                                                                         *)
(* A text is a sequence of tokens, so that joining texts is concatenation. *)
(* A field that may be absent is a set of at most one value.  The name of  *)
(* a tool is a sequence too: <<namespace, name>>, or <<name>> alone.       *)
(***************************************************************************)
EXTENDS Integers, Sequences

LOCAL INSTANCE SequencesExt

CONSTANT Bindings   \* [id, provider, protocol, private, reports]: see Conversation

None == "none"
The(optional) == CHOOSE x \in optional : TRUE

Each(F(_), s) == [k \in DOMAIN s |-> F(s[k])]
FlatEach(F(_), s) == FlattenSeq(Each(F, s))

\* The elements that stand alone, and the runs of the others between them.
Segments(s, Alone(_)) ==
    FoldLeft(LAMBDA acc, x :
                 IF acc = <<>> \/ Alone(x) \/ Alone(Last(Last(acc))) THEN Append(acc, <<x>>)
                 ELSE [acc EXCEPT ![Len(acc)] = Append(@, x)],
             <<>>, s)

-----------------------------------------------------------------------------
\* The parts of a message.  how is the source kind of an image or a file: base64,
\* inline_data, url, file_id, file_uri, text, or None when the wire does not say.

TextPart(text) == [kind |-> "text", text |-> text]
RefusalPart(text) == [kind |-> "refusal", text |-> text]
ImagePart(how, source) == [kind |-> "image", how |-> how, source |-> source]
FilePart(how, source) == [kind |-> "file", how |-> how, source |-> source]
ReasoningPart(text, opaque) == [kind |-> "reasoning", text |-> text, opaque |-> opaque]

CallPart(call, item, tool, args) ==
    [kind |-> "call", call |-> call, item |-> item, tool |-> tool, args |-> args,
     of |-> "function", opaque |-> {}]

\* content and data (structured content) exclude one another; ns is the namespace.
ResultPart(call, content, error) ==
    [kind |-> "result", call |-> call, item |-> {}, of |-> "function", ns |-> {},
     content |-> content, data |-> {}, error |-> error]

IsText(p) == p.kind = "text"
IsCall(p) == p.kind = "call"
IsResult(p) == p.kind = "result"
IsReasoning(p) == p.kind = "reasoning"
Texts(parts) == FlatEach(LAMBDA p : p.text, parts)
Namespace(tool) == IF Len(tool) = 2 THEN {tool[1]} ELSE {}

\* tagged: the message has an item ID or a status of its own.
SemanticMessage(role, parts) == [role |-> role, parts |-> parts, name |-> {}, tagged |-> FALSE]

\* An item of the input or the output that no message holds.
Bare(part) == SemanticMessage("bare", <<part>>)

\* The message that a codec makes of a bare item.
AsMessage(m) ==
    IF m.role # "bare" THEN m
    ELSE [m EXCEPT !.role = CASE m.parts[1].kind = "result" -> "tool"
                              [] m.parts[1].kind \in {"text", "image", "file"} -> "user"
                              [] OTHER -> "assistant"]

HasMeta(m) == m.name # {} \/ m.tagged

\* The system messages come first, are text and carry nothing else.
SystemFirst(messages) ==
    \A i, j \in DOMAIN messages : messages[i].role = "system" /\ j < i => messages[j].role = "system"
PlainSystem(messages) ==
    \A i \in DOMAIN messages :
        messages[i].role = "system" =>
            ~HasMeta(messages[i]) /\ \A k \in DOMAIN messages[i].parts : IsText(messages[i].parts[k])
SystemParts(messages) ==
    FlatEach(LAMBDA m : IF m.role = "system" THEN m.parts ELSE <<>>, messages)
Spoken(messages) == SelectSeq(messages, LAMBDA m : m.role # "system")

Request(messages, options) == [messages |-> messages, options |-> options]

\* metadata are the names of the response metadata that are set; sequence says whether the
\* terminal names a stop sequence.
Response(model, output, reason, status, metadata) ==
    [model |-> model, output |-> output, reason |-> reason, status |-> status,
     metadata |-> metadata, sequence |-> FALSE]

Portable == {"object", "created", "created_at"}
Succeeded(response) == response.status \in {"completed", "incomplete"}
StatusOfAnyAnswer(reason) == "completed"
StatusOf(reason) == IF reason \in {"length", "content_filter"} THEN "incomplete" ELSE "completed"

\* inspect_request: what the router plans for, read without decoding.  needs are features of the
\* model; carriers are what may hold private state.
RequestManifest(needs, carriers) == [needs |-> needs, carriers |-> carriers]
When(condition, feature) == IF condition THEN {feature} ELSE {}

OutputParts(response) == FlatEach(LAMBDA m : m.parts, response.output)

-----------------------------------------------------------------------------
\* Private state of an upstream.  A secret is what it sent; a capsule holds the state whole.

\* The runtime of a client has no provider and no binding.
Nobody == [provider |-> None, id |-> None]

Secret(maker, n) == [sealed |-> FALSE, maker |-> maker, n |-> n]
Capsule(state) == [sealed |-> TRUE, state |-> state]

OpaqueState(protocol, provider, model, binding, item, blob) ==
    [protocol |-> protocol, provider |-> provider, model |-> model,
     binding |-> binding, item |-> item, blob |-> blob]

\* encode_opaque_state: whether the state is sealed, and not rejected.
Sealable(state) ==
    \E b \in Bindings : /\ b.provider = state.provider
                        /\ b.id = state.binding
                        /\ b.protocol = state.protocol

\* The secret of a wire field as opaque state: a capsule is restored with its own provenance.
Opened(secrets, own) == {IF s.sealed THEN s.state ELSE own : s \in secrets}

\* project_tool_result_output: a failed result is put in an envelope, and so is a text that
\* looks like one; unproject_tool_result_output takes one envelope off.
Failure == 0
Success == -1
InEnvelope(text) == text # <<>> /\ Head(text) \in {Failure, Success}
ProjectedUnescaped(text, error) == IF error THEN <<Failure>> \o text ELSE text
Projected(text, error) ==
    IF error THEN <<Failure>> \o text ELSE IF InEnvelope(text) THEN <<Success>> \o text ELSE text
Unprojected(text) == IF InEnvelope(text) THEN Tail(text) ELSE text
SaysFailure(text) == text # <<>> /\ Head(text) = Failure
=============================================================================
