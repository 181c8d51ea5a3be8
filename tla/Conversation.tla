---------------------------- MODULE Conversation ----------------------------
(***************************************************************************)
(* A conversation of one client, in its own protocol, with upstreams of    *)
(* others.  The client keeps the history in the form it was told; every    *)
(* request holds all of it, is sent as it came to a binding of the same    *)
(* protocol, or is decoded and encoded for another (server/dispatcher.py,  *)
(* server/response_bridge.py), and prepared by the dialect of its          *)
(* provider.  The answers are whole; StreamConversion is about those that  *)
(* come in pieces, of which only the token counts are here.                *)
(*                                                                         *)
(* Private state of an upstream comes to the client raw, when the answer   *)
(* is passed on as it came, or sealed in a capsule that says which         *)
(* binding it belongs to.                                                  *)
(***************************************************************************)
EXTENDS ConversationReaders, SettingsReaders, TokenUsage

LOCAL INSTANCE SequencesExt

CONSTANTS
    Clients,     \* the protocols of clients
    Models,      \* what is known of the model at Copilot
    UsualModel,  \* bound: the model of the conversations that are more than one question
    Costs,       \* bound: the costs that endpoints of each protocol may report
    MaxTurns     \* bound: questions of the client

Upstream == "m"          \* the upstream_id of the model at every binding

\* binding.reports is the name of the model in the answers of the binding.
ASSUME BindingsAssumption ==
    \A b \in Bindings : /\ b.protocol \in {"messages", "chat", "responses"}
                        /\ b.private => b.protocol = "chat"
ASSUME ClientsAssumption ==
    Clients \subseteq {"messages", "chat", "responses", "gemini"} /\ MaxTurns \in Nat
ASSUME ModelsAssumption == UsualModel \in Models /\ \A m \in Models : m.family \in Families

VARIABLES
    client,      \* the protocol of the client
    model,       \* the model it asks
    body,        \* its history, with the question it asks
    turn,        \* how many questions it has asked
    phase,       \* asking, asked, sent, told or over
    binding,     \* the binding of the last attempt
    payload,     \* what was sent to it
    reply,       \* what it answered
    told,        \* what the client was told
    cost         \* whether the answer is streamed, the counts it came with, the bill of Copilot
                 \* beside them, and the counts the client was told

vars == <<client, model, body, turn, phase, binding, payload, reply, told, cost>>

Nothing == [none |-> TRUE]

-----------------------------------------------------------------------------
\* What the client says, in its protocol.

Word == 10 * turn + 1         \* tokens of this turn
Orders == <<Word + 3>>

Images ==
    [messages |-> {ImagePart("base64", <<Word>>)},
     chat |-> {ImagePart(None, DataUrl(<<Word>>)), ImagePart(None, <<Word>>)},
     responses |-> {InputImage({DataUrl(<<Word>>)}, {}), InputImage({<<Word>>}, {}), InputImage({}, {<<Word>>}),
                   InputImage({<<Word>>}, {<<Word>>})},
     gemini |-> {InlineData("image", <<Word>>), FileData("image", <<Word>>)}]
Files ==
    [messages |-> {FilePart("base64", <<Word>>), FilePart("url", <<Word>>)},
     chat |-> {},
     responses |-> {InputFile({}, {}, {<<Word>>}), InputFile({<<Word>>}, {}, {}), InputFile({}, {<<Word>>}, {})},
     gemini |-> {InlineData("file", <<Word>>)}]

Content == {<<TextPart(<<Word>>)>>} \cup {<<TextPart(<<Word>>), data>> : data \in Images[client] \cup Files[client]}

EmptyBody(options) ==
    CASE client = "messages" -> MessagesBody(<<>>, <<>>, options)
      [] client = "chat" -> ChatBody(<<>>, options)
      [] client = "responses" -> ResponsesBody({}, <<>>, options)
      [] client = "gemini" -> GeminiBody(<<>>, <<>>, options)

\* Standing orders at the start; all but a Gemini client may give others later.
Ordered(b, text) ==
    CASE client = "messages" ->
             IF b.messages = <<>> THEN [b EXCEPT !.system = <<TextPart(text)>>]
             ELSE [b EXCEPT !.messages = Append(@, MessagesMessage("system", <<TextPart(text)>>))]
      [] client = "chat" -> [b EXCEPT !.messages = Append(@, ChatMessage("system", <<TextPart(text)>>))]
      [] client = "responses" ->
             IF b.items = <<>> THEN [b EXCEPT !.instructions = {text}]
             ELSE [b EXCEPT !.items = Append(@, MessageItem("developer", <<TextPart(text)>>))]
      [] client = "gemini" -> [b EXCEPT !.system = <<TextPart(text)>>]

Asked(b, content) ==
    CASE client = "messages" -> [b EXCEPT !.messages = Append(@, MessagesMessage("user", content))]
      [] client = "chat" -> [b EXCEPT !.messages = Append(@, ChatMessage("user", content))]
      [] client = "responses" -> [b EXCEPT !.items = Append(@, MessageItem("user", content))]
      [] client = "gemini" ->
             [b EXCEPT !.contents = Append(@, GeminiContent("user",
                                        Each(LAMBDA p : IF p.kind = "text" THEN GeminiText(p.text) ELSE p, content)))]

\* The answer as the client keeps it; ids says whether a Gemini client keeps the IDs of calls,
\* and a Responses client those of reasoning.
Kept(b, answer, ids) ==
    CASE client = "messages" -> [b EXCEPT !.messages = Append(@, MessagesMessage("assistant", answer.blocks))]
      [] client = "chat" -> [b EXCEPT !.messages = Append(@, answer.message)]
      [] client = "responses" -> [b EXCEPT !.items = @ \o
                 Each(LAMBDA i : IF i.kind = "reasoning" /\ ~ids THEN [i EXCEPT !.id = {}] ELSE i, answer.items)]
      [] client = "gemini" ->
             [b EXCEPT !.contents = Append(@, GeminiContent("model",
                 Each(LAMBDA p : IF p.kind = "functionCall" /\ ~ids THEN [p EXCEPT !.id = {}] ELSE p,
                      answer.parts)))]

\* What a tool gives: text, nothing, a failure, an image, or text that looks like an envelope.
Outputs ==
    [messages |-> {"text", "nothing", "failure", "image", "envelope"},
     chat |-> {"text", "nothing"},
     responses |-> {"text", "nothing", "image"},
     gemini |-> {"text", "failure"}]

OutputText(output) ==
    CASE output = "nothing" -> <<>>
      [] output = "envelope" -> <<Failure, Word>>
      [] OTHER -> <<Word>>

Output(output) ==
    IF output = "image" THEN <<CHOOSE image \in Images[client] : client = "responses" => ImageReads(image)>> ELSE <<TextPart(OutputText(output))>>

Result(call, output, ids) ==
    CASE client = "messages" -> ToolResult(call.call, Output(output), output = "failure")
      [] client = "chat" -> [ChatMessage("tool", Output(output)) EXCEPT !.answers = {call.call}]
      [] client = "responses" -> OutputItem(call.call, Output(output), call.of)
      [] client = "gemini" ->
             FunctionResponse(IF ids THEN call.id ELSE {}, call.name,
                              <<IF output = "failure" THEN ErrorKey ELSE ResultKey>> \o OutputText(output))

ToldCalls ==
    CASE client = "messages" -> SelectSeq(told.blocks, LAMBDA b : b.kind = "tool_use")
      [] client = "chat" -> told.message.calls
      [] client = "responses" -> SelectSeq(told.items, IsCall)
      [] client = "gemini" -> SelectSeq(told.parts, LAMBDA p : p.kind = "functionCall")

Answered(b, results) ==
    CASE client = "messages" -> [b EXCEPT !.messages = Append(@, MessagesMessage("user", results))]
      [] client = "chat" -> [b EXCEPT !.messages = @ \o results]
      [] client = "responses" -> [b EXCEPT !.items = @ \o results]
      [] client = "gemini" -> [b EXCEPT !.contents = Append(@, GeminiContent("user", results))]

-----------------------------------------------------------------------------
\* What an upstream answers, in its protocol.

ThoughtOf == Word + 1
Said == Word + 2
AskedCall(n) == <<"call", 10 * turn + n>>
Own(b) == Secret(b.id, turn)

Answers ==
    [messages |-> {"words", "sealed", "silent", "calls", "refusal", "cut", "stopped"},
     chat |-> {"words", "thought", "sealed", "silent", "calls", "refusal", "cut"},
     responses |-> {"words", "thought", "sealed", "silent", "calls", "custom", "cited", "refusal", "cut", "failed",
                   "unfinished"}]

\* The first tool that it was given, by the name it was given.
ToolAtHand ==
    IF Of(payload.options, "tools") = {} THEN Tool
    ELSE LET t == Head(payload.options.tools)
         IN IF binding.protocol = "responses" /\ t.type = "namespace" THEN t.name \o t.members[1].name ELSE t.name

MessagesAnswer(b, answer) ==
    LET text == TextPart(<<Said>>)
        call(n) == ToolUse(AskedCall(n), ToolAtHand, n)
    IN MessagesReply(b.reports,
        CASE answer = "sealed" -> <<Thinking(<<ThoughtOf>>, {Own(b)}), text>>
          [] answer = "silent" -> <<Redacted({Own(b)}), call(1)>>
          [] answer = "calls" -> <<text, call(1), call(2)>>
          [] OTHER -> <<text>>,
        CASE answer \in {"silent", "calls"} -> "tool_use"
          [] answer = "refusal" -> "refusal"
          [] answer = "cut" -> "max_tokens"
          [] answer = "stopped" -> "stop_sequence"
          [] OTHER -> "end_turn",
        {})

\* Only some endpoints have private state.
ChatAnswered(b, answer) ==
    LET m == ChatMessage("assistant", IF answer \in {"silent", "refusal"} THEN <<>> ELSE <<TextPart(<<Said>>)>>)
        call(n) == ChatCall(AskedCall(n), ToolAtHand, n)
    IN ChatReply(b.reports,
        [m EXCEPT !.refusal = IF answer = "refusal" THEN {<<Said>>} ELSE {},
                  !.thought = IF answer \in {"thought", "sealed"} THEN {<<ThoughtOf>>} ELSE {},
                  !.secret = IF answer \in {"sealed", "silent"} /\ b.private THEN {Own(b)} ELSE {},
                  !.calls = CASE answer = "silent" -> <<call(1)>>
                              [] answer = "calls" -> <<call(1), call(2)>>
                              [] OTHER -> <<>>],
        CASE answer \in {"silent", "calls"} -> "tool_calls"
          [] answer = "cut" -> "length"
          [] OTHER -> "stop")

ResponsesAnswer(b, answer) ==
    LET id == <<"item", turn>>
        message(part) == [MessageItem("assistant", <<part>>) EXCEPT !.tagged = TRUE]
        text == message(TextPart(<<Said>>))
        call(n, of) == CallItem(AskedCall(n), {id}, ToolAtHand, n, of)
    IN ResponsesReply(b.reports,
        CASE answer = "thought" -> <<ReasoningItem({id}, <<ThoughtOf>>, {}), text>>
          [] answer = "sealed" -> <<ReasoningItem({id}, <<ThoughtOf>>, {Own(b)}), text>>
          [] answer = "silent" -> <<ReasoningItem({id}, <<>>, {Own(b)}), call(1, "function")>>
          [] answer = "calls" -> <<text, call(1, "function"), call(2, "function")>>
          [] answer = "custom" -> <<call(1, "custom")>>
          [] answer = "cited" -> <<message(AnnotatedText(<<Said>>))>>
          [] answer = "refusal" -> <<message(RefusalPart(<<Said>>))>>
          [] OTHER -> <<text>>,
        CASE answer = "cut" -> "incomplete"
          [] answer = "failed" -> "failed"
          [] answer = "unfinished" -> "queued"
          [] OTHER -> "completed",
        IF answer = "cut" THEN "max_output_tokens" ELSE None)

\* The counts of an answer come at once, or in a stream perhaps in several updates.
Cost(streamed, updates, bill) == [streamed |-> streamed, updates |-> updates, bill |-> bill, told |-> <<>>]
UsualCost(protocol) ==
    Cost(FALSE, <<WireUsage(Usage({30}, {40}, IF protocol = "messages" THEN {} ELSE {70}, {}, {}))>>, {})

UpstreamAnswer(b, answer) ==
    CASE b.protocol = "messages" -> MessagesAnswer(b, answer)
      [] b.protocol = "chat" -> ChatAnswered(b, answer)
      [] b.protocol = "responses" -> ResponsesAnswer(b, answer)

-----------------------------------------------------------------------------
\* GenerationDispatcher: which binding a request may be sent to, and in what form.

Manifest ==
    CASE client = "messages" -> InspectMessages(body)
      [] client = "chat" -> InspectChat(body)
      [] client = "responses" -> InspectResponses(body)
      [] client = "gemini" -> InspectGemini(body)

Carriers == Manifest.carriers
Capsules == {s \in Carriers : s.sealed}

\* _capsule_affinity and _transport_is_eligible
Affine(b, capsule) ==
    /\ capsule.state.provider = b.provider
    /\ capsule.state.model = Upstream
    /\ capsule.state.binding = b.id
EligibleAnywhere(b) == Carriers # {} /\ Capsules = {} => b.protocol # "chat"
Eligible(b) ==
    /\ \A s \in Capsules : Affine(b, s)
    /\ Carriers # {} /\ Capsules = {} => b.protocol # "chat"

Readable ==
    CASE client = "messages" -> MessagesReads(body)
      [] client = "chat" -> ChatReads(body)
      [] client = "responses" -> ResponsesReads(body)
      [] client = "gemini" -> GeminiReads(body)

Semantic ==
    CASE client = "messages" -> DecodeMessagesRequest(body)
      [] client = "chat" -> DecodeChatRequest(body)
      [] client = "responses" -> DecodeResponsesRequest(body)
      [] client = "gemini" -> DecodeGeminiRequest(body)

Identity(b) == b.protocol = client

Representable(b) ==
    CASE b.protocol = "messages" -> MessagesTakes(Semantic, Upstream)
      [] b.protocol = "chat" -> ChatTakes(Semantic, b, Upstream)
      [] b.protocol = "responses" -> ResponsesTakes(Semantic, b, Upstream)

\* _payload
Encoded(b) ==
    CASE Identity(b) -> body
      [] b.protocol = "messages" -> EncodeMessagesRequest(Semantic)
      [] b.protocol = "chat" -> EncodeChatRequest(Semantic)
      [] b.protocol = "responses" -> EncodeResponsesRequest(Semantic)

Payload(b) == Prepared(b, Encoded(b), model, ~Identity(b))

Sendable(b) ==
    /\ Eligible(b)
    /\ Identity(b) \/ (Readable /\ Representable(b))
    /\ Preparable(b, Encoded(b), model)

\* _validate_raw_response: an answer that is passed on must have ended, too.
AnyStands(b, r) == TRUE
Stands(b, r) == b.protocol = "responses" => r.status \in {"completed", "incomplete", "failed", "cancelled"}

\* _validated_response, then GenerationResponseBridge.encode_result
Understood(b, r) ==
    CASE b.protocol = "chat" -> ChatReplyReads(r, b)
      [] b.protocol = "responses" -> ResponsesReplyReads(r)
      [] OTHER -> TRUE

Understanding(b, r) ==
    [CASE b.protocol = "messages" -> DecodeMessagesReply(r, b.provider)
       [] b.protocol = "chat" -> DecodeChatReply(r, b)
       [] b.protocol = "responses" -> DecodeResponsesReply(r, b)
     EXCEPT !.model = "public"]

\* Tokens written to the cache are metadata of a whole Messages answer.
CreatedOf(paid) == IF paid.streamed THEN {} ELSE UNION {paid.updates[i].created : i \in DOMAIN paid.updates}
WithMetadata(answer, protocol, paid) ==
    IF protocol = "messages" /\ CreatedOf(paid) # {}
    THEN [answer EXCEPT !.metadata = {"cache_creation_input_tokens"}]
    ELSE answer

Tellable(r) ==
    CASE client = "messages" -> MessagesTells(r)
      [] client = "chat" -> ChatTells(r)
      [] client = "responses" -> ResponsesTells(r)
      [] client = "gemini" -> GeminiTells(r)

Told(r) ==
    CASE client = "messages" -> EncodeMessagesReply(r)
      [] client = "chat" -> EncodeChatReply(r)
      [] client = "responses" -> EncodeResponsesReply(r)
      [] client = "gemini" -> EncodeGeminiReply(r)

-----------------------------------------------------------------------------
\* Bound: settings and models are tried with a plain question, and a conversation goes on
\* with the usual ones, and with tools.
Usual == body.options = UsualSettings(client) /\ model = UsualModel
Varied == ~Usual
Tooled == "tools" \in DOMAIN body.options /\ model.family \in {UsualModel.family, "grok"}

Init ==
    /\ client \in Clients
    /\ model \in Models
    /\ body = Nothing /\ turn = 0 /\ phase = "asking"
    /\ binding = Nobody /\ payload = Nothing /\ reply = Nothing /\ told = Nothing /\ cost = Nothing

\* The first question, with or without standing orders.
Open(orders, content, options) ==
    LET empty == EmptyBody(options)
    IN /\ phase = "asking"
       /\ model # UsualModel \/ options # UsualSettings(client) => ~orders /\ Len(content) = 1
       /\ turn' = 1
       /\ body' = Asked(IF orders THEN Ordered(empty, Orders) ELSE empty, content)
       /\ phase' = "asked"
       /\ UNCHANGED <<client, model, binding, payload, reply, told, cost>>

Send(b) ==
    /\ phase = "asked"
    /\ Sendable(b)
    /\ binding' = b
    /\ payload' = Payload(b)
    /\ phase' = "sent"
    /\ UNCHANGED <<client, model, body, turn, reply, told, cost>>

\* No binding can be sent the request.
Refuse ==
    /\ phase = "asked"
    /\ ~\E b \in Bindings : Sendable(b)
    /\ phase' = "over"
    /\ UNCHANGED <<client, model, body, turn, binding, payload, reply, told, cost>>

\* Bound: costs are tried with a plain question, answered in words, and end the conversation.
PlainQuestion == turn = 1 /\ ~Varied /\ Len(Atoms(client, body)) = 1

AnswerComes(answer, paid) ==
    LET raw == WithMetadata(UpstreamAnswer(binding, answer), binding.protocol, paid)
        r == ProjectResponse(binding, raw, model, Upstream, ~Identity(binding))
        updates == ProjectUsage(binding, paid.updates, paid.bill)
        usage == DecodeUpdates(binding.protocol, updates)
        converted == /\ Understood(binding, r) /\ UsageReads(binding.protocol, paid.streamed, updates)
                     /\ Tellable(Understanding(binding, r)) /\ UsageTells(client, paid.streamed, usage)
    IN /\ phase = "sent"
       /\ Varied => answer \in {"words", "calls"}
       /\ reply' = raw
       /\ told' = CASE ~Stands(binding, r) -> Nothing
                    [] Stands(binding, r) /\ Identity(binding) -> r
                    [] Stands(binding, r) /\ ~Identity(binding) /\ converted -> Told(Understanding(binding, r))
                    [] OTHER -> Nothing
       /\ cost' = [paid EXCEPT !.told = CASE Identity(binding) -> updates
                                          [] ~Identity(binding) /\ converted ->
                                                 EncodeUsage(client, paid.streamed, usage, CreatedOf(paid))
                                          [] OTHER -> <<>>]
       /\ phase' = IF told' = Nothing THEN "over" ELSE "told"
       /\ UNCHANGED <<client, model, body, turn, binding, payload>>

\* The next question: new orders and words, or what the tools gave.
Continue(orders, ids, output) ==
    LET kept == Kept(body, told, ids)
    IN /\ phase = "told"
       /\ turn < MaxTurns
       /\ [cost EXCEPT !.told = <<>>] = UsualCost(binding.protocol)
       /\ orders => client # "gemini"
       /\ Varied => Tooled /\ ToldCalls # <<>> /\ output = "text" /\ ~orders
       /\ turn' = turn + 1
       /\ body' = IF ToldCalls # <<>> THEN Answered(kept, Each(LAMBDA c : Result(c, output, ids), ToldCalls))
                  ELSE Asked(IF orders THEN Ordered(kept, Orders) ELSE kept, <<TextPart(<<Word>>)>>)
       /\ phase' = "asked"
       /\ UNCHANGED <<client, model, binding, payload, reply, told, cost>>

Next ==
    \/ \E orders \in BOOLEAN, content \in Content, options \in Settings(client) : Open(orders, content, options)
    \/ \E b \in Bindings : Send(b)
    \/ Refuse
    \/ phase = "sent" /\ \E answer \in Answers[binding.protocol] : AnswerComes(answer, UsualCost(binding.protocol))
    \/ /\ phase = "sent" /\ PlainQuestion
       /\ \E paid \in Costs[binding.protocol] :
              (paid.bill # {} => binding.provider = "copilot") /\ AnswerComes("words", paid)
    \/ \E orders, ids \in BOOLEAN, output \in Outputs[client] : Continue(orders, ids, output)

Spec == Init /\ [][Next]_vars

-----------------------------------------------------------------------------
\* An upstream of another protocol reads the conversation the client has: the same
\* orders, and the same words, pictures, thoughts and refusals in the same turns, every call
\* with its arguments, every result with its call and its failure.  (What the code cannot say
\* it must reject.)  Orders are compared among themselves: where they stand between the turns
\* is not, as they move to the instructions of Responses.
UpstreamReadsTheConversation ==
    phase = "sent" => Reading(binding.protocol, payload) = Reading(client, body)

-----------------------------------------------------------------------------
\* What the client asks for besides the conversation, and what the endpoint is asked for.

Sent == payload.options
Asks == body.options
SentThought == ThoughtAsked(binding.protocol, Sent)
AskedThought == ThoughtAsked(client, Asks)

\* The rank of the effort that is asked for, or that a budget amounts to, which Messages
\* takes as it is.
WishedRank ==
    IF AskedThought.effort # {} THEN Rank(The(AskedThought.effort))
    ELSE Max({0} \cup {Rank(e) : e \in UNION {BudgetToEffort(b) : b \in AskedThought.budget}})
EffortWished == AskedThought.effort # {} \/ (AskedThought.budget # {} /\ binding.protocol # "messages")

\* A tier that the catalog lists, none of which is nearer: the best that is not above the
\* wish, or the least.
Tiers == UNION model.catalog \cap Efforts
NearestTier(e) ==
    /\ e \in Tiers
    /\ \A t \in Tiers : Rank(t) <= WishedRank => Rank(e) <= WishedRank /\ Rank(t) <= Rank(e)
    /\ Rank(e) > WishedRank => \A t \in Tiers : Rank(e) <= Rank(t)

\* Copilot is sent the nearest effort in its catalog; while it has none, the one wished, but
\* not all that is above high.  The others are sent what was asked for, or the effort of it.
EffortIsHeld ==
    LET sent == SentThought.effort
    IN CASE binding.provider = "copilot" /\ Warm(model) ->
                /\ \A e \in sent : EffortWished /\ NearestTier(e)
                /\ EffortWished /\ Tiers # {} => sent # {}
         [] binding.provider = "copilot" /\ ~Warm(model) ->
                /\ \A e \in sent :
                       /\ EffortWished
                       /\ \/ Rank(e) = WishedRank
                          \/ WishedRank = 0 /\ e = "low"
                          \/ WishedRank > Rank("high") /\ e \in {"high", "xhigh"}
                /\ EffortWished /\ KnownReasoningSupport(model) # {FALSE} => sent # {}
         [] OTHER ->
                \/ sent = AskedThought.effort /\ SentThought.budget = AskedThought.budget
                \/ EffortWished /\ \E e \in sent : Rank(e) \in {WishedRank, Max({WishedRank, Rank("low")})}

\* A budget of Messages leaves room for the answer, and is the one asked for if that does.
BudgetIsHeld ==
    LET fits(b) == LowestBudget <= b /\ b <= EffortToBudget.max /\ \A bound \in BoundAsked(Sent) \cup {model.limit} : b < bound
    IN binding.protocol = "messages" /\ ~WithoutReasoning(model) =>
           /\ \A b \in SentThought.budget : fits(b)
           /\ \A b \in AskedThought.budget : fits(b) => SentThought.budget = {b}

\* A Messages endpoint is not told the namespaces of tools.
KnownAs(tool) == IF binding.protocol = "messages" /\ tool # <<>> THEN Plain(tool) ELSE tool

\* Copilot is not told that a model shall not think, but by an effort "none" of Responses that
\* the catalog lists.
OffIsLost ==
    /\ binding.provider = "copilot"
    /\ binding.protocol = "chat" \/ (binding.protocol = "responses" /\ None \notin UNION model.catalog)

\* A budget that Gemini leaves to the model is sent as an effort "adaptive", which is none.
BudgetIsFree == client = "gemini" /\ \E t \in Of(Asks, "thinkingConfig") : Dynamic \in t.budget

ThoughtIsHeld ==
    IF AskedThought.off
    THEN \/ SentThought.off
         \/ (binding.protocol = "messages" \/ OffIsLost) /\ (SentThought.on => AskedThought.effort # {})
    ELSE (EffortIsHeld \/ BudgetIsFree) /\ BudgetIsHeld /\ ~SentThought.off /\ (SentThought.on => AskedThought.on)

\* The endpoint is asked for what the client asks for, whatever other protocol it has and
\* whatever dialect: the same bound and sampling; the same tools with the same choice among
\* them; thinking that is off, or on, with the effort that the model has nearest to the one
\* wished or a budget that leaves room for the answer; an answer of the same form.  What
\* cannot be asked for must be rejected, but for the gaps named above and the verbosity of
\* an answer that has a form, which only Responses knows.
UpstreamIsAskedTheSame ==
    phase = "sent" =>
        /\ FieldsAsked(Sent) = FieldsAsked(Asks)
        /\ BoundAsked(Sent) = BoundAsked(Asks)
        /\ NamesAsked(binding.protocol, Sent) = Each(LAMBDA t : [t EXCEPT !.tool = KnownAs(@)], NamesAsked(client, Asks))
        /\ ChoiceAsked(binding.protocol, Sent) = [ChoiceAsked(client, Asks) EXCEPT !.tool = KnownAs(@)]
        /\ SerialAsked(binding.protocol, Sent) = SerialAsked(client, Asks)
        /\ ThoughtIsHeld
        /\ FormatAsked(binding.protocol, Sent) = FormatAsked(client, Asks)
        /\ \/ VerbosityAsked(Sent) = VerbosityAsked(Asks)
           \/ binding.protocol # "responses" /\ FormatAsked(client, Asks) # None

\* The router plans for what the request has, which it reads without decoding: pictures and files
\* wherever they are, tools, thinking that is asked for, a format, and every piece of private
\* state.  An effort of Messages is not known to be thinking but taken for a format; and what
\* else it plans for without need is thinking that is off or past, and a verbosity.
AtomsOf(what) ==
    {a \in ToSet(Atoms(client, body)) :
        a.what = what \/ (a.what = "result" /\ \E k \in DOMAIN a.v[3] : a.v[3][k].what = what)}
EffortOnly == client = "messages" /\ "thinking" \notin DOMAIN Asks
RouterSeesTheRequest ==
    LET needs == Manifest.needs
    IN phase \in {"asked", "sent"} =>
        /\ "images" \in needs <=> AtomsOf("image") # {}
        /\ "files" \in needs <=> AtomsOf("file") # {}
        /\ NamesAsked(client, Asks) # <<>> => "tools" \in needs
        /\ AskedThought.on => "reasoning" \in needs \/ EffortOnly
        /\ "reasoning" \in needs => \/ AskedThought.on \/ AskedThought.off
                                    \/ AtomsOf("thought") \cup AtomsOf("secret") # {}
        /\ FormatAsked(client, Asks) # None => "structured_output" \in needs
        /\ "structured_output" \in needs =>
               FormatAsked(client, Asks) # None \/ "text" \in DOMAIN Asks \/ (client = "messages" /\ AskedThought.effort # {})
        /\ Manifest.carriers = Secrets(client, body)

\* Copilot is told of the pictures that its endpoint gets, but for those that a tool gave to a
\* Responses model, and that an agent asks as soon as an assistant or a tool has spoken.
CopilotIsToldWhoAsks ==
    phase = "sent" /\ binding.provider = "copilot" /\ binding.protocol # "messages" =>
        LET said == ToSet(Atoms(client, body))
            shown == {a \in said : a.what = "image"}
        IN /\ HasVision(binding, payload) <=> shown # {} \/ (binding.protocol = "chat" /\ AtomsOf("image") # {})
           /\ Initiator(binding, payload) = "agent" <=> \E a \in said : a.who = "assistant" \/ a.what = "result"

\* What an endpoint is sent is the request of the client, and the router knows what that needs.
UpstreamReadsTheRequest ==
    UpstreamReadsTheConversation /\ UpstreamIsAskedTheSame /\ RouterSeesTheRequest /\ CopilotIsToldWhoAsks

\* What the answer cost: the last number given, or the bill of Copilot where that is zero.
Filled(count, billed) == IF billed > 0 /\ count \in {{}, {0}} THEN {billed} ELSE count
CountsGiven ==
    LET read == CountsRead(binding.protocol, cost.updates)
        bill == The(cost.bill)
        input == Filled(read.input, bill.input + bill.read + bill.write)
        output == Filled(read.output, bill.output)
    IN IF cost.bill = {} THEN read
       ELSE [read EXCEPT !.input = input, !.output = output, !.cached = Filled(@, bill.read),
                         !.total = IF {i + o : i \in input, o \in output} \subseteq {0} THEN @ ELSE {The(input) + The(output)}]

\* A total that was read at the start of a Messages stream is not corrected at its end, and
\* a total that Copilot gives stands, whatever else is filled from its bill.
TotalIsStale ==
    \/ binding.protocol = "messages" /\ Len(cost.updates) > 1
    \/ cost.bill # {} /\ \E u \in ToSet(cost.updates) : u.total # {} /\ The(u.total) > 0

\* The stream of a Messages client has to say a number, which is zero while none is known.
ZeroIsUnknown(c) == client = "messages" /\ cost.streamed /\ CountsGiven[c] = {} /\ c # "cached"

CountsAreTold ==
    \A c \in CountsKnown[client] :
        \/ CountsRead(client, cost.told)[c] = CountsGiven[c]
        \/ ZeroIsUnknown(c) /\ CountsRead(client, cost.told)[c] = {0}
        \/ c = "total" /\ TotalIsStale

\* The client is told the answer the upstream gave, when it has ended: its words, thoughts and
\* calls, and whether it ended by itself, was cut short or was refused.  A call names a tool that the
\* client has, in its namespace where the endpoint was told of it.  Of the tokens it is
\* told every count that was given and that its protocol has a word for, but for the gaps
\* named above.
ToldIsTheAnswer ==
    phase = "told" =>
        /\ AnswerRead(client, told) = AnswerRead(binding.protocol, reply)
        /\ AnswerRead(client, told).end # "open"
        /\ NamesAsked(client, Asks) # <<>> =>
               \A c \in ToSet(AnswerRead(client, told).calls) :
                   \E t \in ToSet(NamesAsked(client, Asks)) : c[2][1] = KnownAs(t.tool)
        /\ CountsAreTold

\* No upstream is sent a capsule, and what was sealed in one is sent to no endpoint but
\* that which made it, whatever else the request holds and whichever form it takes.
SealedGoesHome ==
    phase = "sent" =>
        \A s \in Secrets(binding.protocol, payload) :
            ~s.sealed /\ (Capsules # {} => s.maker = binding.id)

-----------------------------------------------------------------------------
\* What the endpoint that gave the last answer cannot be told of the conversation.

Exchanged == Atoms(client, body)
Results == SelectSeq(Exchanged, LAMBDA a : a.what = "result")

\* Messages has no place for orders between the messages.
OrdersBetween ==
    /\ binding.protocol = "messages"
    /\ \E i, j \in DOMAIN Exchanged :
           i < j /\ Exchanged[i].who # "system" /\ Exchanged[j].who = "system"

\* The result of a tool is text in Chat.
PictureForChat ==
    /\ binding.protocol = "chat"
    /\ \E i \in DOMAIN Results : \E k \in DOMAIN Results[i].v[3] : Results[i].v[3][k].what = "image"

\* The ID and the status that a Responses client was told with every message are rejected.
TagsForMessages ==
    /\ binding.protocol = "messages" /\ client = "responses"
    /\ \E i \in DOMAIN body.items : body.items[i].kind = "message" /\ body.items[i].tagged

\* A Responses client was told thoughts of a Chat upstream without the ID they need.
ThoughtWithoutID ==
    /\ client = "responses"
    /\ \E i \in DOMAIN body.items : body.items[i].kind = "reasoning" /\ body.items[i].id = {}

\* The result of a function carries its name, and an ID only if its call does.
GeminiResult ==
    /\ client = "gemini" /\ Results # <<>>
    /\ \/ binding.protocol # "chat"
       \/ Len(Results) > 1
       \/ Head(Results).id # {}

\* A capsule names the model as the upstream does, which Copilot is not left to choose.
DatedCapsule ==
    /\ binding.provider # "copilot"
    /\ \E s \in Capsules : s.state.model = binding.reports /\ s.state.model # Upstream

\* An answer can be continued where it was given: the code takes back what it told the
\* client, with the next question or the results, but for the gaps above.
AnswersContinue ==
    phase = "asked" /\ turn > 1 =>
        \/ Sendable(binding)
        \/ OrdersBetween \/ PictureForChat \/ TagsForMessages
        \/ ThoughtWithoutID \/ GeminiResult \/ DatedCapsule

\* The conversation goes on with its private state: what was sealed goes home or nowhere, and
\* the endpoint which answered takes its own answer back.
TurnsContinue == SealedGoesHome /\ AnswersContinue
=============================================================================
