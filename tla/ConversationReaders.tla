------------------------- MODULE ConversationReaders -------------------------
(***************************************************************************)
(* How a party of each protocol reads a conversation: the standing orders, *)
(* the runs of what the user gave and of what the assistant said, and the  *)
(* private state.  The reading is the same for a request and for an        *)
(* answer, which is a conversation of one message, so that a client and an *)
(* upstream of different protocols can be compared.  Nothing here is code  *)
(* of the program.                                                         *)
(***************************************************************************)
EXTENDS MessagesCodec, ChatCodec, ResponsesCodec, GeminiCodec

LOCAL INSTANCE SequencesExt
LOCAL INSTANCE FiniteSetsExt

\* An atom is one thing somebody said; id tells a call from others and a result its call.
Atom(who, what, v) == [who |-> who, what |-> what, id |-> {}, v |-> v]
CallAtom(id, tool, args) == [Atom("assistant", "call", <<DecodedName(tool), args>>) EXCEPT !.id = id]

Spell(who, what, text) == Each(LAMBDA t : Atom(who, what, <<t>>), text)
SecretAtoms(secrets) == SetToSeq({Atom("assistant", "secret", <<s>>) : s \in secrets})

\* An image or a file by value or by reference, however the protocol writes it; the media
\* type is left out.
Seen(p) ==
    LET ofResponses == "url" \in DOMAIN p
        data == CASE ~ofResponses -> {p.source : how \in {p.how} \cap {"base64", "inline_data"}}
                  [] p.kind = "file" -> p.data
                  [] OTHER -> {}
        link == IF ofResponses THEN p.url \cup p.id ELSE {p.source}
    IN CASE data # {} -> <<"data">> \o The(data)
         [] data = {} /\ Head(The(link)) = -2 -> <<"data">> \o Tail(The(link))
         [] OTHER -> <<"link">> \o The(link)

ReadContent(who, p) ==
    CASE p.kind \in {"text", "annotated"} -> Spell(who, "word", p.text)
      [] p.kind = "refusal" -> Spell(who, "refusal", p.text)
      [] OTHER -> <<Atom(who, p.kind, Seen(p))>>

\* What a tool answered: whether it failed, and its output.
ResultAtom(id, tool, error, content) ==
    [Atom("user", "result", <<error, tool, FlatEach(LAMBDA p : ReadContent("user", p), content)>>)
        EXCEPT !.id = id]

\* Where the wire has no mark of failure, the envelope of project_tool_result_output is one.
ProjectedResult(id, content) ==
    IF OneText(content)
    THEN ResultAtom(id, {}, SaysFailure(content[1].text), <<TextPart(Unprojected(content[1].text))>>)
    ELSE ResultAtom(id, {}, FALSE, content)

-----------------------------------------------------------------------------
ReadBlock(role, b) ==
    CASE b.kind = "tool_use" -> <<CallAtom({b.call}, b.tool, b.args)>>
      [] b.kind = "tool_result" -> <<ResultAtom({b.call}, {}, b.error, b.content)>>
      [] b.kind = "thinking" -> Spell(role, "thought", b.text) \o SecretAtoms(b.signature)
      [] b.kind = "redacted_thinking" -> SecretAtoms(b.signature)
      [] OTHER -> ReadContent(role, b)

ReadChatMessage(m) ==
    IF m.role = "tool" THEN <<ProjectedResult(m.answers, m.content)>>
    ELSE FlatEach(LAMBDA p : ReadContent(m.role, p), m.content)
             \o FlatEach(LAMBDA t : Spell("assistant", "refusal", t), SetToSeq(m.refusal))
             \o FlatEach(LAMBDA t : Spell("assistant", "thought", t), SetToSeq(m.thought))
             \o SecretAtoms(m.secret)
             \o Each(LAMBDA c : CallAtom({c.call}, c.tool, c.args), m.calls)

ReadItem(item) ==
    CASE item.kind = "call" -> <<CallAtom({item.call}, item.tool, item.args)>>
      [] item.kind = "result" -> <<ProjectedResult({item.call}, item.output)>>
      [] item.kind = "reasoning" -> Spell("assistant", "thought", item.summary) \o SecretAtoms(item.secret)
      [] OTHER -> FlatEach(LAMBDA p : ReadContent(IF item.role = "developer" THEN "system" ELSE item.role, p),
                           item.content)

ReadPart(role, p) ==
    CASE p.kind = "functionCall" -> SecretAtoms(p.signature) \o <<CallAtom(p.id, <<p.name>>, p.args)>>
      [] p.kind = "functionResponse" ->
             <<ResultAtom(p.id, {<<p.name>>}, Head(p.data) = ErrorKey, <<TextPart(p.data)>>)>>
      [] p.kind = "thought" -> Spell("assistant", "thought", p.text) \o SecretAtoms(p.signature)
      [] p.kind = "inlineData" -> <<Atom("user", p.of, <<"data">> \o p.source)>>
      [] p.kind = "fileData" -> <<Atom("user", p.of, <<"link">> \o p.source)>>
      [] OTHER -> Spell(IF role = "model" THEN "assistant" ELSE role, "word", p.text)

\* The atoms of a body of each protocol.
Atoms(protocol, body) ==
    CASE protocol = "messages" ->
             FlatEach(LAMBDA p : ReadContent("system", p), body.system)
                 \o FlatEach(LAMBDA m : FlatEach(LAMBDA b : ReadBlock(m.role, b), m.blocks), body.messages)
      [] protocol = "chat" -> FlatEach(ReadChatMessage, body.messages)
      [] protocol = "responses" ->
             FlatEach(LAMBDA t : Spell("system", "word", t), SetToSeq(body.instructions))
                 \o FlatEach(ReadItem, body.items)
      [] protocol = "gemini" ->
             FlatEach(LAMBDA p : ReadContent("system", p), body.system)
                 \o FlatEach(LAMBDA c : FlatEach(LAMBDA p : ReadPart(c.role, p), c.parts), body.contents)

-----------------------------------------------------------------------------
\* Calls are known by their number in the conversation; a result without an ID answers the
\* last call of its tool.
Numbered(atoms) ==
    [i \in DOMAIN atoms |->
        LET calls(n) == {j \in 1..n : atoms[j].what = "call"}
            answered == {j \in calls(i - 1) : IF atoms[i].id = {} THEN atoms[j].v[1] \in atoms[i].v[2]
                                              ELSE atoms[j].id = atoms[i].id}
        IN CASE atoms[i].what = "call" -> [atoms[i] EXCEPT !.id = {Cardinality(calls(i))}]
             [] atoms[i].what = "result" ->
                    [atoms[i] EXCEPT !.id = IF answered = {} THEN {} ELSE {Cardinality(calls(Max(answered)))},
                                     !.v[2] = {}]
             [] OTHER -> atoms[i]]

Runs(atoms) ==
    FoldLeft(LAMBDA runs, a :
                 IF runs # <<>> /\ Last(runs)[1].who = a.who
                 THEN [runs EXCEPT ![Len(runs)] = Append(@, a)]
                 ELSE Append(runs, <<a>>),
             <<>>, atoms)

\* What the assistant said is read channel by channel: its words, thoughts and calls come
\* in an order of their own in every protocol.
Channels(run) ==
    IF run[1].who = "user" THEN [user |-> run]
    ELSE [what \in {"word", "refusal", "thought", "call"} |-> SelectSeq(run, LAMBDA a : a.what = what)]

Reading(protocol, body) ==
    LET atoms == SelectSeq(Numbered(Atoms(protocol, body)), LAMBDA a : a.what # "secret")
    IN [orders |-> SelectSeq(atoms, LAMBDA a : a.who = "system"),
        runs |-> Each(Channels, Runs(SelectSeq(atoms, LAMBDA a : a.who # "system")))]

Secrets(protocol, body) ==
    ToSet(Each(LAMBDA a : a.v[1], SelectSeq(Atoms(protocol, body), LAMBDA a : a.what = "secret")))

-----------------------------------------------------------------------------
\* An answer is the conversation of its one message.
AnswerBody(protocol, reply) ==
    CASE protocol = "messages" -> MessagesBody(<<>>, <<MessagesMessage("assistant", reply.blocks)>>, <<>>)
      [] protocol = "chat" -> ChatBody(<<reply.message>>, <<>>)
      [] protocol = "responses" -> ResponsesBody({}, reply.items, <<>>)
      [] protocol = "gemini" -> GeminiBody(<<>>, <<GeminiContent("model", reply.parts)>>, <<>>)

\* How the answer ended, as a party of the protocol understands its terminal.
Ends ==
    [end_turn |-> "stop", stop_sequence |-> "stop", tool_use |-> "stop", stop |-> "stop",
     tool_calls |-> "stop", completed |-> "stop", STOP |-> "stop",
     max_tokens |-> "length", length |-> "length", max_output_tokens |-> "length", MAX_TOKENS |-> "length",
     refusal |-> "content_filter", content_filter |-> "content_filter", SAFETY |-> "content_filter",
     failed |-> "failed", queued |-> "open"]
EndOf(protocol, reply) ==
    Ends[CASE protocol = "messages" -> reply.stop
           [] protocol = "responses" -> IF reply.status = "incomplete" THEN reply.reason ELSE reply.status
           [] OTHER -> reply.finish]

\* The answer; a refusal is also words.
AnswerRead(protocol, reply) ==
    LET atoms == Numbered(Atoms(protocol, AnswerBody(protocol, reply)))
        Channel(whats) == Each(LAMBDA a : <<a.id, a.v>>, SelectSeq(atoms, LAMBDA a : a.what \in whats))
    IN [words |-> Channel({"word", "refusal"}), thoughts |-> Channel({"thought"}),
        calls |-> Channel({"call"}), end |-> EndOf(protocol, reply)]

-----------------------------------------------------------------------------
\* What the answer cost: of every count the last that was given.  Messages has no total.
CountsRead(protocol, updates) ==
    LET Saying(field) == {i \in DOMAIN updates : updates[i][field] # {}}
        Latest(field) == IF Saying(field) = {} THEN {} ELSE updates[Max(Saying(field))][field]
        input == Latest("input")
        output == Latest("output")
    IN [input |-> input, output |-> output,
        total |-> IF protocol = "messages" THEN {i + o : i \in input, o \in output} ELSE Latest("total"),
        cached |-> Latest("hit") \cup Latest("cached"),
        reasoning |-> Latest("thought") \cup Latest("reasoning")]

CountsKnown ==
    [messages |-> {"input", "output", "cached"},
     chat |-> {"input", "output", "total", "cached", "reasoning"},
     responses |-> {"input", "output", "total", "cached", "reasoning"},
     gemini |-> {"input", "output", "total", "cached", "reasoning"}]
=============================================================================
