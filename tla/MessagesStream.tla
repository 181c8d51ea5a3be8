--------------------------- MODULE MessagesStream ---------------------------
(***************************************************************************)
(* The stream codecs of Anthropic Messages (protocols/anthropic.py):       *)
(* AnthropicStreamDecoder turns the data frames of an upstream into        *)
(* semantic events, AnthropicStreamEncoder turns semantic events into the  *)
(* data frames of a client.  A codec is a function of its state and one    *)
(* input; StreamConversion runs them.                                      *)
(***************************************************************************)
EXTENDS SemanticEvents

LOCAL INSTANCE SequencesExt
LOCAL INSTANCE FiniteSetsExt
LOCAL INSTANCE Functions

Drop(f, i) == Restrict(f, DOMAIN f \ {i})

-----------------------------------------------------------------------------
\* The decoder.  A block remembers its type, its call and its signature.

MessagesDecoder == [started |-> FALSE, terminal |-> FALSE, blocks |-> <<>>, pending |-> None]

DecodeMessageStart(d, f) ==
    Check(~d.started, Put([d EXCEPT !.started = TRUE],
        IF f.usage THEN <<Started, UsageEvent>> ELSE <<Started>>))

OpenedBlock(f) ==
    [type |-> f.block, call |-> f.call, signed |-> f.signed,
     sent |-> f.block = "redacted_thinking" /\ f.signed]

\* A tool use declares its call with the input it starts with; text and thinking may carry a
\* first piece; a redacted block that has its data is passed on as a whole.
DecodeContentStart(d, f) ==
    LET item == [Event("output_item") EXCEPT !.index = f.index]
        thought == [item EXCEPT !.id = "thinking", !.of = "reasoning"]
        opening ==
            CASE f.block = "text" -> <<[item EXCEPT !.of = "text"]>>
              [] f.block = "tool_use" ->
                     <<[item EXCEPT !.id = f.call, !.item = ToolItem(f.call, None, f.text)]>>
              [] OTHER -> <<thought>>
        piece ==
            CASE f.block = "text" /\ f.text # <<>> ->
                     <<[Event("text_delta") EXCEPT !.index = f.index, !.delta = f.text]>>
              [] f.block = "thinking" /\ f.text # <<>> ->
                     <<[Event("reasoning_delta") EXCEPT
                            !.index = f.index, !.id = "thinking", !.delta = f.text]>>
              [] f.block = "redacted_thinking" /\ f.signed ->
                     <<[thought EXCEPT !.of = None, !.item = ReasoningItem(<<>>, "messages")]>>
              [] OTHER -> <<>>
    IN Check(f.index \notin DOMAIN d.blocks,
             Put([d EXCEPT !.blocks = (f.index :> OpenedBlock(f)) @@ @], opening \o piece))

DecodeContentDelta(d, f) ==
    LET type == IF f.index \in DOMAIN d.blocks THEN d.blocks[f.index].type ELSE None
        event(t) == [Event(t) EXCEPT !.index = f.index, !.delta = f.text]
    IN CASE f.delta = "text_delta" /\ type = "text" -> Put(d, <<event("text_delta")>>)
         [] f.delta = "thinking_delta" /\ type = "thinking" ->
                Put(d, <<[event("reasoning_delta") EXCEPT !.id = "thinking"]>>)
         [] f.delta = "signature_delta" /\ type = "thinking" ->
                Quiet([d EXCEPT !.blocks[f.index].signed = TRUE])
         [] f.delta = "input_json_delta" /\ type = "tool_use" ->
                Put(d, <<[event("tool_arguments_delta") EXCEPT
                              !.id = d.blocks[f.index].call, !.named = TRUE]>>)
         [] OTHER -> Reject(d)

\* A signature that was gathered is passed on when its block ends.
DecodeContentStop(d, f) ==
    LET block == d.blocks[f.index]
        item == [Event("output_item") EXCEPT !.index = f.index,
                     !.id = IF block.type = "tool_use" THEN block.call
                            ELSE IF block.type = "text" THEN None ELSE "thinking"]
        carried ==
            IF block.type \in {"thinking", "redacted_thinking"} /\ block.signed /\ ~block.sent
            THEN <<[item EXCEPT !.item = ReasoningItem(<<>>, "messages")]>>
            ELSE <<>>
    IN IF f.index \notin DOMAIN d.blocks THEN Reject(d)
       ELSE Put([d EXCEPT !.blocks = Drop(@, f.index)],
                Append(carried, [item EXCEPT !.of = block.type, !.done = "yes"]))

StopReasons ==
    [end_turn |-> "stop", max_tokens |-> "length", stop_sequence |-> "stop",
     tool_use |-> "tool_calls", refusal |-> "content_filter"]

DecodeMessageDelta(d, f) ==
    LET out == IF f.usage THEN <<UsageEvent>> ELSE <<>>
    IN CASE f.stop = None -> Put(d, out)
         [] f.stop \in DOMAIN StopReasons ->
                Put([d EXCEPT !.pending = StopReasons[f.stop]], out)
         [] OTHER -> Reject(d)

DecodeMessageStop(d, f) ==
    Check(DOMAIN d.blocks = {}, Put([d EXCEPT !.terminal = TRUE],
        <<TerminalEvent(Reasoned(IF d.pending = None THEN "stop" ELSE d.pending))>>))

DecodeError(d) == Put([d EXCEPT !.terminal = TRUE], Broken("failed"))

DecodeMessages(d, f) ==
    CASE d.terminal -> Reject(d)
      [] f.type = "ping" -> Quiet(d)
      [] f.type = "message_start" -> DecodeMessageStart(d, f)
      [] f.type = "error" -> DecodeError(d)
      [] ~d.started -> Reject(d)
      [] f.type = "content_block_start" -> DecodeContentStart(d, f)
      [] f.type = "content_block_delta" -> DecodeContentDelta(d, f)
      [] f.type = "content_block_stop" -> DecodeContentStop(d, f)
      [] f.type = "message_delta" -> DecodeMessageDelta(d, f)
      [] f.type = "message_stop" -> DecodeMessageStop(d, f)
      [] OTHER -> Reject(d)

\* An early end that is taken for an end.
FinishQuietly(d) == <<>>

FinishMessages(d) == IF d.terminal THEN <<>> ELSE Broken("unknown")

-----------------------------------------------------------------------------
\* The encoder.  Several blocks may be open at once.

MessagesEncoder ==
    [started |-> FALSE, terminal |-> FALSE, blocks |-> <<>>, next |-> 0,
     error |-> NoTerminal, usage |-> FALSE, refused |-> FALSE]

EncodeBlock(type, call, source) ==
    [type |-> type, call |-> call, source |-> source, streamed |-> FALSE, begun |-> FALSE]

\* _ensure_started
EnsureMessageStarted(e) ==
    IF e.started THEN Quiet(e)
    ELSE Put([e EXCEPT !.started = TRUE], <<[type |-> "message_start"]>>)

BlockStart(i, type, call, text) ==
    [type |-> "content_block_start", index |-> i, block |-> type, call |-> call, text |-> text]
BlockDelta(i, delta, text) ==
    [type |-> "content_block_delta", index |-> i, delta |-> delta, text |-> text]

\* _ensure_block
EnsureBlock(e, i, type, call, source) ==
    IF i \in DOMAIN e.blocks THEN Check(e.blocks[i].type = type, Quiet(e))
    ELSE Put([e EXCEPT !.blocks = (i :> EncodeBlock(type, call, source)) @@ @],
             <<BlockStart(i, type, IF type = "tool_use" THEN call ELSE None, <<>>)>>)

\* _event_index: the index of the event, the block of its item, or an index of its own.
MessageIndex(e, ev) ==
    LET mine == {i \in DOMAIN e.blocks : ev.id # None /\ ev.id \in {e.blocks[i].call, e.blocks[i].source}}
    IN IF ev.index # NoIndex THEN ev.index
       ELSE IF mine # {} THEN CHOOSE i \in mine : TRUE ELSE e.next

Claimed(e, ev) ==
    [e EXCEPT !.next = IF ev.index # NoIndex THEN Max({@, ev.index + 1})
                       ELSE IF MessageIndex(e, ev) = @ THEN @ + 1 ELSE @]

\* A block that is forgotten and not told to end.
CloseBlockSilently(e, i) == Quiet([e EXCEPT !.blocks = Drop(@, i)])

\* _close_block: a call whose streamed arguments were all blank gets an empty object.
CloseBlock(e, i) ==
    IF i \notin DOMAIN e.blocks THEN Quiet(e)
    ELSE LET b == e.blocks[i]
             blank == IF b.type = "tool_use" /\ b.streamed /\ ~b.begun
                      THEN <<BlockDelta(i, "input_json_delta", EmptyObject)>> ELSE <<>>
         IN Put([e EXCEPT !.blocks = Drop(@, i)],
                Append(blank, [type |-> "content_block_stop", index |-> i]))

EncodeText(e, i, text) ==
    AndThen(EnsureBlock(e, i, "text", None, None),
            LAMBDA s : Put(s, <<BlockDelta(i, "text_delta", text)>>))

\* A tool argument delta must agree with its block; blank text before the arguments is dropped.
EncodeArguments(e, ev, i) ==
    LET known == i \in DOMAIN e.blocks
        b == e.blocks[i]
        call == IF known THEN b.call ELSE IF ev.call # None THEN ev.call ELSE ev.id
        source == IF known /\ b.source # None THEN b.source ELSE ev.id
        agrees == known => /\ b.type = "tool_use"
                           /\ ev.id = None \/ b.source = None \/ ev.id = b.source
                           /\ ev.call = None \/ ev.call = b.call
    IN IF ~agrees \/ call = None \/ (~known /\ ~ev.named) THEN Reject(e)
       ELSE AndThen(EnsureBlock(e, i, "tool_use", call, ev.id), LAMBDA s :
                LET t == [s EXCEPT !.blocks[i].streamed = TRUE, !.blocks[i].source = source,
                                   !.blocks[i].begun = @ \/ ev.delta # <<>>]
                IN IF t.blocks[i].begun THEN Put(t, <<BlockDelta(i, "input_json_delta", ev.delta)>>)
                   ELSE Quiet(t))

\* A whole tool call opens its block with its input; a block that is open keeps what was streamed.
EncodeToolItem(e, ev, i) ==
    LET item == ev.item
        source == IF ev.id # None THEN ev.id ELSE item.item
        b == e.blocks[i]
    IN IF ev.id # None /\ item.item # None /\ ev.id # item.item THEN Reject(e)
       ELSE IF i \notin DOMAIN e.blocks
       THEN Put([e EXCEPT !.blocks = (i :> EncodeBlock("tool_use", item.call, source)) @@ @],
                <<BlockStart(i, "tool_use", item.call, item.args)>>)
       ELSE Check(/\ b.type = "tool_use"
                  /\ b.call = item.call
                  /\ source = None \/ b.source = None \/ source = b.source,
                  Quiet([e EXCEPT !.blocks[i].source = IF @ = None THEN source ELSE @]))

\* Opaque reasoning must be sealed for the client, which takes a provider and a binding; the
\* capsule goes into the open thinking block, or a redacted block of its own.
EncodeReasoningItem(e, ev, i, Sealable) ==
    LET item == ev.item
        opaque == item.origin # None
        raw == IF opaque /\ item.text = <<>> THEN "redacted_thinking" ELSE "thinking"
        signature == IF opaque THEN <<BlockDelta(i, "signature_delta", <<>>)>> ELSE <<>>
    IN IF opaque /\ item.origin \notin Sealable THEN Reject(e)
       ELSE IF i \in DOMAIN e.blocks THEN Check(e.blocks[i].type = "thinking", Put(e, signature))
       ELSE IF raw = "redacted_thinking"
       THEN Put([e EXCEPT !.blocks = (i :> EncodeBlock(raw, ev.id, None)) @@ @],
                <<BlockStart(i, raw, None, <<>>)>>)
       ELSE AndThen(EnsureBlock(e, i, "thinking", ev.id, None), LAMBDA s :
                Put(s, (IF item.text = <<>> THEN <<>>
                        ELSE <<BlockDelta(i, "thinking_delta", item.text)>>) \o signature))

\* _encode_output_item
EncodeMessageItem(e, ev, i, Sealable) ==
    LET kind == ev.item.kind
        body ==
            CASE kind = None -> Quiet(e)
              [] kind \in {"text", "refusal"} ->
                     LET s == [e EXCEPT !.refused = @ \/ kind = "refusal"]
                     IN IF ev.item.text = <<>> THEN EnsureBlock(s, i, "text", None, None)
                        ELSE EncodeText(s, i, ev.item.text)
              [] kind = "tool" -> EncodeToolItem(e, ev, i)
              [] OTHER -> EncodeReasoningItem(e, ev, i, Sealable)
    IN AndThen(body, LAMBDA s : IF ev.done = "yes" THEN CloseBlock(s, i) ELSE Quiet(s))

\* A refusal that was told must be the reason that is told.
EncodeMessageTerminal(e, ev) ==
    LET t == IF e.error # NoTerminal THEN e.error ELSE ev.terminal
        reason == IF e.refused THEN "content_filter" ELSE IF t.reason = None THEN "stop" ELSE t.reason
        end == IF IsFailure(t) THEN <<[type |-> "error"]>>
               ELSE <<[type |-> "message_delta", stop |-> reason, usage |-> e.usage],
                      [type |-> "message_stop"]>>
    IN AndThen(EnsureMessageStarted(e), LAMBDA s :
           AndThen(Run(CloseBlock, s, SetToSortSeq(DOMAIN s.blocks, <)), LAMBDA c :
               Check(IsFailure(t) \/ ~c.refused \/ t.reason \in {None, "content_filter"},
                     Put([c EXCEPT !.terminal = TRUE], end))))

EncodeMessages(e, ev, Sealable) ==
    CASE e.terminal -> Reject(e)
      [] ev.type = "response_started" -> Check(~e.started, EnsureMessageStarted(e))
      [] ev.type = "error" -> Quiet([e EXCEPT !.error = ev.terminal])
      [] ev.type = "terminal" -> EncodeMessageTerminal(e, ev)
      [] OTHER -> AndThen(EnsureMessageStarted(e), LAMBDA s :
             LET i == MessageIndex(s, ev)
                 c == Claimed(s, ev)
             IN CASE ev.type = "usage" -> Quiet([s EXCEPT !.usage = TRUE])
                  [] ev.type = "text_delta" -> EncodeText(c, i, ev.delta)
                  [] ev.type = "reasoning_delta" ->
                         AndThen(EnsureBlock(c, i, "thinking", ev.id, None),
                                 LAMBDA t : Put(t, <<BlockDelta(i, "thinking_delta", ev.delta)>>))
                  [] ev.type = "tool_arguments_delta" -> EncodeArguments(c, ev, i)
                  [] OTHER -> EncodeMessageItem(c, ev, i, Sealable))
=============================================================================
