--------------------------- MODULE ResponsesStream ---------------------------
(***************************************************************************)
(* The stream codecs of OpenAI Responses (protocols/openai_responses.py):  *)
(* OpenAIResponsesStreamDecoder and OpenAIResponsesStreamEncoder.  The     *)
(* protocol tells every text several times: in deltas, in the snapshot     *)
(* that ends its part, in the one that ends its item, and in the response  *)
(* of the terminal.  The decoder passes on what a snapshot adds and        *)
(* rejects one that contradicts what it has seen.                          *)
(***************************************************************************)
EXTENDS SemanticEvents

LOCAL INSTANCE SequencesExt
LOCAL INSTANCE FiniteSetsExt
LOCAL INSTANCE Functions
LOCAL INSTANCE TLC

-----------------------------------------------------------------------------
\* The decoder.  A text is known by its channel, its item and its part: text[<<c, i, k>>] is what
\* was seen of it, and it is in complete when a snapshot has ended it.

ResponsesDecoder(deferred) ==
    [started |-> FALSE, terminal |-> FALSE, deferred |-> deferred, items |-> <<>>, calls |-> <<>>,
     done |-> {}, types |-> <<>>, closed |-> {}, text |-> <<>>, complete |-> {}]

Seen(d, key) == IF key \in DOMAIN d.text THEN d.text[key] ELSE <<>>
WithText(d, key, text) == [d EXCEPT !.text = (key :> text) @@ @]
FrameKey(f) == <<f.channel, f.index, f.part>>

ItemId(i) == "item" \o ToString(i)

\* _intermediate_item_id: the IDs of transient frames may be no good to correlate them.
TransientId(d, i) == IF d.deferred THEN None ELSE ItemId(i)

\* _reasoning_delta_spec: the part of a summary.
ReasoningDelta(i, k, id, text) ==
    [Event("reasoning_delta") EXCEPT !.index = i, !.part = k, !.id = id, !.delta = text]

\* _part_delta_spec
TextEvent(channel, i, k, id, text) ==
    LET e(type) == [Event(type) EXCEPT !.index = i, !.part = k, !.id = id, !.delta = text]
    IN CASE channel = "text" -> e("text_delta")
         [] channel = "reasoning" -> ReasoningDelta(i, k, id, text)
         [] OTHER -> [e("output_item") EXCEPT !.item = RefusalItem(text), !.delta = <<>>]

\* A part or a snapshot began or ended: of interest to no encoder.
Lifecycle(d, f) ==
    [Event("output_item") EXCEPT !.index = f.index, !.part = f.part, !.id = TransientId(d, f.index)]

\* A delta of a text that was completed, or of reasoning whose item is done, is rejected.
DecodeTextDelta(d, f) ==
    LET key == FrameKey(f)
    IN Check(key \notin d.complete /\ ~(f.channel = "reasoning" /\ f.index \in d.done),
             Put(WithText(d, key, Seen(d, key) \o f.text),
                 <<TextEvent(f.channel, f.index, f.part, TransientId(d, f.index), f.text)>>))

\* A snapshot that passes on all of its text.
DecodeSnapshotWhole(d, key, id, text, ends) ==
    Put(WithText(d, key, text), <<TextEvent(key[1], key[2], key[3], id, text)>>)

\* _decode_part_snapshot and _decode_reasoning_snapshot
DecodeSnapshot(d, key, id, text, ends) ==
    LET seen == Seen(d, key)
        rest == SubSeq(text, Len(seen) + 1, Len(text))
        s == WithText([d EXCEPT !.complete = IF ends THEN @ \cup {key} ELSE @], key, text)
    IN CASE key \in d.complete -> Check(seen = text, Quiet(d))
         [] key[1] = "reasoning" /\ key[2] \in d.done -> Reject(d)
         [] ~IsPrefix(seen, text) -> Reject(d)
         [] OTHER -> Put(s, IF rest = <<>> THEN <<>> ELSE <<TextEvent(key[1], key[2], key[3], id, rest)>>)

DecodeTextDone(d, f) ==
    AndThen(DecodeSnapshot(d, FrameKey(f), TransientId(d, f.index), f.text, TRUE),
            LAMBDA s : Put(s, <<Lifecycle(d, f)>>))

\* A content part keeps its type and ends once; its snapshot may bring text.
DecodeContentPart(d, f) ==
    LET key == <<f.index, f.part>>
        s == [d EXCEPT !.types = (key :> f.channel) @@ @, !.closed = IF f.done THEN @ \cup {key} ELSE @]
        snapshot(t) == DecodeSnapshot(t, FrameKey(f), TransientId(d, f.index), f.text, f.done)
    IN Check(key \notin d.closed /\ (key \in DOMAIN d.types => d.types[key] = f.channel),
             IF f.done THEN AndThen(snapshot(s), LAMBDA t : Put(t, <<Lifecycle(d, f)>>))
             ELSE AndThen(Put(s, <<Lifecycle(d, f)>>), LAMBDA t : snapshot(t)))

\* A part of a reasoning summary, which has no account of its own.
DecodeSummaryPart(d, f) ==
    LET snapshot(t) == DecodeSnapshot(t, FrameKey(f), TransientId(d, f.index), f.text, f.done)
    IN IF f.done THEN AndThen(snapshot(d), LAMBDA s : Put(s, <<Lifecycle(d, f)>>))
       ELSE Check(f.index \notin d.done,
                  AndThen(Put(d, <<Lifecycle(d, f)>>), LAMBDA s : snapshot(s)))

DecodeArgumentsDelta(d, f) ==
    LET call == IF f.index \in DOMAIN d.calls THEN d.calls[f.index] ELSE None
    IN Put(d, <<[Event("tool_arguments_delta") EXCEPT
                    !.index = f.index, !.id = TransientId(d, f.index), !.of = "function_call",
                    !.call = call, !.named = call # None, !.delta = f.text]>>)

\* The snapshots of the parts of an item that is done.
ItemSnapshots(d, item) ==
    LET snapshot(t, k) ==
            DecodeSnapshot(t, <<item.channel, item.index, k - 1>>, ItemId(item.index), item.texts[k], TRUE)
    IN Run(snapshot, d, [k \in DOMAIN item.texts |-> k])

\* A reasoning item that is done must tell every part that was streamed.
TellsAll(d, item) ==
    \A key \in DOMAIN d.text : key[1] = "reasoning" /\ key[2] = item.index => key[3] < Len(item.texts)

\* _decode_output_item
DecodeOutputItem(d, item, done) ==
    LET i == item.index
        id == IF done \/ ~d.deferred THEN ItemId(i) ELSE None
        s == [d EXCEPT !.items = (i :> item.of) @@ @,
                       !.calls = IF item.of = "function_call" THEN (i :> item.call) @@ @ ELSE @]
        finished(t) == [t EXCEPT !.done = IF done THEN @ \cup {i} ELSE @]
        whole ==
            CASE done /\ item.of = "reasoning" ->
                     ReasoningItem(<<>>, IF item.signed THEN "responses" ELSE None)
              [] done /\ item.of = "function_call" -> ToolItem(item.call, id, item.args)
              [] OTHER -> NoItem
        event == [Event("output_item") EXCEPT !.index = i, !.id = id, !.of = item.of,
                      !.item = whole, !.done = IF done THEN "yes" ELSE "no"]
    IN Check(/\ i \in DOMAIN d.items => d.items[i] = item.of
             /\ done /\ item.of = "reasoning" => TellsAll(d, item),
             AndThen(IF done /\ item.of # "function_call" THEN ItemSnapshots(s, item) ELSE Quiet(s),
                     LAMBDA t : Put(finished(t), <<event>>)))

FinishOf(d, f) ==
    CASE f.status = "completed" ->
             IF \E i \in DOMAIN d.items : d.items[i] = "function_call" THEN "tool_calls" ELSE "stop"
      [] f.status = "incomplete" -> f.reason
      [] OTHER -> None

\* The terminal tells the items that were not told done, the usage, and the error if there is one.
DecodeResponseTerminal(d, f) ==
    LET unfinished == SelectSeq(f.output, LAMBDA item : item.index \notin d.done)
        told == Run(LAMBDA t, item : DecodeOutputItem(t, item, TRUE), [d EXCEPT !.started = TRUE], unfinished)
    IN AndThen(told, LAMBDA t :
           LET terminal == Terminal(f.error, f.status, FinishOf(t, f))
               usage == IF f.usage THEN <<UsageEvent>> ELSE <<>>
               error == IF f.error \/ f.status = "failed" THEN <<ErrorEvent(terminal)>> ELSE <<>>
           IN Put([t EXCEPT !.terminal = TRUE], usage \o error \o <<TerminalEvent(terminal)>>))

EnsureResponseStarted(d) ==
    IF d.started THEN Quiet(d) ELSE Put([d EXCEPT !.started = TRUE], <<Started>>)

DecodeResponses(d, f) ==
    IF d.terminal THEN Reject(d)
    ELSE IF f.type = "error" THEN Put([d EXCEPT !.terminal = TRUE], Broken("failed"))
    ELSE AndThen(EnsureResponseStarted(d), LAMBDA s :
        CASE f.type = "response.created" -> Quiet(s)
          [] f.type = "response.terminal" -> DecodeResponseTerminal(s, f)
          [] f.type = "output_item" -> DecodeOutputItem(s, f.item, f.done)
          [] f.type = "content_part" -> DecodeContentPart(s, f)
          [] f.type = "delta" -> DecodeTextDelta(s, f)
          [] f.type = "text.done" -> DecodeTextDone(s, f)
          [] f.type = "summary_part" -> DecodeSummaryPart(s, f)
          [] f.type = "arguments.delta" -> DecodeArgumentsDelta(s, f)
          [] f.type = "arguments.done" -> Put(s, <<[Lifecycle(s, f) EXCEPT !.of = "function_call"]>>)
          [] OTHER -> Reject(s))

FinishResponses(d) == IF d.terminal THEN <<>> ELSE Broken("unknown")

-----------------------------------------------------------------------------
(***************************************************************************)
(* The encoder.  output holds the items it will tell in the response of    *)
(* the terminal; announced and completed are the items it has told to have *)
(* begun and ended, parts the parts it has told to have begun; owner gives *)
(* the index of an item whose events carry none.                           *)
(***************************************************************************)
ResponsesEncoder ==
    [started |-> FALSE, terminal |-> FALSE, error |-> NoTerminal, usage |-> FALSE, output |-> <<>>,
     announced |-> {}, completed |-> {}, parts |-> {}, owner |-> <<>>, claimed |-> {}, next |-> 0]

OutputItem(of, id, call) ==
    [of |-> of, id |-> id, call |-> call, content |-> <<>>, args |-> <<>>]

\* _ensure_started
EnsureCreated(e) ==
    IF e.started THEN Quiet(e)
    ELSE Put([e EXCEPT !.started = TRUE], <<[type |-> "response.created"]>>)

\* The item an event without an index belongs to (_event_output_index).
OwnerOf(ev) ==
    CASE ev.type = "reasoning_delta" \/ ev.item.kind = "reasoning" ->
             <<"reasoning", IF ev.id = None THEN "default" ELSE ev.id>>
      [] ev.type = "tool_arguments_delta" \/ ev.item.kind = "tool" ->
             <<"tool", CASE ev.id # None -> ev.id
                         [] ev.item.kind = "tool" -> ev.item.call
                         [] OTHER -> ToString(ev.tool)>>
      [] OTHER -> <<"message", IF ev.id = None THEN "assistant" ELSE ev.id>>

OutputIndex(e, ev) ==
    CASE ev.index # NoIndex -> ev.index
      [] OwnerOf(ev) \in DOMAIN e.owner -> e.owner[OwnerOf(ev)]
      [] OTHER -> CHOOSE i \in e.next .. e.next + Cardinality(e.claimed) :
                      i \notin e.claimed /\ \A j \in e.next .. (i - 1) : j \in e.claimed

ClaimIndex(e, ev) ==
    LET i == OutputIndex(e, ev)
        own == IF ev.index = NoIndex THEN (OwnerOf(ev) :> i) @@ e.owner ELSE e.owner
    IN IF ev.index = NoIndex /\ OwnerOf(ev) \in DOMAIN e.owner THEN e
       ELSE [e EXCEPT !.claimed = @ \cup {i}, !.next = Max({@, i + 1}), !.owner = own]

\* The item at an index, made if there is none, and told to have begun.
Announce(e, i, made) ==
    LET s == IF i \in DOMAIN e.output THEN e ELSE [e EXCEPT !.output = (i :> made) @@ @]
    IN IF i \in e.announced THEN Quiet(s)
       ELSE Put([s EXCEPT !.announced = @ \cup {i}],
                <<[type |-> "output_item.added", index |-> i, of |-> s.output[i].of, call |-> s.output[i].call]>>)

EmptyPart(channel) == [channel |-> channel, text |-> <<>>]

\* The missing parts up to part k; those before it hold text.
Padded(content, k, channel) ==
    [j \in 1 .. Max({Len(content), k + 1}) |->
        IF j <= Len(content) THEN content[j]
        ELSE EmptyPart(IF j = k + 1 THEN channel ELSE IF channel = "reasoning" THEN channel ELSE "text")]

\* _ensure_message_part_started and _ensure_reasoning_part_started
EnsurePart(e, i, k, channel, id) ==
    LET of == IF channel = "reasoning" THEN "reasoning" ELSE "message"
        made == OutputItem(of, IF id = None THEN of \o ToString(i) ELSE id, None)
        known == i \in DOMAIN e.output
    IN IF known /\ (e.output[i].of # of \/ (of = "message" /\ id \notin {None, e.output[i].id})) THEN Reject(e)
       ELSE AndThen(Announce(e, i, made), LAMBDA s :
                LET content == Padded(s.output[i].content, k, channel)
                    t == [s EXCEPT !.output[i].content = content, !.parts = @ \cup {<<i, k>>}]
                IN Check(content[k + 1].channel = channel,
                         Put(t, IF <<i, k>> \in s.parts THEN <<>>
                                ELSE <<[type |-> "part.added", index |-> i, part |-> k, channel |-> channel]>>)))

\* A delta of a text, which the encoder gathers for the snapshots.
EncodeDelta(e, ev, i, channel, text) ==
    LET k == IF ev.part = NoIndex THEN 0 ELSE ev.part
    IN AndThen(EnsurePart(e, i, k, channel, ev.id), LAMBDA s :
           Put([s EXCEPT !.output[i].content[k + 1].text = @ \o text],
               <<[type |-> "delta", index |-> i, part |-> k, channel |-> channel, text |-> text]>>))

\* A delta of a call that was not announced announces it.
EncodeCallDelta(e, ev, i) ==
    LET call == IF ev.call # None THEN ev.call ELSE ev.id
        known == i \in DOMAIN e.output
        made == OutputItem("function_call", ev.id, call)
    IN IF ev.of \notin {None, "function_call"} \/ (~known /\ (call = None \/ ~ev.named)) THEN Reject(e)
       ELSE AndThen(IF known THEN Quiet(e) ELSE Announce(e, i, made), LAMBDA s :
                Check(s.output[i].of = "function_call",
                      Put([s EXCEPT !.output[i].args = @ \o ev.delta],
                          <<[type |-> "arguments.delta", index |-> i, text |-> ev.delta]>>)))

\* A whole item replaces what was gathered of it, and is told done unless it only declares a call.
EncodeWholeItem(e, ev, i) ==
    LET item == ev.item
        declares == item.kind = "tool" /\ item.args = <<>> /\ ev.tool # NoIndex
        raw ==
            IF item.kind = "tool"
            THEN [OutputItem("function_call", item.item, item.call) EXCEPT
                      !.args = IF declares THEN <<>> ELSE AsText(item.args)]
            ELSE [OutputItem("reasoning", None, None) EXCEPT
                      !.content = IF item.text = <<>> THEN <<>>
                                  ELSE <<[channel |-> "reasoning", text |-> item.text]>>]
        done == ev.done = "yes" \/ (ev.done = None /\ ~declares)
        placed == [e EXCEPT !.output = (i :> raw) @@ @]
    IN IF item.kind = "reasoning" /\ item.origin # None THEN Reject(e)
       ELSE AndThen(Announce(placed, i, raw), LAMBDA s :
                IF ~done THEN Quiet(s)
                ELSE Put([s EXCEPT !.completed = @ \cup {i}],
                         <<[type |-> "output_item.done", index |-> i, item |-> raw]>>))

\* _encode_payload
EncodePayload(e, ev) ==
    LET i == OutputIndex(e, ev)
        s == ClaimIndex(e, ev)
    IN CASE ev.type = "text_delta" -> EncodeDelta(s, ev, i, "text", ev.delta)
         [] ev.type = "reasoning_delta" -> EncodeDelta(s, ev, i, "reasoning", ev.delta)
         [] ev.type = "tool_arguments_delta" -> EncodeCallDelta(s, ev, i)
         [] ev.item.kind = None -> Quiet(s)
         [] ev.item.kind \in {"text", "refusal"} -> EncodeDelta(s, ev, i, ev.item.kind, ev.item.text)
         [] OTHER -> EncodeWholeItem(s, ev, i)

\* _close_open_output_items: the snapshots of the parts of an open item, then the item.
CloseItem(e, i) ==
    LET item == e.output[i]
        told == SelectSeq([k \in DOMAIN item.content |-> k], LAMBDA k : <<i, k - 1>> \in e.parts)
        parts == [j \in DOMAIN told |->
                     [type |-> "part.done", index |-> i, part |-> told[j] - 1, text |-> item.content[told[j]].text]]
        args == IF item.of = "function_call"
                THEN <<[type |-> "arguments.done", index |-> i, text |-> item.args]>> ELSE <<>>
        done == IF i \in e.announced THEN <<[type |-> "output_item.done", index |-> i, item |-> item]>>
                ELSE <<>>
    IN Put([e EXCEPT !.completed = @ \cup {i}], parts \o args \o done)

\* _response: the output is all the items, those that were told before too.
ResponseSnapshot(e, status) ==
    [type |-> "response.terminal", status |-> status, output |-> e.output, usage |-> e.usage]

EncodeResponseTerminal(e, ev) ==
    LET t == IF e.error # NoTerminal THEN e.error ELSE ev.terminal
        status == IF t.error THEN "failed" ELSE t.status
        open == SetToSortSeq(DOMAIN e.output \ e.completed, <)
    IN AndThen(Run(CloseItem, e, open), LAMBDA s :
           Check(status \in {"completed", "incomplete", "failed", "cancelled"},
                 Put([s EXCEPT !.terminal = TRUE], <<ResponseSnapshot(s, status)>>)))

EncodeResponses(e, ev) ==
    CASE e.terminal -> Reject(e)
      [] ev.type = "response_started" -> EnsureCreated(e)
      [] ev.type = "error" -> Quiet([e EXCEPT !.error = ev.terminal])
      [] ev.type = "usage" -> Quiet([e EXCEPT !.usage = TRUE])
      [] ev.type = "terminal" -> EncodeResponseTerminal(e, ev)
      [] OTHER -> AndThen(EnsureCreated(e), LAMBDA s : EncodePayload(s, ev))
=============================================================================
