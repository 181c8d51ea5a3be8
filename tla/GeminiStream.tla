---------------------------- MODULE GeminiStream ----------------------------
(***************************************************************************)
(* The stream codecs of Gemini (protocols/gemini.py): GeminiStreamDecoder  *)
(* and GeminiStreamEncoder.  A Gemini call is one part with its whole      *)
(* argument object, so the encoder gathers the fragments of a call before  *)
(* it tells it.                                                            *)
(***************************************************************************)
EXTENDS SemanticEvents

LOCAL INSTANCE SequencesExt
LOCAL INSTANCE Functions

-----------------------------------------------------------------------------
\* The decoder.  Every part of every frame has output index 0.

GeminiDecoder == [started |-> FALSE, terminal |-> FALSE]

\* _part_events: visible reasoning first, its opaque state after it without the text.
PartEvents(part) ==
    LET event(type) == [Event(type) EXCEPT !.index = 0, !.delta = part.text]
        item == [Event("output_item") EXCEPT !.index = 0]
    IN CASE part.kind = "text" -> <<event("text_delta")>>
         [] part.kind = "thought" ->
                (IF part.text = <<>> THEN <<>> ELSE <<event("reasoning_delta")>>)
                \o (IF ~part.signed THEN <<>>
                    ELSE <<[item EXCEPT !.id = "part", !.of = "reasoning",
                                        !.item = ReasoningItem(<<>>, "gemini")]>>)
         [] OTHER -> <<[item EXCEPT !.id = part.call, !.of = "function_call",
                                    !.item = ToolItem(part.call, part.call, part.text)]>>

\* A frame: the start of the stream, the parts of its candidate, its usage, its finish.  A
\* blocked prompt is a terminal and has no candidate; a candidate with content has parts.
DecodeCandidate(d, f) ==
    LET begun == IF d.started THEN <<>> ELSE <<Started>>
        parts == IF f.part.kind = None THEN <<>> ELSE PartEvents(f.part)
        usage == IF f.usage THEN <<UsageEvent>> ELSE <<>>
        reason == IF f.blocked THEN "content_filter" ELSE f.finish
        finish == IF reason = None THEN <<>> ELSE <<TerminalEvent(Reasoned(reason))>>
    IN Check(f.blocked => f.part.kind = None /\ f.finish = None,
             Put([started |-> TRUE, terminal |-> reason # None], begun \o parts \o usage \o finish))

DecodeGemini(d, f) ==
    CASE d.terminal -> Reject(d)
      [] f.type = "error" -> Put([d EXCEPT !.terminal = TRUE], Broken("failed"))
      [] f.type = "unknown" -> Reject(d)
      [] OTHER -> DecodeCandidate(d, f)

FinishGemini(d) == IF d.terminal THEN <<>> ELSE Broken("unknown")

-----------------------------------------------------------------------------
\* The encoder.  calls are the calls it gathers, told are those it has told.

GeminiEncoder == [terminal |-> FALSE, error |-> NoTerminal, calls |-> <<>>, told |-> {}]

NoCall == [call |-> None, named |-> FALSE, seed |-> <<>>, streamed |-> FALSE, text |-> <<>>]
PendingCall(e, i) == IF i \in DOMAIN e.calls THEN e.calls[i] ELSE NoCall
ToolIndex(ev) == IF ev.index = NoIndex THEN 0 ELSE ev.index

Part(kind, call, text) == [type |-> "part", kind |-> kind, call |-> call, text |-> text]

\* _capture_tool_item
CaptureItem(e, ev) ==
    LET i == ToolIndex(ev)
        c == [PendingCall(e, i) EXCEPT !.call = ev.item.call, !.named = TRUE, !.seed = ev.item.args]
    IN Check(i \notin e.told, Quiet([e EXCEPT !.calls = (i :> c) @@ @]))

\* _capture_tool_delta: the fragments of one buffer belong to one call.
CaptureDelta(e, ev) ==
    LET i == ToolIndex(ev)
        p == PendingCall(e, i)
        call == IF ev.call # None THEN ev.call ELSE ev.id
        c == [p EXCEPT !.call = IF call = None THEN @ ELSE call, !.named = @ \/ ev.named,
                       !.streamed = TRUE, !.text = @ \o ev.delta]
    IN Check(i \notin e.told /\ (call = None \/ p.call \in {None, call}),
             Quiet([e EXCEPT !.calls = (i :> c) @@ @]))

\* _tool_arguments: what was streamed must be an object, and the one that was seeded if one was; a
\* seeded array was frozen to a tuple, which is equal to no array.
ArgumentsFit(c) ==
    c.streamed => IsObject(c.text) /\ (c.seed # <<>> => c.seed = AsObject(c.text) /\ ~HasArray(c.seed))
Arguments(c) == IF c.streamed THEN AsObject(c.text) ELSE c.seed

\* _flush_tool_calls
FlushCalls(e, due) ==
    LET order == SetToSortSeq(due, <)
        part(k) == LET c == e.calls[order[k]] IN Part("call", c.call, AsText(Arguments(c)))
    IN IF due = {} THEN Quiet(e)
       ELSE Check(\A i \in due : e.calls[i].named /\ ArgumentsFit(e.calls[i]),
                  Put([e EXCEPT !.calls = Restrict(@, DOMAIN @ \ due), !.told = @ \cup due],
                      [k \in DOMAIN order |-> part(k)]))

IsToolKind(of) == of \in {"function_call", "custom_tool_call", "tool_use"}

\* _encode_part: there is one candidate, and no refusals.
EncodePart(e, ev, Sealable) ==
    LET item == ev.item
    IN CASE ev.index \notin {NoIndex, 0} -> Reject(e)
         [] ev.type = "text_delta" -> Put(e, <<Part("text", None, ev.delta)>>)
         [] ev.type = "reasoning_delta" -> Put(e, <<Part("thought", None, ev.delta)>>)
         [] item.kind = "text" -> Put(e, <<Part("text", None, item.text)>>)
         [] item.kind = "reasoning" ->
                Check(item.origin \in {None} \cup Sealable, Put(e, <<Part("thought", None, item.text)>>))
         [] OTHER -> Reject(e)

EncodeGeminiItem(e, ev, Sealable) ==
    LET mine == {ToolIndex(ev)} \cap DOMAIN e.calls
    IN CASE ev.item.kind = None ->
                IF ev.done = "yes" /\ IsToolKind(ev.of) THEN FlushCalls(e, mine) ELSE Quiet(e)
         [] ev.item.kind = "tool" ->
                AndThen(CaptureItem(e, ev), LAMBDA s :
                    IF ev.done = "yes" THEN FlushCalls(s, {ToolIndex(ev)}) ELSE Quiet(s))
         [] OTHER -> EncodePart(e, ev, Sealable)

\* _FINISH_FROM_SEMANTIC: Gemini does not tell that it ends for its calls.
GeminiFinish(reason) == IF reason \in {None, "tool_calls"} THEN "stop" ELSE reason

\* A terminal that leaves the gathered calls behind.
TerminalAlone(e, ev) ==
    Put([e EXCEPT !.terminal = TRUE],
        IF IsFailure(ev.terminal) \/ e.error # NoTerminal THEN <<[type |-> "error"]>>
        ELSE <<[type |-> "finish", stop |-> GeminiFinish(ev.terminal.reason)]>>)

EncodeGeminiTerminal(e, ev) ==
    LET t == IF e.error # NoTerminal THEN e.error ELSE ev.terminal
        over(s) == [s EXCEPT !.terminal = TRUE]
    IN IF IsFailure(t) THEN Put(over(e), <<[type |-> "error"]>>)
       ELSE AndThen(FlushCalls(e, DOMAIN e.calls), LAMBDA s :
                Put(over(s), <<[type |-> "finish", stop |-> GeminiFinish(t.reason)]>>))

EncodeGemini(e, ev, Sealable) ==
    CASE e.terminal -> Reject(e)
      [] ev.type = "response_started" -> Quiet(e)
      [] ev.type = "error" -> Quiet([e EXCEPT !.error = ev.terminal])
      [] ev.type = "terminal" -> EncodeGeminiTerminal(e, ev)
      [] ev.type = "usage" ->
             AndThen(FlushCalls(e, DOMAIN e.calls), LAMBDA s : Put(s, <<[type |-> "usage"]>>))
      [] ev.type = "tool_arguments_delta" -> CaptureDelta(e, ev)
      [] ev.type = "output_item" -> EncodeGeminiItem(e, ev, Sealable)
      [] OTHER -> EncodePart(e, ev, Sealable)
=============================================================================
