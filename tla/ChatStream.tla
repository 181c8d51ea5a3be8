----------------------------- MODULE ChatStream -----------------------------
(***************************************************************************)
(* The stream codecs of Chat Completions (protocols/openai_chat.py):       *)
(* OpenAIChatStreamDecoder and OpenAIChatStreamEncoder.  A chunk holds at  *)
(* most one of each kind of delta, and may hold the finish reason and the  *)
(* usage beside them.                                                      *)
(***************************************************************************)
EXTENDS SemanticEvents

LOCAL INSTANCE Functions
LOCAL INSTANCE TLC

-----------------------------------------------------------------------------
\* The decoder.  identity is the response ID the stream has shown.

ChatDecoder ==
    [started |-> FALSE, terminal |-> FALSE, tail |-> FALSE, identity |-> None, calls |-> <<>>]

\* _decode_identity: the identity may be left out, and may not change.
SameIdentity(d, f) == f.identity = None \/ d.identity \in {None, f.identity}
WithIdentity(d, f) == IF f.identity = None THEN d ELSE [d EXCEPT !.identity = f.identity]

\* The opaque reasoning of a chunk needs an item ID; it carries one of its own if it is private.
ReasoningDeltas(f) ==
    LET item == [Event("output_item") EXCEPT !.id = f.thinking, !.of = "reasoning", !.done = "yes"]
    IN IF f.signed THEN <<[item EXCEPT !.item = ReasoningItem(<<>>, "chat")]>>
       ELSE IF f.thinking # None THEN <<item>> ELSE <<>>

\* The fragments of a call name it once; the decoder remembers it by its index.
CallDelta(calls, f) ==
    LET call == IF f.call # None THEN f.call
                ELSE IF f.tool \in DOMAIN calls THEN calls[f.tool] ELSE None
    IN [Event("tool_arguments_delta") EXCEPT
            !.id = call, !.call = call, !.named = call # None, !.tool = f.tool, !.delta = f.args]

\* _decode_delta
ChatDeltas(d, f) ==
    (IF f.reasoning = <<>> THEN <<>>
     ELSE <<[Event("reasoning_delta") EXCEPT !.delta = f.reasoning]>>)
    \o (IF f.content = <<>> THEN <<>> ELSE <<[Event("text_delta") EXCEPT !.delta = f.content]>>)
    \o (IF f.refusal = <<>> THEN <<>>
        ELSE <<[Event("output_item") EXCEPT !.item = RefusalItem(f.refusal)]>>)
    \o ReasoningDeltas(f)
    \o (IF f.tool = NoIndex THEN <<>> ELSE <<CallDelta(d.calls, f)>>)

\* _decode_post_terminal_usage: one frame of usage alone, if the finish brought none.
DecodeTail(d, f) ==
    Check(d.tail /\ f.type = "usage" /\ SameIdentity(d, f),
          Put([WithIdentity(d, f) EXCEPT !.tail = FALSE], <<UsageEvent>>))

\* A chunk: the start of the stream if it is the first, its deltas, its usage, its finish.
DecodeChunk(d, f) ==
    LET begun == IF d.started THEN <<>> ELSE <<Started>>
        deltas == IF f.type = "usage" THEN <<>> ELSE ChatDeltas(d, f)
        usage == IF f.usage THEN <<UsageEvent>> ELSE <<>>
        finish == IF f.finish = None THEN <<>> ELSE <<TerminalEvent(Reasoned(f.finish))>>
        calls == IF f.tool # NoIndex /\ f.call # None THEN (f.tool :> f.call) @@ d.calls ELSE d.calls
    IN Check(SameIdentity(d, f) /\ (f.signed => f.thinking # None),
             Put([WithIdentity(d, f) EXCEPT
                      !.started = TRUE, !.calls = calls, !.terminal = f.finish # None,
                      !.tail = f.finish # None /\ ~f.usage],
                 begun \o deltas \o usage \o finish))

DecodeChat(d, f) ==
    CASE f.type = "unknown" -> Reject(d)
      [] d.terminal /\ f.type # "unknown" -> DecodeTail(d, f)
      [] ~d.terminal /\ f.type = "error" -> Put([d EXCEPT !.terminal = TRUE], Broken("failed"))
      [] OTHER -> DecodeChunk(d, f)

FinishChat(d) == IF d.terminal THEN <<>> ELSE Broken("unknown")

-----------------------------------------------------------------------------
\* The encoder.  It keeps no account of what it sent.

ChatEncoder == [started |-> FALSE, terminal |-> FALSE, error |-> NoTerminal]

Chunk(field, text) == [type |-> "chunk", field |-> field, text |-> text]
ToolChunk(i, call, text) ==
    [type |-> "chunk", field |-> "tool", index |-> i, call |-> call, text |-> text]

EnsureChatStarted(e) ==
    IF e.started THEN Quiet(e) ELSE Put([e EXCEPT !.started = TRUE], <<Chunk("role", <<>>)>>)

CallIndex(ev) == IF ev.index = NoIndex THEN 0 ELSE ev.index

\* _event_deltas: a whole call is sent as it is; Chat has no item IDs.
EventDeltas(e, ev) ==
    LET item == ev.item
    IN CASE ev.type = "text_delta" -> Put(e, <<Chunk("content", ev.delta)>>)
         [] ev.type = "reasoning_delta" -> Put(e, <<Chunk("reasoning", ev.delta)>>)
         [] ev.type = "tool_arguments_delta" ->
                Put(e, <<ToolChunk(CallIndex(ev), IF ev.id # None THEN ev.id ELSE ev.call, ev.delta)>>)
         [] item.kind = None -> Quiet(e)
         [] item.kind = "text" -> Put(e, <<Chunk("content", item.text)>>)
         [] item.kind = "refusal" -> Put(e, <<Chunk("refusal", item.text)>>)
         [] item.kind = "reasoning" -> Put(e, <<Chunk("reasoning", item.text)>>)
         [] OTHER -> Check(item.item = None,
                           Put(e, <<ToolChunk(CallIndex(ev), item.call, AsText(item.args))>>))

EncodeChatTerminal(e, ev) ==
    LET t == IF e.error # NoTerminal THEN e.error ELSE ev.terminal
        over == [e EXCEPT !.terminal = TRUE]
    IN IF IsFailure(t) THEN Put(over, <<[type |-> "error"]>>)
       ELSE AndThen(EnsureChatStarted(over), LAMBDA s :
                Put(s, <<[type |-> "finish", stop |-> IF t.reason = None THEN "stop" ELSE t.reason]>>))

EncodeChat(e, ev) ==
    CASE e.terminal -> Reject(e)
      [] ev.type = "response_started" -> EnsureChatStarted(e)
      [] ev.type = "error" -> Quiet([e EXCEPT !.error = ev.terminal])
      [] ev.type = "terminal" -> EncodeChatTerminal(e, ev)
      [] ev.type = "usage" ->
             AndThen(EnsureChatStarted(e), LAMBDA s : Put(s, <<[type |-> "usage"]>>))
      [] OTHER -> AndThen(EnsureChatStarted(e), LAMBDA s : EventDeltas(s, ev))
=============================================================================
