------------------------------ MODULE Upstreams ------------------------------
(***************************************************************************)
(* What an upstream may send in each protocol, as src/ uses it: the frames *)
(* of an answer that keeps to its protocol, an error frame, and for        *)
(* Responses a snapshot that contradicts what came before.  An upstream    *)
(* counts what it has said, so that every token of a channel is different  *)
(* from the others and a lost, repeated or moved one shows.                *)
(***************************************************************************)
EXTENDS SemanticEvents

CONSTANTS MaxItems,   \* the blocks, items or calls of an answer
          MaxPieces   \* the deltas of one of them, and those of a Chat or Gemini answer that are no calls

ASSUME UpstreamBounds == MaxItems \in 0 .. 2 /\ MaxPieces \in Nat

LOCAL INSTANCE SequencesExt

Shut == [of |-> None, call |-> None, stage |-> 0, pieces |-> 0, here |-> <<>>, signed |-> FALSE]

\* said.calls are the argument texts of the calls in their order; reason is how the answer ends,
\* and ended how it had ended before an error came all the same; odd says that a frame was unknown.
Upstream ==
    [begun |-> FALSE, over |-> FALSE, ended |-> None, odd |-> FALSE,
     next |-> 0, open |-> Shut, items |-> <<>>, pieces |-> 0, tail |-> FALSE,
     said |-> [text |-> <<>>, thought |-> <<>>, calls |-> <<>>, usage |-> FALSE, reason |-> None,
               secret |-> FALSE, late |-> FALSE, refused |-> FALSE, blank |-> FALSE]]

CallName(k) == <<"call1", "call2">>[k]
Token(u, channel) == <<Len(u.said[channel]) + 1>>
Says(u, channel, text) ==
    [u EXCEPT !.said[channel] = @ \o text, !.said.late = @ \/ u.next > 0, !.pieces = @ + 1]
Offer(f, u) == [frame |-> f, up |-> u]
Fails(u) ==
    [u EXCEPT !.over = TRUE, !.ended = IF u.over THEN u.said.reason ELSE None, !.said.reason = "error"]
Ends(u, reason, usage) == [u EXCEPT !.over = TRUE, !.said.reason = reason, !.said.usage = @ \/ usage]
HasBlank(u) == \E k \in DOMAIN u.said.calls : u.said.calls[k] = <<>>

\* One more piece of the arguments of the last call; its tokens are told apart from those of others,
\* and those of the second call hold arrays.
LastCall(u) == Len(u.said.calls)
ArgToken(u) ==
    LET token == 10 * LastCall(u) + Len(u.said.calls[LastCall(u)]) + 1
    IN <<IF LastCall(u) = 2 THEN -token ELSE token>>
Argues(u, text) == [u EXCEPT !.said.calls[LastCall(u)] = @ \o text, !.pieces = @ + 1]
Calls(u) == [u EXCEPT !.said.calls = Append(@, <<>>)]

-----------------------------------------------------------------------------
\* Messages: blocks one after the other.

MessagesFrame(type) ==
    [type |-> type, index |-> 0, block |-> None, call |-> None, text |-> <<>>, signed |-> FALSE,
     delta |-> None, stop |-> None, usage |-> FALSE]

OpensBlock(u, of) ==
    LET v == IF of = "tool_use" THEN Calls(u) ELSE u
        call == IF of = "tool_use" THEN CallName(LastCall(v)) ELSE None
        signed == of = "redacted_thinking"
    IN Offer([MessagesFrame("content_block_start") EXCEPT
                  !.index = u.next, !.block = of, !.call = call, !.signed = signed],
             [v EXCEPT !.open = [Shut EXCEPT !.of = of, !.call = call, !.signed = signed],
                       !.said.secret = @ \/ signed])

BlockPieces(u) ==
    LET delta(kind, text) ==
            [MessagesFrame("content_block_delta") EXCEPT !.index = u.next, !.delta = kind, !.text = text]
        piece(v) == [v EXCEPT !.open.pieces = @ + 1]
    IN CASE u.open.of = "text" ->
                {Offer(delta("text_delta", Token(u, "text")), piece(Says(u, "text", Token(u, "text"))))}
         [] u.open.of = "thinking" ->
                {Offer(delta("thinking_delta", Token(u, "thought")), piece(Says(u, "thought", Token(u, "thought"))))}
         [] u.open.of = "tool_use" ->
                {Offer(delta("input_json_delta", t), piece(Argues(u, t))) : t \in {<<>>, ArgToken(u)}}
         [] OTHER -> {}

SignsBlock(u) ==
    Offer([MessagesFrame("content_block_delta") EXCEPT !.index = u.next, !.delta = "signature_delta"],
          [u EXCEPT !.open.signed = TRUE, !.said.secret = TRUE])
StopsBlock(u) ==
    Offer([MessagesFrame("content_block_stop") EXCEPT !.index = u.next],
          [u EXCEPT !.open = Shut, !.next = @ + 1,
                    !.said.blank = @ \/ (u.open.of = "tool_use" /\ u.open.pieces > 0
                                         /\ u.said.calls[LastCall(u)] = <<>>)])

MessageReasons(u) == {"end_turn", "max_tokens"} \cup IF u.said.calls = <<>> THEN {"refusal"} ELSE {"tool_use"}
ReasonOf == [end_turn |-> "stop", max_tokens |-> "length", tool_use |-> "tool_calls", refusal |-> "content_filter"]

MessagesOffers(u) ==
    CASE ~u.begun ->
             {Offer([MessagesFrame("message_start") EXCEPT !.usage = TRUE], [u EXCEPT !.begun = TRUE]),
              Offer(MessagesFrame("ping"), u)}
      [] u.open # Shut ->
             (IF u.open.pieces < MaxPieces THEN BlockPieces(u) ELSE {})
             \cup (IF u.open.of = "thinking" /\ ~u.open.signed THEN {SignsBlock(u)} ELSE {})
             \cup {StopsBlock(u)}
      [] u.said.reason # None -> {Offer(MessagesFrame("message_stop"), [u EXCEPT !.over = TRUE])}
      [] OTHER ->
             {OpensBlock(u, of) : of \in IF u.next < MaxItems
                                         THEN {"text", "thinking", "redacted_thinking", "tool_use"} ELSE {}}
             \cup {Offer([MessagesFrame("message_delta") EXCEPT !.stop = stop, !.usage = TRUE],
                         [u EXCEPT !.said.reason = ReasonOf[stop], !.said.usage = TRUE]) :
                       stop \in MessageReasons(u)}

-----------------------------------------------------------------------------
\* Chat: one delta at a time; the calls one after the other; usage with the finish, after it or never.

ChatFrame ==
    [type |-> "chunk", identity |-> "response", reasoning |-> <<>>, content |-> <<>>, refusal |-> <<>>,
     signed |-> FALSE, thinking |-> None, tool |-> NoIndex, call |-> None, args |-> <<>>, usage |-> FALSE,
     finish |-> None]

\* What an answer says is text or a refusal and not both.
ChatPieces(u) ==
    LET text == Token(u, "text")
        thought == Token(u, "thought")
        started(v) == [v EXCEPT !.begun = TRUE]
    IN {Offer([ChatFrame EXCEPT !.reasoning = thought], started(Says(u, "thought", thought))),
        Offer([ChatFrame EXCEPT !.thinking = "thinking", !.signed = TRUE],
              [started(Says(u, "thought", <<>>)) EXCEPT !.said.secret = TRUE])}
       \cup (IF u.said.refused THEN {}
             ELSE {Offer([ChatFrame EXCEPT !.content = text], started(Says(u, "text", text)))})
       \cup (IF u.said.text # <<>> /\ ~u.said.refused THEN {}
             ELSE {Offer([ChatFrame EXCEPT !.refusal = text],
                         [started(Says(u, "text", text)) EXCEPT !.said.refused = TRUE])})

ChatCalls(u) ==
    LET v == Calls(u)
    IN (IF LastCall(u) < MaxItems
        THEN {Offer([ChatFrame EXCEPT !.tool = LastCall(v) - 1, !.call = CallName(LastCall(v)), !.args = t],
                    [Argues(v, t) EXCEPT !.begun = TRUE, !.pieces = u.pieces]) : t \in {<<>>, ArgToken(v)}}
        ELSE {})
       \cup (IF LastCall(u) > 0 /\ Len(u.said.calls[LastCall(u)]) < MaxPieces
             THEN {Offer([ChatFrame EXCEPT !.tool = LastCall(u) - 1, !.args = ArgToken(u)],
                         [Argues(u, ArgToken(u)) EXCEPT !.pieces = u.pieces])}
             ELSE {})

\* A call whose fragments were all empty has no arguments that are an object: an upstream ends it.
Blanks(u) == [u EXCEPT !.said.blank = HasBlank(u)]

ChatReasons(u) ==
    IF HasBlank(u) THEN {"length"}
    ELSE {"stop", "length"} \cup IF u.said.calls = <<>> THEN {"content_filter"} ELSE {"tool_calls"}

ChatOffers(u) ==
    IF u.tail
    THEN {Offer([ChatFrame EXCEPT !.type = "usage", !.usage = TRUE],
                [u EXCEPT !.tail = FALSE, !.over = TRUE, !.said.usage = TRUE])}
    ELSE (IF u.pieces <= MaxPieces THEN ChatPieces(u) ELSE {})
         \cup ChatCalls(u)
         \cup {Offer([ChatFrame EXCEPT !.finish = r, !.usage = TRUE], Ends(Blanks(u), r, TRUE)) : r \in ChatReasons(u)}
         \cup {Offer([ChatFrame EXCEPT !.finish = r],
                     [Ends(Blanks(u), r, FALSE) EXCEPT !.over = FALSE, !.tail = TRUE]) : r \in ChatReasons(u)}

-----------------------------------------------------------------------------
\* Gemini: one part at a time; a prompt may be blocked.  All parts have one output index, which the
\* encoders cannot tell apart: the answers here are text, or thoughts, or one call.  No upstream of
\* the project speaks Gemini.

NoPart == [kind |-> None, text |-> <<>>, signed |-> FALSE, call |-> None]
GeminiFrame == [type |-> "candidate", part |-> NoPart, usage |-> FALSE, finish |-> None, blocked |-> FALSE]
GeminiPart(kind, text, signed, call) ==
    [GeminiFrame EXCEPT !.part = [kind |-> kind, text |-> text, signed |-> signed, call |-> call]]

GeminiOffers(u) ==
    LET text == Token(u, "text")
        thought == Token(u, "thought")
        v == Calls(u)
        begun(w) == [w EXCEPT !.begun = TRUE]
        only(channel) == \A c \in {"text", "thought", "calls"} \ {channel} : u.said[c] = <<>>
    IN (IF u.pieces <= MaxPieces /\ only("text")
        THEN {Offer(GeminiPart("text", text, FALSE, None), begun(Says(u, "text", text)))} ELSE {})
       \cup (IF u.pieces <= MaxPieces /\ only("thought")
             THEN {Offer(GeminiPart("thought", thought, FALSE, None), begun(Says(u, "thought", thought))),
                   Offer(GeminiPart("thought", thought, TRUE, None),
                         [begun(Says(u, "thought", thought)) EXCEPT !.said.secret = TRUE])}
             ELSE {})
       \cup (IF u.said.calls = <<>> /\ only("calls")
             THEN {Offer(GeminiPart("call", t, FALSE, CallName(1)), begun(Argues(v, t))) : t \in {<<>>, ArgToken(v)}}
             ELSE {})
       \cup {Offer([GeminiFrame EXCEPT !.finish = r, !.usage = TRUE], Ends(u, r, TRUE)) :
                 r \in {"stop", "length", "content_filter"}}
       \cup (IF u.begun THEN {} ELSE {Offer([GeminiFrame EXCEPT !.blocked = TRUE], Ends(u, "content_filter", FALSE))})

-----------------------------------------------------------------------------
(***************************************************************************)
(* Responses: items one after the other.  stage counts how far the open    *)
(* item is: 1 added, 2 its part added, 3 its text or arguments done, 4 its *)
(* part done.  Every stage but the last may be left out, and a snapshot    *)
(* may bring text that no delta has brought.                               *)
(***************************************************************************)
ResponsesFrame(type) == [type |-> type]
Channel(u) == IF u.open.of = "reasoning" THEN "reasoning" ELSE "text"
Told(u) == IF u.open.of = "reasoning" THEN "thought" ELSE "text"

AsItem(u) ==
    [index |-> u.next, of |-> u.open.of, call |-> u.open.call, args |-> IF u.open.of = "function_call"
                                                                         THEN u.said.calls[LastCall(u)] ELSE <<>>,
     texts |-> IF u.open.of = "function_call" \/ u.open.stage < 2 THEN <<>> ELSE <<u.open.here>>,
     channel |-> Channel(u), signed |-> u.open.signed]

OpensItem(u, of) ==
    LET v == IF of = "function_call" THEN Calls(u) ELSE u
        call == IF of = "function_call" THEN CallName(LastCall(v)) ELSE None
        w == [v EXCEPT !.open = [Shut EXCEPT !.of = of, !.call = call, !.stage = 1]]
    IN Offer([type |-> "output_item", done |-> FALSE,
              item |-> [AsItem(w) EXCEPT !.args = <<>>, !.texts = <<>>]], w)

PartFrame(u, type, text, done) ==
    [type |-> type, channel |-> Channel(u), index |-> u.next, part |-> 0, text |-> text, done |-> done]
PartType(u) == IF u.open.of = "reasoning" THEN "summary_part" ELSE "content_part"

\* The text a snapshot may tell: what the deltas told, or one token more.
Snapshots(u) ==
    {u, [Says(u, Told(u), Token(u, Told(u))) EXCEPT !.open.here = @ \o Token(u, Told(u))]}
Wrong == <<99>>

TextItemOffers(u) ==
    LET o == u.open
        more == IF o.stage \in {2} /\ o.pieces < MaxPieces
                THEN {Offer(PartFrame(u, "delta", Token(u, Told(u)), FALSE),
                            [Says(u, Told(u), Token(u, Told(u))) EXCEPT
                                 !.open.pieces = @ + 1, !.open.here = @ \o Token(u, Told(u))])}
                ELSE {}
        part == IF o.stage = 1
                THEN {Offer(PartFrame(u, PartType(u), <<>>, FALSE), [u EXCEPT !.open.stage = 2])} ELSE {}
        done == IF o.stage = 2
                THEN {Offer(PartFrame(v, "text.done", v.open.here, TRUE), [v EXCEPT !.open.stage = 3]) :
                          v \in {w \in Snapshots(u) : w.open.here # <<>>}}
                     \cup (IF o.here = <<>> THEN {} ELSE {Offer(PartFrame(u, "text.done", Wrong, TRUE), Fails(u))})
                ELSE {}
        partDone == IF o.stage = 3
                    THEN {Offer(PartFrame(u, PartType(u), o.here, TRUE), [u EXCEPT !.open.stage = 4])} ELSE {}
    IN more \cup part \cup done \cup partDone

CallItemOffers(u) ==
    LET args == [type |-> "arguments.delta", index |-> u.next, text |-> ArgToken(u)]
        done == [type |-> "arguments.done", index |-> u.next, part |-> NoIndex]
    IN (IF u.open.stage = 1 /\ u.open.pieces < MaxPieces
        THEN {Offer(args, [Argues(u, ArgToken(u)) EXCEPT !.open.pieces = @ + 1])} ELSE {})
       \cup (IF u.open.stage = 1 /\ u.said.calls[LastCall(u)] # <<>>
             THEN {Offer(done, [u EXCEPT !.open.stage = 3])} ELSE {})

\* The item is done; it may carry the encrypted content of its reasoning.
ItemEnds(u) ==
    LET ends(v) == [v EXCEPT !.items = Append(@, AsItem(v)), !.next = @ + 1, !.open = Shut,
                               !.said.late = @ \/ (u.open.of = "reasoning" /\ u.next > 0)]
        signed == {[v EXCEPT !.open.signed = TRUE, !.said.secret = TRUE] :
                       v \in IF u.open.of = "reasoning" THEN {u} ELSE {}}
        whole == IF u.open.of = "function_call" THEN {u} ELSE {u} \cup signed
    IN {Offer([type |-> "output_item", done |-> TRUE, item |-> AsItem(v)], ends(v)) : v \in whole}

ResponseTerminal(u, status, reason, error) ==
    [type |-> "response.terminal", status |-> status, reason |-> reason, error |-> error, output |-> u.items,
     usage |-> TRUE]

ResponseEnds(u) ==
    LET finish == IF u.said.calls = <<>> THEN "stop" ELSE "tool_calls"
    IN {Offer(ResponseTerminal(u, "completed", None, FALSE), Ends(u, finish, TRUE)),
        Offer(ResponseTerminal(u, "incomplete", "length", FALSE), Ends(u, "length", TRUE)),
        Offer(ResponseTerminal(u, "failed", None, TRUE), Fails(u))}

\* An item may be told by the terminal alone.
TerminalOnly(u) ==
    IF u.open.of = "message" /\ u.open.here # <<>>
    THEN {Offer(o.frame, [o.up EXCEPT !.open = Shut]) :
              o \in ResponseEnds([u EXCEPT !.items = Append(@, AsItem(u))])}
    ELSE {}

\* The answer may begin without a frame that says so: with its first item, or with the first
\* delta of one that was not told to begin.
BeginsAtOnce(u) ==
    LET begun == [u EXCEPT !.begun = TRUE]
        of(o) == [begun EXCEPT !.open = [Shut EXCEPT !.of = o, !.stage = 2]]
    IN {OpensItem(begun, o) : o \in {"message", "reasoning", "function_call"}}
       \cup UNION {{o \in TextItemOffers(of(w)) : o.frame.type = "delta"} : w \in {"message", "reasoning"}}

ResponsesOffers(u) ==
    CASE ~u.begun ->
             {Offer(ResponsesFrame("response.created"), [u EXCEPT !.begun = TRUE])}
             \cup IF MaxItems > 0 THEN BeginsAtOnce(u) ELSE {}
      [] u.open # Shut ->
             (IF u.open.of = "function_call" THEN CallItemOffers(u) ELSE TextItemOffers(u))
             \cup ItemEnds(u) \cup TerminalOnly(u)
      [] OTHER ->
             {OpensItem(u, of) : of \in IF u.next < MaxItems
                                        THEN {"message", "reasoning", "function_call"} ELSE {}}
             \cup ResponseEnds(u)

-----------------------------------------------------------------------------
ErrorFrame(p) == IF p = "chat" THEN [ChatFrame EXCEPT !.type = "error"] ELSE [type |-> "error"]

\* The frames an upstream may send next: one more of its answer, one of a type that nobody
\* knows, or an error, even after its end.
Offers(p, u) ==
    (IF u.said.reason = "error" THEN {} ELSE {Offer(ErrorFrame(p), Fails(u))})
    \cup (IF u.odd \/ u.over THEN {} ELSE {Offer([type |-> "unknown"], [u EXCEPT !.odd = TRUE])})
    \cup (CASE u.over -> {}
            [] p = "messages" -> MessagesOffers(u)
            [] p = "chat" -> ChatOffers(u)
            [] p = "gemini" -> GeminiOffers(u)
            [] p = "responses" -> ResponsesOffers(u))
=============================================================================
