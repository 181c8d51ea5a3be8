-------------------------- MODULE StreamConversion --------------------------
(***************************************************************************)
(* One stream of an upstream as clients are told it by the response bridge *)
(* (server/response_bridge.py, encode_stream), after the dispatcher has    *)
(* looked at its first frame (server/dispatcher.py).  It is converted, by  *)
(* the decoder of the upstream's protocol and the encoder of a client's,   *)
(* for a client of each other protocol, so that a run compares the         *)
(* conversions of the same answer; or it is passed on frame by frame to a  *)
(* client of its own protocol.                                             *)
(***************************************************************************)
EXTENDS Upstreams, StreamReaders

LOCAL INSTANCE SequencesExt
LOCAL INSTANCE FiniteSetsExt

M == INSTANCE MessagesStream
C == INSTANCE ChatStream
G == INSTANCE GeminiStream
R == INSTANCE ResponsesStream

CONSTANT Sources      \* the protocols of the upstreams

Protocols == {"messages", "chat", "gemini", "responses"}
ASSUME SourceProtocols == Sources \subseteq Protocols

VARIABLES source,     \* the protocol of the upstream
          up,         \* the upstream
          decoder,    \* the state of its decoder
          pending,    \* the terminal that is held back until the stream ends
          clients,    \* for every other protocol the encoder and what the client has read;
                      \* or the client of the same protocol and what the bridge knows of its end
          closed      \* the bridge reads no more

vars == <<source, up, decoder, pending, clients, closed>>

\* The runtimes whose opaque reasoning has a provider and a binding, without which it is not sealed.
Sealable == {"responses", "chat"}

Decoder(p, deferred) ==
    CASE p = "messages" -> M!MessagesDecoder
      [] p = "chat" -> C!ChatDecoder
      [] p = "gemini" -> G!GeminiDecoder
      [] p = "responses" -> R!ResponsesDecoder(deferred)

Decode(d, f) ==
    CASE source = "messages" -> M!DecodeMessages(d, f)
      [] source = "chat" -> C!DecodeChat(d, f)
      [] source = "gemini" -> G!DecodeGemini(d, f)
      [] source = "responses" -> R!DecodeResponses(d, f)

Finish(d) ==
    CASE source = "messages" -> M!FinishMessages(d)
      [] source = "chat" -> C!FinishChat(d)
      [] source = "gemini" -> G!FinishGemini(d)
      [] source = "responses" -> R!FinishResponses(d)

Encoder(q) ==
    CASE q = "messages" -> M!MessagesEncoder
      [] q = "chat" -> C!ChatEncoder
      [] q = "gemini" -> G!GeminiEncoder
      [] q = "responses" -> R!ResponsesEncoder

Encode(q, e, event) ==
    CASE q = "messages" -> M!EncodeMessages(e, event, Sealable)
      [] q = "chat" -> C!EncodeChat(e, event)
      [] q = "gemini" -> G!EncodeGemini(e, event, Sealable)
      [] q = "responses" -> R!EncodeResponses(e, event)

-----------------------------------------------------------------------------
Passing == [ended |-> FALSE, tail |-> FALSE]

Init ==
    /\ source \in Sources
    /\ up = Upstream
    /\ clients \in {[q \in Protocols \ {source} |-> [encoder |-> Encoder(q), reader |-> NewReader]],
                    [q \in {source} |-> [encoder |-> Passing, reader |-> NewReader]]}
    /\ \E deferred \in IF source = "responses" /\ source \notin DOMAIN clients THEN BOOLEAN ELSE {FALSE} :
           decoder = Decoder(source, deferred)
    /\ pending = NoTerminal
    /\ closed = FALSE

Same == source \in DOMAIN clients      \* raw_identity

\* A codec that raises puts out nothing of the input it rejects.
Atomically(r) == IF r.ok THEN r ELSE [r EXCEPT !.out = <<>>]

ReadAll(q, reader, frames) == FoldLeft(LAMBDA r, o : Read(q, r, o), reader, frames)

\* The route ends the stream of a conversion that raised with an error of the client's protocol.
Broke(reader) == IF reader.end = None THEN EndsAs(reader, "error") ELSE reader

Delivered(events) ==
    [q \in DOMAIN clients |->
        LET c == clients[q]
            step(e, event) == Atomically(Encode(q, e, event))
            r == Run(step, c.encoder, events)
            reader == ReadAll(q, c.reader, r.out)
        IN IF c.reader.end # None THEN c
           ELSE [encoder |-> r.st, reader |-> IF r.ok THEN reader ELSE Broke(reader)]]

\* A client that has gone reads nothing; the others go on, each on a stream of its own.
EveryoneBroke == [q \in DOMAIN clients |-> [clients[q] EXCEPT !.reader = Broke(@)]]

IsTerminal(event) == event.type = "terminal"
\* What the bridge does not let through: anything but usage behind a terminal.  That the usage
\* comes once, and only where the protocol has it there, the decoders see to as well.
Misplaced(events) ==
    IF pending # NoTerminal THEN Len(events) # 1 \/ events[1].type # "usage"
    ELSE \E k \in 1 .. (Len(events) - 1) : IsTerminal(events[k])

-----------------------------------------------------------------------------
\* The first frame, before the stream is the client's: the dispatcher looks at its type, whether
\* it is converted or not, and decodes it if it is; a stream that begins otherwise it leaves for
\* another transport, so that its clients are told nothing of it.

ResponsesStart(f) == f.type \in {"error", "response.created", "response.terminal"}

\* _valid_responses_first_frame
ResponsesMayBegin(f) ==
    \/ ResponsesStart(f)
    \/ f.type = "output_item" /\ f.item.of # "reasoning"
    \/ f.type \in {"delta", "text.done", "summary_part", "arguments.delta", "arguments.done"}

\* _valid_anthropic_first_frame
MessagesMayBegin(f) == f.type \in {"error", "message_start"}

MayBegin(f) ==
    CASE source = "responses" -> ResponsesMayBegin(f)
      [] source = "messages" -> MessagesMayBegin(f)
      [] OTHER -> f.type # "unknown"

\* _decode_first_cross_frame
Begins(f) == MayBegin(f) /\ (Same \/ Decode(decoder, f).ok)

First == up = Upstream

RefuseStart ==
    /\ ~closed /\ First
    /\ \E o \in Offers(source, up) : ~Begins(o.frame) /\ up' = o.up
    /\ clients' = EveryoneBroke
    /\ closed' = TRUE
    /\ UNCHANGED <<source, decoder, pending>>

-----------------------------------------------------------------------------
\* Converted, one frame: decoded, its terminal held back, and the rest encoded at once.
Receive ==
    /\ ~closed /\ ~Same
    /\ \E o \in Offers(source, up) :
         LET r == Atomically(Decode(decoder, o.frame))
             events == r.out
             last == IF events # <<>> /\ IsTerminal(events[Len(events)]) THEN {events[Len(events)]} ELSE {}
         IN /\ First => Begins(o.frame)
            /\ up' = o.up
            /\ IF r.ok /\ ~Misplaced(events)
               THEN /\ decoder' = r.st
                    /\ pending' = IF last = {} THEN pending ELSE events[Len(events)].terminal
                    /\ clients' = Delivered(SelectSeq(events, LAMBDA e : ~IsTerminal(e)))
                    /\ closed' = FALSE
               ELSE /\ clients' = EveryoneBroke
                    /\ closed' = TRUE
                    /\ UNCHANGED <<decoder, pending>>
    /\ UNCHANGED source

\* The upstream ends its stream, after its terminal or before it.
EndOfStream ==
    /\ ~closed /\ ~Same
    /\ clients' = Delivered(IF pending # NoTerminal THEN <<TerminalEvent(pending)>> ELSE Finish(decoder))
    /\ closed' = TRUE
    /\ up' = IF up.over \/ up.tail THEN up ELSE Fails(up)
    /\ UNCHANGED <<source, decoder, pending>>

-----------------------------------------------------------------------------
\* Passed on: the client reads each frame as it was sent, that of the end too, which only the
\* route of Chat holds back.

Client == clients[source]

\* _is_identity_terminal
EndsAnswer(f) ==
    CASE f.type = "error" -> TRUE
      [] source = "messages" -> f.type = "message_stop"
      [] source = "responses" -> f.type = "response.terminal"
      [] source = "chat" -> f.type = "chunk" /\ f.finish # None
      [] source = "gemini" -> f.type = "candidate" /\ (f.finish # None \/ f.blocked)

\* No usage after the end, and the one chunk that _identity_terminal_allows_usage_tail lets pass.
NoTail(f) == FALSE
AllowsTail(f) == source = "chat" /\ f.type = "chunk" /\ ~f.usage

\* What has a type passes in Messages and Responses; after the end only one usage chunk passes.
Passes(f) ==
    /\ f.type = "unknown" => source \in {"messages", "responses"}
    /\ Client.encoder.ended => Client.encoder.tail /\ f.type = "usage"

EndRead(f) ==
    CASE f.type = "error" \/ (f.type = "response.terminal" /\ f.status = "failed") -> "error"
      [] source = "chat" -> None
      [] OTHER -> "success"

\* A client of the protocol has read what was said.
ReadsAsSaid(r, u) ==
    [r EXCEPT !.text = u.said.text, !.thought = u.said.thought, !.usage = u.said.usage,
              !.reason = ReasonTold(source, u.said.reason),
              !.blocks = [k \in DOMAIN u.said.calls |-> NewBlock("call", k, u.said.calls[k])],
              !.order = [k \in DOMAIN u.said.calls |-> k]]

PassedOn(c, f, u) ==
    LET told == ReadsAsSaid(c.reader, u)
    IN IF EndsAnswer(f)
       THEN [encoder |-> [ended |-> TRUE, tail |-> AllowsTail(f)],
             reader |-> IF c.reader.end = None THEN EndsAs(told, EndRead(f)) ELSE Faulty(c.reader)]
       ELSE [encoder |-> [c.encoder EXCEPT !.tail = FALSE], reader |-> told]

\* The route tells of a failure after the end as well.
BreaksOff(c) == [c EXCEPT !.reader = IF @.end = None THEN EndsAs(@, "error") ELSE Faulty(@)]

PassOn ==
    /\ ~closed /\ Same
    /\ \E o \in Offers(source, up) :
         /\ First => Begins(o.frame)
         /\ up' = o.up
         /\ closed' = ~Passes(o.frame)
         /\ clients' = [clients EXCEPT ![source] =
                           IF Passes(o.frame) THEN PassedOn(@, o.frame, o.up) ELSE BreaksOff(@)]
    /\ UNCHANGED <<source, decoder, pending>>

\* _identity_unexpected_eof: in Responses the client is told the last response it was told, which
\* holds none of the items that were told since, as an incomplete one.
EndsEarly(c) ==
    LET stale == source = "responses" /\ <<c.reader.text, c.reader.thought, c.reader.order>> # <<<<>>, <<>>, <<>>>>
    IN [c EXCEPT !.reader = EndsAs(IF stale THEN Faulty(@) ELSE @, "error")]

EndOfPassing ==
    /\ ~closed /\ Same
    /\ clients' = [clients EXCEPT ![source] =
                      CASE ~@.encoder.ended -> EndsEarly(@)
                        [] @.encoder.ended /\ @.reader.end = None -> [@ EXCEPT !.reader = EndsAs(@, "success")]
                        [] OTHER -> @]
    /\ closed' = TRUE
    /\ up' = IF up.over \/ up.tail THEN up ELSE Fails(up)
    /\ UNCHANGED <<source, decoder, pending>>

Next == RefuseStart \/ Receive \/ EndOfStream \/ PassOn \/ EndOfPassing

Spec == Init /\ [][Next]_vars

-----------------------------------------------------------------------------
Reader(q) == IF q \in DOMAIN clients THEN clients[q].reader ELSE NewReader
Said == up.said
Ending == IF up.ended = None THEN Said.reason ELSE up.ended

\* An end that is passed on at once is the end of the answer, whatever comes after it.
AtOnce == Same /\ source # "chat"
Finished ==
    IF AtOnce THEN up.over /\ Ending # "error" ELSE closed /\ ~up.odd /\ Said.reason \notin {None, "error"}

\* The conversions that tell the arguments of a call after they told that there are none.
Inexact(q) == source = "messages" /\ q \in {"chat", "responses"} /\ Said.calls # <<>>

\* What the clients of q have no form for.
HasNoForm(q) ==
    CASE q = "chat" -> source \in {"responses", "gemini"} /\ Said.calls # <<>>
      [] q = "gemini" ->
             \/ Said.late \/ Said.blank
             \/ source = "messages" /\ Said.secret
             \/ source = "responses" /\ \E k \in DOMAIN Said.calls : HasArray(Said.calls[k])
             \/ source = "chat" /\ (Said.refused \/ Len(Said.calls) > 1)
      [] q = "responses" -> Said.secret
      [] q = "messages" ->
             \/ source = "gemini" /\ Said.secret
             \/ source = "chat" /\ Said.refused /\ Said.reason # "content_filter"

\* The decoders and encoders implement Answer for every pair of protocols, however the upstream
\* splits its text over deltas, snapshots and items, and wherever it fails.
A == INSTANCE Answer WITH
         Clients <- Protocols, Channels <- {"text", "thought"},
         said <- [c \in {"text", "thought"} |-> Said[c]],
         finished <- Finished,
         heard <- [q \in Protocols |-> [c \in {"text", "thought"} |-> Reader(q)[c]]],
         end <- [q \in Protocols |-> Reader(q).end]

TellsTheAnswer == A!Spec

\* What is passed on may end twice, and an early end of Responses is told with a stale response.
MayFault(q) ==
    /\ q = source
    /\ (AtOnce /\ up.ended # None) \/ (source = "responses" /\ Said.reason = "error")

\* Every frame keeps to the protocol of its client: no delta outside its block, no block left open
\* or begun twice, nothing after the end, and every snapshot is what its deltas told.
FramesKeepToProtocol == \A q \in DOMAIN clients : ~Inexact(q) /\ ~MayFault(q) => ~Reader(q).fault

\* A success tells every call with its whole argument object, the reason and the usage.
SuccessIsWhole ==
    \A q \in DOMAIN clients : Reader(q).end = "success" =>
        /\ ~Inexact(q) => CallsRead(Reader(q)) = [k \in DOMAIN Said.calls |-> AsText(Said.calls[k])]
        /\ Reader(q).reason = ReasonTold(q, Ending)
        /\ Reader(q).usage = Said.usage

\* When the stream is over every client has been told so, and of a finished answer that it has
\* no form for, which are those named here, that it failed.
EveryoneIsTold ==
    closed => \A q \in DOMAIN clients :
        /\ Reader(q).end # None
        /\ Finished => (Reader(q).end = "error" <=> q # source /\ HasNoForm(q))

\* What the dispatcher does not take for a beginning, though the decoder does, and what is no frame.
NoBeginning ==
    \/ source = "messages" /\ ~up.begun
    \/ source = "responses" /\ up.open.of = "reasoning" /\ up.open.stage = 1
NoFrame == up.odd /\ ~(Same /\ source \in {"messages", "responses"} /\ up.begun)

\* Nobody breaks off a stream that keeps to its protocol but for those reasons.
StreamsAreRead ==
    closed /\ Said.reason # "error" => Finished \/ NoBeginning \/ NoFrame

\* Every client is served: what it reads keeps to its protocol to the end, and a success is whole.
ClientsAreServed == FramesKeepToProtocol /\ SuccessIsWhole /\ EveryoneIsTold /\ StreamsAreRead
=============================================================================
