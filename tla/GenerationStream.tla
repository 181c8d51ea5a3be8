--------------------------- MODULE GenerationStream ---------------------------
(***************************************************************************)
(* One opened stream on its way to the client: the frames of the upstream, *)
(* encode_stream of server/response_bridge.py, the encoder of the client's *)
(* protocol, the SSE generator of the route, the response that sends what  *)
(* it yields, and the end of the request context.                          *)
(*                                                                         *)
(* A frame is the sequence of events that it decodes to.  Keepalive frames *)
(* change nothing here, except that sending one can fail.  Assumed of the  *)
(* server: a client that left shows up as a cancelled read or as a send    *)
(* that fails, and generators which are then dropped are closed by the     *)
(* event loop some time later.                                             *)
(***************************************************************************)
EXTENDS Naturals, Sequences, SequencesExt, FiniteSets

CONSTANTS MaxFrames,  \* bound on the frames of the upstream
          MaxBatch    \* bound on the events of a frame

ASSUME StreamAssumption == MaxFrames \in Nat \ {0} /\ MaxBatch \in Nat \ {0}

VARIABLES
    plan,       \* how the stream is converted and for whom
    phase,      \* where the chain of generators is
    then,       \* where it goes on once a frame is sent
    frames,     \* number of upstream frames so far
    queue,      \* events of the current frame still to be encoded
    terminal,   \* terminal event that the bridge saw
    tail,       \* one more frame, with the usage, may follow the terminal
    fault,      \* the encoder saw an error event
    calls,      \* tool call pieces that the encoder holds back
    kept,       \* the Chat route holds back the terminal frame
    usageKept,  \* the Chat route holds back a usage frame
    told,       \* what the client got
    source,     \* the upstream iterator: "open" or "closed"
    lease,      \* the lease of the request on its router
    outcome,    \* outcome recorded for the request
    due,        \* payload events accepted from the upstream (history)
    broken      \* something was wrong with the stream (history)

bridgeVars == <<frames, queue, terminal, tail>>
encoderVars == <<fault, calls>>
routeVars == <<kept, usageKept>>
endVars == <<lease, outcome>>
history == <<due, broken>>
vars == <<plan, phase, then, bridgeVars, encoderVars, routeVars, told, source,
          endVars, history>>

\* "typed" stands for Responses and Messages, which treat a stream alike.
Ingress == {"chat", "gemini", "typed"}
Plans == [raw: BOOLEAN, ingress: Ingress, chatSource: BOOLEAN,
          usage: {"folded", "frame", "dropped"}]

\* "finish" is any terminal that the upstream meant as an answer, an incomplete
\* one too; "fault" is an error event, which a terminal follows; "tool" is a call
\* whose own end the upstream does not tell (one that it ends is "data").
Payload == {"data", "tool"}
Terminal == {"finish", "error"}
Events == Payload \union Terminal \union {"usage", "fault"}

\* Raw frames are passed on whole: only their terminals and usage are told apart.
RawFrames(p) == {<<"data">>, <<"finish">>, <<"error">>}
    \union IF p.chatSource THEN {<<"usage">>, <<"usage", "finish">>} ELSE {}
SemanticFrames == BoundedSeq(Events, MaxBatch)

InFrame(batch, kinds) == \E i \in DOMAIN batch : batch[i] \in kinds

TypeOK ==
    /\ plan \in Plans
    /\ plan.raw => plan.chatSource = (plan.ingress = "chat")
    /\ phase \in {"read", "encode", "send", "eof", "end", "return", "final", "gone", "done"}
    /\ then \in {"read", "encode", "end", "return", "final"}
    /\ frames \in 0..MaxFrames
    /\ queue \in Seq(Events)
    /\ phase = "encode" => queue # <<>>
    /\ terminal \in Terminal \union {"none"}
    /\ {tail, fault, kept, usageKept, broken} \subseteq BOOLEAN
    /\ calls \in Nat
    /\ told \in Seq({"data", "usage"} \union Terminal)
    /\ source \in {"open", "closed"}
    /\ lease \in {"held", "released"}
    /\ outcome \in {"none", "completed", "cancelled"}
    /\ due \in Nat
    /\ lease = "released" <=> phase = "done"

Init ==
    /\ plan \in {p \in Plans :
          /\ p.raw => p.chatSource = (p.ingress = "chat")
          /\ p.ingress # "chat" => p.usage = "folded"}
    /\ phase = "read"
    /\ then = "read"
    /\ frames = 0
    /\ queue = <<>>
    /\ terminal = "none"
    /\ tail = FALSE
    /\ fault = FALSE
    /\ calls = 0
    /\ kept = FALSE
    /\ usageKept = FALSE
    /\ told = <<>>
    /\ source = "open"
    /\ lease = "held"
    /\ outcome = "none"
    /\ due = 0
    /\ broken = FALSE

-----------------------------------------------------------------------------
(* The route's generator.                                                  *)

HiddenUsage(got) == plan.ingress = "chat" /\ InFrame(got, {"usage"})

\* Frames that the Chat route does not write at once.
Hidden(got) == plan.ingress = "chat" /\ InFrame(got, {"usage", "finish"})

\* Frames written to the client, who may leave before the chain goes on at place.
Sends(written, place) ==
    /\ told' = told \o written
    /\ phase' = "send"
    /\ then' = place

\* The Chat route holds usage and terminal back until the stream ends, and
\* ends it at an error.  The other routes write what they get.
RouteGets(got, place) ==
    /\ kept' = (kept \/ (Hidden(got) /\ InFrame(got, {"finish"})))
    /\ usageKept' = (usageKept \/ (Hidden(got) /\ InFrame(got, {"usage"})))
    /\ IF got = <<>> \/ Hidden(got)
       THEN phase' = place /\ UNCHANGED <<told, then>>
       ELSE Sends(got, IF plan.ingress = "chat" /\ InFrame(got, {"error"})
                       THEN "return" ELSE place)

\* An exception of the bridge closes the upstream iterator and becomes an
\* error frame of the route, in place of what the Chat route held back.
Raises ==
    /\ source' = "closed"
    /\ broken' = TRUE
    /\ kept' = FALSE
    /\ Sends(<<"error">>, "final")
    /\ UNCHANGED <<plan, terminal, tail, queue, encoderVars, usageKept, endVars>>

\* The frames of the Chat route are over: terminal, usage where the client
\* asked for a frame of its own, and the end.
RouteEnds ==
    /\ phase = "end"
    /\ \/ /\ kept
          /\ kept' = FALSE
          /\ Sends(<<"finish">>, "end")
          /\ UNCHANGED usageKept
       \/ /\ ~kept /\ usageKept /\ plan.usage = "frame"
          /\ usageKept' = FALSE
          /\ Sends(<<"usage">>, "end")
          /\ UNCHANGED kept
       \/ /\ ~kept /\ ~(usageKept /\ plan.usage = "frame")
          /\ phase' = "final"
          /\ UNCHANGED <<kept, usageKept, told, then>>
    /\ UNCHANGED <<plan, bridgeVars, encoderVars, source, endVars, history>>

ReturnsOnly ==
    /\ phase = "return"
    /\ phase' = "final"
    /\ UNCHANGED <<plan, then, source, bridgeVars, encoderVars, routeVars, told, endVars, history>>

\* Returning from an error frame closes the bridge, and that the iterator.
RouteReturns ==
    /\ phase = "return"
    /\ source' = "closed"
    /\ phase' = "final"
    /\ UNCHANGED <<plan, then, bridgeVars, encoderVars, routeVars, told, endVars, history>>

-----------------------------------------------------------------------------
(* The bridge and the encoder.                                             *)

\* What ends the stream must come once and last, but for the usage of Chat.
Refused(batch) ==
    IF terminal = "none"
    THEN \E i \in DOMAIN batch : batch[i] \in Terminal /\ i < Len(batch)
    ELSE ~tail \/ batch # <<"usage">>

TailAfter(batch) ==
    /\ plan.chatSource
    /\ InFrame(batch, {"finish"})
    /\ ~InFrame(batch, {"usage", "fault"})

PayloadOf(batch) == Cardinality({i \in DOMAIN batch : batch[i] \in Payload})

Frame(batch) ==
    /\ phase = "read" /\ frames < MaxFrames
    /\ frames' = frames + 1
    /\ IF Refused(batch)
       THEN Raises /\ UNCHANGED due
       ELSE /\ tail' = (terminal = "none" /\ TailAfter(batch))
            /\ due' = due + PayloadOf(batch)
            /\ IF plan.raw
               THEN /\ terminal' = IF Last(batch) \in Terminal THEN Last(batch) ELSE terminal
                    /\ RouteGets(batch, "read")
                    /\ UNCHANGED queue
               ELSE /\ queue' = batch
                    /\ phase' = IF batch = <<>> THEN "read" ELSE "encode"
                    /\ UNCHANGED <<terminal, routeVars, told, then>>
            /\ UNCHANGED <<plan, encoderVars, source, endVars, broken>>

\* A frame that is malformed, or cannot be decoded; the first was checked when
\* the stream was opened.
Malformed ==
    /\ phase = "read" /\ frames \in 1..MaxFrames - 1
    /\ frames' = frames + 1
    /\ Raises
    /\ UNCHANGED due

HeldBack(event) == plan.ingress = "gemini" /\ event = "tool"
Flushed == [i \in 1..calls |-> "data"]

\* The frames of an event other than a terminal.
Encoded(event) ==
    CASE event = "fault" \/ HeldBack(event) -> <<>>
      [] event \in Payload /\ ~HeldBack(event) -> <<"data">>
      [] event = "usage" -> CASE plan.ingress = "chat" -> <<"usage">>
                              [] plan.ingress = "typed" -> <<>>
                              [] plan.ingress = "gemini" -> Append(Flushed, "usage")

TerminalAsItIs(event) == IF event = "error" THEN <<"error">> ELSE Append(Flushed, "finish")

EncodedTerminal(event) ==
    IF fault \/ event = "error" THEN <<"error">> ELSE Append(Flushed, "finish")

AfterEvent == IF Len(queue) = 1 THEN "read" ELSE "encode"

\* A terminal waits in the bridge until the upstream is over.
Encode ==
    /\ phase = "encode"
    /\ queue' = Tail(queue)
    /\ IF Head(queue) \in Terminal
       THEN /\ terminal' = Head(queue)
            /\ phase' = AfterEvent
            /\ UNCHANGED <<encoderVars, routeVars, told, then>>
       ELSE /\ RouteGets(Encoded(Head(queue)), AfterEvent)
            /\ fault' = (fault \/ Head(queue) = "fault")
            /\ calls' = IF HeldBack(Head(queue)) THEN calls + 1
                        ELSE IF Head(queue) = "usage" THEN 0 ELSE calls
            /\ UNCHANGED terminal
    /\ broken' = (broken \/ Head(queue) = "fault")
    /\ UNCHANGED <<plan, frames, tail, source, endVars, due>>

\* The encoder cannot represent an event, or tool arguments are incomplete.
EncoderRejects ==
    /\ phase \in {"encode", "eof"} /\ ~plan.raw
    /\ Raises
    /\ UNCHANGED <<frames, due>>

\* The iterator ends, and closes itself.
UpstreamEnds ==
    /\ phase = "read" /\ frames > 0
    /\ source' = "closed"
    /\ broken' = (broken \/ terminal = "none")
    /\ phase' = "eof"
    /\ UNCHANGED <<plan, then, bridgeVars, encoderVars, routeVars, told, endVars, due>>

UpstreamFails ==
    /\ phase = "read" /\ frames > 0
    /\ Raises
    /\ UNCHANGED <<frames, due>>

\* The bridge owes the terminal: the one that waits, or an unexpected end.
BridgeEnds ==
    /\ phase = "eof"
    /\ IF plan.raw /\ terminal # "none"
       THEN phase' = "end" /\ UNCHANGED <<routeVars, told, then>>
       ELSE RouteGets(IF terminal = "none" THEN <<"error">> ELSE EncodedTerminal(terminal), "end")
    /\ calls' = 0
    /\ UNCHANGED <<plan, bridgeVars, fault, source, endVars, history>>

-----------------------------------------------------------------------------
(* The response and the request context.                                   *)

Sent ==
    /\ phase = "send"
    /\ phase' = then
    /\ UNCHANGED <<plan, then, bridgeVars, encoderVars, routeVars, told, source, endVars, history>>

\* The last part of the body finalizes the request, by the HTTP status alone.
BodyEnds ==
    /\ phase = "final"
    /\ phase' = "done"
    /\ lease' = "released"
    /\ outcome' = "completed"
    /\ UNCHANGED <<plan, then, bridgeVars, encoderVars, routeVars, told, source, history>>

\* The client leaves while the upstream is read: the read is cancelled, and
\* every generator on the way cleans up, once the first frame set them going.
ReadCancelled ==
    /\ phase = "read" /\ frames > 0
    /\ source' = "closed"
    /\ phase' = "gone"
    /\ UNCHANGED <<plan, then, bridgeVars, encoderVars, routeVars, told, endVars, history>>

\* The client leaves while something is sent, a keepalive perhaps: the
\* generators are dropped where they are.
SendFails ==
    /\ phase \in {"read", "send", "final"}
    /\ phase' = "gone"
    /\ UNCHANGED <<plan, then, bridgeVars, encoderVars, routeVars, told, source, endVars, history>>

AbandonedOnly ==
    /\ phase = "gone"
    /\ phase' = "done"
    /\ UNCHANGED <<plan, then, bridgeVars, encoderVars, routeVars, told, source, endVars, history>>

Abandoned ==
    /\ phase = "gone"
    /\ phase' = "done"
    /\ lease' = "released"
    /\ outcome' = "cancelled"
    /\ UNCHANGED <<plan, then, bridgeVars, encoderVars, routeVars, told, source, history>>

\* The event loop closes generators that were dropped.
DroppedClosed ==
    /\ phase \in {"gone", "done"} /\ source = "open"
    /\ source' = "closed"
    /\ UNCHANGED <<plan, phase, then, bridgeVars, encoderVars, routeVars, told, endVars, history>>

Next ==
    \/ \E batch \in IF plan.raw THEN RawFrames(plan) ELSE SemanticFrames : Frame(batch)
    \/ Malformed
    \/ Encode
    \/ EncoderRejects
    \/ UpstreamEnds
    \/ UpstreamFails
    \/ BridgeEnds
    \/ RouteEnds
    \/ RouteReturns
    \/ Sent
    \/ BodyEnds
    \/ ReadCancelled
    \/ SendFails
    \/ Abandoned
    \/ DroppedClosed

Spec == Init /\ [][Next]_vars

\* The upstream ends or times out, the client reads or leaves.
FairSpec == Spec /\ WF_vars(Next)

-----------------------------------------------------------------------------
(* Properties.                                                             *)

\* The terminal is held back until the upstream is over.
HeldTillEnd == plan.raw => plan.ingress = "chat"

Told(frame) == \E i \in DOMAIN told : told[i] = frame
ToldTerminal == \E i \in DOMAIN told : told[i] \in Terminal

NothingAfterTerminal ==
    \A i, j \in DOMAIN told : i < j /\ told[i] \in Terminal => told[j] = "usage"

\* A response that ends by itself told the client how the generation ended,
\* and, wherever the terminal is held back, nothing but the usage of Chat after.
OneTerminal ==
    /\ phase = "final" \/ outcome = "completed" => ToldTerminal
    /\ HeldTillEnd => NothingAfterTerminal

\* The client takes a generation for finished only if the upstream said so and,
\* wherever the terminal is held back, nothing was wrong before or after it.
FinishIsMeant ==
    Told("finish") => terminal = "finish" /\ (HeldTillEnd => ~broken)

\* Every payload event reached the client before the word that it is over.
FinishIsWhole ==
    \A i \in DOMAIN told : told[i] = "finish" =>
        Cardinality({j \in 1..i : told[j] = "data"}) = due

\* A client that is told of the end can rely on it and on what it has.
FinishIsTrue == FinishIsMeant /\ FinishIsWhole

\* A response that was sent to its end leaves no upstream stream behind when it
\* gives the lease on the router back.
LeaseOutlivesStream == outcome = "completed" => source = "closed"

\* A request is recorded as completed only if its client was told so.  The code does not
\* keep this: see the observations of the README.
OutcomeIsTheStreams == outcome = "completed" => Told("finish")

\* Every stream ends, and then the lease and the connection are given back.
StreamEnds == <>(lease = "released" /\ source = "closed")
=============================================================================
