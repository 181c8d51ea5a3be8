------------------------------ MODULE TokenUsage ------------------------------
(***************************************************************************)
(* What an answer cost, in tokens: how the codecs of the four protocols    *)
(* read and write the counts, how a stream folds the counts that come in   *)
(* pieces, and how Copilot's private bill fills counts that it leaves      *)
(* empty.  A count is a set of at most one number, and so is a usage.      *)
(***************************************************************************)
EXTENDS SemanticRequests

LOCAL INSTANCE SequencesExt

Counts == {"input", "output", "total", "cached", "reasoning"}

\* Usage, whose mode is always SNAPSHOT: no decoder makes deltas.
Usage(input, output, total, cached, reasoning) ==
    [input |-> input, output |-> output, total |-> total, cached |-> cached, reasoning |-> reasoning]
NoCounts == Usage({}, {}, {}, {}, {})

\* Usage on the wire.  hit and miss split the input at a DeepSeek endpoint, thought is a count
\* of reasoning outside the details: Chat alone has these.  created is Messages' own.
WireUsage(counts) == [hit |-> {}, miss |-> {}, thought |-> {}, created |-> {}] @@ counts

-----------------------------------------------------------------------------
\* The OpenAI protocols, decode_usage: counts of the same thing must agree.
OpenAIUsageReads(u) ==
    /\ \A h \in u.hit : u.cached \subseteq {h}
    /\ \A i \in u.input, h \in u.hit, m \in u.miss : i = h + m
    /\ \A t \in u.thought : u.reasoning \subseteq {t}

Preferred(first, second) == IF first # {} THEN first ELSE second

DecodeOpenAIUsage(u) ==
    Usage(u.input, u.output, u.total, Preferred(u.hit, u.cached), Preferred(u.reasoning, u.thought))

\* encode_usage: a whole answer needs its three counts, if it has any.
OpenAIUsageTells(usage) == \A u \in usage : u.input # {} /\ u.output # {} /\ u.total # {}

\* encode_stream_usage leaves out what is missing, and so the wire has what is known.
EncodeOpenAIUsage(u) == WireUsage(u)

-----------------------------------------------------------------------------
\* Messages has no total and no count of reasoning.
MessagesUsageReads(u) == u.input # {} /\ u.output # {}

DecodeMessagesUsage(u) ==
    Usage(u.input, u.output, {i + o : i \in u.input, o \in u.output}, u.cached, {})

MessagesUsageTells(usage) == usage # {} /\ \A u \in usage : u.input # {} /\ u.output # {}

\* created is not a count that others know; only the metadata of a whole answer keep it.
EncodeMessagesUsage(u, created) ==
    [WireUsage([u EXCEPT !.total = {}, !.reasoning = {}]) EXCEPT !.created = created]

\* The start of a stream says zero, and so does its end when nothing is known.
MessagesStartUsage == WireUsage(Usage({0}, {0}, {}, {}, {}))
MessagesEndUsage(usage) ==
    IF usage = {} THEN WireUsage(Usage({}, {0}, {}, {}, {})) ELSE EncodeMessagesUsage(The(usage), {})

-----------------------------------------------------------------------------
\* Gemini, which is no upstream.
EncodeGeminiUsage(u) == WireUsage(u)

-----------------------------------------------------------------------------
\* _merge_stream_usage: what an update does not say stays as it was.
MergeForgets(snapshot, update) == update
MergeStreamUsage(snapshot, update) == [c \in Counts |-> Preferred(update[c], snapshot[c])]

-----------------------------------------------------------------------------
\* CopilotHttpExecutor._repair_responses_usage_from_copilot: the bill fills counts that are
\* absent or zero, and the total last, from what is then there.

Bill(input, read, write, output) == [input |-> input, read |-> read, write |-> write, output |-> output]

ReplaceEmpty(count, value) == IF value > 0 /\ count \subseteq {0} THEN {value} ELSE count

RepairUsage(usage, bill) ==
    LET u == IF usage = {} THEN WireUsage(NoCounts) ELSE The(usage)
        b == The(bill)
        input == ReplaceEmpty(u.input, b.input + b.read + b.write)
        output == ReplaceEmpty(u.output, b.output)
        total == IF input = {} \/ output = {} THEN u.total ELSE ReplaceEmpty(u.total, The(input) + The(output))
    IN IF bill = {} THEN usage
       ELSE {[u EXCEPT !.input = input, !.output = output, !.total = total,
                       !.cached = ReplaceEmpty(@, b.read)]}

\* _project_response does so for every Responses answer of Copilot, converted or not.
ProjectUsage(b, updates, bill) ==
    IF b.provider = "copilot" /\ b.protocol = "responses" THEN SetToSeq(RepairUsage(ToSet(updates), bill))
    ELSE updates

-----------------------------------------------------------------------------
\* The usage of a whole answer, or the updates of a streamed one, from an upstream of one
\* protocol to a client of another.

UsageReads(protocol, streamed, updates) ==
    \A i \in DOMAIN updates :
        CASE protocol # "messages" -> OpenAIUsageReads(updates[i])
          [] OTHER -> streamed \/ MessagesUsageReads(updates[i])

DecodeUsage(protocol, u) == IF protocol = "messages" THEN DecodeMessagesUsage(u) ELSE DecodeOpenAIUsage(u)

\* GenerationResponseBridge, which replaces every update by the snapshot so far.
DecodeUpdates(protocol, updates) ==
    IF updates = <<>> THEN {}
    ELSE {FoldLeft(MergeStreamUsage, NoCounts, Each(LAMBDA u : DecodeUsage(protocol, u), updates))}

UsageTells(client, streamed, usage) ==
    CASE streamed -> TRUE
      [] client = "messages" -> MessagesUsageTells(usage)
      [] client = "gemini" -> TRUE
      [] OTHER -> OpenAIUsageTells(usage)

\* What the client is told, the last of it last.
EncodeUsage(client, streamed, usage, created) ==
    CASE client = "messages" /\ streamed -> <<MessagesStartUsage, MessagesEndUsage(usage)>>
      [] client = "messages" /\ ~streamed -> <<EncodeMessagesUsage(The(usage), created)>>
      [] client = "gemini" -> SetToSeq({EncodeGeminiUsage(u) : u \in usage})
      [] OTHER -> SetToSeq({EncodeOpenAIUsage(u) : u \in usage})
=============================================================================
