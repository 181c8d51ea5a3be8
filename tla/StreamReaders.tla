---------------------------- MODULE StreamReaders ----------------------------
(***************************************************************************)
(* What a client that keeps to its protocol makes of the frames it is      *)
(* sent.  Nothing here is code of the project: a reader is the measure of  *)
(* the encoders.  fault says that a frame broke the protocol: one outside  *)
(* its block or after the end, a block begun or ended twice, a snapshot    *)
(* that is not what its deltas told.                                       *)
(***************************************************************************)
EXTENDS SemanticEvents

LOCAL INSTANCE SequencesExt

\* A block: what it is, whether it is open, its call, the text it began with and what it was told.
NewBlock(of, call, seed) == [of |-> of, open |-> TRUE, call |-> call, seed |-> seed, text |-> <<>>, told |-> FALSE]

\* blocks is a function from the index of a block, order the indexes of its calls as they came.
NewReader ==
    [text |-> <<>>, thought |-> <<>>, blocks |-> <<>>, order |-> <<>>, usage |-> FALSE, reason |-> None,
     begun |-> FALSE, end |-> None, fault |-> FALSE]

Faulty(r) == [r EXCEPT !.fault = TRUE]
Reads(r, channel, text) == [r EXCEPT ![channel] = @ \o text]
Unless(accepted, r) == IF accepted THEN r ELSE Faulty(r)
IsOpen(r, i) == i \in DOMAIN r.blocks /\ r.blocks[i].open
Opens(r, i, block) ==
    IF i \in DOMAIN r.blocks THEN Faulty(r)
    ELSE [r EXCEPT !.blocks = [j \in DOMAIN @ \cup {i} |-> IF j = i THEN block ELSE @[j]],
                   !.order = IF block.call = None THEN @ ELSE Append(@, i)]
Tells(r, i, text) == [r EXCEPT !.blocks[i].text = @ \o text, !.blocks[i].told = TRUE]
Closes(r, i) == IF IsOpen(r, i) THEN [r EXCEPT !.blocks[i].open = FALSE] ELSE Faulty(r)
AllClosed(r) == \A i \in DOMAIN r.blocks : ~r.blocks[i].open
EndsAs(r, end) == [r EXCEPT !.end = end]

\* The argument text of every call, in the order in which the calls came.
CallsRead(r) ==
    LET args(b) == IF b.told THEN b.text ELSE b.seed
    IN [k \in DOMAIN r.order |-> AsText(args(r.blocks[r.order[k]]))]

-----------------------------------------------------------------------------
ReadMessages(r, o) ==
    CASE o.type = "message_start" -> Unless(~r.begun, [r EXCEPT !.begun = TRUE])
      [] o.type = "content_block_start" ->
             Reads(Opens(r, o.index, NewBlock(o.block, o.call, o.text)), "text",
                   IF o.block = "text" THEN o.text ELSE <<>>)
      [] o.type = "content_block_delta" ->
             IF ~IsOpen(r, o.index) THEN Faulty(r)
             ELSE LET of == r.blocks[o.index].of
                  IN CASE o.delta = "text_delta" /\ of = "text" -> Reads(r, "text", o.text)
                       [] o.delta = "thinking_delta" /\ of = "thinking" -> Reads(r, "thought", o.text)
                       [] o.delta = "signature_delta" /\ of = "thinking" -> r
                       [] o.delta = "input_json_delta" /\ of = "tool_use" -> Tells(r, o.index, o.text)
                       [] OTHER -> Faulty(r)
      [] o.type = "content_block_stop" -> Closes(r, o.index)
      [] o.type = "message_delta" -> Unless(AllClosed(r), [r EXCEPT !.usage = o.usage, !.reason = o.stop])
      [] o.type = "message_stop" -> Unless(AllClosed(r) /\ r.reason # None, EndsAs(r, "success"))
      [] OTHER -> EndsAs(r, "error")

\* The fragments of a call share its index, and its ID if they have one.
ReadChatCall(r, o) ==
    LET known == o.index \in DOMAIN r.blocks
    IN IF ~known THEN Tells(Opens(r, o.index, NewBlock("tool", o.call, <<>>)), o.index, o.text)
       ELSE Unless(o.call \in {None, r.blocks[o.index].call}, Tells(r, o.index, o.text))

ReadChat(r, o) ==
    CASE o.type = "usage" -> [r EXCEPT !.usage = TRUE]
      [] o.type = "finish" -> [EndsAs(r, "success") EXCEPT !.reason = o.stop]
      [] o.type = "error" -> EndsAs(r, "error")
      [] o.field = "role" -> Unless(~r.begun, [r EXCEPT !.begun = TRUE])
      [] o.field \in {"content", "refusal"} -> Reads(r, "text", o.text)
      [] o.field = "reasoning" -> Reads(r, "thought", o.text)
      [] OTHER -> ReadChatCall(r, o)

ReadGemini(r, o) ==
    CASE o.type = "usage" -> [r EXCEPT !.usage = TRUE]
      [] o.type = "finish" -> [EndsAs(r, "success") EXCEPT !.reason = o.stop]
      [] o.type = "error" -> EndsAs(r, "error")
      [] o.kind = "text" -> Reads(r, "text", o.text)
      [] o.kind = "thought" -> Reads(r, "thought", o.text)
      [] OTHER -> Opens(r, Len(r.order), NewBlock("call", o.call, o.text))

-----------------------------------------------------------------------------
\* Responses: an item is done as it was told, and the response holds the items as they were done.

\* The text of an item, whatever its parts.
ItemText(item) ==
    IF item.of = "function_call" THEN item.args
    ELSE FlattenSeq([k \in DOMAIN item.content |-> item.content[k].text])

ItemEndsAs(r, i, item) ==
    /\ IsOpen(r, i)
    /\ r.blocks[i].of = item.of
    /\ r.blocks[i].told => r.blocks[i].text = ItemText(item)

\* A call that is told whole is told by the item that ends it.
ReadItemDone(r, o) ==
    LET told == IF o.item.of = "function_call" /\ ~r.blocks[o.index].told
                THEN Tells(r, o.index, o.item.args) ELSE r
    IN IF ItemEndsAs(r, o.index, o.item) THEN Closes(told, o.index) ELSE Faulty(r)

ReadResponseEnd(r, o) ==
    LET agrees == /\ AllClosed(r)
                  /\ DOMAIN o.output = DOMAIN r.blocks
                  /\ \A i \in DOMAIN o.output : r.blocks[i].told => r.blocks[i].text = ItemText(o.output[i])
    IN Unless(agrees, [EndsAs(r, IF o.status \in {"completed", "incomplete"} THEN "success" ELSE "error")
                           EXCEPT !.usage = o.usage, !.reason = o.status])

ReadResponses(r, o) ==
    CASE o.type = "response.created" -> Unless(~r.begun, [r EXCEPT !.begun = TRUE])
      [] o.type = "output_item.added" -> Opens(r, o.index, NewBlock(o.of, o.call, <<>>))
      [] o.type = "part.added" -> Unless(IsOpen(r, o.index), r)
      [] o.type = "delta" ->
             IF IsOpen(r, o.index)
             THEN Reads(Tells(r, o.index, o.text), IF o.channel = "reasoning" THEN "thought" ELSE "text", o.text)
             ELSE Faulty(r)
      [] o.type = "arguments.delta" -> LET known == o.index \in DOMAIN r.blocks
             IN Unless(IsOpen(r, o.index), IF known THEN Tells(r, o.index, o.text) ELSE r)
      [] o.type \in {"part.done", "arguments.done"} -> Unless(IsOpen(r, o.index), r)
      [] o.type = "output_item.done" -> ReadItemDone(r, o)
      [] OTHER -> ReadResponseEnd(r, o)

Read(q, r, o) ==
    CASE r.end # None -> Faulty(r)
      [] q = "messages" -> ReadMessages(r, o)
      [] q = "chat" -> ReadChat(r, o)
      [] q = "gemini" -> ReadGemini(r, o)
      [] q = "responses" -> ReadResponses(r, o)

\* The reason a client of q is told when the upstream ended for this reason.
ReasonTold(q, reason) ==
    CASE q = "responses" -> IF reason \in {"length", "content_filter"} THEN "incomplete" ELSE "completed"
      [] q = "gemini" /\ reason = "tool_calls" -> "stop"
      [] OTHER -> reason
=============================================================================
