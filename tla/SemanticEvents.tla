--------------------------- MODULE SemanticEvents ---------------------------
(***************************************************************************)
(* The events that the stream decoders produce and the stream encoders    *)
(* consume (protocols/models.py), and the shape of one step of a codec.    *)
(*                                                                         *)
(* A text is a sequence of tokens.  The arguments of a tool call are a     *)
(* sequence of tokens too: EmptyObject is the text "{}" and the empty      *)
(* sequence is the absent text.  Identifiers and metadata that no property *)
(* tells apart are left out; the response ID and the model are the same on *)
(* every event of a stream, because the bridge overwrites both.            *)
(***************************************************************************)
EXTENDS Integers, Sequences

LOCAL INSTANCE SequencesExt

None == "none"
NoIndex == -1
EmptyObject == <<0>>

\* encode_arguments: an object as the text of it.
AsText(args) == IF args = <<>> THEN EmptyObject ELSE args

\* The text is one JSON object: complete, and not two objects in a row.
IsObject(text) ==
    text = EmptyObject \/ (text # <<>> /\ \A k \in DOMAIN text : text[k] # 0)

\* A token below zero holds an array.
HasArray(args) == \E k \in DOMAIN args : args[k] < 0

\* json.loads of such a text.
AsObject(text) == IF text = EmptyObject THEN <<>> ELSE text

NoItem == [kind |-> None]
TextItem(text) == [kind |-> "text", text |-> text]
RefusalItem(text) == [kind |-> "refusal", text |-> text]
ReasoningItem(text, origin) == [kind |-> "reasoning", text |-> text, origin |-> origin]
ToolItem(call, item, args) == [kind |-> "tool", call |-> call, item |-> item, args |-> args]

Event(type) ==
    [type |-> type, index |-> NoIndex, part |-> NoIndex, id |-> None,
     delta |-> <<>>, item |-> NoItem, of |-> None, done |-> None,
     call |-> None, named |-> FALSE, tool |-> NoIndex]

\* TerminalMetadata: whether it names an error, the response status, the finish reason.
Terminal(error, status, reason) == [error |-> error, status |-> status, reason |-> reason]
NoTerminal == Terminal(FALSE, None, None)
TerminalEvent(t) == [type |-> "terminal", terminal |-> t]
ErrorEvent(t) == [type |-> "error", terminal |-> t]
UsageEvent == [type |-> "usage"]
Started == [type |-> "response_started"]

\* A stream that broke or ended early: one error, then the terminal.
Broken(status) == LET t == Terminal(TRUE, status, None) IN <<ErrorEvent(t), TerminalEvent(t)>>

Reasoned(reason) ==
    Terminal(FALSE, IF reason \in {"length", "content_filter"} THEN "incomplete" ELSE "completed", reason)

(***************************************************************************)
(* A step of a codec: the state it leaves, what it puts out, and whether   *)
(* it accepted its input; a codec that rejects its input is used no more.  *)
(***************************************************************************)
Put(s, out) == [ok |-> TRUE, st |-> s, out |-> out]
Quiet(s) == Put(s, <<>>)
Reject(s) == [ok |-> FALSE, st |-> s, out |-> <<>>]
AndThen(r, Next(_)) ==
    IF ~r.ok THEN r ELSE LET n == Next(r.st) IN [n EXCEPT !.out = r.out \o @]
Check(accepted, r) == IF accepted THEN r ELSE Reject(r.st)

\* The steps of a codec over a sequence of inputs, up to the first it rejects.
Run(Step(_, _), s, inputs) ==
    FoldLeft(LAMBDA r, input : AndThen(r, LAMBDA t : Step(t, input)), Quiet(s), inputs)

\* A status that cannot mean a finished generation (_terminal_status_error).
IsFailure(t) == t.error \/ t.status \in {"failed", "cancelled", "unknown"}
=============================================================================
