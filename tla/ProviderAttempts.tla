-------------------------- MODULE ProviderAttempts --------------------------
(***************************************************************************)
(* One provider's calls to its upstream: a dialect prepares an attempt,    *)
(* SharedHttpExecutor (providers/http_executor.py) sends it, reads the     *)
(* answer or the stream, gives back the response and turns whatever went   *)
(* wrong into a ProviderError that the dispatcher can act on.  Listings,   *)
(* token counts and the DeepSeek files proxy use the same clients.         *)
(*                                                                         *)
(* The upstream, the network, the consumer of a stream and whoever closes  *)
(* the provider do what they like.  GenerationDispatch takes the result of *)
(* an attempt as given; here it is made.  The session and the client of    *)
(* the Copilot provider are CopilotTransport's: of them this module has    *)
(* what an attempt sees, its one retry.                                    *)
(***************************************************************************)
EXTENDS Naturals, Sequences, FiniteSets

CONSTANTS
    Calls,     \* calls that share the provider
    MaxLines   \* bound on the lines of a stream

ASSUME LinesAssumption == MaxLines \in Nat

VARIABLES
    provider,  \* whose calls these are
    pool,      \* its ProviderHttpClientPool: closed, clients made, whether one is open
    closing,   \* a close() waits for the client to close
    call,      \* what each call asks for
    pc,
    sends,     \* requests sent for the call
    last,      \* what the upstream or the network did last
    read,      \* lines read from the stream
    given,     \* frames handed to the consumer
    responses, \* calls whose stream response is open
    result

vars == <<provider, pool, closing, call, pc, sends, last, read, given, responses, result>>

-----------------------------------------------------------------------------
(* Providers and their bindings: the protocols a provider speaks upstream. *)

CopilotBindings    == {"messages", "chat", "responses"}
OpenAIBindings(p)  == {"chat"} \union IF p = "custom" THEN {} ELSE {"responses"}
AnthropicBindings  == {"messages"}
DeepSeekBindings   == {"messages", "chat", "responses"}

OpenAIFamily == {"openai", "custom", "custom-responses"}
Providers == {"github-copilot", "anthropic", "deepseek"} \union OpenAIFamily

Bindings(p) ==
    CASE p = "github-copilot" -> CopilotBindings
      [] p = "anthropic"      -> AnthropicBindings
      [] p = "deepseek"       -> DeepSeekBindings
      [] OTHER                -> OpenAIBindings(p)

Operations == {"execute", "stream", "count", "list", "files"}
NoCall == [op |-> "none", protocol |-> "none", options |-> TRUE]

\* options: stream_options is absent or an object.
Generations(p) ==
    [op : {"execute", "stream"}, protocol : Bindings(p), options : BOOLEAN]

Others(p) ==
    [op : CASE p = "anthropic"      -> {"count"}
            [] p = "deepseek"       -> {"count", "list", "files"}
            [] p \in OpenAIFamily   -> {"list"}
            [] OTHER                -> {},
     protocol : {"none"}, options : {TRUE}]

-----------------------------------------------------------------------------
(* Errors.                                                                 *)

\* status: the one that the client is answered with.
Ended(how) ==
    [end |-> how, kind |-> "none", status |-> 0, retryable |-> FALSE, signal |-> "none"]
ProviderError(kind, status, retryable) ==
    [end |-> "error", kind |-> kind, status |-> status, retryable |-> retryable,
     signal |-> "none"]
RequestOptionError == ProviderError("client_request", 400, FALSE)

\* A reply is a status and what its body says; a fault has no status.
Faults == {[status |-> 0, body |-> b] : b \in {"timeout", "disconnected", "broken"}}
Silent == [status |-> 0, body |-> "none"]
Garbled == [status |-> 200, body |-> "text"]
ErrorBodies == {"plain", "bare", "overflow", "miscounted", "unsupported", "long"}
Replies ==
    [status : {200}, body : {"object", "text"}]
    \union [status : {400}, body : ErrorBodies]
    \union [status : {302, 401, 404, 413, 429, 503, 529}, body : {"plain"}]

RetryableStatuses == {429, 500, 502, 503, 504, 529}

\* Mutant of the definition that follows.
ClassifyAllRetryable(status) ==
    [kind |-> CASE status \in {401, 403} -> "authentication"
                [] status \in {429, 529} -> "rate_limit"
                [] OTHER                 -> "upstream_status",
     retryable |-> status >= 400]

ClassifyUpstreamStatus(status) ==
    [kind |-> CASE status \in {401, 403} -> "authentication"
                [] status \in {429, 529} -> "rate_limit"
                [] OTHER                 -> "upstream_status",
     retryable |-> status \in RetryableStatuses]

RaiseHttpStatusError(status, signal) ==
    LET class == ClassifyUpstreamStatus(status)
    IN  [end |-> "error", status |-> status, signal |-> signal,
         kind |-> IF signal = "overflow" THEN "client_request" ELSE class.kind,
         retryable |-> signal # "overflow" /\ class.retryable]

RaiseTimeoutError  == ProviderError("transport", 504, TRUE)
RaiseHttpError     == ProviderError("transport", 502, TRUE)
RaiseProtocolError == ProviderError("upstream_protocol", 502, TRUE)

\* "long" is a body over the 64 KiB that are looked at, whatever it says.
CopilotSignal(status, body) ==
    CASE status = 400 /\ body = "bare"                       -> "bare"
      [] status = 400 /\ body \in {"overflow", "miscounted"} -> "overflow"
      [] OTHER                                               -> "none"

Unsupported(status, body) == status = 400 /\ body = "unsupported"

\* DeepSeek says it in numbers, which must add up.
DeepSeekSignal(status, body) ==
    IF status = 400 /\ body = "overflow" THEN "overflow" ELSE "none"

\* What the executors' _raise_timeout, _raise_http_error and _raise_protocol_error do.
NoBadStatus(l) == l.status \in {0, 200}
RaiseNoStatus(l) ==
    CASE l.body = "timeout" -> RaiseTimeoutError
      [] l.status = 0       -> RaiseHttpError
      [] OTHER              -> RaiseProtocolError

\* The hooks of each executor: l is what went wrong, body what of it could be
\* read, "unread" where nothing could.
CopilotRaises(l, body) ==
    CASE NoBadStatus(l)              -> RaiseNoStatus(l)
      [] Unsupported(l.status, body) -> ProviderError("unsupported_operation", 400, FALSE)
      [] OTHER -> RaiseHttpStatusError(l.status, CopilotSignal(l.status, body))

DeepSeekRaises(l, body) ==
    IF NoBadStatus(l) THEN RaiseNoStatus(l)
    ELSE RaiseHttpStatusError(l.status, DeepSeekSignal(l.status, body))

AnthropicRaises(l) ==
    IF NoBadStatus(l) THEN RaiseNoStatus(l) ELSE RaiseHttpStatusError(l.status, "none")

OpenAIRaises(l) ==
    IF NoBadStatus(l) THEN RaiseNoStatus(l) ELSE RaiseHttpStatusError(l.status, "none")

Raises(l, body) ==
    CASE provider = "github-copilot" -> CopilotRaises(l, body)
      [] provider = "deepseek"       -> DeepSeekRaises(l, body)
      [] provider = "anthropic"      -> AnthropicRaises(l)
      [] OTHER                       -> OpenAIRaises(l)

-----------------------------------------------------------------------------
(* Lines of a stream.  "chunk" and "usage" carry the answer; "usage" is a  *)
(* prompt-filter frame that also has the usage or an error.                *)

Carrying == {"chunk", "usage"}
Lines == Carrying \union
    {"comment", "done", "keepalive", "ping", "accounting", "filter", "text"}

\* What is not JSON.
Malformed == {"done", "keepalive", "text"}

\* Mutant of the definition that follows.
CopilotSkipsFilters(protocol) ==
    {"comment", "done", "keepalive", "ping", "accounting"}
    \union IF protocol = "chat" THEN {"filter", "usage"} ELSE {}

CopilotSkips(protocol) ==
    {"comment", "done", "keepalive", "ping", "accounting"}
    \union IF protocol = "chat" THEN {"filter"} ELSE {}

OpenAISkips == {"comment", "done"}
AnthropicSkips == {"comment", "ping"}
DeepSeekSkips(protocol) ==
    {"comment", "done"} \union IF protocol = "messages" THEN {"ping"} ELSE {}

Skipped(protocol) ==
    CASE provider = "github-copilot" -> CopilotSkips(protocol)
      [] provider = "anthropic"      -> AnthropicSkips
      [] provider = "deepseek"       -> DeepSeekSkips(protocol)
      [] OTHER                       -> OpenAISkips

-----------------------------------------------------------------------------
(* State.                                                                  *)

Init ==
    /\ provider \in Providers
    /\ pool = [closed |-> FALSE, made |-> 0, open |-> FALSE]
    /\ closing = FALSE
    /\ call = [c \in Calls |-> NoCall]
    /\ pc = [c \in Calls |-> "idle"]
    /\ sends = [c \in Calls |-> 0]
    /\ last = [c \in Calls |-> Silent]
    /\ read = [c \in Calls |-> <<>>]
    /\ given = [c \in Calls |-> <<>>]
    /\ responses = {}
    /\ result = [c \in Calls |-> Ended("none")]

Endings == {"none", "value", "eof", "raw", "cancelled", "abandoned", "estimate", "usual",
            "nothing"}
Kinds == {"client_request", "authentication", "rate_limit", "upstream_status",
          "transport", "upstream_protocol", "unsupported_operation"}

Answerable == {302, 400, 401, 404, 413, 429, 502, 503, 504, 529}

\* The status, the kind and whether to retry belong together.
Coherent(e) ==
    /\ e.kind = "authentication" <=> e.status = 401
    /\ e.kind # "authentication" => (e.retryable <=> e.status \in RetryableStatuses)
    /\ e.kind = "rate_limit" <=> e.status \in {429, 529}
    /\ e.kind = "upstream_protocol" => e.status = 502
    /\ e.kind = "client_request" => e.status = 400
    /\ e.signal = "overflow" => e.kind = "client_request"

Errors ==
    {e \in [end : {"error"}, kind : Kinds,
            status : Answerable, retryable : BOOLEAN,
            signal : {"none", "bare", "overflow"}] : Coherent(e)}

Results == {Ended(how) : how \in Endings} \union Errors

TypeOK ==
    /\ provider \in Providers
    /\ pool \in [closed : BOOLEAN, made : 0..1, open : BOOLEAN]
    /\ closing \in BOOLEAN
    /\ call \in [Calls -> Generations(provider) \union Others(provider) \union {NoCall}]
    /\ pc \in [Calls -> {"idle", "token", "ready", "sent", "answered", "renew",
                         "reading", "yielded", "closing", "done"}]
    /\ sends \in [Calls -> 0..2]
    /\ last \in [Calls -> Replies \union Faults \union {Silent}]
    /\ read \in [Calls -> Seq(Lines)]
    /\ given \in [Calls -> Seq(Lines)]
    /\ responses \subseteq Calls
    /\ result \in [Calls -> Results]

Go(c, label) == pc' = [pc EXCEPT ![c] = label]

\* Mutant of the definition that follows.
EndCallAtOnce(c, how) ==
    /\ result' = [result EXCEPT ![c] = how]
    /\ Go(c, "done")

\* The call is over; a response that is still open is closed first.
EndCall(c, how) ==
    /\ result' = [result EXCEPT ![c] = how]
    /\ Go(c, IF c \in responses THEN "closing" ELSE "done")

Streams(c) == call[c].op = "stream"
Generates(c) == call[c].op \in {"execute", "stream"}
Copilot == provider = "github-copilot"

\* list_models of the OpenAI family and token counts make a client of their own.
OwnClient(c) == call[c].op = "count" \/ (call[c].op = "list" /\ provider # "deepseek")
Pooled(c) == ~Copilot /\ ~OwnClient(c)

\* The client under the call has not been closed.
Alive(c) == Pooled(c) => pool.open

-----------------------------------------------------------------------------
(* prepare_attempt, and what the other operations do before they send.     *)

\* Chat streams are made to report their usage, in stream_options.
AsksForUsage(k) ==
    /\ k.op = "stream"
    /\ k.protocol = "chat"
    /\ provider = "github-copilot" \/ provider \in OpenAIFamily

Prepared == Ended("none")
NoKey == ProviderError("authentication", 401, FALSE)

OpenAIPrepares(k, key) ==
    CASE ~k.options                     -> RequestOptionError
      [] provider = "openai" /\ ~key    -> NoKey
      [] OTHER                          -> Prepared

CopilotPrepares(k) == IF k.options THEN Prepared ELSE RequestOptionError
AnthropicPrepares(key) == IF key THEN Prepared ELSE NoKey
DeepSeekPrepares(key) == IF key THEN Prepared ELSE NoKey

\* The route asks the provider only when it has a key.
CountPrepares(key) == IF key THEN Prepared ELSE Ended("estimate")

Prepares(k, key) ==
    CASE k.op = "count"           -> CountPrepares(key)
      [] Copilot                  -> CopilotPrepares(k)
      [] provider = "anthropic"   -> AnthropicPrepares(key)
      [] provider = "deepseek"    -> DeepSeekPrepares(key)
      [] OTHER                    -> OpenAIPrepares(k, key)

\* A custom provider with configured models lists those.
ListsByHeart(k) == k.op = "list" /\ provider \in {"custom", "custom-responses"}

Arrive(c) ==
    /\ pc[c] = "idle"
    /\ \E k \in Generations(provider) \union Others(provider), key \in BOOLEAN :
        /\ AsksForUsage(k) \/ k.options
        /\ call' = [call EXCEPT ![c] = k]
        /\ \/ /\ Prepares(k, key) = Prepared
              /\ Go(c, IF Copilot THEN "token" ELSE "ready")
              /\ UNCHANGED result
           \/ Prepares(k, key) # Prepared /\ EndCall(c, Prepares(k, key))
           \/ ListsByHeart(k) /\ EndCall(c, Ended("value"))
    /\ UNCHANGED <<provider, pool, closing, sends, last, read, given, responses>>

\* CopilotHttpExecutor begins with ensure_token; what it may raise is
\* CopilotAuthSession's: nobody is signed in, or the mint was refused, limited,
\* out of order, not found, or broken.
TokenErrors ==
    {ProviderError("authentication", 401, again) : again \in BOOLEAN} \union
    {ProviderError("rate_limit", 429, TRUE), ProviderError("upstream_status", 503, TRUE),
     ProviderError("upstream_status", 404, FALSE), ProviderError("transport", 502, TRUE)}

EnsureToken(c) ==
    /\ pc[c] = "token"
    /\ \/ Go(c, "ready") /\ UNCHANGED result
       \/ \E e \in TokenErrors : EndCall(c, e)
    /\ UNCHANGED <<provider, pool, closing, call, sends, last, read, given, responses>>

-----------------------------------------------------------------------------
(* ProviderHttpClientPool.                                                 *)

\* Mutant of the definition that follows.
PoolNeverRefuses(c) == FALSE

\* get_client: RuntimeError when closed, the client if there is one, a new one.
PoolRefuses(c) == Pooled(c) /\ pool.closed

GetClient(c) ==
    pool' = IF Pooled(c) /\ ~pool.open
            THEN [pool EXCEPT !.made = @ + 1, !.open = TRUE]
            ELSE pool

\* close: the first call takes the client away and closes it.
CloseBegins ==
    /\ ~Copilot
    /\ ~pool.closed
    /\ pool' = [pool EXCEPT !.closed = TRUE]
    /\ closing' = pool.open
    /\ UNCHANGED <<provider, call, pc, sends, last, read, given, responses, result>>

\* Mutant of the definition that follows.
CloseForgets ==
    /\ closing
    /\ closing' = FALSE
    /\ UNCHANGED <<provider, pool, call, pc, sends, last, read, given, responses, result>>

CloseEnds ==
    /\ closing
    /\ closing' = FALSE
    /\ pool' = [pool EXCEPT !.open = FALSE]
    /\ UNCHANGED <<provider, call, pc, sends, last, read, given, responses, result>>

-----------------------------------------------------------------------------
(* Sending.                                                                *)

Send(c) ==
    /\ pc[c] = "ready"
    /\ ~PoolRefuses(c)
    /\ GetClient(c)
    /\ sends' = [sends EXCEPT ![c] = @ + 1]
    /\ Go(c, "sent")
    /\ UNCHANGED <<provider, closing, call, last, read, given, responses, result>>

\* A RuntimeError is none of httpx's, so no handler makes it a ProviderError.
SendRefused(c) ==
    /\ pc[c] = "ready"
    /\ PoolRefuses(c)
    /\ EndCall(c, Ended("raw"))
    /\ UNCHANGED <<provider, pool, closing, call, sends, last, read, given, responses>>

Answered(c) ==
    /\ pc[c] = "sent"
    /\ Alive(c)
    /\ \E r \in Replies :
        /\ Streams(c) /\ r.status = 200 => r.body = "object"
        /\ last' = [last EXCEPT ![c] = r]
    /\ responses' = IF Streams(c) THEN responses \union {c} ELSE responses
    /\ Go(c, "answered")
    /\ UNCHANGED <<provider, pool, closing, call, sends, read, given, result>>

\* list_models answers an HTTP error with what it has by heart: the official
\* providers their usual models, a custom one none.
OpenAILists(l) ==
    CASE l.status # 200    -> Ended("usual")
      [] l.body = "object" -> Ended("value")
      [] OTHER             -> RaiseProtocolError
CustomLists(l) ==
    CASE l.status # 200    -> Ended("nothing")
      [] l.body = "object" -> Ended("value")
      [] OTHER             -> RaiseProtocolError
DeepSeekLists(l) ==
    CASE l.status # 200    -> Ended("usual")
      [] l.body = "object" -> Ended("value")
      [] OTHER             -> RaiseProtocolError

Lists(l) ==
    CASE provider = "deepseek" -> DeepSeekLists(l)
      [] provider = "openai"   -> OpenAILists(l)
      [] OTHER                 -> CustomLists(l)

\* Whatever fails, the route of a token count estimates; the files proxy hands
\* every answer on and raises only what is none.
Counts(l) == IF l = [status |-> 200, body |-> "object"] THEN Ended("value") ELSE Ended("estimate")
ProxiesFiles(l) == IF l.status = 0 THEN RaiseNoStatus(l) ELSE Ended("value")

Failed(c, l, body) ==
    CASE call[c].op = "list"  -> Lists(l)
      [] call[c].op = "count" -> Counts(l)
      [] call[c].op = "files" -> ProxiesFiles(l)
      [] OTHER                -> Raises(l, body)

\* The transport sends again after a connection broke before any answer.
Resends(c, fault) == Copilot /\ fault.body = "disconnected" /\ sends[c] = 1

SendFails(c) ==
    /\ pc[c] = "sent"
    /\ \E f \in Faults :
        /\ last' = [last EXCEPT ![c] = f]
        /\ IF Resends(c, f) THEN Go(c, "ready") /\ UNCHANGED result
           ELSE EndCall(c, Failed(c, f, "unread"))
    /\ UNCHANGED <<provider, pool, closing, call, sends, read, given, responses>>

-----------------------------------------------------------------------------
(* The answer's status.                                                    *)

Denied(c) == Copilot /\ last[c].status = 401

\* Mutant of the definition that follows.
RenewsWithOpenResponse(c) ==
    /\ pc[c] = "answered"
    /\ Denied(c)
    /\ sends[c] = 1
    /\ Go(c, "renew")
    /\ UNCHANGED <<provider, pool, closing, call, sends, last, read, given, responses, result>>

\* A rejected token is replaced once; the rejected response is closed before.
Renews(c) ==
    /\ pc[c] = "answered"
    /\ Denied(c)
    /\ sends[c] = 1
    /\ responses' = responses \ {c}
    /\ Go(c, "renew")
    /\ UNCHANGED <<provider, pool, closing, call, sends, last, read, given, result>>

Renewed(c) ==
    /\ pc[c] = "renew"
    /\ \/ Go(c, "ready") /\ UNCHANGED result
       \/ \E e \in TokenErrors : EndCall(c, e)
    /\ UNCHANGED <<provider, pool, closing, call, sends, last, read, given, responses>>

RaiseAuthFailure(c) ==
    /\ pc[c] = "answered"
    /\ Denied(c)
    /\ sends[c] = 2
    /\ EndCall(c, ProviderError("authentication", 401, TRUE))
    /\ UNCHANGED <<provider, pool, closing, call, sends, last, read, given, responses>>

\* Which bodies of a bad status can be looked at: all of a unary answer; of a
\* stream that of an error, if it could be read to its end.
ReadBodies(c) ==
    IF ~Streams(c)              THEN {last[c].body}
    ELSE IF last[c].status >= 400 THEN {last[c].body, "unread"}
    ELSE {"unread"}

\* The audit asks an error response for its body, which raises ResponseNotRead,
\* a RuntimeError, when reading it has failed.
AuditTrips(c, body, audited) ==
    audited /\ ~Copilot /\ last[c].status >= 400 /\ body = "unread"

BadStatus(c) ==
    /\ pc[c] = "answered"
    /\ last[c].status # 200
    /\ ~Denied(c)
    /\ \E body \in ReadBodies(c), audited \in BOOLEAN :
        EndCall(c, IF AuditTrips(c, body, audited) THEN Ended("raw")
                   ELSE Failed(c, last[c], body))
    /\ UNCHANGED <<provider, pool, closing, call, sends, last, read, given, responses>>

UnaryAnswer(c) ==
    /\ pc[c] = "answered"
    /\ last[c].status = 200
    /\ ~Streams(c)
    /\ EndCall(c, IF Generates(c) /\ last[c].body = "object" THEN Ended("value")
                  ELSE Failed(c, last[c], last[c].body))
    /\ UNCHANGED <<provider, pool, closing, call, sends, last, read, given, responses>>

StreamOpens(c) ==
    /\ pc[c] = "answered"
    /\ last[c].status = 200
    /\ Streams(c)
    /\ Go(c, "reading")
    /\ UNCHANGED <<provider, pool, closing, call, sends, last, read, given, responses, result>>

-----------------------------------------------------------------------------
(* The stream: _iter_sse_data inside the response's context.               *)

Skips(c, line) == line \in Skipped(call[c].protocol)

ReadLine(c) ==
    /\ pc[c] = "reading"
    /\ Alive(c)
    /\ Len(read[c]) < MaxLines
    /\ \E line \in Lines :
        /\ read' = [read EXCEPT ![c] = Append(@, line)]
        /\ \/ /\ Skips(c, line)
              /\ UNCHANGED <<pc, last, given, result>>
           \/ /\ ~Skips(c, line)
              /\ line \in Malformed
              /\ last' = [last EXCEPT ![c] = Garbled]
              /\ EndCall(c, Raises(Garbled, "text"))
              /\ UNCHANGED given
           \/ /\ ~Skips(c, line)
              /\ line \notin Malformed
              /\ given' = [given EXCEPT ![c] = Append(@, line)]
              /\ Go(c, "yielded")
              /\ UNCHANGED <<last, result>>
    /\ UNCHANGED <<provider, pool, closing, call, sends, responses>>

EndOfStream(c) ==
    /\ pc[c] = "reading"
    /\ Alive(c)
    /\ EndCall(c, Ended("eof"))
    /\ UNCHANGED <<provider, pool, closing, call, sends, last, read, given, responses>>

ReadFails(c) ==
    /\ pc[c] = "reading"
    /\ \E f \in Faults :
        /\ last' = [last EXCEPT ![c] = f]
        /\ EndCall(c, Failed(c, f, "unread"))
    /\ UNCHANGED <<provider, pool, closing, call, sends, read, given, responses>>

\* The consumer asks for the next frame, or gives the generator up.
NextFrame(c) ==
    /\ pc[c] = "yielded"
    /\ Go(c, "reading")
    /\ UNCHANGED <<provider, pool, closing, call, sends, last, read, given, responses, result>>

GivenUp(c) ==
    /\ pc[c] = "yielded"
    /\ EndCall(c, Ended("abandoned"))
    /\ UNCHANGED <<provider, pool, closing, call, sends, last, read, given, responses>>

\* Cancellation is none of httpx's errors either, and unwinds the same contexts.
Cancelled(c) ==
    /\ \/ pc[c] \in {"token", "sent", "renew", "reading"}
       \/ pc[c] = "answered" /\ Streams(c) /\ last[c].status >= 400
    /\ EndCall(c, Ended("cancelled"))
    /\ UNCHANGED <<provider, pool, closing, call, sends, last, read, given, responses>>

ResponseCloses(c) ==
    /\ pc[c] = "closing"
    /\ responses' = responses \ {c}
    /\ Go(c, "done")
    /\ UNCHANGED <<provider, pool, closing, call, sends, last, read, given, result>>

\* The task that made the call makes another one.
Again(c) ==
    /\ pc[c] = "done"
    /\ call' = [call EXCEPT ![c] = NoCall]
    /\ sends' = [sends EXCEPT ![c] = 0]
    /\ last' = [last EXCEPT ![c] = Silent]
    /\ read' = [read EXCEPT ![c] = <<>>]
    /\ given' = [given EXCEPT ![c] = <<>>]
    /\ result' = [result EXCEPT ![c] = Ended("none")]
    /\ Go(c, "idle")
    /\ UNCHANGED <<provider, pool, closing, responses>>

-----------------------------------------------------------------------------
Proceed(c) ==
    \/ EnsureToken(c)   \/ Send(c)         \/ SendRefused(c) \/ Answered(c)
    \/ SendFails(c)     \/ Renews(c)       \/ Renewed(c)     \/ RaiseAuthFailure(c)
    \/ BadStatus(c)     \/ UnaryAnswer(c)  \/ StreamOpens(c) \/ ReadLine(c)
    \/ EndOfStream(c)   \/ ReadFails(c)    \/ ResponseCloses(c)

Next ==
    \/ \E c \in Calls : Arrive(c) \/ Proceed(c) \/ NextFrame(c) \/ GivenUp(c)
                      \/ Cancelled(c) \/ Again(c)
    \/ CloseBegins
    \/ CloseEnds

Spec == Init /\ [][Next]_vars

\* Network operations have timeouts and closing a client ends; nothing makes a
\* call arrive, a consumer go on, or a provider close.
FairSpec ==
    /\ Spec
    /\ WF_vars(CloseEnds)
    /\ \A c \in Calls : WF_vars(Proceed(c))

-----------------------------------------------------------------------------
(* What the client is told of it, if nobody else answers                   *)
(* (server/protocols/errors.py): a response of its protocol, or an event   *)
(* of a stream that has begun.                                             *)

Surfaces == {"openai_chat", "openai_responses", "anthropic", "gemini"}

ErrorCode(status, kind) ==
    CASE status \in {400, 405, 422} -> "invalid_request"
      [] status = 401               -> "authentication_error"
      [] status = 403               -> "permission_denied"
      [] status = 404               -> "not_found"
      [] status = 529               -> "overloaded"
      [] OTHER -> CASE status = 429 \/ kind = "rate_limit" -> "rate_limit_exceeded"
                    [] status # 429 /\ kind = "upstream_protocol" -> "upstream_protocol_error"
                    [] OTHER -> "server_error"

Code(e) ==
    CASE e.signal = "overflow"   -> "context_length_exceeded"
      [] e = RequestOptionError  -> "unsupported_parameter"
      [] OTHER                   -> ErrorCode(e.status, e.kind)

\* What is no ProviderError is not told about.
Normalized(r) ==
    IF r.end = "error" THEN [status |-> r.status, kind |-> r.kind, code |-> Code(r)]
    ELSE [status |-> 500, kind |-> "unknown", code |-> "server_error"]

Busy(n) == n.status \in {429, 529} \/ n.kind = "rate_limit"
Client(n) == n.status \in 400..499

OpenAIErrorType(n) ==
    CASE n.status = 401 -> "authentication_error"
      [] n.status = 403 -> "permission_error"
      [] OTHER -> CASE Busy(n)                -> "rate_limit_error"
                    [] ~Busy(n) /\ Client(n) -> "invalid_request_error"
                    [] OTHER                  -> "api_error"

AnthropicErrorType(n) ==
    CASE n.status = 401 -> "authentication_error"
      [] n.status = 403 -> "permission_error"
      [] n.status = 404 -> "not_found_error"
      [] n.status = 413 -> "request_too_large"
      [] n.status = 529 -> "overloaded_error"
      [] OTHER -> CASE Busy(n)                -> "rate_limit_error"
                    [] ~Busy(n) /\ Client(n) -> "invalid_request_error"
                    [] OTHER                  -> "api_error"

\* Mutant of the definition that follows.
GeminiForgetsOverload(n) ==
    CASE n.status \in {400, 405, 422} -> "INVALID_ARGUMENT"
      [] n.status = 401               -> "UNAUTHENTICATED"
      [] n.status = 403               -> "PERMISSION_DENIED"
      [] n.status = 404               -> "NOT_FOUND"
      [] n.status = 429               -> "RESOURCE_EXHAUSTED"
      [] n.status \in {503, 504}      -> "UNAVAILABLE"
      [] OTHER                        -> "INTERNAL"

GeminiErrorStatus(n) ==
    CASE n.status \in {400, 405, 422} -> "INVALID_ARGUMENT"
      [] n.status = 401               -> "UNAUTHENTICATED"
      [] n.status = 403               -> "PERMISSION_DENIED"
      [] n.status = 404               -> "NOT_FOUND"
      [] OTHER -> CASE Busy(n)                                -> "RESOURCE_EXHAUSTED"
                    [] ~Busy(n) /\ n.status \in {503, 504} -> "UNAVAILABLE"
                    [] OTHER                                  -> "INTERNAL"

\* The words by which a client may tell what to do.
ErrorResponse(surface, n) ==
    CASE surface \in {"openai_chat", "openai_responses"} -> {OpenAIErrorType(n), n.code}
      [] surface = "anthropic"                           -> {AnthropicErrorType(n)}
      [] surface = "gemini"                              -> {GeminiErrorStatus(n)}

PostcommitErrorData(surface, n) ==
    CASE surface = "openai_chat"      -> {OpenAIErrorType(n), n.code}
      [] surface = "openai_responses" -> {n.code}
      [] surface = "anthropic"        -> {AnthropicErrorType(n)}
      [] surface = "gemini"           -> {GeminiErrorStatus(n)}

-----------------------------------------------------------------------------
(* Properties.                                                             *)

Refusal(c) ==
    last[c].status \in {302, 400, 404, 413} \/ (last[c].status = 401 /\ ~Copilot)
Outage(c) ==
    \/ last[c] \in Faults
    \/ last[c].status \in {429, 503, 529}
    \/ last[c].status = 200 /\ last[c].body = "text"

\* What the dispatcher is told is what happened: a call that another provider
\* may repeat met an outage, one that nobody may repeat was refused (or never
\* sent, or has lost its token), and a context that is too long is called so
\* only where the upstream said it, and always where its answer was read.
\* A raw error comes of a closed pool or of the audit alone.
CauseIsTold(c) ==
    LET r == result[c] IN
    /\ r.end = "error" /\ r.retryable  => Outage(c) \/ (Copilot /\ ~Refusal(c))
    /\ r.end = "error" /\ ~r.retryable => Refusal(c) \/ sends[c] = 0 \/ Denied(c)
    /\ r.signal = "overflow" =>
        last[c].status = 400 /\ last[c].body \in {"overflow", "miscounted"}
    /\ last[c].body = "miscounted" /\ provider = "deepseek" => r.signal = "none"
    /\ r.end = "error" /\ call[c].op = "execute" /\ last[c].body = "overflow" =>
        (r.signal = "overflow" <=> provider \in {"github-copilot", "deepseek"})
    /\ r.end \in {"value", "eof"} /\ Generates(c) => last[c].body = "object"
    /\ r.end = "raw" => pool.closed \/ (Streams(c) /\ last[c].status >= 400)

FailureTellsItsCause == \A c \in Calls : CauseIsTold(c)

\* What the words mean in their protocols: who must do something about it.
Means(word) ==
    CASE word \in {"authentication_error", "permission_error", "permission_denied",
                   "UNAUTHENTICATED", "PERMISSION_DENIED"} -> "credential"
      [] word \in {"rate_limit_error", "rate_limit_exceeded", "overloaded",
                   "overloaded_error", "RESOURCE_EXHAUSTED"} -> "busy"
      [] word \in {"api_error", "server_error", "upstream_protocol_error",
                   "INTERNAL", "UNAVAILABLE"} -> "server"
      [] OTHER -> "request"

\* Clients repeat a request that was answered with one of these.
MayRepeat(status) == status \in {408, 409, 429} \/ status >= 500

\* A refusal that the codes and Gemini have no word for: they blame the server.
NoWord == {413}

\* Whatever protocol a client speaks, and whether or not its stream has begun, it
\* reads the same of a failure: that its request is at fault only if it was
\* refused (or never sent, or the token was), that it may try again exactly if
\* another provider might have been tried, credentials aside, and that its
\* context is too long only where the upstream said so.
ClientIsTold(c) ==
    LET r == result[c]
        n == Normalized(r)
        words == UNION {ErrorResponse(s, n) \union PostcommitErrorData(s, n) : s \in Surfaces}
    IN  r.end \in {"error", "raw"} =>
            /\ n.status \notin NoWord =>
                \A word \in words : Means(word) = Means(AnthropicErrorType(n))
            /\ \A word \in words : Means(word) = "request" =>
                Refusal(c) \/ sends[c] = 0 \/ Denied(c)
            /\ r.end = "error" /\ r.kind # "authentication" =>
                (r.retryable <=> MayRepeat(n.status))
            /\ n.code = "context_length_exceeded" =>
                last[c].status = 400 /\ last[c].body \in {"overflow", "miscounted"}

ClientIsToldSo == \A c \in Calls : ClientIsTold(c)

\* How many of the first n lines carry the answer.
Carried(lines, n) == Cardinality({k \in 1..n : lines[k] \in Carrying})

\* The n-th that carries the answer is the same in both, and both have as many.
SameAnswer(lines, frames) ==
    /\ Carried(lines, Len(lines)) = Carried(frames, Len(frames))
    /\ \A i \in DOMAIN lines, j \in DOMAIN frames :
        /\ {lines[i], frames[j]} \subseteq Carrying
        /\ Carried(lines, i) = Carried(frames, j)
        => lines[i] = frames[j]

\* Whatever a provider's housekeeping lines look like, every frame that
\* carries the answer reaches the consumer, in order.
AnswerIsHandedOn == \A c \in Calls : SameAnswer(read[c], given[c])

OutcomeIsTrue == FailureTellsItsCause /\ AnswerIsHandedOn /\ ClientIsToldSo

\* However a call ends, the response of its stream has been closed, also before
\* its request is sent once more; a closed pool has closed its client.
NothingIsLeftOpen ==
    /\ \A c \in responses : pc[c] \in {"answered", "reading", "yielded", "closing"}
    /\ pool.closed /\ ~closing => ~pool.open

\* A request is sent again only when its token was refused or its connection
\* was lost before an answer, once, and never after a frame of it was used; a
\* pool that was closed sends nothing and makes no client, and it makes one.
SendsSafely ==
    [][\A c \in Calls : sends'[c] > sends[c] =>
        /\ given[c] = <<>>
        /\ c \notin responses
        /\ sends[c] > 0 =>
            sends[c] = 1 /\ (last[c].status = 401 \/ last[c].body = "disconnected")
        /\ Pooled(c) => ~pool.closed /\ pool'.made = 1]_vars

\* Every request that was sent ends or reaches its consumer, and a close ends.
CallsEnd ==
    /\ \A c \in Calls : pc[c] = "sent" ~> pc[c] \in {"yielded", "done"}
    /\ pool.closed ~> ~pool.open
=============================================================================
