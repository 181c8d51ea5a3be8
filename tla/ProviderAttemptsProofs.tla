------------------------ MODULE ProviderAttemptsProofs ------------------------
(***************************************************************************)
(* Proofs about ProviderAttempts, for any number of calls that share a     *)
(* provider and streams of any length.                                     *)
(***************************************************************************)
EXTENDS ProviderAttempts, FiniteSetTheorems, TLAPS

Over == {"closing", "done"}
InStream == {"reading", "yielded"}
Object == [status |-> 200, body |-> "object"]

\* What an attempt has sent and seen at each place.
StageInv(c) ==
    /\ pc[c] \in {"idle", "token"} => sends[c] = 0 /\ last[c] = Silent
    /\ pc[c] = "ready" =>
        \/ sends[c] = 0 /\ last[c] = Silent
        \/ /\ sends[c] = 1 /\ Copilot
           /\ last[c].status = 401 \/ last[c].body = "disconnected"
    /\ pc[c] \in {"token", "renew"} => Copilot
    /\ pc[c] # "idle" => call[c].op # "none"
    /\ pc[c] \in {"sent", "answered"} => sends[c] > 0
    /\ pc[c] = "answered" =>
        last[c] \in Replies /\ (Streams(c) /\ last[c].status = 200 => last[c] = Object)
    /\ pc[c] = "renew" => last[c].status = 401 /\ sends[c] = 1
    /\ pc[c] \in InStream => Streams(c) /\ last[c] = Object
    /\ pc[c] \notin InStream \union Over => read[c] = <<>> /\ given[c] = <<>>
    /\ pc[c] \notin Over => result[c] = Ended("none")

OpenInv(c) == c \in responses => pc[c] \in {"answered", "reading", "yielded", "closing"}

CallInv(c) == StageInv(c) /\ OpenInv(c) /\ CauseIsTold(c) /\ SameAnswer(read[c], given[c])

\* The client of the pool is made once and closed once.
PoolInv ==
    /\ closing => pool.closed /\ pool.open
    /\ pool.closed /\ ~closing => ~pool.open
    /\ pool.open => pool.made = 1
    /\ ~pool.open /\ ~pool.closed => pool.made = 0

Inv == TypeOK /\ PoolInv /\ \A c \in Calls : CallInv(c)

-----------------------------------------------------------------------------
(* The answer among the lines.                                             *)

LEMMA CarriedFacts ==
    ASSUME NEW s, NEW n \in Nat
    PROVE  /\ Carried(s, n) \in Nat
           /\ Carried(s, n + 1) = Carried(s, n) + IF s[n + 1] \in Carrying THEN 1 ELSE 0
           /\ \A m \in 0..n : Carried(s, m) <= Carried(s, n)
           /\ Carried(s, 0) = 0
  <1> DEFINE In(m) == {k \in 1..m : s[k] \in Carrying}
  <1>1. \A m \in Nat : IsFiniteSet(In(m)) /\ Cardinality(In(m)) \in Nat
    <2> SUFFICES ASSUME NEW m \in Nat  PROVE IsFiniteSet(In(m)) /\ Cardinality(In(m)) \in Nat
      OBVIOUS
    <2>1. IsFiniteSet(1..m) /\ In(m) \subseteq 1..m
      BY FS_Interval
    <2> HIDE DEF In
    <2> QED
      BY <2>1, FS_Subset, FS_CardinalityType
  <1>2. \A m : Carried(s, m) = Cardinality(In(m))
    BY DEF Carried
  <1>3. Carried(s, n + 1) = Carried(s, n) + IF s[n + 1] \in Carrying THEN 1 ELSE 0
    <2>1. 1..n + 1 = 1..n \union {n + 1} /\ n + 1 \notin 1..n
      OBVIOUS
    <2>2. CASE s[n + 1] \in Carrying
      <3>1. In(n + 1) = In(n) \union {n + 1} /\ n + 1 \notin In(n)
        BY <2>1, <2>2
      <3> HIDE DEF In
      <3>2. Cardinality(In(n) \union {n + 1}) = Cardinality(In(n)) + 1
        BY <1>1, <3>1, FS_AddElement
      <3> QED
        BY <1>2, <2>2, <3>1, <3>2
    <2>3. CASE s[n + 1] \notin Carrying
      <3>1. In(n + 1) = In(n)
        BY <2>1, <2>3
      <3> HIDE DEF In
      <3> QED
        BY <1>1, <1>2, <2>3, <3>1
    <2> QED
      BY <2>2, <2>3
  <1>4. \A m \in 0..n : Carried(s, m) <= Carried(s, n)
    <2> SUFFICES ASSUME NEW m \in 0..n  PROVE Carried(s, m) <= Carried(s, n)
      OBVIOUS
    <2>1. In(m) \subseteq In(n) /\ m \in Nat
      OBVIOUS
    <2> HIDE DEF In
    <2> QED
      BY <1>1, <1>2, <2>1, FS_Subset
  <1>5. Carried(s, 0) = 0
    <2>1. In(0) = {}
      OBVIOUS
    <2> HIDE DEF In
    <2> QED
      BY <1>2, <2>1, FS_EmptySet
  <1> QED
    BY <1>1, <1>2, <1>3, <1>4, <1>5

\* What one more line changes.
LEMMA CarriedAppend ==
    ASSUME NEW s \in Seq(Lines), NEW e \in Lines
    PROVE  /\ Append(s, e) \in Seq(Lines) /\ Len(s) \in Nat
           /\ DOMAIN Append(s, e) = DOMAIN s \union {Len(s) + 1}
           /\ Len(Append(s, e)) = Len(s) + 1 /\ Append(s, e)[Len(s) + 1] = e
           /\ \A i \in DOMAIN s : /\ Append(s, e)[i] = s[i]
                                  /\ Carried(Append(s, e), i) = Carried(s, i)
                                  /\ Carried(s, i) \in Nat /\ Carried(s, i) <= Carried(s, Len(s))
           /\ Carried(s, Len(s)) \in Nat
           /\ Carried(Append(s, e), Len(s) + 1)
                = Carried(s, Len(s)) + IF e \in Carrying THEN 1 ELSE 0
  <1>1. PICK n \in Nat : n = Len(s)
    OBVIOUS
  <1>2. /\ Append(s, e) \in Seq(Lines) /\ DOMAIN s = 1..n /\ DOMAIN Append(s, e) = 1..n + 1
        /\ Len(Append(s, e)) = n + 1 /\ Append(s, e)[n + 1] = e
        /\ \A i \in 1..n : Append(s, e)[i] = s[i]
    BY <1>1
  <1>3. ASSUME NEW i \in 0..n  PROVE Carried(Append(s, e), i) = Carried(s, i)
    <2>1. \A k \in 1..i : Append(s, e)[k] = s[k]
      BY <1>2
    <2> QED
      BY <2>1 DEF Carried
  <1>4. \A i \in 0..n : Carried(s, i) \in Nat /\ Carried(s, i) <= Carried(s, n)
    <2>1. \A i \in 0..n : i \in Nat
      OBVIOUS
    <2> QED
      BY <2>1, CarriedFacts
  <1>5. Carried(Append(s, e), n + 1) = Carried(s, n) + IF e \in Carrying THEN 1 ELSE 0
    <2>1. Carried(Append(s, e), n + 1)
            = Carried(Append(s, e), n) + IF Append(s, e)[n + 1] \in Carrying THEN 1 ELSE 0
      BY CarriedFacts
    <2>2. n \in 0..n
      OBVIOUS
    <2> QED
      BY <1>2, <1>3, <2>1, <2>2, Zenon
  <1>6. 1..n + 1 = 1..n \union {n + 1} /\ n \in 0..n
    OBVIOUS
  <1>7. \A i \in 1..n : /\ Carried(Append(s, e), i) = Carried(s, i)
                        /\ Carried(s, i) \in Nat /\ Carried(s, i) <= Carried(s, n)
    BY <1>3, <1>4
  <1>8. Carried(s, n) \in Nat
    BY <1>4, <1>6
  <1> QED
    BY <1>1, <1>2, <1>5, <1>6, <1>7, <1>8, Zenon

LEMMA SameTurned ==
    ASSUME NEW s, NEW t, SameAnswer(s, t)
    PROVE  SameAnswer(t, s)
  BY DEF SameAnswer

\* A line that carries nothing may be left out.
LEMMA SameSkips ==
    ASSUME NEW s \in Seq(Lines), NEW t \in Seq(Lines), SameAnswer(s, t),
           NEW e \in Lines \ Carrying
    PROVE  SameAnswer(Append(s, e), t)
  <1>1. Carried(Append(s, e), Len(s) + 1) = Carried(s, Len(s))
    BY CarriedAppend
  <1>2. ASSUME NEW i \in DOMAIN Append(s, e), NEW j \in DOMAIN t,
               {Append(s, e)[i], t[j]} \subseteq Carrying, Carried(Append(s, e), i) = Carried(t, j)
        PROVE  Append(s, e)[i] = t[j]
    <2>1. i \in DOMAIN s
      BY <1>2, CarriedAppend
    <2>2. Append(s, e)[i] = s[i] /\ Carried(Append(s, e), i) = Carried(s, i)
      BY <2>1, CarriedAppend
    <2> QED
      BY <1>2, <2>1, <2>2 DEF SameAnswer
  <1>3. Len(Append(s, e)) = Len(s) + 1
    OBVIOUS
  <1> QED
    BY <1>1, <1>2, <1>3 DEF SameAnswer

\* A line that is handed on is the next in both.
LEMMA SameHandsOn ==
    ASSUME NEW s \in Seq(Lines), NEW t \in Seq(Lines), SameAnswer(s, t), NEW e \in Lines
    PROVE  SameAnswer(Append(s, e), Append(t, e))
  <1>1. CASE e \notin Carrying
    <2>1. SameAnswer(Append(s, e), t)
      BY <1>1, SameSkips
    <2>2. SameAnswer(t, Append(s, e))
      BY <2>1, SameTurned
    <2>3. Append(s, e) \in Seq(Lines)
      OBVIOUS
    <2>4. SameAnswer(Append(t, e), Append(s, e))
      BY <1>1, <2>2, <2>3, SameSkips
    <2> QED
      BY <2>4, SameTurned
  <1>2. CASE e \in Carrying
    <2> DEFINE n == Carried(s, Len(s))
    <2>1. n = Carried(t, Len(t)) /\ n \in Nat
      BY CarriedAppend DEF SameAnswer
    <2>2. /\ Carried(Append(s, e), Len(s) + 1) = n + 1
          /\ Carried(Append(t, e), Len(t) + 1) = n + 1
      BY <1>2, <2>1, CarriedAppend
    <2>3. ASSUME NEW i \in DOMAIN Append(s, e), NEW j \in DOMAIN Append(t, e),
                 {Append(s, e)[i], Append(t, e)[j]} \subseteq Carrying,
                 Carried(Append(s, e), i) = Carried(Append(t, e), j)
          PROVE  Append(s, e)[i] = Append(t, e)[j]
      <3>1. i \in DOMAIN s => /\ Append(s, e)[i] = s[i]
                              /\ Carried(Append(s, e), i) = Carried(s, i)
                              /\ Carried(s, i) \in Nat /\ Carried(s, i) <= n
        BY CarriedAppend
      <3>2. j \in DOMAIN t => /\ Append(t, e)[j] = t[j]
                              /\ Carried(Append(t, e), j) = Carried(t, j)
                              /\ Carried(t, j) \in Nat /\ Carried(t, j) <= n
        BY <2>1, CarriedAppend
      <3>3. CASE i \in DOMAIN s /\ j \in DOMAIN t
        BY <2>3, <3>1, <3>2, <3>3 DEF SameAnswer
      <3>4. CASE i = Len(s) + 1 /\ j = Len(t) + 1
        BY <3>4, CarriedAppend
      <3>5. CASE i = Len(s) + 1 /\ j \in DOMAIN t
        <4> HIDE DEF n
        <4> QED
          BY <2>1, <2>2, <2>3, <3>2, <3>5
      <3>6. CASE i \in DOMAIN s /\ j = Len(t) + 1
        <4> HIDE DEF n
        <4> QED
          BY <2>1, <2>2, <2>3, <3>1, <3>6
      <3>7. (i \in DOMAIN s \/ i = Len(s) + 1) /\ (j \in DOMAIN t \/ j = Len(t) + 1)
        BY CarriedAppend
      <3> QED
        BY <3>3, <3>4, <3>5, <3>6, <3>7
    <2>4. Len(Append(s, e)) = Len(s) + 1 /\ Len(Append(t, e)) = Len(t) + 1
      OBVIOUS
    <2> HIDE DEF n
    <2>5. Carried(Append(s, e), Len(Append(s, e))) = Carried(Append(t, e), Len(Append(t, e)))
      BY <2>2, <2>4
    <2> QED
      BY <2>3, <2>5 DEF SameAnswer
  <1> QED
    BY <1>1, <1>2

LEMMA SameAtFirst == SameAnswer(<<>>, <<>>)
  BY CarriedFacts DEF SameAnswer

-----------------------------------------------------------------------------
(* What a failed call is told.                                             *)

LEMMA ReplyFacts ==
    /\ \A l \in Replies :
        /\ l.status \in {200, 302, 400, 401, 404, 413, 429, 503, 529}
        /\ l.body \in {"object", "text"} \union ErrorBodies
        /\ l.body \in {"overflow", "miscounted", "bare", "unsupported", "long"} => l.status = 400
        /\ l.status = 200 <=> l.body \in {"object", "text"}
        /\ l \notin Faults /\ l # Silent
    /\ \A l \in Faults :
        /\ l.status = 0 /\ l.body \in {"timeout", "disconnected", "broken"} /\ l # Silent
    /\ Object \in Replies /\ Garbled \in Replies
    /\ Silent.status = 0 /\ Silent.body = "none"
    /\ Silent \notin Replies \union Faults
  BY DEF Replies, Faults, Silent, Garbled, Object, ErrorBodies

\* The errors without a signal.
LEMMA Repeatable ==
    ASSUME NEW kind \in {"rate_limit", "upstream_status", "transport", "upstream_protocol"},
           NEW status \in {429, 502, 503, 504},
           kind = "rate_limit" <=> status = 429, kind = "upstream_protocol" => status = 502,
           NEW e, e = [end |-> "error", kind |-> kind, status |-> status, retryable |-> TRUE,
                       signal |-> "none"]
    PROVE  e \in Results /\ e.end = "error" /\ e.signal = "none" /\ e.retryable
  <1>1. Coherent(e)
    BY DEF Coherent, RetryableStatuses
  <1> QED
    BY <1>1 DEF Results, Errors, Kinds, Answerable

LEMMA NotRepeatable ==
    ASSUME NEW kind \in {"client_request", "upstream_status", "unsupported_operation"},
           NEW status \in {400, 404}, kind = "client_request" => status = 400,
           NEW e, e = [end |-> "error", kind |-> kind, status |-> status, retryable |-> FALSE,
                       signal |-> "none"]
    PROVE  e \in Results /\ e.end = "error" /\ e.signal = "none" /\ ~e.retryable
  <1>1. Coherent(e)
    BY DEF Coherent, RetryableStatuses
  <1> QED
    BY <1>1 DEF Results, Errors, Kinds, Answerable

LEMMA Unauthenticated ==
    ASSUME NEW again \in BOOLEAN,
           NEW e, e = [end |-> "error", kind |-> "authentication", status |-> 401,
                       retryable |-> again, signal |-> "none"]
    PROVE  e \in Results /\ e.end = "error" /\ e.signal = "none" /\ (e.retryable <=> again)
  <1>1. Coherent(e)
    BY DEF Coherent
  <1> QED
    BY <1>1 DEF Results, Errors, Kinds, Answerable

LEMMA ErrorFacts ==
    \A e \in {RaiseTimeoutError, RaiseHttpError, RaiseProtocolError} :
        e \in Results /\ e.end = "error" /\ e.signal = "none" /\ e.retryable
  <1> SUFFICES ASSUME NEW e \in {RaiseTimeoutError, RaiseHttpError, RaiseProtocolError}
               PROVE  e \in Results /\ e.end = "error" /\ e.signal = "none" /\ e.retryable
    OBVIOUS
  <1>1. \/ e = [end |-> "error", kind |-> "transport", status |-> 504, retryable |-> TRUE,
                signal |-> "none"]
        \/ e = [end |-> "error", kind |-> "transport", status |-> 502, retryable |-> TRUE,
                signal |-> "none"]
        \/ e = [end |-> "error", kind |-> "upstream_protocol", status |-> 502,
                retryable |-> TRUE, signal |-> "none"]
    BY Zenon DEF RaiseTimeoutError, RaiseHttpError, RaiseProtocolError, ProviderError
  <1> QED
    BY <1>1, Repeatable

LEMMA StatusFacts ==
    ASSUME NEW status \in {302, 400, 401, 404, 413, 429, 503, 529},
           NEW signal \in {"none", "bare", "overflow"}, signal # "none" => status = 400
    PROVE  /\ RaiseHttpStatusError(status, signal) \in Results
           /\ RaiseHttpStatusError(status, signal).end = "error"
           /\ RaiseHttpStatusError(status, signal).signal = signal
           /\ RaiseHttpStatusError(status, signal).retryable
                <=> signal # "overflow" /\ status \in {429, 503, 529}
  <1> DEFINE class == ClassifyUpstreamStatus(status)
             e == RaiseHttpStatusError(status, signal)
  <1>1. /\ class.kind \in {"authentication", "rate_limit", "upstream_status"}
        /\ class.kind = "authentication" <=> status = 401
        /\ class.kind = "rate_limit" <=> status \in {429, 529}
        /\ class.retryable <=> status \in RetryableStatuses
    <2> DEFINE kind == CASE status \in {401, 403} -> "authentication"
                         [] status \in {429, 529} -> "rate_limit"
                         [] OTHER                 -> "upstream_status"
    <2>1. /\ status = 401 => kind = "authentication"
          /\ status \in {429, 529} => kind = "rate_limit"
          /\ status \in {302, 400, 404, 413, 503} => kind = "upstream_status"
      OBVIOUS
    <2>2. class.kind = kind /\ (class.retryable <=> status \in RetryableStatuses)
      BY Zenon DEF ClassifyUpstreamStatus
    <2> HIDE DEF class, kind
    <2> QED
      BY <2>1, <2>2
  <1>2. status \in RetryableStatuses <=> status \in {429, 503, 529}
    BY DEF RetryableStatuses
  <1> HIDE DEF class
  <1>3. e = [end |-> "error", status |-> status, signal |-> signal,
             kind |-> IF signal = "overflow" THEN "client_request" ELSE class.kind,
             retryable |-> signal # "overflow" /\ class.retryable]
    BY DEF RaiseHttpStatusError, class
  <1> HIDE DEF e
  <1>4. Coherent(e)
    <2>1. e.retryable <=> signal # "overflow" /\ class.retryable
      BY <1>3, Zenon
    <2>2. /\ e.status = status /\ e.signal = signal
          /\ e.kind = IF signal = "overflow" THEN "client_request" ELSE class.kind
      BY <1>3
    <2>3. e.signal = "overflow" => e.kind = "client_request" /\ status = 400
      BY <2>2
    <2>4. e.signal # "overflow" => e.kind = class.kind /\ (e.retryable <=> class.retryable)
      BY <2>1, <2>2
    <2> QED
      BY <1>1, <1>2, <2>1, <2>2, <2>3, <2>4 DEF Coherent
  <1>5. e \in Results
    <2>1. (IF signal = "overflow" THEN "client_request" ELSE class.kind) \in Kinds
      BY <1>1 DEF Kinds
    <2>2. (signal # "overflow" /\ class.retryable) \in BOOLEAN /\ status \in Answerable
      BY DEF Answerable
    <2>3. e \in [end : {"error"}, kind : Kinds, status : Answerable, retryable : BOOLEAN,
                 signal : {"none", "bare", "overflow"}]
      BY <1>3, <2>1, <2>2
    <2> QED
      BY <1>4, <2>3 DEF Results, Errors
  <1>6. /\ e.end = "error" /\ e.signal = signal
        /\ e.retryable <=> signal # "overflow" /\ status \in {429, 503, 529}
    <2>1. e.retryable <=> signal # "overflow" /\ class.retryable
      BY <1>3, Zenon
    <2>2. e.end = "error" /\ e.signal = signal
      BY <1>3
    <2> QED
      BY <1>1, <1>2, <2>1, <2>2
  <1>7. e = RaiseHttpStatusError(status, signal)
    BY DEF e
  <1> QED
    BY <1>5, <1>6, <1>7

\* The error that is made of a fault, a reply that is no answer, or a body of
\* which nothing could be read.
LEMMA RaisesFacts ==
    ASSUME provider \in Providers, NEW l \in Replies \union Faults, l # Object,
           NEW body \in {l.body, "unread"}
    PROVE  LET r == Raises(l, body) IN
           /\ r \in Results /\ r.end = "error"
           /\ r.retryable <=> \/ l \in Faults \/ l.status \in {429, 503, 529}
                              \/ l.status = 200 /\ l.body = "text"
           /\ r.signal = "overflow" => l.status = 400 /\ l.body \in {"overflow", "miscounted"}
           /\ l.body = "miscounted" /\ provider = "deepseek" => r.signal = "none"
           /\ l.body = "overflow" /\ body = l.body =>
                (r.signal = "overflow" <=> provider \in {"github-copilot", "deepseek"})
  <1>1. /\ l.status \in {0, 200, 302, 400, 401, 404, 413, 429, 503, 529}
        /\ l.status = 0 <=> l \in Faults
        /\ l.body \in {"overflow", "miscounted", "bare", "unsupported", "long"} => l.status = 400
        /\ l.status = 200 => l.body = "text"
        /\ l.body = "timeout" => l.status = 0
    <2>1. l \in Replies /\ l.status = 200 => l.body = "text"
      BY DEF Replies, Object, ErrorBodies
    <2> QED
      BY <2>1, ReplyFacts DEF ErrorBodies
  <1>2. CASE NoBadStatus(l)
    <2>0. Raises(l, body) = RaiseNoStatus(l)
      <3>1. ~Unsupported(l.status, body)
        BY <1>2 DEF NoBadStatus, Unsupported
      <3>2. /\ CopilotRaises(l, body) = RaiseNoStatus(l)
            /\ DeepSeekRaises(l, body) = RaiseNoStatus(l)
            /\ AnthropicRaises(l) = RaiseNoStatus(l) /\ OpenAIRaises(l) = RaiseNoStatus(l)
        BY <1>2, <3>1 DEF CopilotRaises, DeepSeekRaises, AnthropicRaises, OpenAIRaises
      <3> QED
        BY <3>2 DEF Raises
    <2>1. Raises(l, body) \in {RaiseTimeoutError, RaiseHttpError, RaiseProtocolError}
      BY <2>0 DEF RaiseNoStatus
    <2>2. l \in Faults \/ (l.status = 200 /\ l.body = "text")
      BY <1>1, <1>2 DEF NoBadStatus
    <2>3. l.body # "overflow" /\ l.body # "miscounted"
      BY <1>1, <1>2 DEF NoBadStatus
    <2>4. /\ Raises(l, body) \in Results /\ Raises(l, body).end = "error"
          /\ Raises(l, body).signal = "none" /\ Raises(l, body).retryable
      BY <2>1, ErrorFacts
    <2> QED
      BY <2>2, <2>3, <2>4
  <1>3. CASE ~NoBadStatus(l)
    <2>1. l.status \in {302, 400, 401, 404, 413, 429, 503, 529} /\ l \notin Faults
      BY <1>1, <1>3 DEF NoBadStatus
    <2>3. CASE provider = "github-copilot"
      <3>1. CASE Unsupported(l.status, body)
        <4>1. /\ Raises(l, body) = ProviderError("unsupported_operation", 400, FALSE)
              /\ l.status = 400 /\ body = "unsupported" /\ l.body = body
          BY <1>3, <2>3, <3>1 DEF Raises, CopilotRaises, Unsupported
        <4>2. ASSUME NEW e, e = Raises(l, body)
              PROVE  e \in Results /\ e.end = "error" /\ e.signal = "none" /\ ~e.retryable
          <5>1. e = [end |-> "error", kind |-> "unsupported_operation", status |-> 400,
                     retryable |-> FALSE, signal |-> "none"]
            BY <4>1, <4>2 DEF ProviderError
          <5> QED
            BY <5>1, NotRepeatable
        <4>3. LET e == Raises(l, body) IN
              e \in Results /\ e.end = "error" /\ e.signal = "none" /\ ~e.retryable
          BY <4>2, Zenon
        <4>4. /\ ~(l \in Faults \/ l.status \in {429, 503, 529} \/ (l.status = 200 /\ l.body = "text"))
              /\ l.body # "miscounted" /\ l.body # "overflow"
          BY <2>1, <4>1
        <4>5. Raises(l, body).signal # "overflow"
          BY <4>3
        <4> QED
          BY <4>3, <4>4, <4>5
      <3>2. CASE ~Unsupported(l.status, body)
        <4> DEFINE signal == CopilotSignal(l.status, body)
        <4>1. Raises(l, body) = RaiseHttpStatusError(l.status, signal)
          BY <1>3, <2>3, <3>2 DEF Raises, CopilotRaises
        <4>2. /\ signal \in {"none", "bare", "overflow"} /\ (signal # "none" => l.status = 400)
              /\ signal = "overflow" <=> l.status = 400 /\ body \in {"overflow", "miscounted"}
          BY DEF CopilotSignal
        <4> HIDE DEF signal
        <4> QED
          BY <1>1, <2>1, <2>3, <4>1, <4>2, StatusFacts
      <3> QED
        BY <3>1, <3>2
    <2>4. CASE provider = "deepseek"
      <3> DEFINE signal == DeepSeekSignal(l.status, body)
      <3>1. Raises(l, body) = RaiseHttpStatusError(l.status, signal)
        BY <1>3, <2>4 DEF Raises, DeepSeekRaises
      <3>2. /\ signal \in {"none", "overflow"} /\ (signal # "none" => l.status = 400)
            /\ signal = "overflow" <=> l.status = 400 /\ body = "overflow"
        BY DEF DeepSeekSignal
      <3> HIDE DEF signal
      <3> QED
        BY <1>1, <2>1, <2>4, <3>1, <3>2, StatusFacts
    <2>5. CASE provider \notin {"github-copilot", "deepseek"}
      <3>1. Raises(l, body) = RaiseHttpStatusError(l.status, "none")
        BY <1>3, <2>5 DEF Raises, AnthropicRaises, OpenAIRaises
      <3> QED
        BY <2>1, <2>5, <3>1, StatusFacts
    <2> QED
      BY <2>3, <2>4, <2>5
  <1> QED
    BY <1>2, <1>3

\* The results that need no telling.
LEMMA EndedFacts ==
    /\ \A how \in {"none", "value", "eof", "raw", "cancelled", "abandoned", "estimate",
                   "usual", "nothing"} :
        Ended(how) \in Results /\ Ended(how).end = how /\ Ended(how).signal = "none"
    /\ \A e \in TokenErrors : e \in Results /\ e.end = "error" /\ e.signal = "none"
    /\ \A e \in {NoKey, RequestOptionError} :
        e \in Results /\ e.end = "error" /\ e.signal = "none" /\ ~e.retryable
  <1>1. \A how \in {"none", "value", "eof", "raw", "cancelled", "abandoned", "estimate",
                   "usual", "nothing"} :
            Ended(how) \in Results /\ Ended(how).end = how /\ Ended(how).signal = "none"
    BY DEF Ended, Results, Endings
  <1>2. ASSUME NEW e \in TokenErrors  PROVE e \in Results /\ e.end = "error" /\ e.signal = "none"
    <2>1. \/ \E again \in BOOLEAN :
                e = [end |-> "error", kind |-> "authentication", status |-> 401,
                     retryable |-> again, signal |-> "none"]
          \/ e = [end |-> "error", kind |-> "rate_limit", status |-> 429, retryable |-> TRUE,
                  signal |-> "none"]
          \/ e = [end |-> "error", kind |-> "upstream_status", status |-> 503,
                  retryable |-> TRUE, signal |-> "none"]
          \/ e = [end |-> "error", kind |-> "upstream_status", status |-> 404,
                  retryable |-> FALSE, signal |-> "none"]
          \/ e = [end |-> "error", kind |-> "transport", status |-> 502, retryable |-> TRUE,
                  signal |-> "none"]
      <3>1. \/ \E again \in BOOLEAN : e = ProviderError("authentication", 401, again)
            \/ e = ProviderError("rate_limit", 429, TRUE)
            \/ e = ProviderError("upstream_status", 503, TRUE)
            \/ e = ProviderError("upstream_status", 404, FALSE)
            \/ e = ProviderError("transport", 502, TRUE)
        <4>1. CASE e \in {ProviderError("authentication", 401, again) : again \in BOOLEAN}
          BY <4>1
        <4>2. CASE e \in {ProviderError("rate_limit", 429, TRUE),
                          ProviderError("upstream_status", 503, TRUE),
                          ProviderError("upstream_status", 404, FALSE),
                          ProviderError("transport", 502, TRUE)}
          BY <4>2
        <4> QED
          BY <1>2, <4>1, <4>2 DEF TokenErrors
      <3> QED
        BY <3>1, Zenon DEF ProviderError
    <2> QED
      BY <2>1, Repeatable, NotRepeatable, Unauthenticated
  <1>3. ASSUME NEW e, e = RequestOptionError
        PROVE  e \in Results /\ e.end = "error" /\ e.signal = "none" /\ ~e.retryable
    <2>1. e = [end |-> "error", kind |-> "client_request", status |-> 400, retryable |-> FALSE,
               signal |-> "none"]
      BY <1>3 DEF RequestOptionError, ProviderError
    <2> QED
      BY <2>1, NotRepeatable
  <1>4. ASSUME NEW e, e = NoKey
        PROVE  e \in Results /\ e.end = "error" /\ e.signal = "none" /\ ~e.retryable
    <2>1. e = [end |-> "error", kind |-> "authentication", status |-> 401, retryable |-> FALSE,
               signal |-> "none"]
      BY <1>4 DEF NoKey, ProviderError
    <2> QED
      BY <2>1, Unauthenticated
  <1> QED
    BY <1>1, <1>2, <1>3, <1>4

\* What is not a generation's comes to the same as an error of one, or is none.
LEMMA FailedFacts ==
    ASSUME TypeOK, NEW c \in Calls, NEW l \in Replies \union Faults,
           l = Object => call[c].op \in {"list", "count", "files"}, NEW body \in {l.body, "unread"}
    PROVE  LET r == Failed(c, l, body) IN
           /\ r \in Results
           /\ r.end = "error" =>
                /\ l # Object
                /\ r.retryable <=> \/ l \in Faults \/ l.status \in {429, 503, 529}
                                   \/ l.status = 200 /\ l.body = "text"
           /\ r.end \notin {"eof", "raw"} /\ (r.end = "value" => ~Generates(c))
           /\ r.signal = "overflow" => l.status = 400 /\ l.body \in {"overflow", "miscounted"}
           /\ l.body = "miscounted" /\ provider = "deepseek" => r.signal = "none"
           /\ call[c].op = "execute" /\ l.body = "overflow" /\ body = l.body =>
                (r.signal = "overflow" <=> provider \in {"github-copilot", "deepseek"})
  <1>1. l.status = 200 /\ l.body # "object" => l.body = "text"
    BY ReplyFacts DEF ErrorBodies
  <1>3. CASE call[c].op = "list"
    <2>1. Failed(c, l, body) = Lists(l) /\ ~Generates(c)
      BY <1>3 DEF Failed, Generates
    <2>2. \/ Lists(l) \in {Ended("usual"), Ended("nothing"), Ended("value")}
          \/ Lists(l) = RaiseProtocolError /\ l.status = 200 /\ l.body # "object"
      BY DEF Lists, DeepSeekLists, OpenAILists, CustomLists
    <2>3. l.body # "object" => l # Object
      BY DEF Object
    <2> QED
      BY <1>1, <1>3, <2>1, <2>2, <2>3, EndedFacts, ErrorFacts
  <1>4. CASE call[c].op = "count"
    <2>1. Failed(c, l, body) \in {Ended("value"), Ended("estimate")} /\ ~Generates(c)
      BY <1>4 DEF Failed, Counts, Generates
    <2> QED
      BY <1>4, <2>1, EndedFacts
  <1>5. CASE call[c].op = "files"
    <2>1. Failed(c, l, body) = ProxiesFiles(l) /\ ~Generates(c)
      BY <1>5 DEF Failed, Generates
    <2>2. \/ ProxiesFiles(l) = Ended("value")
          \/ l \in Faults /\ l # Object /\ ProxiesFiles(l) \in {RaiseTimeoutError, RaiseHttpError}
      <3>1. l.status = 0 => l \in Faults /\ l # Object
        BY ReplyFacts DEF Object
      <3> QED
        BY <3>1 DEF ProxiesFiles, RaiseNoStatus
    <2> QED
      BY <1>5, <2>1, <2>2, EndedFacts, ErrorFacts
  <1>6. CASE call[c].op \notin {"list", "count", "files"}
    <2>1. Failed(c, l, body) = Raises(l, body)
      BY <1>6 DEF Failed
    <2>2. l # Object
      BY <1>6
    <2> QED
      BY <2>1, <2>2, RaisesFacts DEF TypeOK
  <1> QED
    BY <1>3, <1>4, <1>5, <1>6

-----------------------------------------------------------------------------
(* Every action takes one call on.                                         *)

LEMMA OpFacts ==
    ASSUME TypeOK, NEW c \in Calls
    PROVE  /\ call[c].op \in Operations \union {"none"}
           /\ call[c].op \notin {"execute", "stream", "none"} =>
                ~Copilot /\ call[c].op \in {"list", "count", "files"}
  <1>1. NoCall.op = "none"
    BY DEF NoCall
  <1>2. \A k \in Generations(provider) : k.op \in {"execute", "stream"}
    BY DEF Generations
  <1>3. \A k \in Others(provider) : ~Copilot /\ k.op \in {"list", "count", "files"}
    BY DEF Others, Copilot, OpenAIFamily, TypeOK, Providers
  <1> QED
    BY <1>1, <1>2, <1>3 DEF TypeOK, Operations

LEMMA NothingToTell ==
    ASSUME NEW c \in Calls,
           result[c].end \notin {"error", "value", "eof", "raw"}, result[c].signal = "none"
    PROVE  CauseIsTold(c)
  BY DEF CauseIsTold

LEMMA InitInv == Init => Inv
  <1> SUFFICES ASSUME Init  PROVE Inv
    OBVIOUS
  <1> USE DEF Init
  <1>1. /\ Ended("none") \in Results /\ Ended("none").end = "none"
        /\ Ended("none").signal = "none"
    BY EndedFacts
  <1>2. TypeOK
    <2>1. <<>> \in Seq(Lines)
      OBVIOUS
    <2>2. read \in [Calls -> Seq(Lines)] /\ given \in [Calls -> Seq(Lines)]
      BY <2>1
    <2>3. result \in [Calls -> Results]
      BY <1>1, Zenon
    <2>4. /\ call \in [Calls -> Generations(provider) \union Others(provider) \union {NoCall}]
          /\ sends \in [Calls -> 0..2]
          /\ last \in [Calls -> Replies \union Faults \union {Silent}]
      OBVIOUS
    <2>5. provider \in Providers /\ closing \in BOOLEAN /\ responses \subseteq Calls
      OBVIOUS
    <2>6. pool \in [closed : BOOLEAN, made : 0..1, open : BOOLEAN]
      OBVIOUS
    <2>7. pc \in [Calls -> {"idle", "token", "ready", "sent", "answered", "renew",
                          "reading", "yielded", "closing", "done"}]
      OBVIOUS
    <2> HIDE DEF Init
    <2> QED
      BY <2>2, <2>3, <2>4, <2>5, <2>6, <2>7 DEF TypeOK
  <1>3. PoolInv
    BY DEF PoolInv
  <1>4. ASSUME NEW c \in Calls  PROVE CallInv(c)
    <2>1. CauseIsTold(c)
      BY <1>1, NothingToTell
    <2>2. SameAnswer(read[c], given[c])
      BY SameAtFirst
    <2> QED
      BY <2>1, <2>2 DEF CallInv, StageInv, OpenInv, InStream, Over
  <1> QED
    BY <1>2, <1>3, <1>4 DEF Inv

\* The other calls notice nothing of it, but that the pool may be closed.
Same(d) ==
    /\ call'[d] = call[d] /\ pc'[d] = pc[d] /\ sends'[d] = sends[d] /\ last'[d] = last[d]
    /\ read'[d] = read[d] /\ given'[d] = given[d] /\ result'[d] = result[d]
    /\ d \in responses' <=> d \in responses

LEMMA SameKeeps ==
    ASSUME NEW d \in Calls, CallInv(d), Same(d), provider' = provider,
           pool.closed => pool'.closed
    PROVE  CallInv(d)'
  <1>1. StageInv(d)' /\ OpenInv(d)'
    BY DEF CallInv, StageInv, OpenInv, Same, Copilot, Streams
  <1>2. CauseIsTold(d)'
    BY DEF CallInv, CauseIsTold, Same, Copilot, Streams, Generates, Outage, Refusal, Denied
  <1>3. SameAnswer(read[d], given[d])'
    BY DEF CallInv, Same
  <1> QED
    BY <1>1, <1>2, <1>3 DEF CallInv

LEMMA OneCall ==
    ASSUME Inv, NEW c \in Calls, TypeOK', PoolInv', CallInv(c)', provider' = provider,
           pool.closed => pool'.closed, \A d \in Calls \ {c} : Same(d)
    PROVE  Inv'
  BY SameKeeps DEF Inv

\* A call that ends.
LEMMA Ends ==
    ASSUME Inv, NEW c \in Calls, NEW how \in Results, EndCall(c, how),
           UNCHANGED <<provider, pool, closing, sends, responses>>,
           pc[c] \notin Over, TypeOK => call' \in [Calls -> Generations(provider) \union Others(provider) \union {NoCall}],
           call'[c].op # "none",
           last' \in [Calls -> Replies \union Faults \union {Silent}],
           read' \in [Calls -> Seq(Lines)], given' \in [Calls -> Seq(Lines)],
           \A d \in Calls \ {c} : /\ call'[d] = call[d] /\ last'[d] = last[d]
                                  /\ read'[d] = read[d] /\ given'[d] = given[d],
           result'[c] = how => CauseIsTold(c)',
           SameAnswer(read'[c], given'[c])
    PROVE  Inv'
  <1>1. TypeOK /\ PoolInv /\ CallInv(c)
    BY DEF Inv
  <1>2. /\ result' = [result EXCEPT ![c] = how] /\ result' \in [Calls -> Results]
        /\ pc' = [pc EXCEPT ![c] = IF c \in responses THEN "closing" ELSE "done"]
    BY <1>1 DEF EndCall, Go, TypeOK
  <1>3. TypeOK'
    BY <1>1, <1>2 DEF TypeOK
  <1>4. PoolInv'
    BY <1>1 DEF PoolInv
  <1>5. result'[c] = how /\ pc'[c] = (IF c \in responses THEN "closing" ELSE "done")
    BY <1>1, <1>2 DEF TypeOK
  <1>6. CallInv(c)'
    BY <1>5 DEF CallInv, StageInv, OpenInv, InStream, Over
  <1>7. \A d \in Calls \ {c} : Same(d)
    BY <1>1, <1>2 DEF Same, TypeOK
  <1> QED
    BY <1>3, <1>4, <1>6, <1>7, OneCall

\* A call that goes on.
LEMMA Moves ==
    ASSUME Inv, NEW c \in Calls,
           NEW label \in {"token", "ready", "sent", "answered", "renew", "reading", "yielded"},
           pc' = [pc EXCEPT ![c] = label], pc[c] \notin Over,
           UNCHANGED <<provider, closing, result>>,
           pool' \in [closed : BOOLEAN, made : 0..1, open : BOOLEAN], PoolInv',
           pool.closed => pool'.closed,
           call' \in [Calls -> Generations(provider) \union Others(provider) \union {NoCall}],
           sends' \in [Calls -> 0..2],
           last' \in [Calls -> Replies \union Faults \union {Silent}],
           read' \in [Calls -> Seq(Lines)], given' \in [Calls -> Seq(Lines)],
           responses' \subseteq Calls,
           \A d \in Calls \ {c} : /\ call'[d] = call[d] /\ sends'[d] = sends[d]
                                  /\ last'[d] = last[d]
                                  /\ read'[d] = read[d] /\ given'[d] = given[d]
                                  /\ d \in responses' <=> d \in responses,
           pc'[c] = label /\ result'[c] = Ended("none") => StageInv(c)' /\ OpenInv(c)',
           SameAnswer(read'[c], given'[c])
    PROVE  Inv'
  <1>1. TypeOK /\ PoolInv /\ CallInv(c)
    BY DEF Inv
  <1>2. TypeOK'
    BY <1>1 DEF TypeOK
  <1>3. pc'[c] = label /\ result'[c] = Ended("none")
    BY <1>1 DEF TypeOK, CallInv, StageInv
  <1>4. CauseIsTold(c)'
    <2>1. result'[c].end = "none" /\ result'[c].signal = "none"
      BY <1>3, EndedFacts
    <2> QED
      BY <2>1, <1>3 DEF CauseIsTold
  <1>5. CallInv(c)'
    BY <1>3, <1>4 DEF CallInv
  <1>6. \A d \in Calls \ {c} : Same(d)
    BY <1>1 DEF Same, TypeOK
  <1> QED
    BY <1>2, <1>5, <1>6, OneCall

LEMMA ArriveKeeps ==
    ASSUME Inv, NEW c \in Calls, Arrive(c)
    PROVE  Inv'
  <1>1. TypeOK /\ PoolInv /\ StageInv(c) /\ OpenInv(c) /\ pc[c] = "idle"
        /\ pc[c] \notin Over \union InStream /\ pc[c] # "ready"
        /\ SameAnswer(read[c], given[c])
    BY DEF Inv, CallInv, Arrive, Over, InStream
  <1>2. PICK k \in Generations(provider) \union Others(provider), key \in BOOLEAN :
            /\ call' = [call EXCEPT ![c] = k]
            /\ \/ /\ Prepares(k, key) = Prepared
                  /\ Go(c, IF Copilot THEN "token" ELSE "ready")
                  /\ UNCHANGED result
               \/ Prepares(k, key) # Prepared /\ EndCall(c, Prepares(k, key))
               \/ ListsByHeart(k) /\ EndCall(c, Ended("value"))
    BY DEF Arrive
  <1>3. UNCHANGED <<provider, pool, closing, sends, last, read, given, responses>>
    BY DEF Arrive
  <1>4. /\ call' \in [Calls -> Generations(provider) \union Others(provider) \union {NoCall}]
        /\ call'[c] = k /\ \A d \in Calls \ {c} : call'[d] = call[d]
        /\ call'[c].op # "none"
    <2>1. k.op # "none"
      BY DEF Generations, Others
    <2> QED
      BY <1>1, <1>2, <2>1 DEF TypeOK
  <1>5. CASE /\ Go(c, IF Copilot THEN "token" ELSE "ready")
             /\ UNCHANGED result
    <2>1. PICK label \in {"token", "ready"} : /\ pc' = [pc EXCEPT ![c] = label]
                                              /\ label = "token" => Copilot
      BY <1>5 DEF Go
    <2>2. pc'[c] = label /\ result'[c] = Ended("none") => StageInv(c)' /\ OpenInv(c)'
      BY <1>1, <1>3, <1>4, <2>1 DEF StageInv, OpenInv, InStream, Over, Copilot
    <2> QED
      BY <1>1, <1>3, <1>4, <1>5, <2>1, <2>2, Moves DEF TypeOK, PoolInv
  <1>6. CASE Prepares(k, key) # Prepared /\ EndCall(c, Prepares(k, key))
    <2> DEFINE how == Prepares(k, key)
    <2>1. how \in {NoKey, RequestOptionError, Ended("estimate")}
      BY <1>6 DEF Prepares, CountPrepares, CopilotPrepares, AnthropicPrepares, DeepSeekPrepares,
                  OpenAIPrepares, Prepared
    <2>2. /\ how \in Results /\ how.signal = "none" /\ how.end \in {"error", "estimate"}
          /\ how.end = "error" => ~how.retryable
      BY <2>1, EndedFacts
    <2> HIDE DEF how
    <2>3. sends[c] = 0 /\ last[c].body = "none"
      BY <1>1, ReplyFacts DEF StageInv
    <2>4. result'[c] = how => CauseIsTold(c)'
      BY <1>3, <2>2, <2>3 DEF CauseIsTold
    <2> QED
      BY <1>1, <1>3, <1>4, <1>6, <2>2, <2>4, Ends DEF TypeOK, how
  <1>7. CASE ListsByHeart(k) /\ EndCall(c, Ended("value"))
    <2>1. ~Generates(c)'
      BY <1>4, <1>7 DEF ListsByHeart, Generates
    <2>2. Ended("value") \in Results /\ Ended("value").end = "value"
          /\ Ended("value").signal = "none"
      BY EndedFacts
    <2>3. result'[c] = Ended("value") => CauseIsTold(c)'
      BY <2>1, <2>2 DEF CauseIsTold
    <2> QED
      BY <1>1, <1>3, <1>4, <1>7, <2>2, <2>3, Ends DEF TypeOK
  <1> QED
    BY <1>2, <1>5, <1>6, <1>7

\* A call that ends and changes nothing else.
LEMMA EndsSo ==
    ASSUME Inv, NEW c \in Calls, NEW how \in Results, EndCall(c, how),
           UNCHANGED <<provider, pool, closing, call, sends, last, read, given, responses>>,
           pc[c] \notin Over \union {"idle"},
           result'[c] = how => CauseIsTold(c)'
    PROVE  Inv'
  <1>1. TypeOK /\ call[c].op # "none" /\ SameAnswer(read[c], given[c])
    BY DEF Inv, CallInv, StageInv
  <1> QED
    BY <1>1, Ends DEF TypeOK

\* The session gives a token, or the call ends with what the session says.
LEMMA TokenKeeps ==
    ASSUME Inv, NEW c \in Calls, EnsureToken(c) \/ Renewed(c)
    PROVE  Inv'
  <1>1. /\ TypeOK /\ PoolInv /\ StageInv(c) /\ OpenInv(c) /\ SameAnswer(read[c], given[c])
        /\ pc[c] \in {"token", "renew"} /\ pc[c] \notin Over \union InStream \union {"idle"}
        /\ UNCHANGED <<provider, pool, closing, call, sends, last, read, given, responses>>
    BY DEF Inv, CallInv, EnsureToken, Renewed, Over, InStream
  <1>2. CASE Go(c, "ready") /\ UNCHANGED result
    <2>1. pc' = [pc EXCEPT ![c] = "ready"]
      BY <1>2 DEF Go
    <2>2. pc'[c] = "ready" /\ result'[c] = Ended("none") => StageInv(c)' /\ OpenInv(c)'
      BY <1>1 DEF StageInv, OpenInv, InStream, Over, Copilot
    <2> QED
      BY <1>1, <1>2, <2>1, <2>2, Moves DEF TypeOK, PoolInv
  <1>3. CASE \E e \in TokenErrors : EndCall(c, e)
    <2>1. PICK e \in TokenErrors : EndCall(c, e)
      BY <1>3
    <2>2. e \in Results /\ e.end = "error" /\ e.signal = "none"
      BY EndedFacts
    <2>3. /\ Copilot /\ (sends[c] = 0 \/ last[c].status = 401)
          /\ last[c].status \in {0, 401} /\ last[c].body # "overflow"
      BY <1>1, ReplyFacts DEF StageInv, TypeOK
    <2>4. result'[c] = e => CauseIsTold(c)'
      BY <1>1, <2>2, <2>3 DEF CauseIsTold, Refusal, Denied, Copilot
    <2> QED
      BY <1>1, <2>1, <2>2, <2>4, EndsSo
  <1> QED
    BY <1>2, <1>3 DEF EnsureToken, Renewed

LEMMA SendKeeps ==
    ASSUME Inv, NEW c \in Calls, Send(c)
    PROVE  Inv'
  <1>1. /\ TypeOK /\ PoolInv /\ StageInv(c) /\ OpenInv(c) /\ SameAnswer(read[c], given[c])
        /\ pc[c] = "ready" /\ pc[c] \notin Over \union InStream
        /\ sends' = [sends EXCEPT ![c] = @ + 1] /\ pc' = [pc EXCEPT ![c] = "sent"]
        /\ UNCHANGED <<provider, closing, call, last, read, given, responses, result>>
    BY DEF Inv, CallInv, Send, Go, Over, InStream
  <1>2. /\ sends[c] \in 0..1 /\ sends' \in [Calls -> 0..2] /\ sends'[c] > 0
        /\ \A d \in Calls \ {c} : sends'[d] = sends[d]
    <2>1. sends[c] \in 0..1
      BY <1>1 DEF StageInv
    <2> QED
      BY <1>1, <2>1 DEF TypeOK
  <1>3. /\ pool' \in [closed : BOOLEAN, made : 0..1, open : BOOLEAN] /\ PoolInv'
        /\ pool'.closed = pool.closed
    <2>1. CASE Pooled(c) /\ ~pool.open
      <3>1. pool.made = 0 /\ ~pool.closed /\ ~closing
        BY <1>1, <2>1 DEF PoolInv, Send, PoolRefuses
      <3>2. pool' = [pool EXCEPT !.made = @ + 1, !.open = TRUE]
        BY <2>1 DEF Send, GetClient
      <3>3. pool' \in [closed : BOOLEAN, made : 0..1, open : BOOLEAN]
            /\ pool'.made = 1 /\ pool'.open /\ pool'.closed = pool.closed
        <4>1. pool \in [closed : BOOLEAN, made : 0..1, open : BOOLEAN]
          BY <1>1 DEF TypeOK
        <4>2. pool' = [pool EXCEPT !.made = 1, !.open = TRUE]
          BY <3>1, <3>2
        <4>3. pool.closed \in BOOLEAN /\ 1 \in 0..1
          BY <4>1
        <4>4. pool' = [closed |-> pool.closed, made |-> 1, open |-> TRUE]
          BY <4>1, <4>2
        <4>5. pool'.closed = pool.closed /\ pool'.made = 1 /\ pool'.open
          BY <4>4
        <4> QED
          BY <4>3, <4>4, <4>5, Zenon
      <3> QED
        BY <1>1, <3>1, <3>3 DEF PoolInv
    <2>2. CASE ~(Pooled(c) /\ ~pool.open)
      <3>1. pool' = pool
        BY <2>2 DEF Send, GetClient
      <3> QED
        BY <1>1, <3>1 DEF TypeOK, PoolInv
    <2> QED
      BY <2>1, <2>2
  <1>4. pc'[c] = "sent" /\ result'[c] = Ended("none") => StageInv(c)' /\ OpenInv(c)'
    BY <1>1, <1>2 DEF StageInv, OpenInv, InStream, Over
  <1> QED
    BY <1>1, <1>2, <1>3, <1>4, Moves DEF TypeOK

LEMMA SendRefusedKeeps ==
    ASSUME Inv, NEW c \in Calls, SendRefused(c)
    PROVE  Inv'
  <1>1. /\ TypeOK /\ pc[c] = "ready" /\ pc[c] \notin Over \union {"idle"} /\ pool.closed
        /\ EndCall(c, Ended("raw"))
        /\ UNCHANGED <<provider, pool, closing, call, sends, last, read, given, responses>>
    BY DEF Inv, SendRefused, PoolRefuses, Over
  <1>2. Ended("raw") \in Results /\ Ended("raw").end = "raw" /\ Ended("raw").signal = "none"
    BY EndedFacts
  <1>3. result'[c] = Ended("raw") => CauseIsTold(c)'
    BY <1>1, <1>2 DEF CauseIsTold
  <1> QED
    BY <1>1, <1>2, <1>3, EndsSo

LEMMA AnsweredKeeps ==
    ASSUME Inv, NEW c \in Calls, Answered(c)
    PROVE  Inv'
  <1>1. /\ TypeOK /\ PoolInv /\ StageInv(c) /\ OpenInv(c) /\ SameAnswer(read[c], given[c])
        /\ pc[c] = "sent" /\ pc[c] \notin Over \union InStream
        /\ pc' = [pc EXCEPT ![c] = "answered"]
        /\ responses' = IF Streams(c) THEN responses \union {c} ELSE responses
        /\ UNCHANGED <<provider, pool, closing, call, sends, read, given, result>>
    BY DEF Inv, CallInv, Answered, Go, Over, InStream
  <1>2. PICK r \in Replies : /\ Streams(c) /\ r.status = 200 => r.body = "object"
                             /\ last' = [last EXCEPT ![c] = r]
    BY DEF Answered
  <1>3. r.status = 200 /\ r.body = "object" => r = Object
    BY DEF Replies, Object, ErrorBodies
  <1>4. last' \in [Calls -> Replies \union Faults \union {Silent}] /\ last'[c] = r
        /\ \A d \in Calls \ {c} : last'[d] = last[d]
    BY <1>1, <1>2 DEF TypeOK
  <1>5. pc'[c] = "answered" /\ result'[c] = Ended("none") => StageInv(c)' /\ OpenInv(c)'
    BY <1>1, <1>2, <1>3, <1>4 DEF StageInv, OpenInv, InStream, Over, Streams
  <1>6. responses' \subseteq Calls /\ \A d \in Calls \ {c} : d \in responses' <=> d \in responses
    BY <1>1 DEF TypeOK
  <1> QED
    BY <1>1, <1>4, <1>5, <1>6, Moves DEF TypeOK, PoolInv

\* Something that is no answer ends a call as Failed says.
LEMMA FailsTell ==
    ASSUME Inv, NEW c \in Calls, NEW l \in Replies \union Faults,
           l = Object => call[c].op \in {"list", "count", "files"}, NEW body \in {l.body, "unread"},
           call[c].op = "execute" /\ l.body = "overflow" => body = l.body,
           l.status = 401 => ~Copilot,
           last'[c] = l, result'[c] = Failed(c, l, body),
           UNCHANGED <<provider, call>>
    PROVE  CauseIsTold(c)' /\ Failed(c, l, body) \in Results
  <1> DEFINE r == Failed(c, l, body)
  <1>1. TypeOK
    BY DEF Inv
  <1>2. /\ r \in Results
        /\ r.end = "error" =>
             /\ l # Object
             /\ r.retryable <=> \/ l \in Faults \/ l.status \in {429, 503, 529}
                                \/ l.status = 200 /\ l.body = "text"
        /\ r.end \notin {"eof", "raw"} /\ (r.end = "value" => ~Generates(c))
        /\ r.signal = "overflow" => l.status = 400 /\ l.body \in {"overflow", "miscounted"}
        /\ l.body = "miscounted" /\ provider = "deepseek" => r.signal = "none"
        /\ call[c].op = "execute" /\ l.body = "overflow" /\ body = l.body =>
             (r.signal = "overflow" <=> provider \in {"github-copilot", "deepseek"})
    BY <1>1, FailedFacts
  <1>3. l \notin Faults /\ l.status \notin {429, 503, 529} /\ ~(l.status = 200 /\ l.body = "text")
          /\ l # Object => l.status \in {302, 400, 401, 404, 413}
    <2>1. l \in Replies /\ l.status = 200 /\ l.body # "text" => l = Object
      BY DEF Replies, Object, ErrorBodies
    <2> QED
      BY <2>1, ReplyFacts
  <1> HIDE DEF r
  <1>4. result'[c] = r /\ Generates(c)' = Generates(c)
    BY DEF r, Generates
  <1>5. CauseIsTold(c)'
    BY <1>2, <1>3, <1>4 DEF CauseIsTold, Outage, Refusal, Copilot
  <1> QED
    BY <1>2, <1>5 DEF r

LEMMA FaultKeeps ==
    ASSUME Inv, NEW c \in Calls, NEW f \in Faults, last' = [last EXCEPT ![c] = f],
           EndCall(c, Failed(c, f, "unread")), pc[c] \in {"sent", "reading"},
           UNCHANGED <<provider, pool, closing, call, sends, read, given, responses>>
    PROVE  Inv'
  <1>1. /\ TypeOK /\ SameAnswer(read[c], given[c])
        /\ call[c].op # "none" /\ pc[c] \notin Over
    BY DEF Inv, CallInv, StageInv, Over
  <1>2. last' \in [Calls -> Replies \union Faults \union {Silent}] /\ last'[c] = f
        /\ \A d \in Calls \ {c} : last'[d] = last[d]
    BY <1>1 DEF TypeOK
  <1>3. f # Object /\ f.body # "overflow" /\ f.status = 0
    BY ReplyFacts DEF Object
  <1>4. ASSUME result'[c] = Failed(c, f, "unread")  PROVE CauseIsTold(c)'
    BY <1>2, <1>3, <1>4, FailsTell
  <1>5. Failed(c, f, "unread") \in Results
    BY <1>1, <1>3, FailedFacts
  <1> QED
    BY <1>1, <1>2, <1>4, <1>5, Ends DEF TypeOK

LEMMA SendFailsKeeps ==
    ASSUME Inv, NEW c \in Calls, SendFails(c)
    PROVE  Inv'
  <1>1. /\ TypeOK /\ PoolInv /\ StageInv(c) /\ OpenInv(c) /\ SameAnswer(read[c], given[c])
        /\ pc[c] = "sent" /\ pc[c] \notin Over \union InStream
        /\ UNCHANGED <<provider, pool, closing, call, sends, read, given, responses>>
    BY DEF Inv, CallInv, SendFails, Over, InStream
  <1>2. PICK f \in Faults :
            /\ last' = [last EXCEPT ![c] = f]
            /\ IF Resends(c, f) THEN Go(c, "ready") /\ UNCHANGED result
               ELSE EndCall(c, Failed(c, f, "unread"))
    BY DEF SendFails
  <1>3. CASE Resends(c, f)
    <2>1. last' \in [Calls -> Replies \union Faults \union {Silent}] /\ last'[c] = f
          /\ \A d \in Calls \ {c} : last'[d] = last[d]
      BY <1>1, <1>2 DEF TypeOK
    <2>2. pc' = [pc EXCEPT ![c] = "ready"] /\ result' = result
      BY <1>2, <1>3 DEF Go
    <2>3. pc'[c] = "ready" /\ result'[c] = Ended("none") => StageInv(c)' /\ OpenInv(c)'
      BY <1>1, <1>3, <2>1 DEF StageInv, OpenInv, InStream, Over, Resends, Copilot
    <2> QED
      BY <1>1, <2>1, <2>2, <2>3, Moves DEF TypeOK, PoolInv
  <1>4. CASE ~Resends(c, f)
    BY <1>1, <1>2, <1>4, FaultKeeps
  <1> QED
    BY <1>3, <1>4

LEMMA ReadFailsKeeps ==
    ASSUME Inv, NEW c \in Calls, ReadFails(c)
    PROVE  Inv'
  <1>1. PICK f \in Faults : last' = [last EXCEPT ![c] = f] /\ EndCall(c, Failed(c, f, "unread"))
    BY DEF ReadFails
  <1> QED
    BY <1>1, FaultKeeps DEF ReadFails

\* Steps that only move the call on.
LEMMA StepKeeps ==
    ASSUME Inv, NEW c \in Calls, StreamOpens(c) \/ NextFrame(c) \/ Renews(c)
    PROVE  Inv'
  <1>1. /\ TypeOK /\ PoolInv /\ StageInv(c) /\ OpenInv(c) /\ SameAnswer(read[c], given[c])
        /\ pc[c] \in {"answered", "yielded"} /\ pc[c] \notin Over
        /\ UNCHANGED <<provider, pool, closing, call, sends, last, read, given, result>>
    BY DEF Inv, CallInv, StreamOpens, NextFrame, Renews, Over
  <1>2. CASE StreamOpens(c) \/ NextFrame(c)
    <2>1. pc' = [pc EXCEPT ![c] = "reading"] /\ responses' = responses
      BY <1>2 DEF StreamOpens, NextFrame, Go
    <2>2. Streams(c) /\ last[c] = Object
      BY <1>1, <1>2 DEF StreamOpens, NextFrame, StageInv, InStream
    <2>3. pc'[c] = "reading" /\ result'[c] = Ended("none") => StageInv(c)' /\ OpenInv(c)'
      BY <1>1, <2>1, <2>2 DEF StageInv, OpenInv, InStream, Over, Streams
    <2> QED
      BY <1>1, <2>1, <2>3, Moves DEF TypeOK, PoolInv
  <1>3. CASE Renews(c)
    <2>1. pc' = [pc EXCEPT ![c] = "renew"] /\ responses' = responses \ {c}
      BY <1>3 DEF Renews, Go
    <2>2. pc'[c] = "renew" /\ result'[c] = Ended("none") => StageInv(c)' /\ OpenInv(c)'
      BY <1>1, <1>3, <2>1 DEF Renews, Denied, StageInv, OpenInv, InStream, Over, Copilot
    <2>3. responses' \subseteq Calls /\ \A d \in Calls \ {c} : d \in responses' <=> d \in responses
      BY <1>1, <2>1 DEF TypeOK
    <2> QED
      BY <1>1, <2>1, <2>2, <2>3, Moves DEF TypeOK, PoolInv
  <1> QED
    BY <1>2, <1>3

LEMMA DeniedKeeps ==
    ASSUME Inv, NEW c \in Calls, RaiseAuthFailure(c)
    PROVE  Inv'
  <1> DEFINE how == ProviderError("authentication", 401, TRUE)
  <1>1. /\ pc[c] \notin Over \union {"idle"} /\ Copilot /\ last[c].status = 401
        /\ EndCall(c, how) /\ last[c] \in Replies
        /\ UNCHANGED <<provider, pool, closing, call, sends, last, read, given, responses>>
    BY DEF Inv, CallInv, StageInv, RaiseAuthFailure, Denied, Over
  <1>2. how \in Results /\ how.end = "error" /\ how.signal = "none" /\ how.retryable
    <2>1. how = [end |-> "error", kind |-> "authentication", status |-> 401, retryable |-> TRUE,
                 signal |-> "none"]
      BY DEF ProviderError
    <2> HIDE DEF how
    <2> QED
      BY <2>1, Unauthenticated
  <1>3. last[c].body # "overflow"
    BY <1>1, ReplyFacts
  <1> HIDE DEF how
  <1>4. result'[c] = how => CauseIsTold(c)'
    BY <1>1, <1>2, <1>3 DEF CauseIsTold, Refusal, Copilot
  <1> QED
    BY <1>1, <1>2, <1>4, EndsSo

LEMMA BadStatusKeeps ==
    ASSUME Inv, NEW c \in Calls, BadStatus(c)
    PROVE  Inv'
  <1>1. /\ TypeOK /\ pc[c] \notin Over \union {"idle"}
        /\ last[c] \in Replies /\ last[c].status # 200 /\ (last[c].status = 401 => ~Copilot)
        /\ UNCHANGED <<provider, pool, closing, call, sends, last, read, given, responses>>
    BY DEF Inv, CallInv, StageInv, BadStatus, Denied, Over
  <1>2. PICK body \in ReadBodies(c), audited \in BOOLEAN :
            EndCall(c, IF AuditTrips(c, body, audited) THEN Ended("raw")
                       ELSE Failed(c, last[c], body))
    BY DEF BadStatus
  <1>3. /\ body \in {last[c].body, "unread"}
        /\ ~Streams(c) => body = last[c].body
        /\ last[c].body # "unread"
    BY <1>1, ReplyFacts DEF ReadBodies, ErrorBodies
  <1>4. CASE AuditTrips(c, body, audited)
    <2>1. Streams(c) /\ last[c].status >= 400
      BY <1>3, <1>4 DEF AuditTrips
    <2>2. Ended("raw") \in Results /\ Ended("raw").end = "raw" /\ Ended("raw").signal = "none"
      BY EndedFacts
    <2>3. result'[c] = Ended("raw") => CauseIsTold(c)'
      BY <1>1, <2>1, <2>2 DEF CauseIsTold, Streams
    <2> QED
      BY <1>1, <1>2, <1>4, <2>2, <2>3, EndsSo
  <1>5. CASE ~AuditTrips(c, body, audited)
    <2>1. last[c] # Object
      BY <1>1 DEF Object
    <2>2. call[c].op = "execute" => body = last[c].body
      BY <1>3 DEF Streams
    <2>3. ASSUME result'[c] = Failed(c, last[c], body)  PROVE CauseIsTold(c)'
      BY <1>1, <1>3, <2>1, <2>2, <2>3, FailsTell
    <2>4. Failed(c, last[c], body) \in Results
      BY <1>1, <1>3, <2>1, FailedFacts
    <2> QED
      BY <1>1, <1>2, <1>5, <2>3, <2>4, EndsSo
  <1> QED
    BY <1>4, <1>5

LEMMA UnaryAnswerKeeps ==
    ASSUME Inv, NEW c \in Calls, UnaryAnswer(c)
    PROVE  Inv'
  <1>1. /\ TypeOK /\ pc[c] \notin Over \union {"idle"} /\ call[c].op # "none"
        /\ last[c] \in Replies /\ last[c].status = 200 /\ ~Streams(c)
        /\ UNCHANGED <<provider, pool, closing, call, sends, last, read, given, responses>>
    BY DEF Inv, CallInv, StageInv, UnaryAnswer, Over
  <1>2. CASE Generates(c) /\ last[c].body = "object"
    <2>1. EndCall(c, Ended("value"))
      BY <1>2 DEF UnaryAnswer
    <2>2. Ended("value") \in Results /\ Ended("value").end = "value"
          /\ Ended("value").signal = "none"
      BY EndedFacts
    <2>3. result'[c] = Ended("value") => CauseIsTold(c)'
      BY <1>1, <1>2, <2>2 DEF CauseIsTold
    <2> QED
      BY <1>1, <2>1, <2>2, <2>3, EndsSo
  <1>3. CASE ~(Generates(c) /\ last[c].body = "object")
    <2>1. EndCall(c, Failed(c, last[c], last[c].body))
      BY <1>3 DEF UnaryAnswer
    <2>2. last[c] = Object => call[c].op \in {"list", "count", "files"}
      BY <1>1, <1>3, OpFacts DEF Generates, Object, Operations
    <2>3. ASSUME result'[c] = Failed(c, last[c], last[c].body)  PROVE CauseIsTold(c)'
      BY <1>1, <2>2, <2>3, FailsTell
    <2>4. Failed(c, last[c], last[c].body) \in Results
      BY <1>1, <2>2, FailedFacts
    <2> QED
      BY <1>1, <2>1, <2>3, <2>4, EndsSo
  <1> QED
    BY <1>2, <1>3

\* No provider takes a line that carries the answer for housekeeping.
LEMMA SkippedFacts ==
    ASSUME TypeOK, NEW protocol
    PROVE  Skipped(protocol) \intersect Carrying = {} /\ Malformed \intersect Carrying = {}
  BY DEF Skipped, CopilotSkips, AnthropicSkips, DeepSeekSkips, OpenAISkips, Carrying, Malformed

LEMMA ReadLineKeeps ==
    ASSUME Inv, NEW c \in Calls, ReadLine(c)
    PROVE  Inv'
  <1>1. /\ TypeOK /\ PoolInv /\ StageInv(c) /\ OpenInv(c) /\ SameAnswer(read[c], given[c])
        /\ pc[c] = "reading" /\ pc[c] \notin Over /\ pc[c] \in InStream
        /\ UNCHANGED <<provider, pool, closing, call, sends, responses>>
    BY DEF Inv, CallInv, ReadLine, Over, InStream
  <1>2. PICK line \in Lines :
            /\ read' = [read EXCEPT ![c] = Append(@, line)]
            /\ \/ /\ Skips(c, line)
                  /\ UNCHANGED <<pc, last, given, result>>
               \/ /\ line \in Malformed
                  /\ last' = [last EXCEPT ![c] = Garbled]
                  /\ EndCall(c, Raises(Garbled, "text"))
                  /\ UNCHANGED given
               \/ /\ given' = [given EXCEPT ![c] = Append(@, line)]
                  /\ Go(c, "yielded")
                  /\ UNCHANGED <<last, result>>
    BY DEF ReadLine
  <1>3. /\ read[c] \in Seq(Lines) /\ given[c] \in Seq(Lines)
        /\ Streams(c) /\ last[c] = Object /\ call[c].op # "none"
    BY <1>1 DEF TypeOK, StageInv
  <1>4. /\ read' \in [Calls -> Seq(Lines)] /\ read'[c] = Append(read[c], line)
        /\ \A d \in Calls \ {c} : read'[d] = read[d]
    <2>1. Append(read[c], line) \in Seq(Lines)
      BY <1>3
    <2> QED
      BY <1>1, <1>2, <2>1 DEF TypeOK
  <1>5. ASSUME line \notin Carrying, given' = given
        PROVE  SameAnswer(read'[c], given'[c])
    BY <1>1, <1>3, <1>4, <1>5, SameSkips
  <1>6. CASE Skips(c, line) /\ UNCHANGED <<pc, last, given, result>>
    <2>1. SameAnswer(read'[c], given'[c])
      BY <1>1, <1>5, <1>6, SkippedFacts DEF Skips
    <2>2. pc' = [pc EXCEPT ![c] = "reading"]
      BY <1>1, <1>6 DEF TypeOK
    <2>3. pc'[c] = "reading" /\ result'[c] = Ended("none") => StageInv(c)' /\ OpenInv(c)'
      BY <1>1, <1>3, <1>6 DEF StageInv, OpenInv, InStream, Over, Streams
    <2> QED
      BY <1>1, <1>4, <1>6, <2>1, <2>2, <2>3, Moves DEF TypeOK, PoolInv
  <1>7. CASE /\ line \in Malformed /\ last' = [last EXCEPT ![c] = Garbled]
             /\ EndCall(c, Raises(Garbled, "text")) /\ given' = given
    <2>1. SameAnswer(read'[c], given'[c])
      BY <1>1, <1>5, <1>7, SkippedFacts
    <2>2. /\ Garbled \in Replies /\ Garbled # Object /\ Garbled.status = 200
          /\ Garbled.body = "text"
      BY ReplyFacts DEF Garbled, Object
    <2>3. last' \in [Calls -> Replies \union Faults \union {Silent}] /\ last'[c] = Garbled
          /\ \A d \in Calls \ {c} : last'[d] = last[d]
      BY <1>1, <1>7, <2>2 DEF TypeOK
    <2>4. Failed(c, Garbled, "text") = Raises(Garbled, "text")
      BY <1>3 DEF Failed, Streams
    <2>5. ASSUME result'[c] = Raises(Garbled, "text")  PROVE CauseIsTold(c)'
      BY <1>1, <2>2, <2>3, <2>4, <2>5, FailsTell
    <2>6. Raises(Garbled, "text") \in Results
      BY <1>1, <2>2, <2>4, FailedFacts
    <2> QED
      BY <1>1, <1>3, <1>4, <1>7, <2>1, <2>3, <2>5, <2>6, Ends DEF TypeOK
  <1>8. CASE /\ given' = [given EXCEPT ![c] = Append(@, line)]
             /\ Go(c, "yielded") /\ UNCHANGED <<last, result>>
    <2>1. /\ given' \in [Calls -> Seq(Lines)] /\ given'[c] = Append(given[c], line)
          /\ \A d \in Calls \ {c} : given'[d] = given[d]
      <3>1. Append(given[c], line) \in Seq(Lines)
        BY <1>3
      <3> QED
        BY <1>1, <1>8, <3>1 DEF TypeOK
    <2>2. SameAnswer(read'[c], given'[c])
      BY <1>1, <1>3, <1>4, <2>1, SameHandsOn
    <2>3. pc' = [pc EXCEPT ![c] = "yielded"]
      BY <1>8 DEF Go
    <2>4. pc'[c] = "yielded" /\ result'[c] = Ended("none") => StageInv(c)' /\ OpenInv(c)'
      BY <1>1, <1>3, <1>8 DEF StageInv, OpenInv, InStream, Over, Streams
    <2> QED
      BY <1>1, <1>4, <1>8, <2>1, <2>2, <2>3, <2>4, Moves DEF TypeOK, PoolInv
  <1> QED
    BY <1>2, <1>6, <1>7, <1>8

LEMMA StopsKeeps ==
    ASSUME Inv, NEW c \in Calls, EndOfStream(c) \/ GivenUp(c) \/ Cancelled(c)
    PROVE  Inv'
  <1>1. /\ TypeOK /\ StageInv(c) /\ pc[c] \notin Over \union {"idle"}
        /\ UNCHANGED <<provider, pool, closing, call, sends, last, read, given, responses>>
    BY DEF Inv, CallInv, EndOfStream, GivenUp, Cancelled, Over
  <1>2. CASE EndOfStream(c)
    <2>1. EndCall(c, Ended("eof")) /\ last[c] = Object
      BY <1>1, <1>2 DEF EndOfStream, StageInv, InStream
    <2>2. Ended("eof") \in Results /\ Ended("eof").end = "eof" /\ Ended("eof").signal = "none"
          /\ Object.body = "object"
      BY EndedFacts DEF Object
    <2>3. result'[c] = Ended("eof") => CauseIsTold(c)'
      BY <1>1, <2>1, <2>2 DEF CauseIsTold
    <2> QED
      BY <1>1, <2>1, <2>2, <2>3, EndsSo
  <1>3. CASE GivenUp(c) \/ Cancelled(c)
    <2>1. PICK how \in {"abandoned", "cancelled"} : EndCall(c, Ended(how))
      BY <1>3 DEF GivenUp, Cancelled
    <2>2. Ended(how) \in Results /\ Ended(how).end = how /\ Ended(how).signal = "none"
      BY EndedFacts
    <2>3. result'[c] = Ended(how) => CauseIsTold(c)'
      BY <2>2 DEF CauseIsTold
    <2> QED
      BY <1>1, <2>1, <2>2, <2>3, EndsSo
  <1> QED
    BY <1>2, <1>3

\* A call that is over closes what it left open, and makes room for the next.
LEMMA OverKeeps ==
    ASSUME Inv, NEW c \in Calls, ResponseCloses(c) \/ Again(c)
    PROVE  Inv'
  <1>1. TypeOK /\ PoolInv /\ CallInv(c)
    BY DEF Inv
  <1>2. CASE ResponseCloses(c)
    <2>1. /\ pc' = [pc EXCEPT ![c] = "done"] /\ responses' = responses \ {c} /\ pc[c] = "closing"
          /\ UNCHANGED <<provider, pool, closing, call, sends, last, read, given, result>>
      BY <1>2 DEF ResponseCloses, Go
    <2>2. TypeOK' /\ PoolInv'
      BY <1>1, <2>1 DEF TypeOK, PoolInv
    <2>3. pc'[c] = "done" /\ c \notin responses'
      BY <1>1, <2>1 DEF TypeOK
    <2>4. StageInv(c)' /\ OpenInv(c)'
      BY <1>1, <2>1, <2>3 DEF CallInv, StageInv, OpenInv, InStream, Over
    <2>5. CauseIsTold(c)' /\ SameAnswer(read[c], given[c])'
      BY <1>1, <2>1 DEF CallInv, CauseIsTold, Copilot, Streams, Generates, Outage, Refusal, Denied
    <2>6. \A d \in Calls \ {c} : Same(d)
      BY <1>1, <2>1 DEF Same, TypeOK
    <2> QED
      BY <2>1, <2>2, <2>4, <2>5, <2>6, OneCall DEF CallInv
  <1>3. CASE Again(c)
    <2>1. /\ pc' = [pc EXCEPT ![c] = "idle"] /\ call' = [call EXCEPT ![c] = NoCall]
          /\ sends' = [sends EXCEPT ![c] = 0] /\ last' = [last EXCEPT ![c] = Silent]
          /\ read' = [read EXCEPT ![c] = <<>>] /\ given' = [given EXCEPT ![c] = <<>>]
          /\ result' = [result EXCEPT ![c] = Ended("none")] /\ pc[c] = "done"
          /\ UNCHANGED <<provider, pool, closing, responses>>
      BY <1>3 DEF Again, Go
    <2>2. Ended("none") \in Results /\ Ended("none").end = "none" /\ Ended("none").signal = "none"
      BY EndedFacts
    <2>3. <<>> \in Seq(Lines)
      OBVIOUS
    <2>4. /\ read' \in [Calls -> Seq(Lines)] /\ given' \in [Calls -> Seq(Lines)]
          /\ read'[c] = <<>> /\ given'[c] = <<>>
      BY <1>1, <2>1, <2>3 DEF TypeOK
    <2>5. /\ result' \in [Calls -> Results] /\ result'[c] = Ended("none")
      BY <1>1, <2>1, <2>2 DEF TypeOK
    <2>6. /\ call' \in [Calls -> Generations(provider) \union Others(provider) \union {NoCall}]
          /\ sends' \in [Calls -> 0..2] /\ sends'[c] = 0
          /\ last' \in [Calls -> Replies \union Faults \union {Silent}] /\ last'[c] = Silent
          /\ pc'[c] = "idle"
      BY <1>1, <2>1 DEF TypeOK
    <2>7. TypeOK' /\ PoolInv'
      BY <1>1, <2>1, <2>4, <2>5, <2>6 DEF TypeOK, PoolInv
    <2>8. StageInv(c)' /\ OpenInv(c)'
      BY <1>1, <2>1, <2>4, <2>5, <2>6 DEF CallInv, StageInv, OpenInv, InStream, Over
    <2>9. CauseIsTold(c)'
      BY <2>2, <2>5 DEF CauseIsTold
    <2>10. SameAnswer(read'[c], given'[c])
      BY <2>4, SameAtFirst
    <2>11. \A d \in Calls \ {c} : Same(d)
      BY <1>1, <2>1 DEF Same, TypeOK
    <2> QED
      BY <2>1, <2>7, <2>8, <2>9, <2>10, <2>11, OneCall DEF CallInv
  <1> QED
    BY <1>2, <1>3

LEMMA PoolKeeps ==
    ASSUME Inv, CloseBegins \/ CloseEnds \/ UNCHANGED vars
    PROVE  Inv'
  <1>1. TypeOK /\ PoolInv
    BY DEF Inv
  <1>2. UNCHANGED <<provider, call, pc, sends, last, read, given, responses, result>>
    BY DEF CloseBegins, CloseEnds, vars
  <1>3. /\ pool' \in [closed : BOOLEAN, made : 0..1, open : BOOLEAN] /\ closing' \in BOOLEAN
        /\ PoolInv' /\ (pool.closed => pool'.closed)
    <2>1. CASE CloseBegins
      BY <1>1, <2>1 DEF TypeOK, PoolInv, CloseBegins
    <2>2. CASE CloseEnds
      BY <1>1, <2>2 DEF TypeOK, PoolInv, CloseEnds
    <2>3. CASE UNCHANGED vars
      BY <1>1, <2>3 DEF TypeOK, PoolInv, vars
    <2> QED
      BY <2>1, <2>2, <2>3
  <1>4. TypeOK'
    BY <1>1, <1>2, <1>3 DEF TypeOK
  <1>5. ASSUME NEW c \in Calls  PROVE CallInv(c)'
    BY <1>2, <1>3, SameKeeps DEF Inv, Same
  <1> QED
    BY <1>3, <1>4, <1>5 DEF Inv

LEMMA StepInv == Inv /\ [Next]_vars => Inv'
  <1> SUFFICES ASSUME Inv, [Next]_vars  PROVE Inv'
    OBVIOUS
  <1>1. ASSUME NEW c \in Calls,
               Arrive(c) \/ Proceed(c) \/ NextFrame(c) \/ GivenUp(c) \/ Cancelled(c) \/ Again(c)
        PROVE  Inv'
    BY <1>1, ArriveKeeps, TokenKeeps, SendKeeps, SendRefusedKeeps, AnsweredKeeps, SendFailsKeeps,
       StepKeeps, DeniedKeeps, BadStatusKeeps, UnaryAnswerKeeps, ReadLineKeeps, StopsKeeps,
       ReadFailsKeeps, OverKeeps DEF Proceed
  <1>2. CASE CloseBegins \/ CloseEnds \/ UNCHANGED vars
    BY <1>2, PoolKeeps
  <1> QED
    BY <1>1, <1>2 DEF Next

-----------------------------------------------------------------------------
(* What clients are told.                                                  *)

Blames(status) ==
    CASE status = 401                  -> "credential"
      [] status \in {429, 529}         -> "busy"
      [] status \in {400, 404, 413}    -> "request"
      [] OTHER                         -> "server"

LEMMA WordsBlame ==
    /\ \A w \in {"authentication_error", "UNAUTHENTICATED"} : Means(w) = "credential"
    /\ \A w \in {"rate_limit_error", "rate_limit_exceeded", "overloaded", "overloaded_error",
                  "RESOURCE_EXHAUSTED"} : Means(w) = "busy"
    /\ \A w \in {"api_error", "server_error", "upstream_protocol_error", "INTERNAL",
                  "UNAVAILABLE"} : Means(w) = "server"
    /\ \A w \in {"invalid_request_error", "not_found_error", "request_too_large",
                  "INVALID_ARGUMENT", "NOT_FOUND", "invalid_request", "not_found",
                  "unsupported_parameter", "context_length_exceeded"} : Means(w) = "request"
  BY DEF Means

\* Each protocol's word for a status blames the one whom the status blames.
LEMMA TypesBlame ==
    ASSUME NEW e \in Errors
    PROVE  LET n == Normalized(e) IN
           /\ n.status = e.status
           /\ Means(OpenAIErrorType(n)) = Blames(e.status)
           /\ Means(AnthropicErrorType(n)) = Blames(e.status)
           /\ Means(GeminiErrorStatus(n)) =
                IF e.status = 413 THEN "server" ELSE Blames(e.status)
  <1> DEFINE n == Normalized(e)
  <1>1. n.status = e.status /\ n.kind = e.kind
    BY DEF Normalized, Errors
  <1>2. /\ e.status \in {302, 400, 401, 404, 413, 429, 502, 503, 504, 529}
        /\ e.kind = "rate_limit" <=> e.status \in {429, 529}
    BY DEF Errors, Coherent, Answerable
  <1> HIDE DEF n
  <1>3. /\ Busy(n) <=> e.status \in {429, 529}
        /\ Client(n) <=> e.status \in {400, 401, 404, 413, 429}
    BY <1>1, <1>2 DEF Busy, Client
  <1>4. Means(OpenAIErrorType(n)) = Blames(e.status)
    <2>1. CASE e.status = 401
      BY <1>1, <2>1, WordsBlame DEF OpenAIErrorType, Blames
    <2>2. CASE e.status \in {429, 529}
      BY <1>1, <1>3, <2>2, WordsBlame DEF OpenAIErrorType, Blames
    <2>3. CASE e.status \in {400, 404, 413}
      BY <1>1, <1>3, <2>3, WordsBlame DEF OpenAIErrorType, Blames
    <2>4. CASE e.status \in {302, 502, 503, 504}
      BY <1>1, <1>3, <2>4, WordsBlame DEF OpenAIErrorType, Blames
    <2> QED
      BY <1>2, <2>1, <2>2, <2>3, <2>4
  <1>5. Means(AnthropicErrorType(n)) = Blames(e.status)
    <2>1. CASE e.status \in {401, 404, 413, 529}
      BY <1>1, <2>1, WordsBlame DEF AnthropicErrorType, Blames
    <2>2. CASE e.status = 429
      BY <1>1, <1>3, <2>2, WordsBlame DEF AnthropicErrorType, Blames
    <2>3. CASE e.status = 400
      BY <1>1, <1>3, <2>3, WordsBlame DEF AnthropicErrorType, Blames
    <2>4. CASE e.status \in {302, 502, 503, 504}
      BY <1>1, <1>3, <2>4, WordsBlame DEF AnthropicErrorType, Blames
    <2> QED
      BY <1>2, <2>1, <2>2, <2>3, <2>4
  <1>6. Means(GeminiErrorStatus(n)) = IF e.status = 413 THEN "server" ELSE Blames(e.status)
    <2>1. CASE e.status \in {400, 401, 404}
      BY <1>1, <2>1, WordsBlame DEF GeminiErrorStatus, Blames
    <2>2. CASE e.status \in {429, 529}
      BY <1>1, <1>3, <2>2, WordsBlame DEF GeminiErrorStatus, Blames
    <2>3. CASE e.status \in {503, 504}
      BY <1>1, <1>3, <2>3, WordsBlame DEF GeminiErrorStatus, Blames
    <2>4. CASE e.status \in {302, 413, 502}
      BY <1>1, <1>3, <2>4, WordsBlame DEF GeminiErrorStatus, Blames
    <2> QED
      BY <1>2, <2>1, <2>2, <2>3, <2>4
  <1> QED
    BY <1>1, <1>4, <1>5, <1>6 DEF n

LEMMA CodeBlames ==
    ASSUME NEW e \in Errors
    PROVE  LET n == Normalized(e) IN
           /\ Means(n.code) = IF e.status = 413 THEN "server" ELSE Blames(e.status)
           /\ n.code = "context_length_exceeded" => e.signal = "overflow"
  <1> DEFINE n == Normalized(e)
  <1>1. n.code = Code(e)
    BY DEF Normalized, Errors
  <1>2. /\ e.status \in {302, 400, 401, 404, 413, 429, 502, 503, 504, 529}
        /\ e.kind = "rate_limit" <=> e.status \in {429, 529}
        /\ e.kind = "upstream_protocol" => e.status = 502
        /\ e.signal = "overflow" => e.status = 400
    BY DEF Errors, Coherent, Answerable
  <1>3. RequestOptionError.status = 400 /\ RequestOptionError.signal = "none"
    BY DEF RequestOptionError, ProviderError
  <1>4. CASE e.signal = "overflow"
    BY <1>1, <1>2, <1>4, WordsBlame DEF Code, Blames
  <1>5. CASE e = RequestOptionError
    <2>1. Code(e) = "unsupported_parameter" /\ e.status = 400
      BY <1>3, <1>5 DEF Code
    <2> QED
      BY <1>1, <2>1, WordsBlame DEF Blames
  <1>6. CASE e.signal # "overflow" /\ e # RequestOptionError
    <2>1. Code(e) = ErrorCode(e.status, e.kind)
      BY <1>6 DEF Code
    <2>2. CASE e.status \in {400, 401, 404, 529}
      <3>1. ErrorCode(e.status, e.kind) \in
                {"invalid_request", "authentication_error", "not_found", "overloaded"}
        BY <2>2 DEF ErrorCode
      <3>2. Means(ErrorCode(e.status, e.kind)) = Blames(e.status)
        BY <2>2, WordsBlame DEF ErrorCode, Blames
      <3> QED
        BY <1>1, <2>1, <2>2, <3>1, <3>2
    <2>3. CASE e.status = 429
      <3>1. ErrorCode(e.status, e.kind) = "rate_limit_exceeded"
        BY <2>3 DEF ErrorCode
      <3> QED
        BY <1>1, <2>1, <2>3, <3>1, WordsBlame DEF Blames
    <2>4. CASE e.status \in {302, 413, 502, 503, 504}
      <3>1. ErrorCode(e.status, e.kind) \in {"upstream_protocol_error", "server_error"}
        BY <1>2, <2>4 DEF ErrorCode
      <3>2. Means(ErrorCode(e.status, e.kind)) = "server"
        BY <3>1, WordsBlame
      <3>3. e.status # 413 => Blames(e.status) = "server"
        BY <2>4 DEF Blames
      <3> QED
        BY <1>1, <2>1, <3>1, <3>2, <3>3
    <2> QED
      BY <1>2, <2>2, <2>3, <2>4
  <1> QED
    BY <1>4, <1>5, <1>6 DEF n

LEMMA ClientKnows ==
    ASSUME TypeOK, NEW c \in Calls, CauseIsTold(c)
    PROVE  ClientIsTold(c)
  <1> DEFINE r == result[c]
             n == Normalized(r)
             words == UNION {ErrorResponse(s, n) \union PostcommitErrorData(s, n) : s \in Surfaces}
  <1>1. words \subseteq {OpenAIErrorType(n), AnthropicErrorType(n), GeminiErrorStatus(n), n.code}
    BY DEF Surfaces, ErrorResponse, PostcommitErrorData
  <1>2. r \in Results
    BY DEF TypeOK
  <1>3. CASE r.end = "raw"
    <2>1. n = [status |-> 500, kind |-> "unknown", code |-> "server_error"]
      BY <1>3 DEF Normalized
    <2>2. /\ OpenAIErrorType(n) = "api_error" /\ AnthropicErrorType(n) = "api_error"
          /\ GeminiErrorStatus(n) = "INTERNAL"
      <3> HIDE DEF n
      <3>1. ~Busy(n) /\ ~Client(n)
        BY <2>1 DEF Busy, Client
      <3> QED
        BY <2>1, <3>1 DEF OpenAIErrorType, AnthropicErrorType, GeminiErrorStatus
    <2>3. \A word \in words : Means(word) = "server"
      <3> HIDE DEF n, words
      <3> QED
        BY <1>1, <2>1, <2>2, WordsBlame
    <2>4. Means(AnthropicErrorType(n)) = "server" /\ n.code # "context_length_exceeded"
      BY <2>1, <2>2, WordsBlame
    <2> HIDE DEF n, words
    <2>5. /\ n.status \notin NoWord =>
                \A word \in words : Means(word) = Means(AnthropicErrorType(n))
          /\ \A word \in words : Means(word) = "request" =>
                Refusal(c) \/ sends[c] = 0 \/ Denied(c)
      BY <2>3, <2>4
    <2> QED
      BY <1>3, <2>4, <2>5 DEF ClientIsTold, n, words
  <1>4. CASE r.end = "error"
    <2>1. r \in Errors
      BY <1>2, <1>4 DEF Results, Ended, Endings
    <2>2. /\ n.status = r.status
          /\ Means(OpenAIErrorType(n)) = Blames(r.status)
          /\ Means(AnthropicErrorType(n)) = Blames(r.status)
          /\ Means(GeminiErrorStatus(n)) = IF r.status = 413 THEN "server" ELSE Blames(r.status)
          /\ Means(n.code) = IF r.status = 413 THEN "server" ELSE Blames(r.status)
          /\ n.code = "context_length_exceeded" => r.signal = "overflow"
      BY <2>1, TypesBlame, CodeBlames
    <2>3. /\ r.status \in {302, 400, 401, 404, 413, 429, 502, 503, 504, 529}
          /\ r.kind # "authentication" => (r.retryable <=> r.status \in RetryableStatuses)
          /\ r.kind = "authentication" <=> r.status = 401
      BY <2>1 DEF Errors, Coherent, Answerable
    <2> HIDE DEF n, words
    <2>4. n.status \notin NoWord => \A word \in words : Means(word) = Means(AnthropicErrorType(n))
      BY <1>1, <2>2 DEF NoWord
    <2>5. ASSUME NEW word \in words, Means(word) = "request"
          PROVE  Refusal(c) \/ sends[c] = 0 \/ Denied(c)
      <3>1. Blames(r.status) = "request"
        BY <1>1, <2>2, <2>5
      <3>2. r.status \in {400, 404, 413}
        BY <3>1 DEF Blames
      <3>3. ~r.retryable
        BY <2>3, <3>2 DEF RetryableStatuses
      <3> QED
        BY <1>4, <3>3 DEF CauseIsTold
    <2>6. r.kind # "authentication" => (r.retryable <=> MayRepeat(n.status))
      BY <2>2, <2>3 DEF RetryableStatuses, MayRepeat
    <2>7. n.code = "context_length_exceeded" =>
            last[c].status = 400 /\ last[c].body \in {"overflow", "miscounted"}
      BY <2>2 DEF CauseIsTold
    <2> QED
      BY <2>4, <2>5, <2>6, <2>7 DEF ClientIsTold, n, words
  <1> QED
    BY <1>3, <1>4 DEF ClientIsTold

-----------------------------------------------------------------------------
(* The theorems.                                                           *)

THEOREM AttemptInv == Spec => []Inv
  BY InitInv, StepInv, PTL DEF Spec

\* The places and results of the calls stay in their types; a call is sent at
\* most twice and the pool makes at most one client.
THEOREM AttemptTypes == Spec => []TypeOK
  <1>1. Inv => TypeOK
    BY DEF Inv
  <1> QED
    BY <1>1, AttemptInv, PTL

\* The ProviderError that the dispatcher acts on says what the upstream did,
\* for every reply, fault and provider, and _iter_sse_data loses nothing of the
\* answer.
THEOREM OutcomesAreTrue == Spec => []OutcomeIsTrue
  <1>1. Inv => OutcomeIsTrue
    BY ClientKnows DEF Inv, CallInv, OutcomeIsTrue, FailureTellsItsCause, AnswerIsHandedOn,
                       ClientIsToldSo
  <1> QED
    BY <1>1, AttemptInv, PTL

\* SharedHttpExecutor and the client pool leave no response and no client open.
THEOREM AllIsClosed == Spec => []NothingIsLeftOpen
  <1>1. Inv => NothingIsLeftOpen
    BY DEF Inv, TypeOK, PoolInv, CallInv, OpenInv, NothingIsLeftOpen
  <1> QED
    BY <1>1, AttemptInv, PTL

LEMMA SendIsSafe ==
    ASSUME Inv, [Next]_vars, NEW c \in Calls, sends'[c] > sends[c]
    PROVE  /\ given[c] = <<>>
           /\ c \notin responses
           /\ sends[c] > 0 =>
               sends[c] = 1 /\ (last[c].status = 401 \/ last[c].body = "disconnected")
           /\ Pooled(c) => ~pool.closed /\ pool'.made = 1
  <1>1. TypeOK /\ PoolInv /\ StageInv(c) /\ OpenInv(c) /\ sends[c] \in Nat
    <2>1. TypeOK /\ PoolInv /\ StageInv(c) /\ OpenInv(c)
      BY DEF Inv, CallInv
    <2>2. sends[c] \in 0..2
      BY <2>1 DEF TypeOK
    <2> QED
      BY <2>1, <2>2
  <1>2. Send(c)
    <2>1. sends' # sends
      BY <1>1
    <2>2. PICK d \in Calls : Send(d) \/ Again(d)
      BY <2>1 DEF Next, vars, Arrive, Proceed, EnsureToken, SendRefused, Answered, SendFails, Renews,
            Renewed, RaiseAuthFailure, BadStatus, UnaryAnswer, StreamOpens, ReadLine,
            EndOfStream, ReadFails, ResponseCloses, NextFrame, GivenUp, Cancelled,
            CloseBegins, CloseEnds
    <2>3. CASE Again(d)
      <3>1. sends' = [sends EXCEPT ![d] = 0]
        BY <2>3 DEF Again
      <3> QED
        BY <1>1, <3>1 DEF TypeOK
    <2>4. CASE Send(d)
      <3>1. sends' = [sends EXCEPT ![d] = @ + 1]
        BY <2>4 DEF Send
      <3>2. c = d
        BY <1>1, <3>1 DEF TypeOK
      <3> QED
        BY <2>4, <3>2
    <2> QED
      BY <2>2, <2>3, <2>4
  <1>3. pc[c] = "ready" /\ ~PoolRefuses(c) /\ GetClient(c)
    BY <1>2 DEF Send
  <1>4. Pooled(c) => ~pool.closed /\ pool'.made = 1
    <2>1. pool \in [closed : BOOLEAN, made : 0..1, open : BOOLEAN]
      BY <1>1 DEF TypeOK
    <2>2. CASE Pooled(c) /\ pool.open
      BY <1>1, <1>3, <2>2 DEF PoolRefuses, GetClient, PoolInv
    <2>3. CASE Pooled(c) /\ ~pool.open
      <3>1. pool.made = 0 /\ ~pool.closed /\ pool' = [pool EXCEPT !.made = @ + 1, !.open = TRUE]
        BY <1>1, <1>3, <2>3 DEF PoolRefuses, GetClient, PoolInv
      <3>2. pool' = [pool EXCEPT !.made = 1, !.open = TRUE]
        BY <3>1
      <3>3. pool'.made = 1
        BY <2>1, <3>2
      <3> QED
        BY <3>1, <3>3
    <2> QED
      BY <2>2, <2>3
  <1> QED
    BY <1>1, <1>3, <1>4 DEF StageInv, OpenInv, InStream, Over

\* A request goes out twice only where the first one was not used, and none
\* through a pool that was closed.
THEOREM SendsAreSafe == Spec => SendsSafely
  <1>1. Inv /\ [Next]_vars =>
            [\A c \in Calls : sends'[c] > sends[c] =>
                /\ given[c] = <<>>
                /\ c \notin responses
                /\ sends[c] > 0 =>
                    sends[c] = 1 /\ (last[c].status = 401 \/ last[c].body = "disconnected")
                /\ Pooled(c) => ~pool.closed /\ pool'.made = 1]_vars
    <2> SUFFICES ASSUME Inv, [Next]_vars, NEW c \in Calls, sends'[c] > sends[c]
                 PROVE  /\ given[c] = <<>>
                        /\ c \notin responses
                        /\ sends[c] > 0 =>
                            sends[c] = 1 /\ (last[c].status = 401 \/ last[c].body = "disconnected")
                        /\ Pooled(c) => ~pool.closed /\ pool'.made = 1
      OBVIOUS
    <2> QED
      BY SendIsSafe
  <1> QED
    BY <1>1, AttemptInv, PTL DEF Spec, SendsSafely
===============================================================================
