-------------------------- MODULE GenerationDispatch --------------------------
(***************************************************************************)
(* GenerationDispatcher of server/dispatcher.py: dispatch and              *)
(* dispatch_stream of one request over the models of its route and over    *)
(* the transports of each model, up to the value or the first stream       *)
(* frame.  Both methods have the same loop; a stream adds an iterator that *)
(* is opened, primed and closed when its first frame is no good.           *)
(*                                                                         *)
(* The route is given; how many transports a model offers, the recovery    *)
(* policy of its provider and the outcome of every attempt are the         *)
(* environment's choice.  A place is a model and one of its transports.    *)
(***************************************************************************)
EXTENDS Naturals, FiniteSets

CONSTANTS
    MaxModels,      \* bound on the models of a route
    MaxTransports   \* bound on the transports of a model

ASSUME BoundsAssumption ==
    MaxModels \in Nat \ {0} /\ MaxTransports \in Nat \ {0}

NoPlace == <<0, 0>>
Places == (1..MaxModels) \X (1..MaxTransports)

\* Why a request may be bound to a place: not at all, by opaque continuation
\* state, by sealed reasoning capsules, by previous_response_id.
Continuations == {"none", "opaque", "capsule", "previous"}

\* TransportPolicy: which failures permit the next transport of the model.
Policies == [retryable : BOOLEAN, rejected : BOOLEAN]

\* What fallback records of a failed attempt, in the order final_error looks.
Recorded == {"retryable", "overflow", "rejected", "unrepresentable", "unsupported"}

\* What an attempt can end with short of an answer.  "fatal" is a provider
\* failure that is not safe to repeat, "invalid" an undecodable request.
Failures == Recorded \union {"fatal", "invalid"}

Errors == Failures \union {"continuation", "unavailable", "cancelled"}

VARIABLES
    streaming,    \* dispatch_stream or dispatch
    continuation, \* what binds the request to a place
    pin,          \* the place a capsule or a previous response names
    overflowOnly, \* fallback_on_context_overflow_only of the route
    models,       \* number of models of the route
    pc,
    model,        \* candidate_index of the loop, from 1
    transports,   \* number of transports the model's provider offers
    transport,    \* transport under way or tried last
    policy,       \* of the model's provider
    eligibleSeen, \* eligible_transport_seen
    started,      \* context_fallback_started
    first,        \* _FailureState: first place that failed in each way
    open,         \* upstream iterators that are open
    failing,      \* how the stream under way failed, while it is closed
    log,          \* history: attempts, their outcomes and whether the policy asks for another
    result        \* how the dispatch ended

routeVars == <<streaming, continuation, pin, overflowOnly, models>>
loopVars  == <<model, transports, transport, policy, eligibleSeen, started, first>>
vars == <<routeVars, pc, loopVars, open, failing, log, result>>

Place == <<model, transport>>
Trying == {"attempt", "prime", "close"}
Pinned == continuation \in {"capsule", "previous"}

TypeOK ==
    /\ streaming \in BOOLEAN
    /\ continuation \in Continuations
    /\ pin \in Places
    /\ overflowOnly \in BOOLEAN
    /\ models \in 1..MaxModels
    /\ pc \in {"start", "model", "transport", "attempt", "prime", "close", "leave", "done"}
    /\ model \in 1..MaxModels
    /\ transports \in 0..MaxTransports
    /\ transport \in 0..MaxTransports
    /\ policy \in Policies
    /\ eligibleSeen \in BOOLEAN
    /\ started \in BOOLEAN
    /\ first \in [Recorded -> Places \union {NoPlace}]
    /\ open \in SUBSET Places
    /\ failing \in Failures \union {"none"}
    /\ log \in SUBSET [place : Places, outcome : Failures, invited : BOOLEAN]
    /\ result \in Errors \union {"none", "value", "stream"}

\* A context-overflow route is Auto's, which a continuation never takes.
Init ==
    /\ streaming \in BOOLEAN
    /\ continuation \in Continuations
    /\ pin \in Places
    /\ overflowOnly \in BOOLEAN
    /\ overflowOnly => ~Pinned
    /\ ~Pinned => pin = <<1, 1>>
    /\ continuation = "previous" => pin[1] = 1
    /\ models \in 1..MaxModels
    /\ pc = "start"
    /\ model = 1
    /\ transports = 0
    /\ transport = 0
    /\ policy = [retryable |-> FALSE, rejected |-> FALSE]
    /\ eligibleSeen = FALSE
    /\ started = FALSE
    /\ first = [f \in Recorded |-> NoPlace]
    /\ open = {}
    /\ failing = "none"
    /\ log = {}
    /\ result = "none"

Raise(error) ==
    /\ result' = error
    /\ pc' = "done"

-----------------------------------------------------------------------------
(* _FailureState.                                                          *)

Has(f) == first[f] # NoPlace

RecordFirst(f) == IF f \in Recorded /\ ~Has(f) THEN [first EXCEPT ![f] = Place] ELSE first

FinalRetryableLast(preferOverflow) ==
    CASE preferOverflow /\ Has("overflow") -> "overflow"
      [] Has("rejected")                   -> "rejected"
      [] Has("unrepresentable")            -> "unrepresentable"
      [] Has("unsupported")                -> "unsupported"
      [] Has("overflow")                   -> "overflow"
      [] Has("retryable")                  -> "retryable"
      [] OTHER                             -> "unavailable"

FinalError(preferOverflow) ==
    IF preferOverflow /\ Has("overflow") THEN "overflow"
    ELSE IF Has("retryable")       THEN "retryable"
    ELSE IF Has("overflow")        THEN "overflow"
    ELSE IF Has("rejected")        THEN "rejected"
    ELSE IF Has("unrepresentable") THEN "unrepresentable"
    ELSE IF Has("unsupported")     THEN "unsupported"
    ELSE "unavailable"

-----------------------------------------------------------------------------
(* The loop over models.                                                   *)

\* Capsules that cannot be unsealed or disagree, and previous_response_id
\* without an exact model and one native binding, fail before any attempt.
Start ==
    /\ pc = "start"
    /\ \/ pc' = "model" /\ result' = result
       \/ Pinned /\ Raise("continuation")
    /\ UNCHANGED <<routeVars, loopVars, open, failing, log>>

\* bindings_for the next model.
EnterModelAfresh ==
    /\ pc = "model"
    /\ transports' \in 0..MaxTransports
    /\ policy' \in Policies
    /\ eligibleSeen' = FALSE
    /\ pc' = "transport"
    /\ UNCHANGED <<routeVars, model, transport, started, first, open, failing, log, result>>
EnterModel ==
    /\ pc = "model"
    /\ transports' \in 0..MaxTransports
    /\ policy' \in Policies
    /\ pc' = "transport"
    /\ UNCHANGED <<routeVars, model, transport, eligibleSeen, started, first, open, failing, log, result>>

\* The loop moves on to another model after an overflow on an overflow route,
\* and otherwise after any retryable failure so far.
MayLeave == IF overflowOnly THEN started ELSE Has("retryable")

MoreModelsForAll == model < models
MoreModels == model < models /\ (Pinned => eligibleSeen)

NextModel ==
    /\ model' = model + 1
    /\ transport' = 0
    /\ pc' = "model"
    /\ result' = result

Stop(error) == Raise(error) /\ UNCHANGED <<model, transport>>

\* A pinned place that lies further on is reached past ineligible models.
LeaveModel ==
    /\ pc = "leave"
    /\ \/ MoreModels /\ MayLeave /\ NextModel
       \/ MoreModels /\ ~MayLeave /\ Stop(FinalError(overflowOnly))
       \/ ~MoreModels /\ model < models /\ NextModel
       \/ /\ ~MoreModels /\ model = models
          /\ Stop(IF Pinned /\ ~eligibleSeen THEN "continuation" ELSE FinalError(overflowOnly))
    /\ UNCHANGED <<routeVars, transports, policy, eligibleSeen, started, first, open, failing, log>>

-----------------------------------------------------------------------------
(* The loop over transports.                                               *)

EligibleAnywhere(p) == TRUE

\* _transport_is_eligible.  Opaque continuation state without a capsule rules
\* out Chat transports, which the environment tells apart.
Eligible(p) == Pinned => p = pin /\ (continuation = "previous" => p[1] = 1)

NextTransport ==
    /\ pc = "transport"
    /\ transport < transports
    /\ transport' = transport + 1
    /\ \/ /\ Eligible(<<model, transport + 1>>)
          /\ eligibleSeen' = TRUE
          /\ pc' = "attempt"
       \/ /\ continuation = "opaque" \/ ~Eligible(<<model, transport + 1>>)
          /\ UNCHANGED <<eligibleSeen, pc>>
    /\ UNCHANGED <<routeVars, model, transports, policy, started, first, open, failing, log,
                   result>>

TransportsExhausted ==
    /\ pc = "transport"
    /\ transport = transports
    /\ pc' = "leave"
    /\ UNCHANGED <<routeVars, loopVars, open, failing, log, result>>

\* _supports_mode says no: recorded, and the next transport in any case.
ModeUnsupported ==
    /\ pc = "attempt"
    /\ first' = RecordFirst("unsupported")
    /\ pc' = "transport"
    /\ UNCHANGED <<routeVars, model, transports, transport, policy, eligibleSeen, started, open,
                   failing, log, result>>

\* _allows_transport_recovery.
RecoversAlways(f) == TRUE
Recovers(f) == IF f = "retryable" THEN policy.retryable ELSE policy.rejected

LeadsAgain(f) == IF f = "retryable" /\ policy.retryable THEN "attempt" ELSE "leave"

\* Where a failed attempt leads to: another transport, another model, or out.
Leads(f) ==
    IF f = "invalid" THEN "raise"
    ELSE IF f \in {"unrepresentable", "unsupported"}
         THEN IF overflowOnly /\ started THEN "leave" ELSE "transport"
    ELSE IF overflowOnly /\ (f = "overflow" \/ started) THEN "leave"
    ELSE IF f \in {"fatal", "overflow"} THEN "raise"
    ELSE IF Recovers(f) THEN "transport"
    ELSE "leave"

\* Without an overflow route an overflow is a provider failure like another.
Fails(f) ==
    /\ first' = IF f = "overflow" /\ ~overflowOnly THEN first ELSE RecordFirst(f)
    /\ started' = (started \/ (overflowOnly /\ f = "overflow"))
    /\ log' = log \union {[place |-> Place, outcome |-> f, invited |-> policy.retryable]}
    /\ IF Leads(f) = "raise"
       THEN Raise(f)
       ELSE pc' = Leads(f) /\ result' = result

\* Preparing the payload, verifying capsules, calling the provider or opening
\* its stream fails.
AttemptFails ==
    /\ pc = "attempt"
    /\ \E f \in Failures : Fails(f)
    /\ UNCHANGED <<routeVars, model, transports, transport, policy, eligibleSeen, open, failing>>

\* A validated answer commits the place.
Answers ==
    /\ pc = "attempt"
    /\ ~streaming
    /\ Raise("value")
    /\ UNCHANGED <<routeVars, loopVars, open, failing, log>>

OpensStream ==
    /\ pc = "attempt"
    /\ streaming
    /\ open' = open \union {Place}
    /\ pc' = "prime"
    /\ UNCHANGED <<routeVars, loopVars, failing, log, result>>

\* The first valid frame commits the place.
FirstFrame ==
    /\ pc = "prime"
    /\ Raise("stream")
    /\ UNCHANGED <<routeVars, loopVars, open, failing, log>>

FirstFrameFails ==
    /\ pc = "prime"
    /\ failing' \in Failures
    /\ pc' = "close"
    /\ UNCHANGED <<routeVars, loopVars, open, log, result>>

LeftOpen == open
ClosedHere == open \ {Place}

\* The failed stream is closed before the loop goes on.  A stream that ended
\* before its first frame is a retryable failure that is recorded but does
\* not heed an overflow fallback under way.
StreamClosed ==
    /\ pc = "close"
    /\ open' = ClosedHere
    /\ failing' = "none"
    /\ \/ Fails(failing)
       \/ /\ failing = "retryable"
          /\ first' = RecordFirst("retryable")
          /\ log' = log \union {[place |-> Place, outcome |-> "retryable", invited |-> policy.retryable]}
          /\ pc' = IF Recovers("retryable") THEN "transport" ELSE "leave"
          /\ UNCHANGED <<started, result>>
    /\ UNCHANGED <<routeVars, model, transports, transport, policy, eligibleSeen>>

\* The caller is cancelled, or the attempt raises what no fallback is for,
\* before the answer; an iterator that is open is closed on the way out.
Cancelled ==
    /\ pc \in Trying
    /\ open' = ClosedHere
    /\ failing' = "none"
    /\ Raise("cancelled")
    /\ UNCHANGED <<routeVars, loopVars, log>>

Next ==
    \/ Start \/ EnterModel \/ LeaveModel
    \/ NextTransport \/ TransportsExhausted \/ ModeUnsupported
    \/ AttemptFails \/ Answers \/ OpensStream \/ FirstFrame \/ FirstFrameFails
    \/ StreamClosed \/ Cancelled

Spec == Init /\ [][Next]_vars

-----------------------------------------------------------------------------
(* Properties.                                                             *)

Before(p, q) == p[1] < q[1] \/ (p[1] = q[1] /\ p[2] < q[2])

Tried == {e.place : e \in log}
\* Attempts that ended, and the one under way or committed.
Touched ==
    Tried \union (IF pc \in Trying \/ result \in {"value", "stream"} THEN {Place} ELSE {})

FailedAs(f) == {e.place : e \in {x \in log : x.outcome = f}}

\* The place p failed in way f, or was ruled out for the mode of the request.
FailedThere(f, p) == p \in FailedAs(f) \/ (f = "unsupported" /\ first[f] = p)

\* A request whose capsules or whose previous response name a place is executed there and nowhere
\* else, though its route may hold other models before and after it: those before are passed
\* without a failure that would authorise it, and those after do not change what is told.  That is
\* how its own place failed; that there is none, only if nothing was tried.  Opaque state that is
\* not sealed names no place, and is not bound to one.
ContinuationIsKept ==
    Pinned =>
        /\ Touched \subseteq {pin}
        /\ result \in Failures => FailedThere(result, pin)
        /\ result = "continuation" => Touched = {} /\ \A f \in Recorded : ~Has(f)
        /\ result # "unavailable"

\* Another model is touched only after a model before it failed in the way
\* that authorises fallback: a context overflow on an Auto overflow route, a
\* retryable upstream failure elsewhere.  A continuation that skips ineligible
\* models is the exception.
ModelSwitchAuthorised ==
    \A p \in Touched : p[1] > 1 /\ ~Pinned =>
        \E q \in FailedAs(IF overflowOnly THEN "overflow" ELSE "retryable") : q[1] < p[1]

\* After a retryable failure another transport of the same model is tried only
\* where the provider's policy opts in.
NoUninvitedTransportRetry ==
    \A e \in log : \A p \in Touched :
        (e.outcome = "retryable" /\ p[1] = e.place[1] /\ Before(e.place, p))
            => e.invited

\* Nothing is tried again, on another model or another transport, without the
\* authority of how an earlier attempt failed.
FallbackAuthorised == ModelSwitchAuthorised /\ NoUninvitedTransportRetry

\* Upstream iterators do not leak: one is open at most, and after the dispatch
\* none but the one it hands over.
StreamsAccounted ==
    /\ open \subseteq {Place}
    /\ result # "none" => (open # {} <=> result = "stream")

\* What stands against a request whatever its provider does is never told where some attempt
\* failed in a way the client could retry, or overflowed on a route that is tried for overflows:
\* final_error.  A later attempt that finds the request undecodable or fails for good raises that
\* at once, whatever failed before it.
NeverToldAsStaticRejection ==
    result \in {"rejected", "unrepresentable", "unsupported", "unavailable"}
        => FailedAs("retryable") = {} /\ (overflowOnly => FailedAs("overflow") = {})

\* The dispatcher implements FallbackPlan.
Plan == INSTANCE FallbackPlan WITH
    at <- Place,
    trying <- pc \in Trying /\ Place \notin Tried,
    answer <- IF result \in {"value", "stream"} THEN "answered"
              ELSE IF result = "none" THEN "pending" ELSE "failed"

ImplementsPlan == Plan!PlanSpec
=============================================================================
