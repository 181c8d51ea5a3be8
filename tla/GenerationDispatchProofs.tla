----------------------- MODULE GenerationDispatchProofs -----------------------
(***************************************************************************)
(* The dispatcher over routes of any length: what may be tried after what, *)
(* which error is reported, and that no stream leaks.                      *)
(***************************************************************************)
EXTENDS GenerationDispatch, TLAPS

Working == {"transport", "attempt", "prime", "close"}

\* Where the loops are.
LoopInv ==
    /\ model <= models
    /\ transport <= transports
    /\ pc \in {"start", "model"} => transport = 0
    /\ pc \in Trying => transport > 0 /\ Eligible(Place)
    /\ pc = "close" => failing \in Failures
    /\ result # "none" <=> pc = "done"
    /\ result \in {"value", "stream"} => transport > 0 /\ Eligible(Place)

\* What the log says of where the loops are.
LogInv ==
    /\ \A e \in log : e.place = Place \/ Before(e.place, Place)
    /\ \A e \in log : e.place[2] > 0 /\ Eligible(e.place)
    /\ pc \in Trying \/ result \in {"value", "stream"} => Place \notin Tried

\* The iterator under way is the only one that is open.
StreamInv ==
    /\ pc \in {"prime", "close"} \/ result = "stream" => open = {Place}
    /\ ~(pc \in {"prime", "close"} \/ result = "stream") => open = {}

\* The failures on record are those of the log.
RecordInv ==
    /\ \A f \in {"retryable", "overflow"} : Has(f) => FailedAs(f) # {}
    /\ FailedAs("retryable") # {} => Has("retryable")
    /\ overflowOnly /\ FailedAs("overflow") # {} => Has("overflow")
    /\ started => FailedAs("overflow") # {}

Authority == FailedAs(IF overflowOnly THEN "overflow" ELSE "retryable")

\* Every model but the first was reached by an authorised switch.
SwitchInv ==
    ~Pinned => \A m \in 2..model : \E q \in Authority : q[1] < m

\* A model that goes on after a retryable failure has a policy that says so.
RetryInv ==
    /\ pc \in Working \/ result \in {"value", "stream"} =>
          \A e \in log : e.outcome = "retryable" /\ e.place[1] = model => e.invited
    /\ \A e, g \in log :
          (e.outcome = "retryable" /\ g.place[1] = e.place[1] /\ Before(e.place, g.place))
              => e.invited

BlameInv == NeverToldAsStaticRejection

\* Every way of failing that is on record is one in which an eligible place failed.
KnownInv == \A f \in Recorded : Has(f) => \E p \in Places : Eligible(p) /\ FailedThere(f, p)

\* Nothing happened before an eligible transport was seen, and a request that is bound to a place
\* leaves it with something to tell.
HomeInv ==
    /\ ~eligibleSeen => log = {} /\ pc \notin Trying /\ \A f \in Recorded : ~Has(f)
    /\ pc = "start" => ~eligibleSeen
    /\ Pinned => ~overflowOnly
    /\ Pinned /\ eligibleSeen /\ pc \in {"model", "transport", "leave"} => \E f \in Recorded : Has(f)

\* The error a request that is bound to a place ends with tells of that place.
ToldInv ==
    Pinned =>
        /\ result \in Failures => FailedThere(result, pin)
        /\ result = "continuation" => ~eligibleSeen
        /\ result # "unavailable"

IInv ==
    /\ TypeOK /\ LoopInv /\ LogInv /\ StreamInv /\ RecordInv /\ SwitchInv /\ RetryInv /\ BlameInv
    /\ KnownInv /\ HomeInv /\ ToldInv

\* An attempt that ends with failure f: what it adds to the log and leaves alone.
Logged(f) ==
    /\ log' = log \union {[place |-> Place, outcome |-> f, invited |-> policy.retryable]}
    /\ first' = IF f = "overflow" /\ ~overflowOnly THEN first ELSE RecordFirst(f)
    /\ started' = (started \/ (overflowOnly /\ f = "overflow"))
    /\ pc' = "transport" /\ f = "retryable" => policy.retryable
    /\ \/ pc' \in {"transport", "leave"} /\ result' = "none"
       \/ pc' = "done" /\ result' = f /\ f \in {"fatal", "invalid", "overflow"}
    /\ pc' # "done" /\ ~overflowOnly => f \in Recorded \ {"overflow"}
    /\ open' \subseteq open /\ Place \notin open'
    /\ UNCHANGED <<routeVars, model, transports, transport, policy, eligibleSeen>>

\* Every other step keeps the log.
Quiet ==
    /\ log' = log /\ started' = started
    /\ first' = first \/ first' = RecordFirst("unsupported")

LEMMA TypeInitially == Init => TypeOK
  <1> SUFFICES ASSUME Init PROVE TypeOK
    OBVIOUS
  <1>1. model \in 1..MaxModels /\ transports \in 0..MaxTransports /\ transport \in 0..MaxTransports
    BY BoundsAssumption DEF Init
  <1>2. policy \in Policies
    BY DEF Init, Policies
  <1>3. first \in [Recorded -> Places \union {NoPlace}]
    BY DEF Init
  <1> QED
    BY <1>1, <1>2, <1>3 DEF Init, TypeOK, Errors, Failures

LEMMA PlaceIsPlace == TypeOK /\ transport > 0 => Place \in Places /\ Place # NoPlace
  BY BoundsAssumption DEF TypeOK, Place, Places, NoPlace

LEMMA FinalErrors == \A b \in BOOLEAN : FinalError(b) \in Errors
  BY DEF FinalError, Errors, Failures, Recorded

\* Both ways an attempt can fail are Logged.
LEMMA FailureIsLogged ==
    ASSUME TypeOK, LoopInv, StreamInv, AttemptFails \/ StreamClosed
    PROVE  pc \in Trying /\ \E f \in Failures : Logged(f)
  <1> USE DEF TypeOK, LoopInv, StreamInv
  <1>1. ASSUME NEW f \in Failures, Fails(f), result = "none",
               open' \subseteq open, Place \notin open',
               UNCHANGED <<routeVars, model, transports, transport, policy, eligibleSeen>>
        PROVE  Logged(f)
    BY <1>1 DEF Fails, Logged, Leads, Recovers, Raise, routeVars, Failures, Recorded
  <1>2. CASE AttemptFails
    <2>1. open = {} /\ result = "none"
      BY <1>2 DEF AttemptFails
    <2>2. PICK f \in Failures : Fails(f)
      BY <1>2 DEF AttemptFails
    <2>3. Logged(f)
      BY <1>1, <1>2, <2>1, <2>2 DEF AttemptFails
    <2> QED
      BY <1>2, <2>3 DEF AttemptFails, Trying
  <1>3. CASE StreamClosed
    <2>1. failing \in Failures /\ result = "none" /\ open' = open \ {Place}
      BY <1>3 DEF StreamClosed, ClosedHere
    <2>2. CASE Fails(failing)
      BY <1>1, <1>3, <2>1, <2>2 DEF StreamClosed, Trying
    <2>3. CASE ~Fails(failing)
      <3>1. Logged("retryable")
        BY <1>3, <2>1, <2>3 DEF StreamClosed, Logged, Recovers, Failures, Recorded, routeVars
      <3> QED
        BY <1>3, <3>1 DEF StreamClosed, Trying, Failures, Recorded
    <2> QED
      BY <2>2, <2>3
  <1> QED
    BY <1>2, <1>3

LEMMA OtherwiseQuiet ==
    ASSUME [Next]_vars, ~AttemptFails, ~StreamClosed
    PROVE  Quiet
  BY DEF Next, vars, loopVars, Quiet, Start, EnterModel, LeaveModel, NextTransport,
     TransportsExhausted, ModeUnsupported, Answers, OpensStream, FirstFrame, FirstFrameFails, Cancelled

\* Where a failed attempt is left, for every action: nothing but the steps of
\* FailureIsLogged and OtherwiseQuiet moves the log.
LEMMA TypeStep ==
    ASSUME TypeOK, LoopInv, StreamInv, [Next]_vars
    PROVE  TypeOK'
  <1> USE DEF TypeOK
  <1>a. \A f : (first \in [Recorded -> Places \union {NoPlace}] /\ transport > 0)
            => RecordFirst(f) \in [Recorded -> Places \union {NoPlace}]
    BY PlaceIsPlace DEF RecordFirst
  <1>1. CASE AttemptFails \/ StreamClosed
    <2>1. PICK f \in Failures : Logged(f)
      BY <1>1, FailureIsLogged
    <2>2. pc \in Trying /\ transport > 0 /\ Place \in Places
      BY <1>1, FailureIsLogged, PlaceIsPlace DEF LoopInv
    <2>3. first' \in [Recorded -> Places \union {NoPlace}]
      BY <1>a, <2>1, <2>2 DEF Logged
    <2>4. log' \in SUBSET [place : Places, outcome : Failures, invited : BOOLEAN]
      BY <2>1, <2>2 DEF Logged, Policies
    <2>5. failing' \in Failures \union {"none"}
      BY <1>1 DEF AttemptFails, StreamClosed
    <2> QED
      BY <2>1, <2>3, <2>4, <2>5 DEF Logged, routeVars, Errors, Failures, Recorded
  <1>2. CASE Start
    BY <1>2 DEF Start, Raise, routeVars, loopVars, Errors
  <1>3. CASE EnterModel
    BY <1>3 DEF EnterModel, routeVars
  <1>4. CASE LeaveModel
    <2>1. FinalError(overflowOnly) \in Errors /\ "continuation" \in Errors
      BY FinalErrors DEF Errors
    <2>2. CASE NextModel /\ model < models
      BY <1>4, <2>2, BoundsAssumption DEF LeaveModel, NextModel, routeVars
    <2>3. CASE \E e \in Errors : Stop(e)
      BY <1>4, <2>3 DEF LeaveModel, Stop, Raise, routeVars
    <2> QED
      BY <1>4, <2>1, <2>2, <2>3 DEF LeaveModel, MoreModels
  <1>5. CASE NextTransport
    <2>1. transport' \in 0..MaxTransports
      BY <1>5, BoundsAssumption DEF NextTransport
    <2>2. eligibleSeen' \in BOOLEAN /\ pc' \in {"attempt", "transport"}
      BY <1>5 DEF NextTransport
    <2> QED
      BY <1>5, <2>1, <2>2 DEF NextTransport, routeVars
  <1>6. CASE TransportsExhausted
    BY <1>6 DEF TransportsExhausted, routeVars, loopVars
  <1>7. CASE ModeUnsupported
    BY <1>a, <1>7 DEF ModeUnsupported, routeVars, LoopInv, Trying
  <1>8. CASE Answers
    BY <1>8 DEF Answers, Raise, routeVars, loopVars
  <1>9. CASE OpensStream
    BY <1>9, PlaceIsPlace DEF OpensStream, routeVars, loopVars, LoopInv, Trying
  <1>10. CASE FirstFrame
    BY <1>10 DEF FirstFrame, Raise, routeVars, loopVars
  <1>11. CASE FirstFrameFails
    BY <1>11 DEF FirstFrameFails, routeVars, loopVars
  <1>12. CASE Cancelled
    BY <1>12 DEF Cancelled, ClosedHere, Raise, routeVars, loopVars, Errors
  <1>13. CASE UNCHANGED vars
    BY <1>13 DEF vars, routeVars, loopVars
  <1> QED
    BY <1>1, <1>2, <1>3, <1>4, <1>5, <1>6, <1>7, <1>8, <1>9, <1>10, <1>11, <1>12, <1>13 DEF Next

LEMMA LoopStep ==
    ASSUME TypeOK, LoopInv, StreamInv, [Next]_vars
    PROVE  LoopInv'
  <1> USE DEF TypeOK, LoopInv
  <1>e. ASSUME UNCHANGED routeVars, NEW p, Eligible(p)
        PROVE  Eligible(p)'
    BY <1>e DEF Eligible, Pinned, routeVars
  <1>1. CASE AttemptFails \/ StreamClosed
    BY <1>1, FailureIsLogged DEF Logged, Trying, routeVars
  <1>2. CASE Start
    BY <1>2 DEF Start, Raise, routeVars, loopVars, Trying
  <1>3. CASE EnterModel
    BY <1>3 DEF EnterModel, routeVars, Trying
  <1>4. CASE LeaveModel
    <2>1. FinalError(overflowOnly) \in Errors /\ "continuation" \in Errors
      BY FinalErrors DEF Errors
    <2>2. CASE NextModel /\ model < models
      BY <1>4, <2>2 DEF LeaveModel, NextModel, routeVars, Trying
    <2>3. CASE \E e \in Errors \ {"value", "stream", "none"} : Stop(e)
      BY <1>4, <2>3 DEF LeaveModel, Stop, Raise, routeVars, Trying
    <2>4. FinalError(overflowOnly) \notin {"value", "stream", "none"}
      BY DEF FinalError
    <2> QED
      BY <1>4, <2>1, <2>2, <2>3, <2>4 DEF LeaveModel, MoreModels
  <1>5. CASE NextTransport
    BY <1>5 DEF NextTransport, routeVars, Trying, Place, Eligible, Pinned
  <1>6. CASE TransportsExhausted
    BY <1>6 DEF TransportsExhausted, routeVars, loopVars, Trying
  <1>7. CASE ModeUnsupported
    BY <1>7 DEF ModeUnsupported, routeVars, Trying
  <1>8. CASE Answers
    BY <1>8 DEF Answers, Raise, routeVars, loopVars, Trying, Place, Eligible, Pinned
  <1>9. CASE OpensStream
    BY <1>9 DEF OpensStream, routeVars, loopVars, Trying, Place, Eligible, Pinned
  <1>10. CASE FirstFrame
    BY <1>10 DEF FirstFrame, Raise, routeVars, loopVars, Trying, Place, Eligible, Pinned
  <1>11. CASE FirstFrameFails
    BY <1>11 DEF FirstFrameFails, routeVars, loopVars, Trying, Place, Eligible, Pinned
  <1>12. CASE Cancelled
    BY <1>12 DEF Cancelled, Raise, routeVars, loopVars, Trying
  <1>13. CASE UNCHANGED vars
    BY <1>13 DEF vars, routeVars, loopVars, Trying, Place, Eligible, Pinned
  <1> QED
    BY <1>1, <1>2, <1>3, <1>4, <1>5, <1>6, <1>7, <1>8, <1>9, <1>10, <1>11, <1>12, <1>13 DEF Next

LEMMA StreamStep ==
    ASSUME TypeOK, LoopInv, StreamInv, [Next]_vars
    PROVE  StreamInv'
  <1> USE DEF TypeOK, LoopInv, StreamInv
  <1>1. CASE AttemptFails \/ StreamClosed
    BY <1>1, FailureIsLogged DEF Logged, Trying
  <1>2. CASE Start
    BY <1>2 DEF Start, Raise
  <1>3. CASE EnterModel
    BY <1>3 DEF EnterModel
  <1>4. CASE LeaveModel
    BY <1>4 DEF LeaveModel, NextModel, Stop, Raise, FinalError
  <1>5. CASE NextTransport
    BY <1>5 DEF NextTransport
  <1>6. CASE TransportsExhausted
    BY <1>6 DEF TransportsExhausted
  <1>7. CASE ModeUnsupported
    BY <1>7 DEF ModeUnsupported
  <1>8. CASE Answers
    BY <1>8 DEF Answers, Raise
  <1>9. CASE OpensStream
    BY <1>9 DEF OpensStream, loopVars, Place
  <1>10. CASE FirstFrame
    BY <1>10 DEF FirstFrame, Raise, loopVars, Place
  <1>11. CASE FirstFrameFails
    BY <1>11 DEF FirstFrameFails, loopVars, Place
  <1>12. CASE Cancelled
    BY <1>12 DEF Cancelled, ClosedHere, Raise, Trying
  <1>13. CASE UNCHANGED vars
    BY <1>13 DEF vars, loopVars, Place
  <1> QED
    BY <1>1, <1>2, <1>3, <1>4, <1>5, <1>6, <1>7, <1>8, <1>9, <1>10, <1>11, <1>12, <1>13 DEF Next

LEMMA LogStep ==
    ASSUME TypeOK, LoopInv, StreamInv, LogInv, [Next]_vars
    PROVE  LogInv'
  <1> USE DEF TypeOK, LoopInv, LogInv, Places
  <1>e. ASSUME UNCHANGED routeVars, NEW p, Eligible(p)
        PROVE  Eligible(p)'
    BY <1>e DEF Eligible, Pinned, routeVars
  <1>1. CASE AttemptFails \/ StreamClosed
    <2>1. PICK f \in Failures : Logged(f)
      BY <1>1, FailureIsLogged
    <2>2. Place' = Place /\ UNCHANGED routeVars
      BY <2>1 DEF Logged, Place
    <2>3. \A e \in log' : e \in log \/ e.place = Place
      BY <2>1 DEF Logged
    <2>4. transport > 0 /\ Eligible(Place)
      BY <1>1, FailureIsLogged
    <2>5. \A e \in log' : e.place = Place' \/ Before(e.place, Place')
      BY <2>2, <2>3
    <2>6. \A e \in log' : e.place[2] > 0 /\ Eligible(e.place)'
      BY <1>e, <2>2, <2>3, <2>4 DEF Place
    <2>7. pc' \notin Trying /\ result' \notin {"value", "stream"}
      BY <2>1 DEF Logged, Trying
    <2> QED
      BY <2>5, <2>6, <2>7 DEF Before
  <1>2. CASE ~AttemptFails /\ ~StreamClosed
    <2>1. log' = log /\ Tried' = Tried
      BY <1>2, OtherwiseQuiet DEF Quiet, Tried
    <2>2. UNCHANGED routeVars
      BY <1>2 DEF Next, vars, Start, EnterModel, LeaveModel, NextTransport, TransportsExhausted,
         ModeUnsupported, Answers, OpensStream, FirstFrame, FirstFrameFails, Cancelled
    <2>3. \A e \in log' : e.place[2] > 0 /\ Eligible(e.place)'
      BY <1>e, <2>1, <2>2
    <2>4. CASE NextTransport
      <3>1. \A e \in log : Before(e.place, Place')
        BY <2>4 DEF NextTransport, Before, Place
      <3>2. Place' \notin Tried /\ result' = "none"
        BY <2>4, <3>1 DEF NextTransport, Tried, Before, Place
      <3> QED
        BY <2>1, <2>3, <3>1, <3>2 DEF Before
    <2>5. CASE LeaveModel
      <3>1. \A e \in log : e.place = Place' \/ Before(e.place, Place')
        BY <2>5 DEF LeaveModel, NextModel, Stop, Before, Place
      <3>2. pc' \notin Trying /\ result' \notin {"value", "stream"}
        BY <2>5 DEF LeaveModel, NextModel, Stop, Raise, FinalError, Trying
      <3> QED
        BY <2>1, <2>3, <3>1, <3>2 DEF Before
    <2>6. CASE ~NextTransport /\ ~LeaveModel
      <3>1. Place' = Place
        BY <1>2, <2>6 DEF Next, vars, loopVars, Place, Start, EnterModel, TransportsExhausted,
           ModeUnsupported, Answers, OpensStream, FirstFrame, FirstFrameFails, Cancelled
      <3>2. pc' \in Trying \/ result' \in {"value", "stream"}
            => pc \in Trying \/ result \in {"value", "stream"}
        BY <1>2, <2>6 DEF Next, vars, Trying, Start, EnterModel, TransportsExhausted, Raise,
           ModeUnsupported, Answers, OpensStream, FirstFrame, FirstFrameFails, Cancelled
      <3> QED
        BY <2>1, <2>3, <3>1, <3>2 DEF Before
    <2> QED
      BY <2>4, <2>5, <2>6
  <1> QED
    BY <1>1, <1>2

\* What a failure adds to, and how nothing else adds to, the records.
LEMMA RecordStep ==
    ASSUME TypeOK, LoopInv, StreamInv, RecordInv, [Next]_vars
    PROVE  RecordInv'
  <1> USE DEF TypeOK, LoopInv, RecordInv
  <1>o. overflowOnly' = overflowOnly
    BY DEF Next, vars, routeVars, Start, EnterModel, LeaveModel, NextTransport, TransportsExhausted,
       ModeUnsupported, Answers, OpensStream, FirstFrame, FirstFrameFails, Cancelled,
       AttemptFails, StreamClosed
  <1>1. CASE AttemptFails \/ StreamClosed
    <2>1. PICK f \in Failures : Logged(f)
      BY <1>1, FailureIsLogged
    <2>2. Place # NoPlace
      BY <1>1, FailureIsLogged, PlaceIsPlace
    <2> DEFINE entry == [place |-> Place, outcome |-> f, invited |-> policy.retryable]
    <2>3. log' = log \union {entry}
      BY <2>1 DEF Logged
    <2>4. \A g : FailedAs(g)' = FailedAs(g) \union (IF g = f THEN {Place} ELSE {})
      <3>1. entry.outcome = f /\ entry.place = Place
        OBVIOUS
      <3> HIDE DEF entry
      <3>2. \A g, p : p \in FailedAs(g)' <=> \E e \in log \union {entry} : e.outcome = g /\ e.place = p
        BY <2>3 DEF FailedAs
      <3>3. \A g, p : p \in FailedAs(g) <=> \E e \in log : e.outcome = g /\ e.place = p
        BY DEF FailedAs
      <3> QED
        BY <3>1, <3>2, <3>3
    <2>5. \A g \in Recorded : g # f => first'[g] = first[g]
      BY <2>1 DEF Logged, RecordFirst
    <2>6. f \in Recorded /\ (f = "overflow" => overflowOnly) => first'[f] # NoPlace
      BY <2>1, <2>2 DEF Logged, RecordFirst, Has
    <2>7. f = "overflow" /\ ~overflowOnly => first' = first
      BY <2>1 DEF Logged
    <2>8. \A g \in {"retryable", "overflow"} : Has(g)' => FailedAs(g)' # {}
      BY <2>4, <2>5 DEF Has, Recorded
    <2>9. FailedAs("retryable")' # {} => Has("retryable")'
      BY <2>4, <2>5, <2>6 DEF Has, Recorded
    <2>10. overflowOnly' /\ FailedAs("overflow")' # {} => Has("overflow")'
      BY <1>o, <2>4, <2>5, <2>6 DEF Has, Recorded
    <2>11. started' => FailedAs("overflow")' # {}
      BY <2>1, <2>4 DEF Logged
    <2> QED
      BY <2>8, <2>9, <2>10, <2>11
  <1>2. CASE ~AttemptFails /\ ~StreamClosed
    <2>1. Quiet
      BY <1>2, OtherwiseQuiet
    <2>2. \A g \in {"retryable", "overflow"} : first'[g] = first[g] /\ FailedAs(g)' = FailedAs(g)
      BY <2>1 DEF Quiet, RecordFirst, FailedAs, Recorded
    <2> QED
      BY <1>o, <2>1, <2>2 DEF Quiet, Has
  <1> QED
    BY <1>1, <1>2

LEMMA SwitchStep ==
    ASSUME TypeOK, LoopInv, StreamInv, LogInv, RecordInv, SwitchInv, [Next]_vars
    PROVE  SwitchInv'
  <1> USE DEF TypeOK, LoopInv, SwitchInv
  <1>r. UNCHANGED routeVars /\ log \subseteq log'
    <2>1. CASE AttemptFails \/ StreamClosed
      BY <2>1, FailureIsLogged DEF Logged
    <2>2. CASE ~AttemptFails /\ ~StreamClosed
      BY <2>2 DEF Next, vars, Start, EnterModel, LeaveModel, NextTransport, TransportsExhausted,
         ModeUnsupported, Answers, OpensStream, FirstFrame, FirstFrameFails, Cancelled
    <2> QED
      BY <2>1, <2>2
  <1>a. Authority \subseteq Authority'
    BY <1>r DEF Authority, FailedAs, routeVars
  <1>p. Pinned' = Pinned
    BY <1>r DEF Pinned, routeVars
  <1>1. CASE model' = model
    BY <1>1, <1>a, <1>p
  <1>2. CASE model' # model
    <2>1. LeaveModel /\ NextModel
      <3>1. ~AttemptFails /\ ~StreamClosed
        BY <1>2, FailureIsLogged DEF Logged
      <3> QED
        BY <1>2, <3>1 DEF Next, vars, loopVars, Start, EnterModel, LeaveModel, NextTransport,
           TransportsExhausted, ModeUnsupported, Answers, OpensStream, FirstFrame,
           FirstFrameFails, Cancelled, Stop
    <2>2. model' = model + 1
      BY <2>1 DEF NextModel
    <2>3. ASSUME ~Pinned PROVE \E q \in Authority : q[1] < model + 1
      <3>1. MayLeave
        BY <2>1, <2>3 DEF LeaveModel, MoreModels, NextModel, Stop, Raise
      <3>2. Authority # {}
        BY <3>1 DEF MayLeave, RecordInv, Authority
      <3>3. \A q \in Authority : \E e \in log : e.place = q
        BY DEF Authority, FailedAs
      <3>4. \A e \in log : e.place[1] <= model
        BY DEF LogInv, Before, Place, Places
      <3> QED
        BY <3>2, <3>3, <3>4 DEF Places
    <2> QED
      BY <1>a, <1>p, <2>2, <2>3
  <1> QED
    BY <1>1, <1>2

LEMMA RetryStep ==
    ASSUME TypeOK, LoopInv, StreamInv, LogInv, RetryInv, [Next]_vars
    PROVE  RetryInv'
  <1> USE DEF TypeOK, LoopInv, RetryInv, Places
  <1>1. CASE AttemptFails \/ StreamClosed
    <2>1. PICK f \in Failures : Logged(f)
      BY <1>1, FailureIsLogged
    <2>2. pc \in Working
      BY <1>1, FailureIsLogged DEF Trying, Working
    <2> DEFINE entry == [place |-> Place, outcome |-> f, invited |-> policy.retryable]
    <2>3. log' = log \union {entry} /\ model' = model
      BY <2>1 DEF Logged
    <2>4. entry.outcome = f /\ entry.place = Place /\ entry.invited = policy.retryable
      OBVIOUS
    <2> HIDE DEF entry
    <2>5. pc' \in Working => f # "retryable" \/ policy.retryable
      BY <2>1 DEF Logged, Working
    <2>6. result' \notin {"value", "stream"}
      BY <2>1 DEF Logged
    <2>7. pc' \in Working \/ result' \in {"value", "stream"} =>
            \A e \in log' : e.outcome = "retryable" /\ e.place[1] = model' => e.invited
      BY <2>2, <2>3, <2>4, <2>5, <2>6
    <2>8. \A e, g \in log' :
            (e.outcome = "retryable" /\ g.place[1] = e.place[1] /\ Before(e.place, g.place))
                => e.invited
      <3>1. ASSUME NEW e \in log, e.outcome = "retryable", Place[1] = e.place[1]
            PROVE  e.invited
        BY <2>2, <3>1 DEF Place
      <3>2. \A g \in log' : ~Before(Place, g.place)
        BY <2>3, <2>4 DEF LogInv, Before, Place
      <3> QED
        BY <2>3, <2>4, <3>1, <3>2
    <2> QED
      BY <2>7, <2>8
  <1>2. CASE ~AttemptFails /\ ~StreamClosed
    <2>1. log' = log
      BY <1>2, OtherwiseQuiet DEF Quiet
    <2>2. CASE EnterModel
      <3>1. \A e \in log : e.place[1] # model
        BY <2>2 DEF EnterModel, LogInv, Before, Place
      <3> QED
        BY <2>1, <2>2, <3>1 DEF EnterModel
    <2>3. CASE ~EnterModel
      <3>1. pc' \in Working \/ result' \in {"value", "stream"}
            => model' = model /\ (pc \in Working \/ result \in {"value", "stream"})
        BY <1>2, <2>3 DEF Next, vars, loopVars, Working, Start, LeaveModel, NextModel, Stop, Raise,
           FinalError, NextTransport, TransportsExhausted, ModeUnsupported, Answers, OpensStream,
           FirstFrame, FirstFrameFails, Cancelled
      <3> QED
        BY <2>1, <3>1
    <2> QED
      BY <2>2, <2>3
  <1> QED
    BY <1>1, <1>2

LEMMA BlameStep ==
    ASSUME TypeOK, LoopInv, StreamInv, RecordInv, BlameInv, [Next]_vars
    PROVE  BlameInv'
  <1> DEFINE OnRequest == {"rejected", "unrepresentable", "unsupported", "unavailable"}
  <1> USE DEF TypeOK, LoopInv, BlameInv, NeverToldAsStaticRejection
  <1>1. CASE AttemptFails \/ StreamClosed
    BY <1>1, FailureIsLogged DEF Logged
  <1>2. CASE ~AttemptFails /\ ~StreamClosed
    <2>1. log' = log /\ \A f : FailedAs(f)' = FailedAs(f)
      BY <1>2, OtherwiseQuiet DEF Quiet, FailedAs
    <2>2. overflowOnly' = overflowOnly
      BY <1>2 DEF Next, vars, routeVars, Start, EnterModel, LeaveModel, NextTransport,
         TransportsExhausted, ModeUnsupported, Answers, OpensStream, FirstFrame,
         FirstFrameFails, Cancelled
    <2>3. CASE LeaveModel
      <3>1. result' \in OnRequest => result' = FinalError(overflowOnly)
        BY <2>3 DEF LeaveModel, NextModel, Stop, Raise
      <3>2. FinalError(overflowOnly) \in OnRequest => ~Has("retryable") /\ ~(overflowOnly /\ Has("overflow"))
        BY DEF FinalError
      <3> QED
        BY <2>1, <2>2, <3>1, <3>2 DEF RecordInv
    <2>4. CASE ~LeaveModel
      <3>1. result' \in OnRequest => result' = result
        BY <1>2, <2>4 DEF Next, vars, Start, EnterModel, NextTransport, TransportsExhausted, Raise,
           ModeUnsupported, Answers, OpensStream, FirstFrame, FirstFrameFails, Cancelled
      <3> QED
        BY <2>1, <2>2, <3>1
    <2> QED
      BY <2>3, <2>4
  <1> QED
    BY <1>1, <1>2

\* What any step leaves of how places failed: FailedThere(f, p) once is FailedThere(f, p) for ever.
LEMMA FailedStays ==
    ASSUME TypeOK, LoopInv, StreamInv, [Next]_vars, NEW f \in Failures, NEW p \in Places,
           FailedThere(f, p)
    PROVE  FailedThere(f, p)'
  <1>1. p # NoPlace
    BY DEF Places, NoPlace
  <1>2. CASE AttemptFails \/ StreamClosed
    <2>1. PICK g \in Failures : Logged(g)
      BY <1>2, FailureIsLogged
    <2>2. log \subseteq log' /\ (Has("unsupported") => first'["unsupported"] = first["unsupported"])
      BY <2>1 DEF Logged, RecordFirst, TypeOK, Has, Recorded
    <2> QED
      BY <1>1, <2>2 DEF FailedThere, FailedAs, Has
  <1>3. CASE ~AttemptFails /\ ~StreamClosed
    <2>1. Quiet
      BY <1>3, OtherwiseQuiet
    <2>2. log' = log /\ (Has("unsupported") => first'["unsupported"] = first["unsupported"])
      BY <2>1 DEF Quiet, RecordFirst, TypeOK, Has, Recorded
    <2> QED
      BY <1>1, <2>2 DEF FailedThere, FailedAs, Has
  <1> QED
    BY <1>2, <1>3

LEMMA RouteStays == [Next]_vars => UNCHANGED routeVars
  BY DEF Next, vars, Start, EnterModel, LeaveModel, NextTransport, TransportsExhausted, ModeUnsupported,
     Answers, OpensStream, FirstFrame, FirstFrameFails, Cancelled, AttemptFails, StreamClosed

LEMMA KnownStep ==
    ASSUME TypeOK, LoopInv, StreamInv, KnownInv, [Next]_vars
    PROVE  KnownInv'
  <1> SUFFICES ASSUME NEW f \in Recorded, Has(f)'
               PROVE  \E p \in Places : Eligible(p)' /\ FailedThere(f, p)'
    BY DEF KnownInv
  <1>0. \A p : Eligible(p)' <=> Eligible(p)
    BY RouteStays DEF Eligible, Pinned, routeVars
  <1>1. CASE Has(f)
    <2>1. PICK p \in Places : Eligible(p) /\ FailedThere(f, p)
      BY <1>1 DEF KnownInv
    <2>2. FailedThere(f, p)'
      BY <2>1, FailedStays DEF Failures
    <2> QED
      BY <1>0, <2>1, <2>2
  <1>2. CASE ~Has(f)
    <2>1. CASE AttemptFails \/ StreamClosed
      <3>1. PICK g \in Failures : Logged(g)
        BY <2>1, FailureIsLogged
      <3>2. pc \in Trying /\ Place \in Places /\ Eligible(Place)
        BY <2>1, FailureIsLogged, PlaceIsPlace DEF LoopInv
      <3>3. f = g
        BY <1>2, <3>1 DEF Logged, RecordFirst, Has, TypeOK
      <3> DEFINE entry == [place |-> Place, outcome |-> f, invited |-> policy.retryable]
      <3>4. entry \in log' /\ entry.place = Place /\ entry.outcome = f
        BY <3>1, <3>3 DEF Logged
      <3> HIDE DEF entry
      <3>5. FailedThere(f, Place)'
        <4>1. Place' = Place
          BY <3>1 DEF Logged, Place
        <4> QED
          BY <3>4, <4>1 DEF FailedThere, FailedAs
      <3>6. Place' = Place
        BY <3>1 DEF Logged, Place
      <3> QED
        BY <1>0, <3>2, <3>5, <3>6
    <2>2. CASE ModeUnsupported
      <3>1. Place \in Places /\ Eligible(Place) /\ Place' = Place
        BY <2>2, PlaceIsPlace DEF ModeUnsupported, LoopInv, Trying, Place
      <3>2. f = "unsupported" /\ first'[f] = Place
        BY <1>2, <2>2 DEF ModeUnsupported, RecordFirst, Has, TypeOK
      <3> QED
        BY <1>0, <3>1, <3>2 DEF FailedThere
    <2>3. CASE ~(AttemptFails \/ StreamClosed \/ ModeUnsupported)
      <3>1. first' = first
        BY <2>3 DEF Next, vars, loopVars, Start, EnterModel, LeaveModel, NextTransport,
           TransportsExhausted, Answers, OpensStream, FirstFrame, FirstFrameFails, Cancelled
      <3> QED
        BY <1>2, <3>1 DEF Has
    <2> QED
      BY <2>1, <2>2, <2>3
  <1> QED
    BY <1>1, <1>2

LEMMA HomeStep ==
    ASSUME TypeOK, LoopInv, StreamInv, HomeInv, [Next]_vars
    PROVE  HomeInv'
  <1> USE DEF TypeOK, LoopInv, HomeInv
  <1>0. Pinned' = Pinned /\ overflowOnly' = overflowOnly
    BY RouteStays DEF Pinned, routeVars
  <1>1. CASE AttemptFails \/ StreamClosed
    <2>1. PICK f \in Failures : Logged(f)
      BY <1>1, FailureIsLogged
    <2>2. eligibleSeen /\ eligibleSeen' /\ Place # NoPlace /\ pc' # "start"
      BY <1>1, <2>1, FailureIsLogged, PlaceIsPlace DEF Logged
    <2>3. ASSUME Pinned, pc' # "done" PROVE Has(f)' /\ f \in Recorded
      BY <2>1, <2>2, <2>3 DEF Logged, RecordFirst, Has
    <2> QED
      BY <1>0, <2>2, <2>3
  <1>2. CASE ModeUnsupported
    <2>1. Place # NoPlace /\ eligibleSeen /\ eligibleSeen' /\ pc' = "transport"
      BY <1>2, PlaceIsPlace DEF ModeUnsupported, Trying
    <2>2. Has("unsupported")' /\ "unsupported" \in Recorded
      BY <1>2, <2>1 DEF ModeUnsupported, RecordFirst, Has, Recorded
    <2> QED
      BY <1>0, <2>1, <2>2
  <1>3. CASE NextTransport
    BY <1>0, <1>3 DEF NextTransport, Has, Trying
  <1>4. CASE Start \/ EnterModel \/ TransportsExhausted
    BY <1>0, <1>4 DEF Start, EnterModel, TransportsExhausted, Raise, loopVars, Has, Trying
  <1>5. CASE LeaveModel
    BY <1>0, <1>5 DEF LeaveModel, NextModel, Stop, Raise, Has, Trying
  <1>6. CASE Answers \/ OpensStream \/ FirstFrame \/ FirstFrameFails \/ Cancelled
    BY <1>0, <1>6 DEF Answers, OpensStream, FirstFrame, FirstFrameFails, Cancelled, Raise, loopVars,
       Has, Trying
  <1>7. CASE UNCHANGED vars
    BY <1>0, <1>7 DEF vars, loopVars, Has, Trying
  <1> QED
    BY <1>1, <1>2, <1>3, <1>4, <1>5, <1>6, <1>7 DEF Next

\* Where something is on record, that is what is told.
LEMMA TellsWhatIsKnown ==
    ASSUME NEW f \in Recorded, Has(f), NEW b \in BOOLEAN
    PROVE  FinalError(b) \in Recorded /\ Has(FinalError(b))
  BY DEF FinalError, Recorded

LEMMA ToldStep ==
    ASSUME TypeOK, LoopInv, StreamInv, KnownInv, HomeInv, ToldInv, [Next]_vars
    PROVE  ToldInv'
  <1> SUFFICES ASSUME Pinned
               PROVE  /\ result' \in Failures => FailedThere(result, pin)'
                      /\ result' = "continuation" => ~eligibleSeen'
                      /\ result' # "unavailable"
    BY RouteStays DEF ToldInv, Pinned, routeVars
  <1> USE DEF TypeOK, LoopInv
  <1>0. pin' = pin /\ ~overflowOnly /\ \A p : Eligible(p) => p = pin
    BY RouteStays DEF routeVars, HomeInv, Eligible
  <1>k. ASSUME NEW f \in Recorded, Has(f) PROVE FailedThere(f, pin)'
    BY <1>0, <1>k, FailedStays DEF KnownInv, Failures
  <1>1. CASE AttemptFails \/ StreamClosed
    <2>1. PICK f \in Failures : Logged(f)
      BY <1>1, FailureIsLogged
    <2>2. Place = pin
      BY <1>0, <1>1, FailureIsLogged
    <2> DEFINE entry == [place |-> Place, outcome |-> f, invited |-> policy.retryable]
    <2>3. entry \in log' /\ entry.place = pin /\ entry.outcome = f
      BY <2>1, <2>2 DEF Logged
    <2> HIDE DEF entry
    <2>4. FailedThere(f, pin)'
      BY <1>0, <2>3 DEF FailedThere, FailedAs
    <2>5. "none" \notin Failures /\ "continuation" \notin Failures /\ "unavailable" \notin Failures
      BY DEF Failures, Recorded
    <2> QED
      BY <2>1, <2>4, <2>5 DEF Logged
  <1>2. CASE LeaveModel
    <2>1. CASE NextModel
      BY <1>2, <2>1 DEF LeaveModel, NextModel, Failures, Recorded
    <2>2. CASE ~eligibleSeen /\ ~NextModel
      <3>1. Stop("continuation")
        BY <1>2, <2>2 DEF LeaveModel, MoreModels
      <3> QED
        BY <1>2, <2>2, <3>1 DEF LeaveModel, Stop, Raise, Failures, Recorded
    <2>3. CASE eligibleSeen /\ ~NextModel
      <3>1. Stop(FinalError(overflowOnly))
        BY <1>2, <2>3 DEF LeaveModel
      <3>2. PICK f \in Recorded : Has(f)
        BY <1>2, <2>3 DEF HomeInv, LeaveModel
      <3>3. PICK e \in Recorded : e = FinalError(overflowOnly) /\ Has(e)
        BY <3>2, TellsWhatIsKnown
      <3>4. result' = e
        BY <3>1, <3>3 DEF Stop, Raise
      <3>5. FailedThere(e, pin)'
        BY <1>k, <3>3
      <3> QED
        BY <3>4, <3>5 DEF Recorded, FailedThere, FailedAs
    <2> QED
      BY <2>1, <2>2, <2>3
  <1>3. CASE Start
    BY <1>3 DEF Start, Raise, loopVars, HomeInv, Failures, Recorded
  <1>4. CASE ~(AttemptFails \/ StreamClosed \/ LeaveModel \/ Start)
    <2>1. \/ result' \in {"value", "stream", "cancelled"}
          \/ result' = result /\ (result = "continuation" => eligibleSeen' = eligibleSeen)
      BY <1>4 DEF Next, vars, loopVars, EnterModel, NextTransport, TransportsExhausted, ModeUnsupported,
         Answers, OpensStream, FirstFrame, FirstFrameFails, Cancelled, Raise
    <2>2. CASE result' \in {"value", "stream", "cancelled"}
      BY <2>2 DEF Failures, Recorded
    <2>3. CASE result' = result /\ (result = "continuation" => eligibleSeen' = eligibleSeen)
      <3>1. result \in Failures => FailedThere(result, pin)'
        <4>1. PICK e : e = result
          OBVIOUS
        <4>2. ASSUME e \in Failures PROVE FailedThere(e, pin)'
          <5>1. FailedThere(e, pin)
            BY <4>1, <4>2 DEF ToldInv, FailedThere
          <5> QED
            BY <1>0, <4>2, <5>1, FailedStays
        <4> QED
          BY <2>3, <4>1, <4>2 DEF FailedThere, FailedAs
      <3> QED
        BY <2>3, <3>1 DEF ToldInv, FailedThere, FailedAs
    <2> QED
      BY <2>1, <2>2, <2>3
  <1> QED
    BY <1>1, <1>2, <1>3, <1>4

LEMMA Initially == Init => IInv
  <1> SUFFICES ASSUME Init PROVE IInv
    OBVIOUS
  <1>1. TypeOK
    BY TypeInitially
  <1>2. LoopInv /\ StreamInv
    BY <1>1 DEF Init, LoopInv, StreamInv, Trying, TypeOK
  <1>3. LogInv
    BY DEF Init, LogInv, Trying
  <1>4. RecordInv
    BY DEF Init, RecordInv, Has, FailedAs, Recorded
  <1>5. SwitchInv /\ RetryInv /\ BlameInv
    BY DEF Init, SwitchInv, RetryInv, BlameInv, NeverToldAsStaticRejection
  <1>6. KnownInv /\ HomeInv /\ ToldInv
    BY DEF Init, KnownInv, HomeInv, ToldInv, Has, Trying, Failures, Recorded
  <1> QED
    BY <1>1, <1>2, <1>3, <1>4, <1>5, <1>6 DEF IInv

LEMMA Inductive == IInv /\ [Next]_vars => IInv'
  BY TypeStep, LoopStep, LogStep, StreamStep, RecordStep, SwitchStep, RetryStep, BlameStep,
     KnownStep, HomeStep, ToldStep DEF IInv

LEMMA Invariance == Spec => []IInv
  BY Initially, Inductive, PTL DEF Spec

\* The variables of the dispatcher stay within their types.
THEOREM DispatchTypes == Spec => []TypeOK
  BY Invariance, PTL DEF IInv

\* On routes of any length a request that names a place is executed there and nowhere else, passes
\* the models before it without a failure, and is told how that place failed whatever lies after it
\* (_dispatch_route, _transport_is_eligible).
THEOREM ContinuationKept == Spec => []ContinuationIsKept
  <1>1. IInv => ContinuationIsKept
    <2> SUFFICES ASSUME IInv, Pinned PROVE ContinuationIsKept
      BY DEF ContinuationIsKept
    <2>1. Touched \subseteq {pin}
      BY DEF IInv, LoopInv, LogInv, Touched, Tried, Eligible
    <2>2. ~eligibleSeen /\ result = "continuation" => Touched = {}
      BY DEF IInv, HomeInv, Touched, Tried
    <2> QED
      BY <2>1, <2>2 DEF IInv, HomeInv, ToldInv, ContinuationIsKept
  <1> QED
    BY <1>1, Invariance, PTL

\* Another model is touched only on the authority of an earlier failure.
THEOREM SwitchesAuthorised == Spec => []ModelSwitchAuthorised
  <1>1. ASSUME IInv PROVE ModelSwitchAuthorised
    <2> USE <1>1 DEF IInv, TypeOK, LoopInv, LogInv, SwitchInv, Places
    <2>1. \A p \in Touched : p[1] \in 1..model
      BY DEF Touched, Tried, Before, Place
    <2> QED
      BY <2>1 DEF ModelSwitchAuthorised, Authority
  <1> QED
    BY <1>1, Invariance, PTL

\* No retryable failure leads to another transport of the same model unless
\* the provider's policy opts in.
THEOREM RetriesInvited == Spec => []NoUninvitedTransportRetry
  <1>1. ASSUME IInv PROVE NoUninvitedTransportRetry
    <2> USE <1>1 DEF IInv, TypeOK, RetryInv, Places
    <2>1. \A p \in Touched : (\E g \in log : p = g.place)
             \/ (p = Place /\ (pc \in Working \/ result \in {"value", "stream"}))
      BY DEF Touched, Tried, Trying, Working
    <2> QED
      BY <2>1 DEF NoUninvitedTransportRetry, Place
  <1> QED
    BY <1>1, Invariance, PTL

\* Both together: no second attempt without the authority of a first.
THEOREM SecondAttemptsAuthorised == Spec => []FallbackAuthorised
  BY SwitchesAuthorised, RetriesInvited, PTL DEF FallbackAuthorised

\* No upstream iterator is left open but the one handed over.
THEOREM NoStreamLeaks == Spec => []StreamsAccounted
  <1>1. IInv => StreamsAccounted
    BY DEF IInv, LoopInv, StreamInv, StreamsAccounted, Trying
  <1> QED
    BY <1>1, Invariance, PTL

\* Where some attempt failed in a way the client could retry, no static rejection is told
\* (final_error).
THEOREM RetryableErrorWins == Spec => []NeverToldAsStaticRejection
  BY Invariance, PTL DEF IInv, BlameInv

-----------------------------------------------------------------------------
(* The dispatcher implements FallbackPlan.                                 *)

LEMMA PlanInitially == Init => Plan!PlanInit
  BY DEF Init, Plan!PlanInit, Place, Trying

LEMMA PlanStep ==
    ASSUME IInv, [Next]_vars, IInv'
    PROVE  [Plan!PlanNext]_(Plan!planVars)
  <1> DEFINE trying == pc \in Trying /\ Place \notin Tried
             answer == IF result \in {"value", "stream"} THEN "answered"
                       ELSE IF result = "none" THEN "pending" ELSE "failed"
  <1> USE DEF IInv, TypeOK, LoopInv, Trying
  <1>t. (trying <=> pc \in Trying) /\ (trying' <=> pc' \in Trying)
    BY DEF LogInv
  <1>g. answer = "pending" /\ answer' = "failed" /\ pc' = "done" /\ Place' = Place
        => Plan!GiveUp
    BY DEF Plan!GiveUp, Place
  <1>s. Place' = Place /\ result' = result /\ (pc' \in Trying <=> pc \in Trying)
        => UNCHANGED Plan!planVars
    BY <1>t DEF Plan!planVars, Place
  <1>1. CASE AttemptFails \/ StreamClosed
    BY <1>1, <1>t, FailureIsLogged DEF Logged, Place, Plan!PlanNext, Plan!PlaceFails, Plan!GiveUp
  <1>2. CASE Start
    BY <1>2, <1>g, <1>s DEF Start, Raise, loopVars, Place, Plan!PlanNext
  <1>3. CASE EnterModel
    BY <1>3, <1>s DEF EnterModel, Place
  <1>4. CASE LeaveModel
    <2>1. result = "none" /\ pc \notin Trying
      BY <1>4 DEF LeaveModel
    <2>2. CASE NextModel
      <3>1. Place' \in Plan!Cursors /\ Plan!Before(Place, Place')
        BY <2>2 DEF NextModel, Place, Plan!Cursors, Plan!Before
      <3> QED
        BY <1>t, <2>1, <2>2, <3>1 DEF NextModel, Plan!PlanNext, Plan!Advance, Place
    <2>3. CASE ~NextModel
      BY <1>4, <1>g, <2>1, <2>3 DEF LeaveModel, Stop, Raise, FinalError, Place, Plan!PlanNext
    <2> QED
      BY <2>2, <2>3
  <1>5. CASE NextTransport
    <2>1. Place' \in Plan!Cursors /\ Plan!Before(Place, Place')
      BY <1>5 DEF NextTransport, Place, Plan!Cursors, Plan!Before
    <2>2. result = "none" /\ result' = "none" /\ pc \notin Trying /\ Place'[2] > 0
      BY <1>5 DEF NextTransport, Place
    <2> QED
      BY <1>t, <2>1, <2>2 DEF Plan!PlanNext, Plan!Advance, Place
  <1>6. CASE TransportsExhausted
    BY <1>6, <1>s DEF TransportsExhausted, loopVars, Place
  <1>7. CASE ModeUnsupported
    BY <1>7, <1>t DEF ModeUnsupported, Place, Plan!PlanNext, Plan!PlaceFails
  <1>8. CASE Answers
    BY <1>8, <1>t DEF Answers, Raise, loopVars, Place, Plan!PlanNext, Plan!Answer
  <1>9. CASE OpensStream
    BY <1>9, <1>s DEF OpensStream, loopVars, Place
  <1>10. CASE FirstFrame
    BY <1>10, <1>t DEF FirstFrame, Raise, loopVars, Place, Plan!PlanNext, Plan!Answer
  <1>11. CASE FirstFrameFails
    BY <1>11, <1>s DEF FirstFrameFails, loopVars, Place
  <1>12. CASE Cancelled
    BY <1>12, <1>g DEF Cancelled, Raise, loopVars, Place, Plan!PlanNext
  <1>13. CASE UNCHANGED vars
    BY <1>13, <1>s DEF vars, loopVars, Place
  <1> QED
    BY <1>1, <1>2, <1>3, <1>4, <1>5, <1>6, <1>7, <1>8, <1>9, <1>10, <1>11, <1>12, <1>13 DEF Next

\* Places are tried in plan order, one at a time and none twice, the answer
\* comes from the one tried last, and nothing is tried after it.
THEOREM FollowsThePlan == Spec => ImplementsPlan
  BY PlanInitially, PlanStep, Invariance, PTL DEF Spec, ImplementsPlan, Plan!PlanSpec
=============================================================================
