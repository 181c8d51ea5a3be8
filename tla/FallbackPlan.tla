----------------------------- MODULE FallbackPlan -----------------------------
(***************************************************************************)
(* What fallback over a route promises.  A route is a sequence of models,  *)
(* each with a sequence of transports.  They are tried in plan order, one  *)
(* at a time and none twice, the answer comes from the one tried last, and *)
(* nothing is tried after it.                                              *)
(***************************************************************************)
EXTENDS Naturals

CONSTANTS
    MaxModels,      \* models of a route
    MaxTransports   \* transports of a model

\* <<m, 0>>: model m was entered and none of its transports looked at yet.
Cursors == (1..MaxModels) \X (0..MaxTransports)

\* p comes before q in plan order.
Before(p, q) == p[1] < q[1] \/ (p[1] = q[1] /\ p[2] < q[2])

VARIABLES
    at,      \* how far the plan was followed
    trying,  \* whether the transport at is being tried
    answer   \* "pending", "answered" by the transport at, or "failed"

planVars == <<at, trying, answer>>

PlanInit == at = <<1, 0>> /\ trying = FALSE /\ answer = "pending"

\* On to a later place, which is tried or passed over.
Advance ==
    /\ answer = "pending" /\ ~trying
    /\ at' \in Cursors
    /\ Before(at, at')
    /\ trying' \in BOOLEAN
    /\ trying' => at'[2] > 0
    /\ answer' = answer

PlaceFails ==
    /\ answer = "pending" /\ trying
    /\ trying' = FALSE
    /\ UNCHANGED <<at, answer>>

Answer ==
    /\ answer = "pending" /\ trying
    /\ answer' = "answered" /\ trying' = FALSE
    /\ at' = at

GiveUp ==
    /\ answer = "pending"
    /\ answer' = "failed" /\ trying' = FALSE
    /\ at' = at

PlanNext == Advance \/ PlaceFails \/ Answer \/ GiveUp

PlanSpec == PlanInit /\ [][PlanNext]_planVars
=============================================================================
