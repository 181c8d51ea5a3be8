------------------------ MODULE GenerationLifecycle ------------------------
(***************************************************************************)
(* What a RouterOwner promises its callers, without locks, counters or     *)
(* close tasks: generations are published one after the other, only the    *)
(* generation that serves takes new users, and a generation's resources    *)
(* are disposed of after it stopped serving and its last user left.        *)
(***************************************************************************)
EXTENDS Naturals

CONSTANTS
    Users,    \* tasks that may hold a lease
    MaxGen    \* generations that may be published

VARIABLES
    status,   \* what each generation is doing
    users     \* who holds a lease on each generation

lifecycleVars == <<status, users>>

LifecycleGens == 1..MaxGen

Statuses == {"unborn", "serving", "draining", "disposed"}

LifecycleTypeOK ==
    /\ status \in [LifecycleGens -> Statuses]
    /\ users \in [LifecycleGens -> SUBSET Users]

LifecycleInit ==
    /\ status = [g \in LifecycleGens |-> "unborn"]
    /\ users = [g \in LifecycleGens |-> {}]

Serving == {g \in LifecycleGens : status[g] = "serving"}

\* A generation that stops serving is disposed of at once when nobody uses it.
Retired(g) == IF users[g] = {} THEN "disposed" ELSE "draining"

Publish(g) ==
    /\ status[g] = "unborn"
    /\ status' = [h \in LifecycleGens |->
                    IF h = g THEN "serving"
                    ELSE IF status[h] = "serving" THEN Retired(h)
                    ELSE status[h]]
    /\ UNCHANGED users

Enter(u, g) ==
    /\ status[g] = "serving"
    /\ users' = [users EXCEPT ![g] = @ \union {u}]
    /\ UNCHANGED status

\* Leaving a generation that serves keeps it; the last user that leaves one
\* that is draining disposes of it.
Leave(u, g) ==
    /\ u \in users[g]
    /\ users' = [users EXCEPT ![g] = @ \ {u}]
    /\ status' = [status EXCEPT ![g] =
                    IF @ = "draining" /\ users[g] = {u} THEN "disposed" ELSE @]

\* The owner shuts down: nothing serves any more.
StopServing ==
    /\ status' = [g \in LifecycleGens |->
                    IF status[g] = "serving" THEN "draining" ELSE status[g]]
    /\ UNCHANGED users

Dispose(g) ==
    /\ status[g] = "draining"
    /\ users[g] = {}
    /\ status' = [status EXCEPT ![g] = "disposed"]
    /\ UNCHANGED users

LifecycleNext ==
    \/ StopServing
    \/ \E g \in LifecycleGens : Publish(g) \/ Dispose(g)
    \/ \E g \in LifecycleGens, u \in Users : Enter(u, g) \/ Leave(u, g)

LifecycleSpec == LifecycleInit /\ [][LifecycleNext]_lifecycleVars
=============================================================================
