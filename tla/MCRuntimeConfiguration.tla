---------------------- MODULE MCRuntimeConfiguration ----------------------
(***************************************************************************)
(* RuntimeConfiguration with the sessions of DeviceLogins on small         *)
(* instances: one of the casts acts, and nobody else.                      *)
(***************************************************************************)
EXTENDS DeviceLogins, TLC

CONSTANTS p1, p2, f1, r1, l1, l2, x1, c1, c2
VARIABLE cast

\* Every login has a credential of its own.
OwnKey(t) == t

\* Bound: every kind of operation with one login, or two logins with a logout.
Casts == {{p1, p2, f1, r1, l1, x1}, {l1, l2, x1}}

\* The two PATCHes differ in nothing, nor do the configurations the server did not start with.
PatchSymmetry == Permutations({p1, p2}) \union Permutations({c1, c2})

MCInit == LoginInit /\ cast \in Casts

MCSpec ==
    /\ MCInit
    /\ [][/\ LoginNext
          /\ \A t \in Tasks \ cast : pc'[t] = "idle"
          /\ \A t \in OAuthLogins \ cast : session'[t] = "none"
          /\ UNCHANGED cast]_<<vars, session, cast>>
=============================================================================
