---------------------------- MODULE DeviceLogins ----------------------------
(***************************************************************************)
(* The table of device-flow logins (server/oauth_sessions.py) beside the   *)
(* administrative operations.  A login answers its administrator with a    *)
(* session and goes on in the background: GitHub is polled until the user  *)
(* has agreed (auth/github_oauth.py), the Copilot token is fetched, and    *)
(* the credential is written as RuntimeConfiguration says.  All that the   *)
(* administrator learns of it is the status of the session.                *)
(*                                                                         *)
(* The table's lock is never held across an await, so that each of its     *)
(* operations is a step, or a part of the step that ends the login.  A     *)
(* session expires by the clock, at any time.                              *)
(***************************************************************************)
EXTENDS RuntimeConfiguration

VARIABLE session  \* the status of each login's session; "none" before, "gone" when it was removed

Statuses == {"pending", "complete", "error", "expired"}

SessionsTypeOK == session \in [OAuthLogins -> Statuses \union {"none", "gone"}]

LoginInit ==
    /\ Init
    /\ session = [t \in OAuthLogins |-> "none"]

\* _cleanup_expired: the sessions that have an outcome, whoever has still to learn of it, and
\* those a minute past their time.
Swept(u, late) == session[u] \in Statuses \ {"pending"} \/ u \in late

CreateSession(t) ==
    /\ pc[t] = "idle"
    /\ session[t] = "none"
    /\ \E late \in SUBSET {u \in OAuthLogins : session[u] = "pending"} :
          session' = [u \in OAuthLogins |->
              CASE u = t -> "pending" [] Swept(u, late) -> "gone" [] OTHER -> session[u]]
    /\ UNCHANGED vars

\* get_session, when the time is over.
ExpireSession(t) ==
    /\ session[t] = "pending"
    /\ session' = [session EXCEPT ![t] = "expired"]
    /\ UNCHANGED vars

\* update_session_status: whatever the status was.
SetStatus(t, status) ==
    session' = IF session[t] = "gone" THEN session ELSE [session EXCEPT ![t] = status]

\* What the end of a login does to its session: a cancelled one reports nothing.
ReportEarly(t) ==
    \/ pc'[t] = "read" /\ SetStatus(t, "complete")
    \/ pc'[t] = "failed" /\ pc[t] # "compensate" /\ SetStatus(t, "error")
    \/ pc'[t] # "read" /\ UNCHANGED session
Report(t) ==
    \/ pc'[t] = "ok" /\ SetStatus(t, "complete")
    \/ pc'[t] = "failed" /\ pc[t] # "compensate" /\ SetStatus(t, "error")
    \/ pc'[t] # "ok" /\ UNCHANGED session

\* A step of RuntimeConfiguration.  A login with a session goes by device flow, one without by
\* key; the session hears of the end in the step that ends the login.
Administer ==
    /\ Next
    /\ \A t \in OAuthLogins :
          pc[t] = "idle" /\ pc'[t] # "idle" => (session[t] = "none" <=> pc'[t] = "wait")
    /\ \/ \E t \in OAuthLogins : session[t] # "none" /\ pc'[t] # pc[t] /\ Report(t)
       \/ (\A t \in OAuthLogins : session[t] # "none" => pc'[t] = pc[t]) /\ UNCHANGED session

LoginNext ==
    \/ \E t \in OAuthLogins : CreateSession(t) \/ ExpireSession(t)
    \/ Administer

LoginSpec == LoginInit /\ [][LoginNext]_<<vars, session>>

-----------------------------------------------------------------------------
\* A session is complete only when the credential was written and serves, and has failed only
\* when its login has.
SessionsTellTheTruth ==
    \A t \in OAuthLogins :
        /\ session[t] = "complete" => pc[t] = "ok"
        /\ session[t] = "error" => pc[t] = "failed"

\* What an administrator is told of a login or a logout is so: what was acknowledged stands,
\* what failed left nothing behind, and the session of a device flow says which.
LoginsKeepTheirWord ==
    AcknowledgedWritesStand /\ FailedLoginsLeaveNothing /\ SessionsTellTheTruth
=============================================================================
