--------------------------- MODULE CopilotTransport ---------------------------
(***************************************************************************)
(* CopilotTransport of providers/copilot_support/transport.py on top of    *)
(* the session: requests that share one pooled HTTP client, one retry      *)
(* after a rejected token or a broken connection, and the client that is   *)
(* recycled meanwhile.                                                     *)
(*                                                                         *)
(* Of the HTTP library only this is assumed: closing a client marks it     *)
(* closed at once and then waits, a closed client sends nothing, and what  *)
(* is under way on it breaks.                                              *)
(***************************************************************************)
EXTENDS CopilotAuthSession

CONSTANT MaxClients  \* bound on pooled clients ever made

ASSUME TransportAssumption == MaxClients \in Nat \ {0}

Clients == 1..MaxClients
NoClient == 0
OwnClient == MaxClients + 1  \* of a catalog request, closed by itself

VARIABLES
    clients,  \* "unused", "open", "aging": about to be closed, "closing", "closed"
    current,  \* client attribute of the transport
    stage,    \* where each request is
    using,    \* client of each request
    tries,    \* attempt of each request, from 0
    sent,     \* token of each request's last attempt
    shut      \* close was called

sendVars == <<clients, current, stage, using, tries, sent, shut>>
vars == <<authVars, sendVars>>

Requests == Callers
Open == {k \in Clients : clients[k] = "open"}
Usable(k) == k \in {OwnClient} \union Open \union {j \in Clients : clients[j] = "aging"}

TypeOK ==
    /\ AuthTypeOK
    /\ clients \in [Clients -> {"unused", "open", "aging", "closing", "closed"}]
    /\ current \in Clients \union {NoClient}
    /\ stage \in [Requests -> {"idle", "preflight", "sending", "rejected", "healing",
                               "recycling", "receiving", "ended"}]
    /\ using \in [Requests -> Clients \union {NoClient, OwnClient}]
    /\ tries \in [Requests -> {0, 1}]
    /\ sent \in [Requests -> Tokens \union {NoToken}]
    /\ shut \in BOOLEAN
    /\ current # NoClient => clients[current] \in {"open", "closing", "closed"}
    /\ \A r \in Requests :
          /\ pc[r] # "idle" => stage[r] \in {"preflight", "healing"}
          /\ stage[r] \notin {"idle", "preflight", "ended"} => using[r] # NoClient

Init ==
    /\ AuthInit
    /\ clients = [k \in Clients |-> "unused"]
    /\ current = NoClient
    /\ stage = [r \in Requests |-> "idle"]
    /\ using = [r \in Requests |-> NoClient]
    /\ tries = [r \in Requests |-> 0]
    /\ sent = [r \in Requests |-> NoToken]
    /\ shut = FALSE

-----------------------------------------------------------------------------
(* The pooled client.                                                      *)

\* Clients are made in order.
Unmade(k) == clients[k] = "unused" /\ \A j \in Clients : j < k => clients[j] # "unused"

\* get_client, from the pool and the current client it finds: the client, a
\* new one, or a new one for a client that is too old.
GetClient(pool, now) ==
    \/ /\ now # NoClient /\ pool[now] = "open"
       /\ clients' = pool /\ current' = now
    \/ \E k \in Clients :
          /\ Unmade(k)
          /\ current' = k
          /\ clients' = IF now # NoClient /\ pool[now] = "open"
                        THEN [pool EXCEPT ![now] = "aging", ![k] = "open"]
                        ELSE [pool EXCEPT ![k] = "open"]

\* The task that closes a client which became too old.
AgedClosed ==
    /\ \E k \in Clients : clients[k] = "aging" /\ clients' = [clients EXCEPT ![k] = "closed"]
    /\ UNCHANGED <<authVars, current, stage, using, tries, sent, shut>>

\* close, once no request of this generation is left.
Shutdown ==
    /\ ~shut
    /\ \A r \in Requests : stage[r] \in {"idle", "ended"}
    /\ shut' = TRUE
    /\ clients' = [k \in Clients |-> IF k = current THEN "closed" ELSE clients[k]]
    /\ current' = NoClient
    /\ UNCHANGED <<authVars, stage, using, tries, sent>>

-----------------------------------------------------------------------------
(* send_with_auth_retry and stream_with_auth_retry of one request.         *)

Move(r, place) == stage' = [stage EXCEPT ![r] = place]

Arrive(r) ==
    /\ stage[r] = "idle" /\ ~shut
    /\ Begin(r, FALSE)
    /\ Move(r, "preflight")
    /\ UNCHANGED <<clients, current, using, tries, sent, shut>>

\* A step of ensure_token on behalf of the request.
AuthStep(r) ==
    /\ stage[r] \in {"preflight", "healing"}
    /\ CallStep(r)
    /\ UNCHANGED sendVars

\* The headers carry whatever token is cached when they are made.
Sends(r, try) ==
    /\ sent' = [sent EXCEPT ![r] = cached]
    /\ tries' = [tries EXCEPT ![r] = try]
    /\ Move(r, "sending")

FirstSend(r) ==
    /\ stage[r] = "preflight" /\ pc[r] = "returned"
    /\ Again(r)
    /\ Sends(r, 0)
    /\ \/ GetClient(clients, current) /\ using' = [using EXCEPT ![r] = current']
       \/ using' = [using EXCEPT ![r] = OwnClient] /\ UNCHANGED <<clients, current>>
    /\ UNCHANGED shut

NoTokenForRequest(r) ==
    /\ stage[r] \in {"preflight", "healing"} /\ pc[r] = "failed"
    /\ Again(r)
    /\ Move(r, "ended")
    /\ UNCHANGED <<clients, current, using, tries, sent, shut>>

Accepted(r) ==
    /\ stage[r] = "sending" /\ Usable(using[r])
    /\ Move(r, "receiving")
    /\ UNCHANGED <<authVars, clients, current, using, tries, sent, shut>>

HealsAlways(r) == "rejected"
HealsOnce(r) == IF tries[r] = 0 THEN "rejected" ELSE "ended"

\* 401 or 403.  The second one is the request's error.
Rejected(r) ==
    /\ stage[r] = "sending" /\ Usable(using[r])
    /\ Move(r, HealsOnce(r))
    /\ UNCHANGED <<authVars, clients, current, using, tries, sent, shut>>

UnforcedHeal == FALSE
ForcedHeal == TRUE

\* refresh_for_auth_status.
Heal(r) ==
    /\ stage[r] = "rejected"
    /\ Begin(r, ForcedHeal)
    /\ Move(r, "healing")
    /\ UNCHANGED <<clients, current, using, tries, sent, shut>>

\* The retry goes to the client of the first attempt.
Resend(r) ==
    /\ stage[r] = "healing" /\ pc[r] = "returned"
    /\ Again(r)
    /\ Sends(r, 1)
    /\ UNCHANGED <<clients, current, using, shut>>

\* The connection breaks in a way that is retried: recycle_client closes the
\* current client, whichever the request was using.
Disconnected(r) ==
    /\ stage[r] = "sending"
    /\ tries[r] = 0
    /\ current \in Open
    /\ clients' = [clients EXCEPT ![current] = "closing"]
    /\ using' = [using EXCEPT ![r] = current]
    /\ Move(r, "recycling")
    /\ UNCHANGED <<authVars, current, tries, sent, shut>>

\* There was nothing left to close.
DisconnectedAgain(r) ==
    /\ stage[r] = "sending"
    /\ tries[r] = 0
    /\ current \notin Open
    /\ GetClient(clients, NoClient)
    /\ using' = [using EXCEPT ![r] = current']
    /\ Sends(r, 1)
    /\ UNCHANGED <<authVars, shut>>

\* The client is closed, the attribute is cleared, and a new client is made.
Recycled(r) ==
    /\ stage[r] = "recycling"
    /\ GetClient([clients EXCEPT ![using[r]] = "closed"], NoClient)
    /\ using' = [using EXCEPT ![r] = current']
    /\ Sends(r, 1)
    /\ UNCHANGED <<authVars, shut>>

\* A second broken connection, or a failure that is not retried.
SendFails(r) ==
    /\ stage[r] \in {"sending", "receiving"}
    /\ Move(r, "ended")
    /\ UNCHANGED <<authVars, clients, current, using, tries, sent, shut>>

Received(r) ==
    /\ stage[r] = "receiving" /\ Usable(using[r])
    /\ Move(r, "ended")
    /\ UNCHANGED <<authVars, clients, current, using, tries, sent, shut>>

\* Cancelled while it waits for the network or the old client.
GivenUp(r) ==
    /\ stage[r] \in {"sending", "recycling", "receiving"}
    /\ clients' = IF stage[r] = "recycling" THEN [clients EXCEPT ![using[r]] = "closed"] ELSE clients
    /\ Move(r, "ended")
    /\ UNCHANGED <<authVars, current, using, tries, sent, shut>>

\* Cancelled while it waits for a token.
GivenUpEarly(r) ==
    /\ stage[r] \in {"preflight", "healing"}
    /\ Cancel(r)
    /\ UNCHANGED sendVars

Advance(r) ==
    \/ AuthStep(r) \/ FirstSend(r) \/ NoTokenForRequest(r)
    \/ Accepted(r) \/ Rejected(r) \/ Heal(r) \/ Resend(r)
    \/ Disconnected(r) \/ DisconnectedAgain(r) \/ Recycled(r)
    \/ SendFails(r) \/ Received(r)

Next ==
    \/ \E r \in Requests : Arrive(r) \/ Advance(r) \/ GivenUp(r) \/ GivenUpEarly(r)
    \/ World /\ UNCHANGED sendVars
    \/ AgedClosed
    \/ Shutdown

Spec == Init /\ [][Next]_vars

\* Network calls time out, so that everything a request waits for ends; the
\* lock serves waiters in order.
Fairness ==
    \A r \in Requests : /\ WF_vars(Advance(r) /\ ~Acquire(r))
                        /\ SF_vars(Acquire(r) /\ UNCHANGED sendVars)

FairSpec == Spec /\ Fairness

-----------------------------------------------------------------------------
(* Properties.                                                             *)

\* The retry of a rejected request carries another token than the rejected
\* one, whoever minted it and however many requests were rejected at once.
RetryCarriesNewToken ==
    [][\A r \in Requests :
        stage[r] = "healing" /\ stage'[r] = "sending" => sent'[r] # sent[r]]_vars

\* The retry of a rejected request is sent on a client that can send.  The code does not
\* keep this: see the observations of the README.
RetryCanBeSent ==
    [][\A r \in Requests :
        stage[r] = "healing" /\ stage'[r] = "sending" => Usable(using[r])]_vars

\* Requests end.
RequestsEnd == \A r \in Requests : stage[r] = "preflight" ~> stage[r] = "ended"
=============================================================================
