-------------------------------- MODULE Answer --------------------------------
(***************************************************************************)
(* What converting an answer promises: a client hears of every channel of  *)
(* the answer what was said on it, in its order and each piece once; it    *)
(* may hear of a failure at any time, and of success only when the answer  *)
(* was finished and it has heard all of it.                                *)
(***************************************************************************)
EXTENDS Sequences

LOCAL INSTANCE SequencesExt

CONSTANTS Clients, Channels

VARIABLES said,      \* what the upstream has said on each channel
          finished,  \* whether it has said that this was all
          heard,     \* what each client was told on each channel
          end        \* for each client "none", "success" or "error"

vars == <<said, finished, heard, end>>

Init ==
    /\ said = [c \in Channels |-> <<>>]
    /\ ~finished
    /\ heard = [q \in Clients |-> [c \in Channels |-> <<>>]]
    /\ end = [q \in Clients |-> "none"]

HeardAll(q) == heard[q] = said
Continues(before, after) == \A c \in Channels : IsPrefix(before[c], after[c])

Say == Continues(said, said') /\ (finished => said' = said /\ finished')

\* A client hears more of what was said, and perhaps the end.
Hear(q) ==
    /\ end[q] = "none"
    /\ Continues(heard[q], heard'[q])
    /\ Continues(heard'[q], said')
    /\ end'[q] \in {"none", "error"} \cup (IF finished' /\ HeardAll(q)' THEN {"success"} ELSE {})

\* A client that was told the end is told no more.
Rest(q) == end[q] # "none" /\ heard'[q] = heard[q] /\ end'[q] = end[q]

Next == Say /\ \A q \in Clients : Hear(q) \/ Rest(q)

Spec == Init /\ [][Next]_vars
===============================================================================
