--------------------------- MODULE UpdateDelivery ---------------------------
(***************************************************************************)
(* What the driver promises of the status updates it is given: the agent   *)
(* hears them in order and one at a time, what it hears it may forget      *)
(* until it has saved it, and so each subscription offers again all that   *)
(* was returned from and is not confirmed; only what is saved is ever      *)
(* confirmed.  Driver.tla implements this module, without a word of        *)
(* streams, readers and maps.                                              *)
(***************************************************************************)

VARIABLES
    link,       \* "off", "asking" for a subscription, or "on"
    offered,    \* updates in the subscription asked for
    heard,      \* updates the agent has
    saved,      \* ... and has in its checkpoint
    calls,      \* updates that a call has brought to the agent, not yet returned
    sent,       \* updates that a call has returned from
    confirmed   \* updates whose confirmation has arrived

vars == <<link, offered, heard, saved, calls, sent, confirmed>>

Updates == {"RUNNING", "FINAL"}

Init ==
    /\ link = "off" /\ offered = {}
    /\ heard = {} /\ saved = {} /\ calls = {} /\ sent = {} /\ confirmed = {}

\* Everything unconfirmed is offered, and nothing that was never sent.
Ask ==
    /\ link = "off" /\ link' = "asking"
    /\ offered' \in SUBSET sent
    /\ sent \ confirmed \subseteq offered'
    /\ UNCHANGED <<heard, saved, calls, sent, confirmed>>

Refused ==
    /\ link = "asking" /\ link' = "off"
    /\ UNCHANGED <<offered, heard, saved, calls, sent, confirmed>>

Subscribed ==
    /\ link = "asking" /\ link' = "on"
    /\ heard' = heard \cup offered
    /\ UNCHANGED <<offered, saved, calls, sent, confirmed>>

\* The agent may restart meanwhile, with its checkpoint.
Lost ==
    /\ link = "on" /\ link' = "off"
    /\ heard' \in {heard, saved}
    /\ UNCHANGED <<offered, saved, calls, sent, confirmed>>

\* An update reaches the agent, each only once by a call of its own; the caller
\* may never learn of it.
Tell(u) ==
    /\ calls = {} /\ sent = (IF u = "RUNNING" THEN {} ELSE {"RUNNING"})
    /\ heard' = heard \cup {u}
    /\ calls' \in {{}, {u}}
    /\ UNCHANGED <<link, offered, saved, sent, confirmed>>

Return(u) ==
    /\ calls = {u} /\ calls' = {}
    /\ sent' = sent \cup {u}
    /\ UNCHANGED <<link, offered, heard, saved, confirmed>>

Save(u) ==
    /\ link = "on" /\ u \in heard
    /\ saved' = saved \cup {u}
    /\ UNCHANGED <<link, offered, heard, calls, sent, confirmed>>

Confirm(u) ==
    /\ u \in saved
    /\ confirmed' = confirmed \cup {u}
    /\ UNCHANGED <<link, offered, heard, saved, calls, sent>>

Next ==
    \/ Ask \/ Refused \/ Subscribed \/ Lost
    \/ \E u \in Updates : Tell(u) \/ Return(u) \/ Save(u) \/ Confirm(u)

Spec == Init /\ [][Next]_vars
=============================================================================
