---------------------------- MODULE SmsContract ----------------------------
(***************************************************************************)
(* What the gateway promises a tenant about one accepted message, whatever *)
(* happens between the server and the phones: it is settled in the end, a  *)
(* verdict of success rests on something a radio or an operator really     *)
(* did, and what is known about a message only ever improves.              *)
(***************************************************************************)
EXTENDS Naturals

CONSTANT Msgs

VARIABLES
    outcome,   \* what the tenant is told
    air        \* what happened to the copies of the message on the network

vars == <<outcome, air>>

Outcomes == {"none", "open", "failed", "sent", "undelivered", "delivered"}
Facts == {"sent", "undelivered", "delivered"}

Init ==
    /\ outcome = [m \in Msgs |-> "none"]
    /\ air = [m \in Msgs |-> {}]

Accept(m) ==
    /\ outcome[m] = "none"
    /\ outcome' = [outcome EXCEPT ![m] = "open"]
    /\ UNCHANGED air

\* A radio sends a copy; the operator reports on one that was sent.
Happen(m, fact) ==
    /\ fact \in {"undelivered", "delivered"} => "sent" \in air[m]
    /\ air' = [air EXCEPT ![m] = @ \union {fact}]
    /\ UNCHANGED outcome

\* The outcomes a fact, once heard of, improves upon.
Below(fact) ==
    CASE fact = "sent"        -> {"open", "failed"}
      [] fact = "undelivered" -> {"open", "failed", "sent"}
      [] fact = "delivered"   -> {"open", "failed", "sent", "undelivered"}

Learn(m, fact) ==
    /\ fact \in air[m]
    /\ outcome[m] \in Below(fact)
    /\ outcome' = [outcome EXCEPT ![m] = fact]
    /\ UNCHANGED air

GiveUp(m) ==
    /\ outcome[m] = "open"
    /\ outcome' = [outcome EXCEPT ![m] = "failed"]
    /\ UNCHANGED air

Settle(m) == GiveUp(m) \/ \E fact \in Facts : Learn(m, fact) /\ outcome[m] = "open"

Next ==
    \E m \in Msgs : \/ Accept(m) \/ GiveUp(m)
                    \/ \E fact \in Facts : Happen(m, fact) \/ Learn(m, fact)

Spec == Init /\ [][Next]_vars /\ \A m \in Msgs : WF_vars(Settle(m))
=============================================================================
