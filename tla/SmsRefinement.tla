--------------------------- MODULE SmsRefinement ---------------------------
(***************************************************************************)
(* SmsLifecycle as an implementation of SmsContract, for messages whose    *)
(* tenant neither cancels them nor gives them a deadline, as long as no    *)
(* socket disappears between an assignment and its hand-off.               *)
(***************************************************************************)
EXTENDS SmsLifecycle

OutcomeOf(row) ==
    CASE row.status = "absent"     -> "none"
      [] row.status \in Open       -> "open"
      [] row.status = "failed"     -> IF WasSent(row) THEN "undelivered" ELSE "failed"
      [] OTHER                     -> row.status

FactsOf(m) ==
    LET states == {job[s][m] : s \in Sims}
    IN  (states \intersect {"delivered", "undelivered"})
            \union (IF states \intersect OnTheAir # {} THEN {"sent"} ELSE {})

Contract == INSTANCE SmsContract WITH
    outcome <- [m \in Msgs |-> OutcomeOf(msg[m])],
    air     <- [m \in Msgs |-> FactsOf(m)]

\* Devices resend results, report late, report about attempts that were taken
\* from them, and deliver reports that overtake their own send result; the
\* server restarts.  What the tenant is told still only improves, rests on
\* what really happened, and becomes final.
KeepsContract == Contract!Spec
=============================================================================
