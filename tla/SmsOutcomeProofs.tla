-------------------------- MODULE SmsOutcomeProofs --------------------------
(***************************************************************************)
(* What becomes of a message, proved of SmsLifecycle for any messages,     *)
(* SIMs, phones, dispatchers, limits and restarts: what is known about a   *)
(* message is never lost, what it cost is counted once, and what the       *)
(* tenant is told keeps the contract.                                      *)
(*                                                                         *)
(* Three writers of a row do not look at what it has become: the cancel    *)
(* request, the deadline sweep and the undo of an assignment.  They really *)
(* do undo these promises, so Undisturbed leaves them out, as the runs do. *)
(***************************************************************************)
EXTENDS SmsLifecycleProofs, SmsRefinement

Undisturbed == Cancels = {} /\ Deadlined = {} /\ "socket_gone" \notin Faults

-----------------------------------------------------------------------------
(* Rows that nobody disturbs. *)

\* Only a message in flight has a lease, one that may still be tried has its
\* text, one not written has no attempts, and a recorded send is never lost.
KeptRow(m) ==
    /\ msg[m].deadline = "none" /\ msg[m].status \notin {"cancelled", "expired"}
    /\ msg[m].lease # "none" => msg[m].status \in InFlight
    /\ msg[m].status \in Open => msg[m].body
    /\ msg[m].status = "absent" => \A n \in AttemptNos : attempt[m][n] = NoAttempt
    /\ \A n \in AttemptNos : attempt[m][n].status = "sent" => WasSent(msg[m])

Kept == (\A m \in Msgs : KeptRow(m)) /\ cancelling = {} /\ deadlineSweep = {}

\* The kinds of step an undisturbed message can take.  An attempt of it is
\* closed, and the message queued again or given up ...
Closed(m) ==
    \E code \in {"transient", "permanent"}, status \in {"failed", "timed_out"} :
       /\ msg[m].status \in InFlight
       /\ CloseCurrent(m, status) /\ RetryOrFail(m, code) /\ job' = job

\* ... or a phone is heard to have sent it, with or without a verdict of the
\* operator ...
RowAfter(m, n, verdict) ==
    CASE verdict = "sent"        -> RowOnceSent(m, n)
      [] verdict = "delivered"   -> [RowOnceSent(m, n) EXCEPT !.status = "delivered"]
      [] verdict = "undelivered" -> [RowOnceSent(m, n) EXCEPT !.status = "failed",
                                                              !.error = "delivery_failed"]
EventsAfter(m, verdict) ==
    EventsOnceSent(m) \union (CASE verdict = "sent"        -> {}
                                [] verdict = "delivered"   -> {"delivered"}
                                [] verdict = "undelivered" -> {"failed"})

Heard(m, n, verdict) ==
    /\ \E g \in Gateways : /\ Owns(m, n, g)
                           /\ Reports(g, m, IF verdict = "sent" THEN OnTheAir ELSE {verdict})
    /\ verdict = "delivered" => msg[m].status # "delivered"
    /\ verdict = "undelivered" =>
          msg[m].status # "delivered" /\ ~(msg[m].status = "failed" /\ msg[m].error = "delivery_failed")
    /\ msg' = [msg EXCEPT ![m] = RowAfter(m, n, verdict)]
    /\ attempt' = [attempt EXCEPT ![m] = AttemptsOnceSent(m, n)]
    /\ ledger' = LedgerOnceSent(m, n)
    /\ Publish(m, EventsAfter(m, verdict))
    /\ job' = job

\* ... or a failed attempt is closed that no longer holds it.
ClosedLate(m) ==
    \E n \in AttemptNos :
       /\ attempt[m][n] # NoAttempt /\ attempt[m][n].status \notin {"sent", "failed"}
       /\ attempt' = [attempt EXCEPT ![m][n].status = "failed"]
       /\ UNCHANGED <<msg, ledger, event, job>>

Verdicts == {"sent", "delivered", "undelivered"}

\* Every step is of one of these kinds: no cancel, deadline or undo comes in.
LEMMA StepKinds ==
  ASSUME Undisturbed, TypeInv, Kept, [Next]_vars
  PROVE  \/ \E m \in Msgs :
               \/ Send(m) \/ LeaseElapses(m) \/ \E w \in Workers : DispatchDefer(w, m)
               \/ \E w \in Workers, s \in Sims : Assign(w, m, s)
               \/ \E g \in Gateways : Acknowledge(g, m)
               \/ Closed(m) \/ ClosedLate(m)
               \/ \E n \in AttemptNos, verdict \in Verdicts : Heard(m, n, verdict)
               \/ \E s \in Sims : PhoneStep(s, m)
               \/ \E e \in Subscribed : WebhookJobEnds(m, e)
         \/ \E w \in Workers : HandOff(w)
         \/ UNCHANGED <<msg, attempt, ledger, event, job>>
<1>1. \A m \in Msgs : ~CancelRead(m) /\ ~CancelSave(m) /\ ~ExpireMessage(m) /\ ~DeadlinePasses(m)
  BY DEF Undisturbed, Kept, KeptRow, CancelRead, CancelSave, ExpireMessage, DeadlinePasses
<1>2. \A w \in Workers : ~RequeueUndelivered(w)
  BY DEF Undisturbed, RequeueUndelivered
<1>3. \A w \in Workers, m \in Msgs : ~DispatchExpired(w, m) /\ ~DispatchUndeliverable(w, m)
  BY DEF Kept, KeptRow, DispatchExpired, DispatchUndeliverable, Taken, Open
<1>4. ASSUME NEW m \in Msgs, ReclaimLease(m)
      PROVE  Closed(m) \/ UNCHANGED <<msg, attempt, ledger, event, job>>
  <2>1. CASE Reclaimable(msg[m]) /\ CloseCurrent(m, "timed_out") /\ RetryOrFail(m, "transient")
    <3>1. msg[m].status \in InFlight
      BY <2>1 DEF Kept, KeptRow, Reclaimable
    <3>. QED BY <1>4, <2>1, <3>1 DEF ReclaimLease, Closed
  <2>. QED BY <1>4, <2>1 DEF ReclaimLease
<1>5. ASSUME NEW m \in Msgs, NEW g \in Gateways,
             RecordSent(g, m) \/ RecordDelivered(g, m) \/ RecordUndelivered(g, m)
      PROVE  \E n \in AttemptNos, verdict \in Verdicts : Heard(m, n, verdict)
  <2>1. CASE RecordSent(g, m)
    <3>1. PICK n \in AttemptNos :
             /\ Owns(m, n, g)
             /\ msg' = [msg EXCEPT ![m] = RowOnceSent(m, n)]
             /\ attempt' = [attempt EXCEPT ![m] = AttemptsOnceSent(m, n)]
             /\ ledger' = LedgerOnceSent(m, n)
             /\ Publish(m, EventsOnceSent(m))
      BY <2>1 DEF RecordSent
    <3>2. EventsAfter(m, "sent") = EventsOnceSent(m) /\ RowAfter(m, n, "sent") = RowOnceSent(m, n)
      BY DEF EventsAfter, RowAfter
    <3>3. Heard(m, n, "sent")
      BY <2>1, <3>1, <3>2 DEF RecordSent, Heard
    <3>. QED BY <3>3 DEF Verdicts
  <2>2. CASE RecordDelivered(g, m)
    <3>1. PICK n \in AttemptNos :
             /\ Owns(m, n, g)
             /\ msg' = [msg EXCEPT ![m] = [RowOnceSent(m, n) EXCEPT !.status = "delivered"]]
             /\ attempt' = [attempt EXCEPT ![m] = AttemptsOnceSent(m, n)]
             /\ ledger' = LedgerOnceSent(m, n)
             /\ Publish(m, EventsOnceSent(m) \union {"delivered"})
      BY <2>2 DEF RecordDelivered
    <3>2. /\ EventsAfter(m, "delivered") = EventsOnceSent(m) \union {"delivered"}
          /\ RowAfter(m, n, "delivered") = [RowOnceSent(m, n) EXCEPT !.status = "delivered"]
      BY DEF EventsAfter, RowAfter
    <3>3. Heard(m, n, "delivered")
      BY <2>2, <3>1, <3>2 DEF RecordDelivered, Heard
    <3>. QED BY <3>3 DEF Verdicts
  <2>3. CASE RecordUndelivered(g, m)
    <3>1. PICK n \in AttemptNos :
             /\ Owns(m, n, g)
             /\ msg' = [msg EXCEPT ![m] = [RowOnceSent(m, n) EXCEPT !.status = "failed",
                                                                    !.error = "delivery_failed"]]
             /\ attempt' = [attempt EXCEPT ![m] = AttemptsOnceSent(m, n)]
             /\ ledger' = LedgerOnceSent(m, n)
             /\ Publish(m, EventsOnceSent(m) \union {"failed"})
      BY <2>3 DEF RecordUndelivered
    <3>2. /\ EventsAfter(m, "undelivered") = EventsOnceSent(m) \union {"failed"}
          /\ RowAfter(m, n, "undelivered") =
                [RowOnceSent(m, n) EXCEPT !.status = "failed", !.error = "delivery_failed"]
      BY DEF EventsAfter, RowAfter
    <3>3. Heard(m, n, "undelivered")
      BY <2>3, <3>1, <3>2 DEF RecordUndelivered, Heard
    <3>. QED BY <3>3 DEF Verdicts
  <2>. QED BY <1>5, <2>1, <2>2, <2>3
<1>6. ASSUME NEW m \in Msgs, NEW g \in Gateways, NEW code \in {"transient", "permanent"},
             RecordFailure(g, m, code)
      PROVE  Closed(m) \/ ClosedLate(m)
  <2>1. PICK n \in AttemptNos :
           /\ Owns(m, n, g)
           /\ \/ IsCurrent(m, n) /\ CloseCurrent(m, "failed") /\ RetryOrFail(m, code)
              \/ /\ attempt[m][n].status \notin {"sent", "failed"}
                 /\ attempt' = [attempt EXCEPT ![m][n].status = "failed"]
                 /\ UNCHANGED <<msg, ledger, event>>
    BY <1>6 DEF RecordFailure
  <2>2. job' = job
    BY <1>6 DEF RecordFailure
  <2>. QED BY <2>1, <2>2 DEF Closed, ClosedLate, IsCurrent, Owns, HeldBy
<1>7. CASE UNCHANGED vars
  BY <1>7 DEF vars
<1>8. SelectLeases \/ SelectDeadlines \/ Restart => UNCHANGED <<msg, attempt, ledger, event, job>>
  BY DEF SelectLeases, SelectDeadlines, Restart
<1>9. ASSUME NEW m \in Msgs, NEW g \in Gateways, Report(g, m)
      PROVE  \/ Acknowledge(g, m) \/ Closed(m) \/ ClosedLate(m)
             \/ \E n \in AttemptNos, verdict \in Verdicts : Heard(m, n, verdict)
  BY <1>5, <1>6, <1>9 DEF Report
<1>10. ASSUME NEW m \in Msgs, Dispatch(m)
       PROVE  \E w \in Workers, s \in Sims : Assign(w, m, s)
  BY <1>3, <1>10 DEF Dispatch
<1>. QED BY <1>1, <1>2, <1>4, <1>7, <1>8, <1>9, <1>10 DEF Next


\* What is recorded of a message once a phone is heard to have sent it.
LEMMA HeardRow ==
  ASSUME TypeInv, NEW m \in Msgs, NEW n \in AttemptNos, attempt[m][n] # NoAttempt,
         NEW verdict \in Verdicts
  PROVE  /\ RowAfter(m, n, verdict) \in SmsMessage
         /\ WasSent(RowAfter(m, n, verdict))
         /\ RowAfter(m, n, verdict).status \in {"sent", "delivered", "failed"}
         /\ RowAfter(m, n, verdict).deadline = msg[m].deadline
         /\ \/ RowAfter(m, n, verdict).lease = "none"
            \/ RowAfter(m, n, verdict).lease = msg[m].lease /\ msg[m].status \notin InFlight
<1> DEFINE r == RowOnceSent(m, n)
<1>1. msg[m] \in SmsMessage /\ r \in SmsMessage /\ r.status \in {"sent", "delivered", "failed"}
  BY OnceSentType DEF TypeInv, TypeOK
<1>2. CASE WasSent(msg[m])
  BY <1>1, <1>2 DEF RowOnceSent, WasSent, InFlight, RowAfter, SmsMessage, Verdicts, SmsStatus,
                    Terminal, ErrorCodes
<1>3. CASE ~WasSent(msg[m])
  <2>1. r.status = "sent" /\ r.lease = "none" /\ r.deadline = msg[m].deadline
    BY <1>1, <1>3 DEF RowOnceSent, SmsMessage
  <2>. HIDE DEF r
  <2>2. CASE verdict = "sent"
    BY <1>1, <2>1, <2>2 DEF RowAfter, WasSent, r
  <2>3. CASE verdict = "delivered"
    BY <1>1, <2>1, <2>3 DEF RowAfter, WasSent, r, SmsMessage, SmsStatus, Terminal
  <2>4. CASE verdict = "undelivered"
    BY <1>1, <2>1, <2>4 DEF RowAfter, WasSent, r, SmsMessage, SmsStatus, Terminal, ErrorCodes
  <2>. QED BY <2>2, <2>3, <2>4 DEF Verdicts
<1>. QED BY <1>2, <1>3

\* A step that writes to one message need only be looked at there.
LEMMA KeptElsewhere ==
  ASSUME Kept, NEW m \in Msgs, KeptRow(m)',
         \A x \in Msgs \ {m} : msg'[x] = msg[x] /\ attempt'[x] = attempt[x]
  PROVE  \A x \in Msgs : KeptRow(x)'
BY DEF Kept, KeptRow, WasSent

LEMMA KeptUntouched ==
  ASSUME Kept, UNCHANGED <<msg, attempt>> PROVE \A x \in Msgs : KeptRow(x)'
BY DEF Kept, KeptRow, WasSent

\* The attempt that holds a message in flight has not been recorded as sent,
\* nor has any other.
LEMMA NoneSentInFlight ==
  ASSUME Kept, NEW m \in Msgs, msg[m].status \in Open, NEW n \in AttemptNos
  PROVE  attempt[m][n].status # "sent"
BY DEF Kept, KeptRow, WasSent, Open, InFlight

\* An attempt is closed: the message waits with its text, or has failed.
LEMMA KeptWhenClosed ==
  ASSUME TypeInv, Held, Kept, NEW m \in Msgs, Closed(m)
  PROVE  \A x \in Msgs : KeptRow(x)'
<1>1. PICK code \in {"transient", "permanent"}, status \in {"failed", "timed_out"} :
         msg[m].status \in InFlight /\ CloseCurrent(m, status) /\ RetryOrFail(m, code)
  BY DEF Closed
<1>2. msg[m] \in SmsMessage /\ msg \in [Msgs -> SmsMessage]
  BY DEF TypeInv, TypeOK
<1> DEFINE again == [msg[m] EXCEPT !.status = "queued", !.sim = NoSim, !.lease = "none",
                                   !.error = code]
           over == [msg[m] EXCEPT !.status = "failed", !.lease = "none", !.body = FALSE,
                                  !.error = IF code = "permanent" THEN code ELSE "exhausted"]
<1>3. msg' = [msg EXCEPT ![m] = again] \/ msg' = [msg EXCEPT ![m] = over]
  BY <1>1 DEF RetryOrFail
<1>4. /\ again.status = "queued" /\ again.lease = "none" /\ again.body = msg[m].body
      /\ again.deadline = msg[m].deadline
  BY <1>2 DEF SmsMessage
<1>5. over.status = "failed" /\ over.lease = "none" /\ over.deadline = msg[m].deadline
  BY <1>2 DEF SmsMessage
<1>. HIDE DEF again, over
<1>6. msg'[m] \in {again, over} /\ \A x \in Msgs \ {m} : msg'[x] = msg[x]
  BY <1>2, <1>3
<1>7. /\ \A x \in Msgs \ {m} : attempt'[x] = attempt[x]
      /\ \A n \in AttemptNos : attempt'[m][n].status # "sent"
  BY <1>1, ClosedAttempts, NoneSentInFlight DEF Open
<1>8. msg[m].body /\ msg[m].deadline = "none"
  BY <1>1 DEF Kept, KeptRow, Open
<1>9. KeptRow(m)'
  BY <1>4, <1>5, <1>6, <1>7, <1>8 DEF KeptRow, Open, InFlight
<1>. QED BY <1>6, <1>7, <1>9, KeptElsewhere

\* A send is recorded: the row says so.
LEMMA KeptWhenHeard ==
  ASSUME TypeInv, Kept, NEW m \in Msgs, NEW n \in AttemptNos, NEW verdict \in Verdicts,
         Heard(m, n, verdict)
  PROVE  \A x \in Msgs : KeptRow(x)'
<1>1. attempt[m][n] # NoAttempt
  BY DEF Heard, Owns, HeldBy
<1> DEFINE r == RowAfter(m, n, verdict)
<1>2. /\ WasSent(r) /\ r.status \in {"sent", "delivered", "failed"}
      /\ r.deadline = msg[m].deadline
      /\ \/ r.lease = "none"
         \/ r.lease = msg[m].lease /\ msg[m].status \notin InFlight
  <2>1. WasSent(r)
    BY <1>1, HeardRow
  <2>2. r.status \in {"sent", "delivered", "failed"}
    BY <1>1, HeardRow
  <2>3. r.deadline = msg[m].deadline
    BY <1>1, HeardRow
  <2>4. \/ r.lease = "none"
        \/ r.lease = msg[m].lease /\ msg[m].status \notin InFlight
    BY <1>1, HeardRow
  <2>. QED BY <2>1, <2>2, <2>3, <2>4
<1>3. msg' = [msg EXCEPT ![m] = r] /\ attempt' = [attempt EXCEPT ![m] = AttemptsOnceSent(m, n)]
  BY DEF Heard
<1>. HIDE DEF r
<1>4. /\ msg'[m] = r
      /\ \A x \in Msgs \ {m} : msg'[x] = msg[x] /\ attempt'[x] = attempt[x]
  BY <1>3 DEF TypeInv, TypeOK
<1>5. KeptRow(m)
  BY DEF Kept
<1>6. KeptRow(m)'
  BY <1>2, <1>4, <1>5 DEF KeptRow, Open, InFlight
<1>. QED BY <1>4, <1>6, KeptElsewhere

\* The steps of the tenant, the dispatcher and the lease clock.
LEMMA KeptWhileOpen ==
  ASSUME Undisturbed, TypeInv, Held, Kept, NEW m \in Msgs,
         \/ Send(m) \/ LeaseElapses(m)
         \/ \E w \in Workers : DispatchDefer(w, m) \/ \E s \in Sims : Assign(w, m, s)
         \/ \E g \in Gateways : Acknowledge(g, m)
  PROVE  \A x \in Msgs : KeptRow(x)'
<1>1. /\ msg[m] \in SmsMessage /\ msg \in [Msgs -> SmsMessage]
      /\ attempt \in [Msgs -> Attempts]
  BY DEF TypeInv, TypeOK, Attempts
<1>2. KeptRow(m)
  BY DEF Kept
<1>3. CASE Send(m)
  <2>1. /\ msg[m].status = "absent" /\ m \notin Deadlined /\ attempt' = attempt
        /\ msg' = [msg EXCEPT ![m] = [msg[m] EXCEPT !.status = "queued", !.body = TRUE,
                                                    !.deadline = "none"]]
    BY <1>3 DEF Send, Undisturbed
  <2>2. \A x \in Msgs \ {m} : msg'[x] = msg[x]
    BY <1>1, <2>1
  <2>3. /\ msg'[m].status = "queued" /\ msg'[m].body /\ msg'[m].deadline = "none"
        /\ msg'[m].lease = msg[m].lease
    BY <1>1, <2>1 DEF SmsMessage
  <2>4. msg[m].lease = "none" /\ \A n \in AttemptNos : attempt[m][n] = NoAttempt
    BY <1>2, <2>1 DEF KeptRow, InFlight
  <2>5. KeptRow(m)'
    BY <2>1, <2>3, <2>4 DEF KeptRow, NoAttempt
  <2>. QED BY <2>1, <2>2, <2>5, KeptElsewhere
<1>4. CASE LeaseElapses(m)
  <2>1. /\ attempt' = attempt /\ msg[m].lease = "running"
        /\ msg' = [msg EXCEPT ![m] = [msg[m] EXCEPT !.lease = "elapsed"]]
    BY <1>1, <1>4 DEF LeaseElapses
  <2>2. \A x \in Msgs \ {m} : msg'[x] = msg[x]
    BY <1>1, <2>1
  <2>3. /\ msg'[m].status = msg[m].status /\ msg'[m].body = msg[m].body
        /\ msg'[m].deadline = msg[m].deadline /\ msg'[m].error = msg[m].error
    BY <1>1, <2>1 DEF SmsMessage
  <2>4. KeptRow(m)'
    BY <1>2, <2>1, <2>3 DEF KeptRow, WasSent
  <2>. QED BY <2>1, <2>2, <2>4, KeptElsewhere
<1>5. ASSUME NEW w \in Workers, DispatchDefer(w, m) PROVE \A x \in Msgs : KeptRow(x)'
  <2>1. PICK error : msg' = [msg EXCEPT ![m] = [msg[m] EXCEPT !.error = error]]
    BY <1>1, <1>5 DEF DispatchDefer
  <2>2. msg[m].status = "queued" /\ attempt' = attempt
    BY <1>5 DEF DispatchDefer, Taken
  <2>3. \A x \in Msgs \ {m} : msg'[x] = msg[x]
    BY <1>1, <2>1
  <2>4. /\ msg'[m].status = "queued" /\ msg'[m].body = msg[m].body
        /\ msg'[m].deadline = msg[m].deadline /\ msg'[m].lease = msg[m].lease
    BY <1>1, <2>1, <2>2 DEF SmsMessage
  <2>5. \A n \in AttemptNos : attempt[m][n].status # "sent"
    BY <2>2, NoneSentInFlight DEF Open
  <2>6. KeptRow(m)'
    BY <1>2, <2>2, <2>4, <2>5 DEF KeptRow
  <2>. QED BY <2>2, <2>3, <2>6, KeptElsewhere
<1>6. ASSUME NEW w \in Workers, NEW s \in Sims, Assign(w, m, s) PROVE \A x \in Msgs : KeptRow(x)'
  <2> DEFINE k == msg[m].attempts + 1
             a == [sim |-> s, status |-> "assigned"]
             r == [msg[m] EXCEPT !.status = "assigned", !.sim = s, !.attempts = k,
                                 !.lease = "running", !.error = "none"]
  <2>1. /\ msg[m].status = "queued" /\ msg[m].body
        /\ msg' = [msg EXCEPT ![m] = r] /\ attempt' = [attempt EXCEPT ![m][k] = a]
    BY <1>6 DEF Assign, Taken, Sendable
  <2>2. r.status = "assigned" /\ r.body = msg[m].body /\ r.deadline = msg[m].deadline
    <3>. HIDE DEF k
    <3>. QED BY <1>1 DEF SmsMessage
  <2>3. a.status = "assigned"
    OBVIOUS
  <2>. HIDE DEF k, a, r
  <2>4. /\ msg'[m] = r
        /\ \A x \in Msgs \ {m} : msg'[x] = msg[x] /\ attempt'[x] = attempt[x]
    BY <1>1, <2>1
  <2>5. \A n \in AttemptNos : attempt'[m][n] \in {a, attempt[m][n]}
    BY <1>1, <2>1 DEF Attempts
  <2>6. \A n \in AttemptNos : attempt'[m][n].status # "sent"
    BY <2>1, <2>3, <2>5, NoneSentInFlight DEF Open
  <2>7. KeptRow(m)'
    BY <1>2, <2>1, <2>2, <2>4, <2>6 DEF KeptRow, InFlight
  <2>. QED BY <2>4, <2>7, KeptElsewhere
<1>7. ASSUME NEW g \in Gateways, Acknowledge(g, m) PROVE \A x \in Msgs : KeptRow(x)'
  <2>1. PICK n \in AttemptNos :
           /\ Owns(m, n, g) /\ msg[m].status = "assigned"
           /\ msg' = [msg EXCEPT ![m] = [msg[m] EXCEPT !.status = "sending", !.lease = "running"]]
           /\ attempt' = [attempt EXCEPT ![m][n].status = "sending"]
    BY <1>7 DEF Acknowledge
  <2>2. attempt[m][n] \in SmsAttempt
    BY <1>1, <2>1 DEF Attempts, Owns, HeldBy
  <2>3. \A x \in Msgs \ {m} : msg'[x] = msg[x] /\ attempt'[x] = attempt[x]
    BY <1>1, <2>1
  <2>4. /\ msg'[m].status = "sending" /\ msg'[m].body = msg[m].body
        /\ msg'[m].deadline = msg[m].deadline
    BY <1>1, <2>1 DEF SmsMessage
  <2>5. /\ attempt'[m][n] = [attempt[m][n] EXCEPT !.status = "sending"]
        /\ \A k \in AttemptNos \ {n} : attempt'[m][k] = attempt[m][k]
    BY <1>1, <2>1 DEF Attempts
  <2>6. attempt'[m][n].status = "sending"
    BY <2>2, <2>5 DEF SmsAttempt
  <2>7. \A k \in AttemptNos : attempt'[m][k].status # "sent"
    BY <2>1, <2>5, <2>6, NoneSentInFlight DEF Open, InFlight
  <2>8. KeptRow(m)'
    BY <1>2, <2>1, <2>4, <2>7 DEF KeptRow, Open, InFlight
  <2>. QED BY <2>3, <2>8, KeptElsewhere
<1>. QED BY <1>3, <1>4, <1>5, <1>6, <1>7

\* A failed attempt is closed late: nothing of the row changes.
LEMMA KeptWhenClosedLate ==
  ASSUME TypeInv, Kept, NEW m \in Msgs, ClosedLate(m)
  PROVE  \A x \in Msgs : KeptRow(x)'
<1>1. PICK n \in AttemptNos :
         /\ attempt[m][n] # NoAttempt
         /\ attempt' = [attempt EXCEPT ![m][n].status = "failed"] /\ msg' = msg
  BY DEF ClosedLate
<1>2. attempt \in [Msgs -> Attempts] /\ attempt[m][n] \in SmsAttempt
  BY <1>1 DEF TypeInv, TypeOK, Attempts
<1>3. \A x \in Msgs \ {m} : attempt'[x] = attempt[x]
  BY <1>1, <1>2
<1>4. /\ attempt'[m][n] = [attempt[m][n] EXCEPT !.status = "failed"]
      /\ \A k \in AttemptNos \ {n} : attempt'[m][k] = attempt[m][k]
  BY <1>1, <1>2 DEF Attempts
<1>5. attempt'[m][n].status = "failed"
  BY <1>2, <1>4 DEF SmsAttempt
<1>6. KeptRow(m)
  BY DEF Kept
<1>7. KeptRow(m)'
  BY <1>1, <1>4, <1>5, <1>6 DEF KeptRow
<1>. QED BY <1>1, <1>3, <1>7, KeptElsewhere

\* No step loses what a row has recorded.
LEMMA StepKept ==
  ASSUME Undisturbed, TypeInv, Held, Kept, [Next]_vars PROVE Kept'
<1>1. cancelling' = {}
  BY DEF Undisturbed, Kept, Next, Send, CancelRead, CancelSave, Dispatch, DispatchExpired,
         DispatchUndeliverable, Assign, DispatchDefer, ReclaimLease, ExpireMessage, LeaseElapses,
         DeadlinePasses, HandOff, RequeueUndelivered, Report, Acknowledge, RecordSent,
         RecordDelivered, RecordUndelivered, RecordFailure, PhoneStep, WebhookJobEnds,
         SelectLeases, SelectDeadlines, Restart, serverVars, vars
<1>2. deadlineSweep' = {}
  BY DEF Undisturbed, Kept, KeptRow, Next, Send, CancelRead, CancelSave, Dispatch, DispatchExpired,
         DispatchUndeliverable, Assign, DispatchDefer, ReclaimLease, ExpireMessage, LeaseElapses,
         DeadlinePasses, HandOff, RequeueUndelivered, Report, Acknowledge, RecordSent,
         RecordDelivered, RecordUndelivered, RecordFailure, PhoneStep, WebhookJobEnds,
         SelectLeases, SelectDeadlines, Restart, serverVars, vars
<1>3. \A w \in Workers : HandOff(w) => UNCHANGED <<msg, attempt>>
  BY DEF HandOff
<1>4. \A m \in Msgs : /\ \A s \in Sims : PhoneStep(s, m) => UNCHANGED <<msg, attempt>>
                      /\ \A e \in Subscribed : WebhookJobEnds(m, e) => UNCHANGED <<msg, attempt>>
  BY DEF PhoneStep, WebhookJobEnds
<1>5. \A x \in Msgs : KeptRow(x)'
  <2>1. ASSUME NEW m \in Msgs,
               \/ Send(m) \/ LeaseElapses(m) \/ \E w \in Workers : DispatchDefer(w, m)
               \/ \E w \in Workers, s \in Sims : Assign(w, m, s)
               \/ \E g \in Gateways : Acknowledge(g, m)
        PROVE  \A x \in Msgs : KeptRow(x)'
    BY <2>1, KeptWhileOpen
  <2>2. ASSUME NEW m \in Msgs, Closed(m) PROVE \A x \in Msgs : KeptRow(x)'
    BY <2>2, KeptWhenClosed
  <2>3. ASSUME NEW m \in Msgs, ClosedLate(m) PROVE \A x \in Msgs : KeptRow(x)'
    BY <2>3, KeptWhenClosedLate
  <2>4. ASSUME NEW m \in Msgs, NEW n \in AttemptNos, NEW verdict \in Verdicts,
               Heard(m, n, verdict)
        PROVE  \A x \in Msgs : KeptRow(x)'
    BY <2>4, KeptWhenHeard
  <2>. QED BY <1>3, <1>4, <2>1, <2>2, <2>3, <2>4, KeptUntouched, StepKinds
<1>. QED BY <1>1, <1>2, <1>5 DEF Kept

\* Hence undisturbed messages keep their records throughout.
LEMMA KeptAlways == ASSUME Undisturbed PROVE Spec => [](TypeInv /\ Held /\ Kept)
<1>1. Init => Kept
  BY DEF Init, Kept, KeptRow, NoMessage, NoAttempt, Open, InFlight
<1>. QED BY <1>1, StepKept, HeldAlways, TypeInvAlways, PTL DEF Spec

-----------------------------------------------------------------------------

\* Once an attempt is recorded as sent, the message is sent, delivered or
\* reported undeliverable, whatever is reported, retried or reclaimed later.
THEOREM SuccessIsKept == ASSUME Undisturbed PROVE Spec => []LateSuccessKept
<1>1. Kept => LateSuccessKept
  BY DEF Kept, KeptRow, LateSuccessKept
<1>. QED BY <1>1, KeptAlways, PTL


\* A row that is settled changes its status only when a phone is heard of,
\* and then a radio really has the message on the air.
THEOREM RevivalsAreProven == ASSUME Undisturbed PROVE Spec => RevivedOnlyByProof
<1> DEFINE Proven(m) == /\ WasSent(msg'[m])
                        /\ \E s \in Sims : job[s][m] \in OnTheAir
           Revived(m) == msg[m].status \in Terminal /\ msg'[m].status # msg[m].status => Proven(m)
<1>1. ASSUME TypeInv, Held, Kept, [Next]_vars PROVE \A m \in Msgs : Revived(m)
  <2>0. msg \in [Msgs -> SmsMessage]
    BY <1>1 DEF TypeInv, TypeOK
  <2>1. ASSUME NEW m \in Msgs, msg[m].status \notin Terminal,
               \A x \in Msgs \ {m} : msg'[x] = msg[x]
        PROVE  \A x \in Msgs : Revived(x)
    BY <2>1
  <2>2. CASE msg' = msg
    BY <2>2
  <2>3. ASSUME NEW m \in Msgs, Send(m) \/ Closed(m) \/ \E g \in Gateways : Acknowledge(g, m)
        PROVE  \A x \in Msgs : Revived(x)
    <3>1. msg[m].status \notin Terminal
      BY <2>3 DEF Send, Closed, Acknowledge, InFlight, Terminal
    <3>2. \A x \in Msgs \ {m} : msg'[x] = msg[x]
      BY <2>0, <2>3 DEF Send, Closed, RetryOrFail, Acknowledge
    <3>. QED BY <2>1, <3>1, <3>2
  <2>4. ASSUME NEW m \in Msgs, NEW w \in Workers,
               DispatchDefer(w, m) \/ \E s \in Sims : Assign(w, m, s)
        PROVE  \A x \in Msgs : Revived(x)
    <3>1. msg[m].status \notin Terminal
      BY <2>4 DEF DispatchDefer, Assign, Taken, Terminal
    <3>2. \A x \in Msgs \ {m} : msg'[x] = msg[x]
      BY <2>0, <2>4 DEF DispatchDefer, Assign
    <3>. QED BY <2>1, <3>1, <3>2
  <2>5. ASSUME NEW m \in Msgs, LeaseElapses(m) PROVE \A x \in Msgs : Revived(x)
    <3>1. \A x \in Msgs : msg'[x].status = msg[x].status
      BY <2>0, <2>5 DEF LeaseElapses, SmsMessage
    <3>. QED BY <3>1
  <2>6. ASSUME NEW m \in Msgs, NEW n \in AttemptNos, NEW verdict \in Verdicts,
               Heard(m, n, verdict)
        PROVE  \A x \in Msgs : Revived(x)
    <3>1. attempt[m][n] # NoAttempt
      BY <2>6 DEF Heard, Owns, HeldBy
    <3>2. WasSent(RowAfter(m, n, verdict))
      BY <1>1, <3>1, HeardRow
    <3>3. msg' = [msg EXCEPT ![m] = RowAfter(m, n, verdict)]
      BY <2>6 DEF Heard
    <3>4. msg'[m] = RowAfter(m, n, verdict) /\ \A x \in Msgs \ {m} : msg'[x] = msg[x]
      BY <2>0, <3>3
    <3>5. \E s \in Sims : job[s][m] \in OnTheAir
      BY <2>6 DEF Heard, Reports, OnTheAir, Verdicts
    <3>. QED BY <3>2, <3>4, <3>5
  <2>7. ASSUME NEW m \in Msgs,
               \/ ClosedLate(m) \/ \E s \in Sims : PhoneStep(s, m)
               \/ \E e \in Subscribed : WebhookJobEnds(m, e)
        PROVE  \A x \in Msgs : Revived(x)
    BY <2>2, <2>7 DEF ClosedLate, PhoneStep, WebhookJobEnds
  <2>8. ASSUME NEW w \in Workers, HandOff(w) PROVE \A x \in Msgs : Revived(x)
    BY <2>2, <2>8 DEF HandOff
  <2>. HIDE DEF Revived
  <2>. QED BY <1>1, <2>2, <2>3, <2>4, <2>5, <2>6, <2>7, <2>8, StepKinds
<1>2. TypeInv /\ Held /\ Kept /\ [Next]_vars => [\A m \in Msgs : Revived(m)]_vars
  BY <1>1
<1>. QED BY <1>2, KeptAlways, PTL DEF Spec, RevivedOnlyByProof


-----------------------------------------------------------------------------
(* What the tenant is told. *)

\* The event of the status, and the one of the send, have their job.
ToldRow(m) ==
    \A e \in Subscribed :
        msg[m].status = e \/ (e = "sent" /\ WasSent(msg[m])) => event[m][e] # "none"

Told == \A m \in Msgs : ToldRow(m)

\* A published event has a job; no job is ever forgotten.
LEMMA PublishedEvents ==
  ASSUME TypeInv, NEW m \in Msgs, NEW es, Publish(m, es)
  PROVE  /\ \A x \in Msgs \ {m} : event'[x] = event[x]
         /\ \A e \in Subscribed : event'[m][e] = IF e \in es THEN "pending" ELSE event[m][e]
BY DEF TypeInv, TypeOK, Publish

LEMMA ToldElsewhere ==
  ASSUME Told, NEW m \in Msgs, ToldRow(m)',
         \A x \in Msgs \ {m} : msg'[x] = msg[x] /\ event'[x] = event[x]
  PROVE  Told'
BY DEF Told, ToldRow, WasSent

\* A row that is not settled yet has nothing to tell.
LEMMA ToldWhileOpen ==
  ASSUME TypeInv, Told, NEW m \in Msgs, msg'[m].status \in {"absent"} \union Open,
         \A x \in Msgs \ {m} : msg'[x] = msg[x], event' = event
  PROVE  Told'
<1>1. ~WasSent(msg'[m]) /\ \A e \in Subscribed : msg'[m].status # e
  BY ConstantsAssumption DEF WasSent, Open, InFlight, Events
<1>2. ToldRow(m)'
  BY <1>1 DEF ToldRow, WasSent
<1>. QED BY <1>2, ToldElsewhere

\* Giving a message up is published, hearing that it was sent is published
\* once, and its verdict with it.
LEMMA ToldWhenClosed ==
  ASSUME TypeInv, Told, NEW m \in Msgs, Closed(m) PROVE Told'
<1>1. msg \in [Msgs -> SmsMessage]
  BY DEF TypeInv, TypeOK
<1>2. PICK code \in {"transient", "permanent"} : RetryOrFail(m, code)
  BY DEF Closed
<1>3. CASE /\ msg' = [msg EXCEPT ![m] = [@ EXCEPT !.status = "queued", !.sim = NoSim,
                                                  !.lease = "none", !.error = code]]
           /\ event' = event
  <2>1. msg'[m].status = "queued" /\ \A x \in Msgs \ {m} : msg'[x] = msg[x]
    BY <1>1, <1>3 DEF SmsMessage
  <2>. QED BY <1>3, <2>1, ToldWhileOpen DEF Open
<1>4. CASE /\ msg' = [msg EXCEPT ![m] =
                        [@ EXCEPT !.status = "failed", !.lease = "none", !.body = FALSE,
                                  !.error = IF code = "permanent" THEN code ELSE "exhausted"]]
           /\ Publish(m, {"failed"})
  <2>1. \A x \in Msgs \ {m} : msg'[x] = msg[x]
    BY <1>1, <1>4
  <2>2. msg'[m].status = "failed" /\ msg'[m].error # "delivery_failed"
    BY <1>1, <1>4 DEF SmsMessage
  <2>3. ~WasSent(msg'[m])
    BY <2>2 DEF WasSent
  <2>4. ToldRow(m)'
    BY <1>4, <2>2, <2>3, PublishedEvents DEF ToldRow, WasSent
  <2>. QED BY <1>4, <2>1, <2>4, PublishedEvents, ToldElsewhere
<1>. QED BY <1>2, <1>3, <1>4 DEF RetryOrFail

LEMMA ToldWhenHeard ==
  ASSUME TypeInv, Told, NEW m \in Msgs, NEW n \in AttemptNos, NEW verdict \in Verdicts,
         Heard(m, n, verdict)
  PROVE  Told'
<1> DEFINE r == RowAfter(m, n, verdict)
<1>1. /\ msg' = [msg EXCEPT ![m] = r] /\ Publish(m, EventsAfter(m, verdict))
      /\ attempt[m][n] # NoAttempt
  BY DEF Heard, Owns, HeldBy
<1>2. msg'[m] = r /\ \A x \in Msgs \ {m} : msg'[x] = msg[x]
  BY <1>1 DEF TypeInv, TypeOK
<1>3. ASSUME NEW e \in Subscribed, r.status = e \/ e = "sent" PROVE event'[m][e] # "none"
  <2>1. msg[m] \in SmsMessage /\ RowOnceSent(m, n) \in SmsMessage
    BY <1>1, OnceSentType DEF TypeInv, TypeOK
  <2>2. CASE e = "sent"
    <3>1. CASE WasSent(msg[m])
      BY <1>1, <2>2, <3>1, PublishedEvents DEF Told, ToldRow
    <3>2. CASE ~WasSent(msg[m])
      BY <1>1, <2>2, <3>2, PublishedEvents DEF EventsAfter, EventsOnceSent
    <3>. QED BY <3>1, <3>2
  <2>3. CASE r.status = e /\ e # "sent"
    <3>1. CASE verdict = "sent"
      <4>1. r = RowOnceSent(m, n)
        BY <3>1 DEF RowAfter
      <4>2. WasSent(msg[m]) /\ msg[m].status = e
        BY <2>1, <2>3, <4>1 DEF RowOnceSent, SmsMessage
      <4>. QED BY <1>1, <4>2, PublishedEvents DEF Told, ToldRow
    <3>2. CASE verdict = "delivered"
      <4>1. e = "delivered"
        BY <2>1, <2>3, <3>2 DEF RowAfter, SmsMessage
      <4>. QED BY <1>1, <3>2, <4>1, PublishedEvents DEF EventsAfter
    <3>3. CASE verdict = "undelivered"
      <4>1. e = "failed"
        BY <2>1, <2>3, <3>3 DEF RowAfter, SmsMessage
      <4>. QED BY <1>1, <3>3, <4>1, PublishedEvents DEF EventsAfter
    <3>. QED BY <3>1, <3>2, <3>3 DEF Verdicts
  <2>. QED BY <1>3, <2>2, <2>3
<1>. HIDE DEF r
<1>4. ToldRow(m)'
  BY <1>2, <1>3 DEF ToldRow
<1>. QED BY <1>1, <1>2, <1>4, PublishedEvents, ToldElsewhere

LEMMA StepTold ==
  ASSUME Undisturbed, TypeInv, Held, Kept, Told, [Next]_vars PROVE Told'
<1>0. msg \in [Msgs -> SmsMessage] /\ event \in EventTables
  BY DEF TypeInv, TypeOK, EventTables
<1>1. CASE UNCHANGED <<msg, event>>
  BY <1>1 DEF Told, ToldRow, WasSent
<1>2. ASSUME NEW m \in Msgs, Send(m) \/ \E g \in Gateways : Acknowledge(g, m) PROVE Told'
  <2>1. /\ event' = event /\ \A x \in Msgs \ {m} : msg'[x] = msg[x]
        /\ msg'[m].status \in {"queued", "sending"}
    BY <1>0, <1>2 DEF Send, Acknowledge, SmsMessage
  <2>. QED BY <2>1, ToldWhileOpen DEF Open, InFlight
<1>3. ASSUME NEW m \in Msgs, NEW w \in Workers, DispatchDefer(w, m) PROVE Told'
  <2>1. /\ event' = event /\ \A x \in Msgs \ {m} : msg'[x] = msg[x]
        /\ msg'[m].status = "queued"
    BY <1>0, <1>3 DEF DispatchDefer, Taken, SmsMessage
  <2>. QED BY <2>1, ToldWhileOpen DEF Open
<1>4. ASSUME NEW m \in Msgs, NEW w \in Workers, NEW s \in Sims, Assign(w, m, s) PROVE Told'
  <2> DEFINE k == msg[m].attempts + 1
  <2>1. /\ event' = event
        /\ msg' = [msg EXCEPT ![m] = [@ EXCEPT !.status = "assigned", !.sim = s, !.attempts = k,
                                               !.lease = "running", !.error = "none"]]
    BY <1>4 DEF Assign
  <2>. HIDE DEF k
  <2>2. msg'[m].status = "assigned" /\ \A x \in Msgs \ {m} : msg'[x] = msg[x]
    BY <1>0, <2>1 DEF SmsMessage
  <2>. QED BY <2>1, <2>2, ToldWhileOpen DEF Open, InFlight
<1>5. ASSUME NEW m \in Msgs, LeaseElapses(m) PROVE Told'
  <2>1. event' = event /\ \A x \in Msgs : /\ msg'[x].status = msg[x].status
                                          /\ msg'[x].error = msg[x].error
    BY <1>0, <1>5 DEF LeaseElapses, SmsMessage
  <2>. QED BY <2>1 DEF Told, ToldRow, WasSent
<1>6. ASSUME NEW m \in Msgs, NEW e \in Subscribed, WebhookJobEnds(m, e) PROVE Told'
  <2>1. /\ msg' = msg
        /\ \A x \in Msgs, y \in Subscribed : event[x][y] # "none" => event'[x][y] # "none"
    BY <1>0, <1>6 DEF WebhookJobEnds, EventTables
  <2>. QED BY <2>1 DEF Told, ToldRow, WasSent
<1>7. ASSUME NEW m \in Msgs, ClosedLate(m) \/ \E s \in Sims : PhoneStep(s, m) PROVE Told'
  BY <1>1, <1>7 DEF ClosedLate, PhoneStep
<1>8. ASSUME NEW w \in Workers, HandOff(w) PROVE Told'
  BY <1>1, <1>8 DEF HandOff
<1>. QED BY <1>1, <1>2, <1>3, <1>4, <1>5, <1>6, <1>7, <1>8, ToldWhenClosed, ToldWhenHeard,
            StepKinds

\* The tenant hears of every outcome, whatever order reports come in and
\* however often they come: the webhook job of the event that belongs to the
\* status was written in the transaction that wrote the status.
THEOREM OutcomesArePublished == ASSUME Undisturbed PROVE Spec => []OutcomePublished
<1>1. Init => Told
  BY ConstantsAssumption DEF Init, Told, ToldRow, NoMessage, WasSent, Events
<1>2. Told => OutcomePublished
  BY DEF Told, ToldRow, OutcomePublished
<1>3. TypeInv /\ Held /\ Kept /\ Told /\ [Next]_vars => Told'
  BY StepTold
<1>. QED BY <1>1, <1>2, <1>3, KeptAlways, PTL DEF Spec


-----------------------------------------------------------------------------
(* What a message costs: slots of the allowance, and sends counted. *)

\* Message m holds the slot of its number on SIM s.
Holds(m, s) == msg[m].sim = s /\ msg[m].status \in InFlight

\* A slot with nothing sent through it, after release, is held by another.
LEMMA ReleasedHeld ==
  ASSUME TypeInv, UnusedSlotReturned, NEW m \in Msgs, NEW s \in Sims,
         msg[m].status \in InFlight => msg[m].sim = s,
         NEW t \in Sims, NEW q \in Recipients, Released(s, m)[t][q] = 0
  PROVE  \E x \in Msgs \ {m} : RecipientOf[x] = q /\ Holds(x, t)
<1> DEFINE r == RecipientOf[m]
           shared == \E x \in Msgs \ {m} : /\ msg[x].sim = s /\ RecipientOf[x] = r
                                           /\ msg[x].status \in InFlight
<1>1. ledger \in Ledgers /\ r \in Recipients
  BY ConstantsAssumption DEF TypeInv, TypeOK, Ledgers
<1>2. Released(s, m) = IF ledger[s][r] = 0 /\ ~shared THEN [ledger EXCEPT ![s][r] = NoRow]
                                                      ELSE ledger
  BY DEF Released
<1>3. ledger[t][q] = 0
  BY <1>1, <1>2 DEF Ledgers, NoRow
<1>4. PICK x \in Msgs : RecipientOf[x] = q /\ Holds(x, t)
  BY <1>3 DEF UnusedSlotReturned, Holds
<1>5. CASE x = m
  <2>1. t = s /\ q = r
    BY <1>4, <1>5 DEF Holds
  <2>2. shared
    <3> SUFFICES ASSUME ~shared PROVE FALSE
      OBVIOUS
    <3>. HIDE DEF shared, r
    <3>. QED BY <1>1, <1>2, <1>3, <2>1 DEF Ledgers, NoRow
  <2>. QED BY <2>1, <2>2 DEF Holds
<1>. QED BY <1>4, <1>5

\* countSend leaves no slot at zero that was not, and none of its own.
LEMMA CountSendZero ==
  ASSUME NEW led \in Ledgers, NEW s \in Sims, NEW m \in Msgs,
         NEW t \in Sims, NEW q \in Recipients, CountSend(led, s, m)[t][q] = 0
  PROVE  led[t][q] = 0 /\ ~(t = s /\ q = RecipientOf[m])
<1>1. RecipientOf[m] \in Recipients
  BY ConstantsAssumption
<1>. QED BY <1>1 DEF CountSend, Ledgers, NoRow

\* A message in flight names the SIM of its attempt.
LEMMA InFlightSim ==
  ASSUME TypeInv, Held, NEW m \in Msgs, msg[m].status \in InFlight
  PROVE  /\ msg[m].sim \in Sims /\ msg[m].attempts \in AttemptNos
         /\ attempt[m][msg[m].attempts] # NoAttempt
         /\ attempt[m][msg[m].attempts].sim = msg[m].sim
         /\ attempt[m][msg[m].attempts].status = msg[m].status
<1> DEFINE k == msg[m].attempts
           a == attempt[m][k]
<1>1. k \in AttemptNos /\ a = [sim |-> msg[m].sim, status |-> msg[m].status]
  BY DEF Held, HeldRow
<1>2. a.sim = msg[m].sim /\ a.status = msg[m].status
  BY <1>1
<1>3. a \in SmsAttempt \union {NoAttempt}
  BY <1>1 DEF TypeInv, TypeOK
<1>. HIDE DEF a, k
<1>4. a # NoAttempt
  BY <1>2 DEF NoAttempt, InFlight
<1>5. a.sim \in Sims
  BY <1>3, <1>4 DEF SmsAttempt
<1>. QED BY <1>1, <1>2, <1>4, <1>5 DEF a, k

\* Slots stay held when every holder keeps its hold, or a step that moves one
\* message leaves every unused slot to another.
LEMMA SlotsElsewhere ==
  ASSUME UnusedSlotReturned, NEW m \in Msgs,
         \A x \in Msgs \ {m} : msg'[x] = msg[x],
         \A t \in Sims, q \in Recipients : ledger'[t][q] = 0 =>
            \/ Holds(m, t)' /\ RecipientOf[m] = q
            \/ \E x \in Msgs \ {m} : RecipientOf[x] = q /\ Holds(x, t)
  PROVE  UnusedSlotReturned'
BY DEF UnusedSlotReturned, Holds

LEMMA SlotsWhenClosed ==
  ASSUME TypeInv, Held, UnusedSlotReturned, NEW m \in Msgs, Closed(m)
  PROVE  UnusedSlotReturned'
<1>1. PICK code \in {"transient", "permanent"} : RetryOrFail(m, code) /\ msg[m].status \in InFlight
  BY DEF Closed
<1>2. \A x \in Msgs \ {m} : msg'[x] = msg[x]
  BY <1>1 DEF RetryOrFail, TypeInv, TypeOK
<1>3. msg[m].sim \in Sims
  BY <1>1, InFlightSim
<1>4. ledger' = Released(msg[m].sim, m)
  BY <1>1, <1>3, ConstantsAssumption DEF RetryOrFail
<1>5. \A t \in Sims, q \in Recipients : ledger'[t][q] = 0 =>
         \E x \in Msgs \ {m} : RecipientOf[x] = q /\ Holds(x, t)
  BY <1>3, <1>4, ReleasedHeld
<1>. QED BY <1>2, <1>5, SlotsElsewhere

\* The ledger before the send is counted: the slot of the attempt that is
\* called off has gone back.
LedgerCalledOff(m, n) ==
    IF Supersedes(m, n) /\ attempt[m][msg[m].attempts] # NoAttempt
    THEN Released(attempt[m][msg[m].attempts].sim, m) ELSE ledger

LEMMA CalledOff ==
  ASSUME TypeInv, Held, NEW m \in Msgs, NEW n \in AttemptNos, attempt[m][n] # NoAttempt
  PROVE  /\ attempt[m][n].sim \in Sims
         /\ LedgerCalledOff(m, n) \in Ledgers
         /\ \/ LedgerOnceSent(m, n) = ledger /\ WasSent(msg[m]) /\ attempt[m][n].status = "sent"
            \/ /\ LedgerOnceSent(m, n) = CountSend(LedgerCalledOff(m, n), attempt[m][n].sim, m)
               /\ ~(WasSent(msg[m]) /\ attempt[m][n].status = "sent")
<1>1. attempt[m][n].sim \in Sims
  BY DEF TypeInv, TypeOK, SmsAttempt
<1>2. LedgerCalledOff(m, n) \in Ledgers
  BY ReleasedType DEF LedgerCalledOff, TypeInv, TypeOK, Ledgers
<1>. QED BY <1>1, <1>2 DEF LedgerOnceSent, LedgerCalledOff

LEMMA SlotsWhenHeard ==
  ASSUME TypeInv, Held, UnusedSlotReturned, NEW m \in Msgs, NEW n \in AttemptNos,
         NEW verdict \in Verdicts, Heard(m, n, verdict)
  PROVE  UnusedSlotReturned'
<1> DEFINE led == LedgerCalledOff(m, n)
           s == attempt[m][n].sim
           k == msg[m].attempts
<1>1. /\ attempt[m][n] # NoAttempt /\ ledger' = LedgerOnceSent(m, n)
      /\ \A x \in Msgs \ {m} : msg'[x] = msg[x]
  BY DEF Heard, Owns, HeldBy, TypeInv, TypeOK
<1>2. /\ s \in Sims /\ led \in Ledgers
      /\ \/ ledger' = ledger /\ WasSent(msg[m])
         \/ ledger' = CountSend(led, s, m)
  BY <1>1, CalledOff
<1>3. CASE msg[m].status \notin InFlight
  <2>1. led = ledger
    BY <1>3 DEF LedgerCalledOff, Supersedes
  <2>. HIDE DEF led, s
  <2>2. \A t \in Sims, q \in Recipients : ledger'[t][q] = 0 => ledger[t][q] = 0
    BY <1>2, <2>1, CountSendZero
  <2>3. \A t : ~Holds(m, t)
    BY <1>3 DEF Holds
  <2>4. \A t \in Sims, q \in Recipients : ledger'[t][q] = 0 =>
           \E x \in Msgs \ {m} : RecipientOf[x] = q /\ Holds(x, t)
    BY <2>2, <2>3 DEF UnusedSlotReturned, Holds
  <2>. QED BY <1>1, <2>4, SlotsElsewhere
<1>4. CASE msg[m].status \in InFlight
  <2>1. msg[m].sim \in Sims /\ attempt[m][k] # NoAttempt /\ attempt[m][k].sim = msg[m].sim
    BY <1>4, InFlightSim
  <2>2. ledger' = CountSend(led, s, m)
    BY <1>2, <1>4 DEF WasSent, InFlight
  <2>3. CASE n = k
    <3>1. led = ledger /\ s = msg[m].sim
      BY <2>1, <2>3 DEF LedgerCalledOff, Supersedes
    <3>. HIDE DEF led, s, k
    <3>2. \A t \in Sims, q \in Recipients : ledger'[t][q] = 0 =>
             ledger[t][q] = 0 /\ ~(t = msg[m].sim /\ q = RecipientOf[m])
      BY <1>2, <2>2, <3>1, CountSendZero
    <3>3. \A t \in Sims, q \in Recipients : ledger'[t][q] = 0 =>
             \E x \in Msgs \ {m} : RecipientOf[x] = q /\ Holds(x, t)
      BY <3>2 DEF UnusedSlotReturned, Holds
    <3>. QED BY <1>1, <3>3, SlotsElsewhere
  <2>4. CASE n # k
    <3>1. led = Released(msg[m].sim, m)
      BY <1>4, <2>1, <2>4 DEF LedgerCalledOff, Supersedes, IsCurrent
    <3>. HIDE DEF led, s, k
    <3>2. \A t \in Sims, q \in Recipients : ledger'[t][q] = 0 => led[t][q] = 0
      BY <1>2, <2>2, CountSendZero
    <3>3. \A t \in Sims, q \in Recipients : ledger'[t][q] = 0 =>
             \E x \in Msgs \ {m} : RecipientOf[x] = q /\ Holds(x, t)
      BY <2>1, <3>1, <3>2, ReleasedHeld
    <3>. QED BY <1>1, <3>3, SlotsElsewhere
  <2>. QED BY <2>3, <2>4
<1>. QED BY <1>3, <1>4


LEMMA StepSlots ==
  ASSUME Undisturbed, TypeInv, Held, Kept, UnusedSlotReturned, [Next]_vars
  PROVE  UnusedSlotReturned'
<1>0. msg \in [Msgs -> SmsMessage] /\ ledger \in Ledgers
  BY DEF TypeInv, TypeOK, Ledgers
<1>1. ASSUME ledger' = ledger,
             \A x \in Msgs : /\ msg'[x].sim = msg[x].sim
                             /\ msg[x].status \in InFlight => msg'[x].status \in InFlight
      PROVE  UnusedSlotReturned'
  BY <1>1 DEF UnusedSlotReturned
<1>2. CASE UNCHANGED <<msg, ledger>>
  BY <1>1, <1>2
<1>3. ASSUME NEW m \in Msgs,
             \/ Send(m) \/ LeaseElapses(m) \/ \E w \in Workers : DispatchDefer(w, m)
             \/ \E g \in Gateways : Acknowledge(g, m)
      PROVE  UnusedSlotReturned'
  <2>1. ledger' = ledger
    BY <1>3 DEF Send, LeaseElapses, DispatchDefer, Acknowledge
  <2>2. \A x \in Msgs \ {m} : msg'[x] = msg[x]
    BY <1>0, <1>3 DEF Send, LeaseElapses, DispatchDefer, Acknowledge
  <2>3. msg'[m].sim = msg[m].sim /\ (msg[m].status \in InFlight => msg'[m].status \in InFlight)
    <3>1. CASE Send(m)
      BY <1>0, <3>1 DEF Send, SmsMessage, InFlight
    <3>2. CASE LeaseElapses(m)
      BY <1>0, <3>2 DEF LeaseElapses, SmsMessage
    <3>3. ASSUME NEW w \in Workers, DispatchDefer(w, m)
          PROVE  msg'[m].sim = msg[m].sim /\ msg'[m].status = msg[m].status
      BY <1>0, <3>3 DEF DispatchDefer, SmsMessage
    <3>4. ASSUME NEW g \in Gateways, Acknowledge(g, m)
          PROVE  msg'[m].sim = msg[m].sim /\ msg'[m].status = "sending"
      BY <1>0, <3>4 DEF Acknowledge, SmsMessage
    <3>. QED BY <1>3, <3>1, <3>2, <3>3, <3>4 DEF InFlight
  <2>. QED BY <1>1, <2>1, <2>2, <2>3
<1>4. ASSUME NEW m \in Msgs, NEW w \in Workers, NEW s \in Sims, Assign(w, m, s)
      PROVE  UnusedSlotReturned'
  <2> DEFINE k == msg[m].attempts + 1
             r == RecipientOf[m]
  <2>1. /\ msg[m].status = "queued" /\ ledger' = Claimed(s, r)
        /\ msg' = [msg EXCEPT ![m] = [@ EXCEPT !.status = "assigned", !.sim = s, !.attempts = k,
                                               !.lease = "running", !.error = "none"]]
    BY <1>4 DEF Assign, Taken
  <2>2. r \in Recipients
    BY ConstantsAssumption
  <2>3. \A t \in Sims, q \in Recipients :
           ledger'[t][q] = 0 => ledger[t][q] = 0 \/ (t = s /\ q = r)
    <3>. HIDE DEF r
    <3>. QED BY <1>0, <2>1, <2>2 DEF Claimed, Ledgers
  <2>4. /\ msg'[m].status = "assigned" /\ msg'[m].sim = s
        /\ \A x \in Msgs \ {m} : msg'[x] = msg[x]
    <3>. HIDE DEF k
    <3>. QED BY <1>0, <2>1 DEF SmsMessage
  <2>5. \A t : ~Holds(m, t)
    BY <2>1 DEF Holds, InFlight
  <2>6. Holds(m, s)'
    BY <2>4 DEF Holds, InFlight
  <2>7. \A t \in Sims, q \in Recipients : ledger'[t][q] = 0 =>
           \/ Holds(m, t)' /\ RecipientOf[m] = q
           \/ \E x \in Msgs \ {m} : RecipientOf[x] = q /\ Holds(x, t)
    BY <2>3, <2>5, <2>6 DEF UnusedSlotReturned, Holds
  <2>. QED BY <2>4, <2>7, SlotsElsewhere
<1>5. ASSUME NEW m \in Msgs,
             \/ ClosedLate(m) \/ \E s \in Sims : PhoneStep(s, m)
             \/ \E e \in Subscribed : WebhookJobEnds(m, e)
      PROVE  UnusedSlotReturned'
  BY <1>2, <1>5 DEF ClosedLate, PhoneStep, WebhookJobEnds
<1>6. ASSUME NEW w \in Workers, HandOff(w) PROVE UnusedSlotReturned'
  BY <1>2, <1>6 DEF HandOff
<1>. HIDE DEF UnusedSlotReturned
<1>. QED BY <1>2, <1>3, <1>4, <1>5, <1>6, SlotsWhenClosed, SlotsWhenHeard, StepKinds

\* A slot of a SIM's daily allowance is spent only on a number it has sent to,
\* or while a message to that number is in flight on it: retries, reclaimed
\* leases and called-off attempts all give theirs back.
THEOREM SlotsAreReturned == ASSUME Undisturbed PROVE Spec => []UnusedSlotReturned
<1>1. Init => UnusedSlotReturned
  BY DEF Init, UnusedSlotReturned, NoRow
<1>2. TypeInv /\ Held /\ Kept /\ UnusedSlotReturned /\ [Next]_vars => UnusedSlotReturned'
  BY StepSlots
<1>. QED BY <1>1, <1>2, KeptAlways, PTL DEF Spec

-----------------------------------------------------------------------------
(* Sends are counted once. *)

Sends(s, r) == {x \in Msgs \X AttemptNos :
                  /\ RecipientOf[x[1]] = r
                  /\ attempt[x[1]][x[2]] = [sim |-> s, status |-> "sent"]}
Count(s, r) == IF ledger[s][r] = NoRow THEN 0 ELSE ledger[s][r]

\* Cardinality says nothing of infinite sets, so that the sends are finitely
\* many belongs to what is preserved.
Counted == \A s \in Sims, r \in Recipients :
              IsFiniteSet(Sends(s, r)) /\ Cardinality(Sends(s, r)) = Count(s, r)

\* Attempts that change without becoming or having been sent.
NoneSent == \A m \in Msgs, n \in AttemptNos :
               \/ attempt'[m][n] = attempt[m][n]
               \/ attempt[m][n].status # "sent" /\ attempt'[m][n].status # "sent"

LEMMA CountedUnsent ==
  ASSUME Counted, NoneSent, \A s \in Sims, r \in Recipients : Count(s, r)' = Count(s, r)
  PROVE  Counted'
<1>1. ASSUME NEW s \in Sims, NEW r \in Recipients PROVE Sends(s, r)' = Sends(s, r)
  <2>1. \A m \in Msgs, n \in AttemptNos :
           attempt'[m][n] = [sim |-> s, status |-> "sent"]
              <=> attempt[m][n] = [sim |-> s, status |-> "sent"]
    BY DEF NoneSent
  <2>. QED BY <2>1 DEF Sends
<1>. QED BY <1>1 DEF Counted

\* Giving a slot back or claiming one counts nothing.
LEMMA ReleasedCount ==
  ASSUME TypeInv, NEW s, NEW m \in Msgs, NEW t \in Sims, NEW q \in Recipients
  PROVE  Released(s, m)[t][q] = ledger[t][q]
            \/ (ledger[t][q] = 0 /\ Released(s, m)[t][q] = NoRow)
BY DEF TypeInv, TypeOK, Released


\* Hearing of a send that is not counted yet counts it, and it alone.
LEMMA CountedWhenHeard ==
  ASSUME TypeInv, Held, Kept, Counted, NEW m \in Msgs, NEW n \in AttemptNos,
         NEW verdict \in Verdicts, Heard(m, n, verdict)
  PROVE  Counted'
<1> DEFINE c == attempt[m][n].sim
           led == LedgerCalledOff(m, n)
<1>1. /\ attempt[m][n] # NoAttempt /\ ledger' = LedgerOnceSent(m, n)
      /\ attempt' = [attempt EXCEPT ![m] = AttemptsOnceSent(m, n)]
  BY DEF Heard, Owns, HeldBy
<1>2. /\ attempt \in [Msgs -> Attempts] /\ ledger \in Ledgers /\ attempt[m][n] \in SmsAttempt
      /\ RecipientOf[m] \in Recipients
  <2>1. attempt \in [Msgs -> Attempts] /\ ledger \in Ledgers
    BY DEF TypeInv, TypeOK, Attempts, Ledgers
  <2>2. attempt[m][n] \in SmsAttempt
    BY <1>1, <2>1 DEF Attempts
  <2>3. RecipientOf[m] \in Recipients
    BY ConstantsAssumption
  <2>. QED BY <2>1, <2>2, <2>3
<1>3. /\ \A x \in Msgs \ {m} : attempt'[x] = attempt[x]
      /\ attempt'[m] = AttemptsOnceSent(m, n)
  BY <1>1, <1>2
<1>4. attempt'[m][n] = [sim |-> c, status |-> "sent"]
  BY <1>2, <1>3 DEF AttemptsOnceSent, SmsAttempt
<1>5. \A k \in AttemptNos \ {n} :
         \/ attempt'[m][k] = attempt[m][k]
         \/ attempt[m][k].status # "sent" /\ attempt'[m][k].status # "sent"
  <2> SUFFICES ASSUME NEW k \in AttemptNos \ {n}, attempt'[m][k] # attempt[m][k]
               PROVE  attempt[m][k].status # "sent" /\ attempt'[m][k].status # "sent"
    OBVIOUS
  <2>1. /\ Supersedes(m, n) /\ attempt[m][k] # NoAttempt
        /\ attempt'[m][k] = [attempt[m][k] EXCEPT !.status = "failed"]
    BY <1>3 DEF AttemptsOnceSent
  <2>2. attempt[m][k] \in SmsAttempt
    BY <1>2, <2>1 DEF Attempts
  <2>3. attempt'[m][k].status = "failed"
    BY <2>1, <2>2 DEF SmsAttempt
  <2>. QED BY <2>1, <2>3, NoneSentInFlight DEF Supersedes, Open
<1>6. c \in Sims /\ led \in Ledgers
  BY <1>1, CalledOff
<1>7. \A t \in Sims, q \in Recipients :
         led[t][q] = ledger[t][q] \/ (ledger[t][q] = 0 /\ led[t][q] = NoRow)
  BY ReleasedCount DEF LedgerCalledOff
<1>8. CASE ledger' = ledger /\ attempt[m][n].status = "sent"
  <2>1. attempt'[m][n] = attempt[m][n]
    BY <1>2, <1>4, <1>8 DEF SmsAttempt
  <2>2. NoneSent
    BY <1>3, <1>5, <2>1 DEF NoneSent
  <2>. QED BY <1>8, <2>2, CountedUnsent DEF Count
<1>9. CASE ledger' = CountSend(led, c, m) /\ ~(WasSent(msg[m]) /\ attempt[m][n].status = "sent")
  <2> DEFINE r == RecipientOf[m]
             p == <<m, n>>
  <2>1. attempt[m][n].status # "sent"
    BY <1>9 DEF Kept, KeptRow
  <2>2. \A t \in Sims, q \in Recipients :
           Count(t, q)' = IF t = c /\ q = r THEN Count(t, q) + 1 ELSE Count(t, q)
    <3> SUFFICES ASSUME NEW t \in Sims, NEW q \in Recipients
                 PROVE Count(t, q)' = IF t = c /\ q = r THEN Count(t, q) + 1 ELSE Count(t, q)
      OBVIOUS
    <3>. HIDE DEF c, led
    <3>1. ledger'[t][q] = IF t = c /\ q = r
                          THEN IF led[t][q] = NoRow THEN 1 ELSE led[t][q] + 1
                          ELSE led[t][q]
      BY <1>2, <1>6, <1>9 DEF CountSend, Ledgers
    <3>2. ledger[t][q] \in Nat \union {NoRow} /\ led[t][q] \in Nat \union {NoRow}
      BY <1>2, <1>6 DEF Ledgers
    <3>. QED BY <1>7, <3>1, <3>2 DEF Count, NoRow
  <2>3. p \notin Sends(c, r) /\ p \in Msgs \X AttemptNos
    BY <2>1 DEF Sends
  <2>4. ASSUME NEW t \in Sims, NEW q \in Recipients
        PROVE  Sends(t, q)' = IF t = c /\ q = r THEN Sends(t, q) \union {p} ELSE Sends(t, q)
    <3> DEFINE sent == [sim |-> t, status |-> "sent"]
    <3>1. \A x \in Msgs, k \in AttemptNos : ~(x = m /\ k = n) =>
             (attempt'[x][k] = sent <=> attempt[x][k] = sent)
      BY <1>3, <1>5
    <3>2. attempt'[m][n] = sent <=> t = c
      BY <1>4
    <3>3. attempt[m][n] # sent
      BY <2>1
    <3>. HIDE DEF sent, c
    <3>4. \A x \in Msgs, k \in AttemptNos :
             RecipientOf[x] = q /\ attempt'[x][k] = sent <=>
                (RecipientOf[x] = q /\ attempt[x][k] = sent) \/ (x = m /\ k = n /\ t = c /\ q = r)
      BY <3>1, <3>2, <3>3
    <3>. QED BY <3>4 DEF Sends, sent
  <2>. HIDE DEF p, r, c, led
  <2>5. ASSUME NEW t \in Sims, NEW q \in Recipients
        PROVE  IsFiniteSet(Sends(t, q)') /\ Cardinality(Sends(t, q)') = Count(t, q)'
    <3>1. IsFiniteSet(Sends(t, q)) /\ Cardinality(Sends(t, q)) = Count(t, q)
      BY DEF Counted
    <3>2. CASE t = c /\ q = r
      BY <2>2, <2>3, <2>4, <3>1, <3>2, FS_AddElement
    <3>3. CASE ~(t = c /\ q = r)
      BY <2>2, <2>4, <3>1, <3>3
    <3>. QED BY <3>2, <3>3
  <2>. QED BY <2>5 DEF Counted
<1>. QED BY <1>1, <1>8, <1>9, CalledOff

\* No other step counts, or makes an attempt sent.
LEMMA StepCounted ==
  ASSUME Undisturbed, TypeInv, Held, Kept, Counted, [Next]_vars PROVE Counted'
<1>0. /\ msg \in [Msgs -> SmsMessage] /\ ledger \in Ledgers /\ attempt \in [Msgs -> Attempts]
  BY DEF TypeInv, TypeOK, Ledgers, Attempts
<1>1. CASE UNCHANGED <<attempt, ledger>>
  BY <1>1, CountedUnsent DEF NoneSent, Count
<1>2. ASSUME NEW m \in Msgs, Closed(m) PROVE Counted'
  <2>1. PICK code \in {"transient", "permanent"}, status \in {"failed", "timed_out"} :
           msg[m].status \in InFlight /\ CloseCurrent(m, status) /\ RetryOrFail(m, code)
    BY <1>2 DEF Closed
  <2>2. NoneSent
    BY <2>1, ClosedAttempts, NoneSentInFlight DEF NoneSent, Open
  <2>3. ledger' = ledger \/ ledger' = Released(msg[m].sim, m)
    BY <2>1 DEF RetryOrFail
  <2>4. \A s \in Sims, r \in Recipients : Count(s, r)' = Count(s, r)
    BY <2>3, ReleasedCount DEF Count, NoRow
  <2>. QED BY <2>2, <2>4, CountedUnsent
<1>3. ASSUME NEW m \in Msgs, NEW w \in Workers, NEW s \in Sims, Assign(w, m, s) PROVE Counted'
  <2> DEFINE k == msg[m].attempts + 1
             a == [sim |-> s, status |-> "assigned"]
  <2>1. /\ attempt[m][k] = NoAttempt /\ attempt' = [attempt EXCEPT ![m][k] = a]
        /\ ledger' = Claimed(s, RecipientOf[m])
    BY <1>3 DEF Assign
  <2>2. a.status # "sent" /\ NoAttempt.status # "sent"
    BY DEF NoAttempt
  <2>. HIDE DEF k, a
  <2>3. \A x \in Msgs, n \in AttemptNos :
           attempt'[x][n] = IF x = m /\ n = k THEN a ELSE attempt[x][n]
    BY <1>0, <2>1 DEF Attempts
  <2>4. NoneSent
    BY <2>1, <2>2, <2>3 DEF NoneSent
  <2>5. RecipientOf[m] \in Recipients
    BY ConstantsAssumption
  <2>6. \A t \in Sims, q \in Recipients :
           ledger'[t][q] = ledger[t][q] \/ (ledger[t][q] = NoRow /\ ledger'[t][q] = 0)
    BY <1>0, <2>1, <2>5 DEF Claimed, Ledgers
  <2>7. \A t \in Sims, q \in Recipients : Count(t, q)' = Count(t, q)
    BY <2>6 DEF Count, NoRow
  <2>. QED BY <2>4, <2>7, CountedUnsent
<1>4. ASSUME NEW m \in Msgs, NEW n \in AttemptNos, NEW status \in {"sending", "failed"},
             attempt[m][n] # NoAttempt, attempt[m][n].status # "sent",
             attempt' = [attempt EXCEPT ![m][n].status = status], ledger' = ledger
      PROVE  Counted'
  <2>1. attempt[m][n] \in SmsAttempt
    BY <1>0, <1>4 DEF Attempts
  <2>2. /\ attempt'[m][n] = [attempt[m][n] EXCEPT !.status = status]
        /\ \A x \in Msgs, k \in AttemptNos : x # m \/ k # n => attempt'[x][k] = attempt[x][k]
    BY <1>0, <1>4 DEF Attempts
  <2>3. attempt'[m][n].status # "sent"
    BY <2>1, <2>2 DEF SmsAttempt
  <2>4. NoneSent
    BY <1>4, <2>2, <2>3 DEF NoneSent
  <2>. QED BY <1>4, <2>4, CountedUnsent DEF Count
<1>5. ASSUME NEW m \in Msgs, NEW g \in Gateways, Acknowledge(g, m) PROVE Counted'
  <2>1. PICK n \in AttemptNos :
           /\ Owns(m, n, g) /\ msg[m].status = "assigned"
           /\ attempt' = [attempt EXCEPT ![m][n].status = "sending"]
    BY <1>5 DEF Acknowledge
  <2>2. attempt[m][n] # NoAttempt /\ attempt[m][n].status # "sent" /\ ledger' = ledger
    BY <1>5, <2>1, NoneSentInFlight DEF Owns, HeldBy, Open, InFlight, Acknowledge
  <2>. QED BY <1>4, <2>1, <2>2
<1>6. ASSUME NEW m \in Msgs, ClosedLate(m) PROVE Counted'
  BY <1>4, <1>6 DEF ClosedLate
<1>7. ASSUME NEW m \in Msgs,
             \/ Send(m) \/ LeaseElapses(m) \/ \E w \in Workers : DispatchDefer(w, m)
             \/ \E s \in Sims : PhoneStep(s, m)
             \/ \E e \in Subscribed : WebhookJobEnds(m, e)
      PROVE  Counted'
  BY <1>1, <1>7 DEF Send, LeaseElapses, DispatchDefer, PhoneStep, WebhookJobEnds
<1>8. ASSUME NEW w \in Workers, HandOff(w) PROVE Counted'
  BY <1>1, <1>8 DEF HandOff
<1>. QED BY <1>1, <1>2, <1>3, <1>5, <1>6, <1>7, <1>8, CountedWhenHeard, StepKinds

\* The count of a SIM and a number is the number of sends recorded there, each
\* once: however often, late or out of order a phone reports it.
THEOREM SendsAreCountedOnce == ASSUME Undisturbed PROVE Spec => []SendsCountedOnce
<1>1. Init => Counted
  <2> SUFFICES ASSUME Init, NEW s \in Sims, NEW r \in Recipients
               PROVE  IsFiniteSet(Sends(s, r)) /\ Cardinality(Sends(s, r)) = Count(s, r)
    BY DEF Counted
  <2>1. NoAttempt # [sim |-> s, status |-> "sent"]
    BY DEF NoAttempt
  <2>2. Sends(s, r) = {}
    BY <2>1 DEF Init, Sends
  <2>. QED BY <2>2, FS_EmptySet DEF Init, Count
<1>2. Counted => SendsCountedOnce
  BY DEF Counted, SendsCountedOnce, Sends, Count
<1>3. TypeInv /\ Held /\ Kept /\ Counted /\ [Next]_vars => Counted'
  BY StepCounted
<1>. QED BY <1>1, <1>2, <1>3, KeptAlways, PTL DEF Spec


-----------------------------------------------------------------------------
(* Where a send is counted.  A report names its phone and not its SIM, so   *)
(* that a phone with two SIMs may report a job of the one and have it       *)
(* counted against the other: this needs phones with one SIM.               *)

OneSimPerPhone == \A s, t \in Sims : GatewayOf[s] = GatewayOf[t] => s = t

\* A radio has sent a message to number r through SIM s.
Carried(s, r) == \E m \in Msgs : RecipientOf[m] = r /\ job[s][m] \in OnTheAir

\* No step takes back what a radio has sent: a hand-off is to a SIM that has
\* never had the message.
LEMMA CarriedStays ==
  ASSUME TypeInv, OneHandOffPerSim, [Next]_vars, NEW s \in Sims, NEW r, Carried(s, r)
  PROVE  Carried(s, r)'
<1>1. PICK m \in Msgs : RecipientOf[m] = r /\ job[s][m] \in OnTheAir
  BY DEF Carried
<1> SUFFICES job'[s][m] \in OnTheAir
  BY <1>1 DEF Carried, OnTheAir
<1>2. CASE job' = job
  BY <1>1, <1>2
<1>3. ASSUME NEW w \in Workers, HandOff(w) PROVE job'[s][m] \in OnTheAir
  <2>1. /\ job' = [job EXCEPT ![dispatch[w].sim][dispatch[w].msg] = "held"]
        /\ job[dispatch[w].sim][dispatch[w].msg] = "none"
    BY <1>3 DEF HandOff, OneHandOffPerSim
  <2>2. ~(s = dispatch[w].sim /\ m = dispatch[w].msg)
    BY <1>1, <2>1 DEF OnTheAir
  <2>3. job'[s][m] = job[s][m]
    BY <2>1, <2>2 DEF TypeInv, TypeOK
  <2>. QED BY <1>1, <2>3
<1>4. ASSUME NEW t \in Sims, NEW x \in Msgs, PhoneStep(t, x) PROVE job'[s][m] \in OnTheAir
  <2>1. PICK state \in JobStates :
           /\ job' = [job EXCEPT ![t][x] = state]
           /\ job[t][x] = "held" \/ state \in OnTheAir
    BY <1>4 DEF PhoneStep, JobStates, OnTheAir
  <2>2. job'[s][m] = IF t = s /\ x = m THEN state ELSE job[s][m]
    BY <2>1 DEF TypeInv, TypeOK
  <2>. QED BY <1>1, <2>1, <2>2 DEF OnTheAir
<1>5. ASSUME NEW x \in Msgs,
             \/ Send(x) \/ CancelRead(x) \/ CancelSave(x) \/ ReclaimLease(x) \/ ExpireMessage(x)
             \/ LeaseElapses(x) \/ DeadlinePasses(x) \/ \E e \in Subscribed : WebhookJobEnds(x, e)
      PROVE  job' = job
  BY <1>5 DEF Send, CancelRead, CancelSave, ReclaimLease, ExpireMessage, LeaseElapses,
              DeadlinePasses, WebhookJobEnds
<1>6. ASSUME NEW x \in Msgs, Dispatch(x) \/ \E w \in Workers : DispatchDefer(w, x)
      PROVE  job' = job
  BY <1>6 DEF Dispatch, DispatchExpired, DispatchUndeliverable, DispatchDefer, Assign
<1>7. ASSUME NEW g \in Gateways, NEW x \in Msgs, Report(g, x) PROVE job' = job
  BY <1>7 DEF Report, Acknowledge, RecordSent, RecordDelivered, RecordUndelivered, RecordFailure
<1>8. \/ SelectLeases \/ SelectDeadlines \/ Restart \/ UNCHANGED vars
      \/ \E w \in Workers : RequeueUndelivered(w)
      => job' = job
  BY DEF SelectLeases, SelectDeadlines, Restart, RequeueUndelivered, vars
<1>. QED BY <1>2, <1>3, <1>4, <1>5, <1>6, <1>7, <1>8 DEF Next

\* Only a report that a radio has sent the message is counted.
LEMMA CountedIsCarried ==
  ASSUME OneSimPerPhone, TypeInv, [Next]_vars, NEW s \in Sims, NEW r \in Recipients,
         ledger'[s][r] > 0
  PROVE  ledger[s][r] > 0 \/ Carried(s, r)
<1>0. ledger \in Ledgers
  BY DEF TypeInv, TypeOK, Ledgers
<1>1. CASE ledger' = ledger
  BY <1>1
<1>2. ASSUME NEW t, NEW x \in Msgs, ledger' = Released(t, x) PROVE ledger[s][r] > 0
  <2>1. ledger'[s][r] = ledger[s][r] \/ ledger'[s][r] = NoRow
    BY <1>2, ReleasedCount
  <2>. QED BY <2>1 DEF NoRow
<1>3. ASSUME NEW w \in Workers, NEW x \in Msgs, NEW t \in Sims, Assign(w, x, t)
      PROVE  ledger[s][r] > 0
  <2>1. RecipientOf[x] \in Recipients /\ ledger' = Claimed(t, RecipientOf[x])
    BY <1>3, ConstantsAssumption DEF Assign
  <2>2. ledger'[s][r] = ledger[s][r] \/ ledger'[s][r] = 0
    BY <1>0, <2>1 DEF Claimed, Ledgers
  <2>. QED BY <2>2
<1>4. ASSUME NEW g \in Gateways, NEW x \in Msgs, NEW n \in AttemptNos, Owns(x, n, g),
             NEW states \in SUBSET OnTheAir, Reports(g, x, states), ledger' = LedgerOnceSent(x, n)
      PROVE  ledger[s][r] > 0 \/ Carried(s, r)
  <2> DEFINE c == attempt[x][n].sim
             led == LedgerCalledOff(x, n)
  <2>1. attempt[x][n] # NoAttempt /\ GatewayOf[c] = g
    BY <1>4 DEF Owns, HeldBy
  <2>2. c \in Sims
    BY <2>1 DEF TypeInv, TypeOK, SmsAttempt
  <2>3. job[c][x] \in OnTheAir
    BY <1>4, <2>1, <2>2 DEF Reports, OneSimPerPhone
  <2>4. led \in Ledgers
    BY ReleasedType DEF LedgerCalledOff, TypeInv, TypeOK, Ledgers
  <2>5. ledger' = ledger \/ ledger' = CountSend(led, c, x)
    BY <1>4 DEF LedgerOnceSent, LedgerCalledOff
  <2>6. \A u : (led = Released(u, x) \/ led = ledger) /\ led[s][r] > 0 => ledger[s][r] > 0
    <3>1. \A u : Released(u, x)[s][r] = ledger[s][r] \/ Released(u, x)[s][r] = NoRow
      BY ReleasedCount
    <3>. QED BY <3>1 DEF NoRow
  <2>7. led[s][r] > 0 => ledger[s][r] > 0
    BY <2>6 DEF LedgerCalledOff
  <2>8. RecipientOf[x] \in Recipients
    BY ConstantsAssumption
  <2>. HIDE DEF led, c
  <2>9. CASE ledger' = CountSend(led, c, x)
    <3>1. CASE s = c /\ r = RecipientOf[x]
      BY <2>3, <3>1 DEF Carried
    <3>2. CASE ~(s = c /\ r = RecipientOf[x])
      <4>1. ledger'[s][r] = led[s][r]
        BY <2>2, <2>4, <2>8, <2>9, <3>2 DEF CountSend, Ledgers
      <4>. QED BY <2>7, <4>1
    <3>. QED BY <3>1, <3>2
  <2>. QED BY <1>1, <2>5, <2>9
<1>5. ASSUME NEW g \in Gateways, NEW x \in Msgs, Report(g, x)
      PROVE  ledger[s][r] > 0 \/ Carried(s, r)
  <2>1. CASE RecordSent(g, x)
    BY <1>4, <2>1 DEF RecordSent
  <2>2. CASE RecordDelivered(g, x)
    BY <1>4, <2>2 DEF RecordDelivered, OnTheAir
  <2>3. CASE RecordUndelivered(g, x)
    BY <1>4, <2>3 DEF RecordUndelivered, OnTheAir
  <2>4. CASE Acknowledge(g, x)
    BY <1>1, <2>4 DEF Acknowledge
  <2>5. ASSUME NEW code, RecordFailure(g, x, code) PROVE ledger[s][r] > 0
    BY <1>1, <1>2, <2>5 DEF RecordFailure, RetryOrFail
  <2>. QED BY <1>5, <2>1, <2>2, <2>3, <2>4, <2>5 DEF Report
<1>6. ASSUME NEW x \in Msgs, ReclaimLease(x) PROVE ledger[s][r] > 0
  BY <1>1, <1>2, <1>6 DEF ReclaimLease, RetryOrFail
<1>7. ASSUME NEW w \in Workers, RequeueUndelivered(w) PROVE ledger[s][r] > 0
  <2>1. dispatch[w].msg \in Msgs /\ ledger' = Released(dispatch[w].sim, dispatch[w].msg)
    BY <1>7 DEF RequeueUndelivered, TypeInv, TypeOK, HandOffs
  <2>. QED BY <1>2, <2>1
<1>8. ASSUME NEW x \in Msgs,
             \/ Send(x) \/ CancelRead(x) \/ CancelSave(x) \/ ExpireMessage(x)
             \/ LeaseElapses(x) \/ DeadlinePasses(x) \/ \E e \in Subscribed : WebhookJobEnds(x, e)
             \/ \E t \in Sims : PhoneStep(t, x)
      PROVE  ledger' = ledger
  BY <1>8 DEF Send, CancelRead, CancelSave, ExpireMessage, LeaseElapses, DeadlinePasses,
              WebhookJobEnds, PhoneStep
<1>9. ASSUME NEW x \in Msgs, NEW w \in Workers,
             DispatchExpired(w, x) \/ DispatchUndeliverable(w, x) \/ DispatchDefer(w, x)
      PROVE  ledger' = ledger
  BY <1>9 DEF DispatchExpired, DispatchUndeliverable, DispatchDefer
<1>10. ASSUME NEW x \in Msgs, Dispatch(x) PROVE ledger[s][r] > 0
  BY <1>1, <1>3, <1>9, <1>10 DEF Dispatch
<1>11. \/ SelectLeases \/ SelectDeadlines \/ Restart \/ UNCHANGED vars
       \/ \E w \in Workers : HandOff(w)
       => ledger' = ledger
  BY DEF SelectLeases, SelectDeadlines, Restart, HandOff, vars
<1>. QED BY <1>1, <1>5, <1>6, <1>7, <1>8, <1>9, <1>10, <1>11 DEF Next

\* A SIM is charged only for numbers its own radio sent something to, whatever
\* is retried, cancelled, undone, called off or reported late.
THEOREM ChargedWhereSent == ASSUME OneSimPerPhone PROVE Spec => []CountedWhereSent
<1> DEFINE Charged == \A s \in Sims, r \in Recipients : ledger[s][r] > 0 => Carried(s, r)
<1>1. Init => Charged
  BY DEF Init, NoRow
<1>2. ASSUME TypeInv, OneHandOffPerSim, Charged, [Next]_vars PROVE Charged'
  <2>1. ASSUME NEW s \in Sims, NEW r \in Recipients, ledger'[s][r] > 0 PROVE Carried(s, r)
    BY <1>2, <2>1, CountedIsCarried
  <2>2. ASSUME NEW s \in Sims, NEW r \in Recipients, ledger'[s][r] > 0 PROVE Carried(s, r)'
    BY <1>2, <2>1, <2>2, CarriedStays
  <2>. QED BY <2>2
<1>3. TypeInv /\ OneHandOffPerSim /\ Charged /\ [Next]_vars => Charged'
  BY <1>2
<1>4. Charged => CountedWhereSent
  BY DEF Carried, CountedWhereSent
<1>. HIDE DEF Charged
<1>. QED BY <1>1, <1>3, <1>4, TypeInvAlways, AlwaysOneHandOffPerSim, PTL DEF Spec


-----------------------------------------------------------------------------
(* The contract: what the tenant is told and what happened on the network,  *)
(* as SmsRefinement maps them, start and move as SmsContract says.          *)

\* What happened to the copies of a message, fact by fact.
LEMMA FactsAre ==
  ASSUME NEW m, NEW fact
  PROVE  fact \in FactsOf(m) <=>
            \/ fact \in {"delivered", "undelivered"} /\ \E s \in Sims : job[s][m] = fact
            \/ fact = "sent" /\ \E s \in Sims : job[s][m] \in OnTheAir
BY DEF FactsOf, OnTheAir

LEMMA FactsPrimed ==
  ASSUME NEW m, NEW fact
  PROVE  fact \in FactsOf(m)' <=>
            \/ fact \in {"delivered", "undelivered"} /\ \E s \in Sims : job'[s][m] = fact
            \/ fact = "sent" /\ \E s \in Sims : job'[s][m] \in OnTheAir
BY DEF FactsOf, OnTheAir

\* A step of the model that tells the tenant nothing new and is about no radio.
LEMMA ContractStutters ==
  ASSUME \A x \in Msgs : OutcomeOf(msg'[x]) = OutcomeOf(msg[x]),
         \A x \in Msgs : FactsOf(x)' = FactsOf(x)
  PROVE  UNCHANGED Contract!vars
BY DEF Contract!vars, OutcomeOf, WasSent

\* A step that tells the tenant something about one message.
LEMMA ContractTells ==
  ASSUME NEW m \in Msgs, NEW told,
         \A x \in Msgs : OutcomeOf(msg'[x]) = IF x = m THEN told ELSE OutcomeOf(msg[x]),
         job' = job,
         \/ OutcomeOf(msg[m]) = "none" /\ told = "open"
         \/ OutcomeOf(msg[m]) = "open" /\ told = "failed"
         \/ /\ told \in {"sent", "undelivered", "delivered"} /\ told \in FactsOf(m)
            /\ OutcomeOf(msg[m]) \in Contract!Below(told)
  PROVE  Contract!Next
<1> DEFINE O == [x \in Msgs |-> OutcomeOf(msg[x])]
           A == [x \in Msgs |-> FactsOf(x)]
<1>1. O' = [O EXCEPT ![m] = told]
  BY DEF OutcomeOf, WasSent
<1>2. A' = A
  BY DEF FactsOf
<1>3. O[m] = OutcomeOf(msg[m]) /\ A[m] = FactsOf(m)
  OBVIOUS
<1>4. CASE OutcomeOf(msg[m]) = "none" /\ told = "open"
  <2>1. Contract!Accept(m)
    BY <1>1, <1>2, <1>3, <1>4 DEF Contract!Accept
  <2>. QED BY <2>1 DEF Contract!Next
<1>5. CASE OutcomeOf(msg[m]) = "open" /\ told = "failed"
  <2>1. Contract!GiveUp(m)
    BY <1>1, <1>2, <1>3, <1>5 DEF Contract!GiveUp
  <2>. QED BY <2>1 DEF Contract!Next
<1>6. CASE /\ told \in {"sent", "undelivered", "delivered"} /\ told \in FactsOf(m)
           /\ OutcomeOf(msg[m]) \in Contract!Below(told)
  <2>1. Contract!Learn(m, told)
    BY <1>1, <1>2, <1>3, <1>6 DEF Contract!Learn
  <2>. QED BY <1>6, <2>1 DEF Contract!Next, Contract!Facts
<1>. QED BY <1>4, <1>5, <1>6

\* A step that adds one fact about one message.
LEMMA ContractHappens ==
  ASSUME NEW m \in Msgs, NEW fact \in {"sent", "undelivered", "delivered"}, msg' = msg,
         \A x \in Msgs : FactsOf(x)' = IF x = m THEN FactsOf(m) \union {fact} ELSE FactsOf(x),
         fact # "sent" => "sent" \in FactsOf(m)
  PROVE  Contract!Next
<1> DEFINE O == [x \in Msgs |-> OutcomeOf(msg[x])]
           A == [x \in Msgs |-> FactsOf(x)]
<1>1. O' = O
  BY DEF OutcomeOf, WasSent
<1>2. A' = [A EXCEPT ![m] = @ \union {fact}]
  OBVIOUS
<1>3. A[m] = FactsOf(m)
  OBVIOUS
<1>4. Contract!Happen(m, fact)
  BY <1>1, <1>2, <1>3 DEF Contract!Happen
<1>. QED BY <1>4 DEF Contract!Next, Contract!Facts


\* A message that is queued again is still open; one that is given up failed.
LEMMA ContractWhenClosed ==
  ASSUME TypeInv, NEW m \in Msgs, Closed(m)
  PROVE  Contract!Next \/ UNCHANGED Contract!vars
<1>1. PICK code \in {"transient", "permanent"} : RetryOrFail(m, code) /\ msg[m].status \in InFlight
  BY DEF Closed
<1>2. /\ msg \in [Msgs -> SmsMessage] /\ job' = job
      /\ \A x \in Msgs \ {m} : msg'[x] = msg[x]
  BY <1>1 DEF TypeInv, TypeOK, Closed, RetryOrFail
<1>3. OutcomeOf(msg[m]) = "open"
  BY <1>1 DEF OutcomeOf, Open, InFlight
<1>4. CASE msg' = [msg EXCEPT ![m] = [@ EXCEPT !.status = "queued", !.sim = NoSim,
                                               !.lease = "none", !.error = code]]
  <2>1. msg'[m].status = "queued"
    BY <1>2, <1>4 DEF SmsMessage
  <2>2. OutcomeOf(msg'[m]) = "open"
    BY <2>1 DEF OutcomeOf, Open
  <2>. QED BY <1>2, <1>3, <2>2, ContractStutters DEF FactsOf
<1>5. CASE msg' = [msg EXCEPT ![m] =
                     [@ EXCEPT !.status = "failed", !.lease = "none", !.body = FALSE,
                               !.error = IF code = "permanent" THEN code ELSE "exhausted"]]
  <2>1. msg'[m].status = "failed" /\ msg'[m].error # "delivery_failed"
    BY <1>2, <1>5 DEF SmsMessage
  <2>2. OutcomeOf(msg'[m]) = "failed"
    BY <2>1 DEF OutcomeOf, Open, InFlight, WasSent
  <2>3. \A x \in Msgs : OutcomeOf(msg'[x]) = IF x = m THEN "failed" ELSE OutcomeOf(msg[x])
    BY <1>2, <2>2
  <2>. QED BY <1>2, <1>3, <2>3, ContractTells
<1>. QED BY <1>1, <1>4, <1>5 DEF RetryOrFail

\* What is heard from a phone is something that happened, and improves on what
\* the tenant has been told.
LEMMA ContractWhenHeard ==
  ASSUME TypeInv, Kept, NEW m \in Msgs, NEW n \in AttemptNos, NEW verdict \in Verdicts,
         Heard(m, n, verdict)
  PROVE  Contract!Next \/ UNCHANGED Contract!vars
<1> DEFINE r == RowAfter(m, n, verdict)
           b == RowOnceSent(m, n)
<1>1. /\ attempt[m][n] # NoAttempt /\ job' = job /\ msg' = [msg EXCEPT ![m] = r]
      /\ msg \in [Msgs -> SmsMessage]
  BY DEF Heard, Owns, HeldBy, TypeInv, TypeOK
<1>2. msg'[m] = r /\ \A x \in Msgs \ {m} : msg'[x] = msg[x]
  BY <1>1
<1>3. msg[m] \in SmsMessage /\ b \in SmsMessage
  BY <1>1, OnceSentType
<1>4. msg[m].status \notin {"absent", "cancelled", "expired"}
  BY <1>1 DEF Kept, KeptRow
<1>5. OutcomeOf(msg[m]) \in {"open", "failed", "sent", "undelivered", "delivered"}
  BY <1>3, <1>4 DEF OutcomeOf, SmsMessage, SmsStatus, Terminal, Open
<1>6. ~WasSent(msg[m]) => OutcomeOf(msg[m]) \in {"open", "failed"}
  BY <1>3, <1>4 DEF OutcomeOf, WasSent, SmsMessage, SmsStatus, Terminal, Open
<1>7. CASE verdict = "sent" /\ WasSent(msg[m])
  <2>1. r = msg[m]
    BY <1>7 DEF RowAfter, RowOnceSent
  <2>. QED BY <1>1, <1>2, <2>1, ContractStutters DEF FactsOf
<1>8. CASE verdict = "sent" /\ ~WasSent(msg[m])
  <2>1. r.status = "sent"
    BY <1>3, <1>8 DEF RowAfter, RowOnceSent, SmsMessage
  <2>2. OutcomeOf(r) = "sent"
    BY <2>1 DEF OutcomeOf, Open, InFlight
  <2>3. "sent" \in FactsOf(m)
    <3>1. \E s \in Sims : job[s][m] \in OnTheAir
      BY <1>8 DEF Heard, Reports
    <3>. QED BY <3>1, FactsAre
  <2>4. OutcomeOf(msg[m]) \in Contract!Below("sent")
    BY <1>6, <1>8 DEF Contract!Below
  <2>. HIDE DEF r
  <2>5. \A x \in Msgs : OutcomeOf(msg'[x]) = IF x = m THEN "sent" ELSE OutcomeOf(msg[x])
    BY <1>2, <2>2
  <2>. QED BY <1>1, <2>3, <2>4, <2>5, ContractTells
<1>9. CASE verdict = "delivered"
  <2>1. r.status = "delivered"
    BY <1>3, <1>9 DEF RowAfter, SmsMessage
  <2>2. OutcomeOf(r) = "delivered"
    BY <2>1 DEF OutcomeOf, Open, InFlight
  <2>3. "delivered" \in FactsOf(m)
    <3>1. \E s \in Sims : job[s][m] = "delivered"
      BY <1>9 DEF Heard, Reports
    <3>. QED BY <3>1, FactsAre
  <2>4. OutcomeOf(msg[m]) # "delivered"
    <3>1. msg[m].status # "delivered"
      BY <1>9 DEF Heard
    <3>. QED BY <3>1 DEF OutcomeOf
  <2>5. OutcomeOf(msg[m]) \in Contract!Below("delivered")
    BY <1>5, <2>4 DEF Contract!Below
  <2>. HIDE DEF r
  <2>6. \A x \in Msgs : OutcomeOf(msg'[x]) = IF x = m THEN "delivered" ELSE OutcomeOf(msg[x])
    BY <1>2, <2>2
  <2>. QED BY <1>1, <2>3, <2>5, <2>6, ContractTells
<1>10. CASE verdict = "undelivered"
  <2>1. r.status = "failed" /\ r.error = "delivery_failed"
    BY <1>3, <1>10 DEF RowAfter, SmsMessage
  <2>2. OutcomeOf(r) = "undelivered"
    BY <2>1 DEF OutcomeOf, Open, InFlight, WasSent
  <2>3. "undelivered" \in FactsOf(m)
    <3>1. \E s \in Sims : job[s][m] = "undelivered"
      BY <1>10 DEF Heard, Reports
    <3>. QED BY <3>1, FactsAre
  <2>4. OutcomeOf(msg[m]) \notin {"delivered", "undelivered"}
    <3>1. /\ msg[m].status # "delivered"
          /\ ~(msg[m].status = "failed" /\ msg[m].error = "delivery_failed")
      BY <1>10 DEF Heard
    <3>. QED BY <1>3, <3>1 DEF OutcomeOf, WasSent, SmsMessage, SmsStatus, InFlight, Terminal
  <2>5. OutcomeOf(msg[m]) \in Contract!Below("undelivered")
    BY <1>5, <2>4 DEF Contract!Below
  <2>. HIDE DEF r
  <2>6. \A x \in Msgs : OutcomeOf(msg'[x]) = IF x = m THEN "undelivered" ELSE OutcomeOf(msg[x])
    BY <1>2, <2>2
  <2>. QED BY <1>1, <2>3, <2>5, <2>6, ContractTells
<1>. QED BY <1>7, <1>8, <1>9, <1>10 DEF Verdicts

\* What a phone does: a job is sent, an operator reports on one that was, or
\* the job is lost, which the network never hears of.
LEMMA ContractWhenCarried ==
  ASSUME TypeInv, NEW m \in Msgs, NEW s \in Sims, PhoneStep(s, m)
  PROVE  Contract!Next \/ UNCHANGED Contract!vars
<1>1. msg' = msg
  BY DEF PhoneStep
<1>2. ASSUME NEW state, job' = [job EXCEPT ![s][m] = state]
      PROVE  \A t \in Sims, x \in Msgs : job'[t][x] = IF t = s /\ x = m THEN state ELSE job[t][x]
  BY <1>2 DEF TypeInv, TypeOK
<1>3. ASSUME NEW state \in {"failed", "none"}, job[s][m] = "held",
             job' = [job EXCEPT ![s][m] = state]
      PROVE  UNCHANGED Contract!vars
  <2>1. \A t \in Sims, x \in Msgs : job'[t][x] = job[t][x]
                                    \/ (job[t][x] = "held" /\ job'[t][x] = state)
    BY <1>2, <1>3
  <2>2. \A x \in Msgs : \A fact : fact \in FactsOf(x)' <=> fact \in FactsOf(x)
    BY <2>1, FactsAre, FactsPrimed DEF OnTheAir
  <2>3. \A x \in Msgs : FactsOf(x)' = FactsOf(x)
    BY <2>2
  <2>. QED BY <1>1, <2>3, ContractStutters
<1>4. ASSUME NEW state \in OnTheAir, job' = [job EXCEPT ![s][m] = state],
             job[s][m] = IF state = "sent" THEN "held" ELSE "sent"
      PROVE  Contract!Next
  <2>1. \A t \in Sims, x \in Msgs : job'[t][x] = IF t = s /\ x = m THEN state ELSE job[t][x]
    BY <1>2, <1>4
  <2>2. \A x \in Msgs \ {m} : \A fact : fact \in FactsOf(x)' <=> fact \in FactsOf(x)
    BY <2>1, FactsAre, FactsPrimed DEF OnTheAir
  <2>3. \A fact : fact \in FactsOf(m)' <=> fact \in FactsOf(m) \union {state}
    BY <1>4, <2>1, FactsAre, FactsPrimed DEF OnTheAir
  <2>4. \A x \in Msgs : FactsOf(x)' = IF x = m THEN FactsOf(m) \union {state} ELSE FactsOf(x)
    BY <2>2, <2>3
  <2>5. state # "sent" => "sent" \in FactsOf(m)
    BY <1>4, FactsAre DEF OnTheAir
  <2>. QED BY <1>1, <1>4, <2>4, <2>5, ContractHappens DEF OnTheAir
<1>. QED BY <1>3, <1>4 DEF PhoneStep, OnTheAir


\* Every step is a step of the contract or one it does not see.
LEMMA ContractStep ==
  ASSUME Undisturbed, TypeInv, Held, Kept, OneHandOffPerSim, [Next]_vars
  PROVE  Contract!Next \/ UNCHANGED Contract!vars
<1>0. msg \in [Msgs -> SmsMessage]
  BY DEF TypeInv, TypeOK
<1>1. CASE UNCHANGED <<msg, job>>
  BY <1>1, ContractStutters DEF FactsOf
<1>2. ASSUME NEW m \in Msgs, Send(m) PROVE Contract!Next
  <2>1. /\ msg[m].status = "absent" /\ msg'[m].status = "queued" /\ job' = job
        /\ \A x \in Msgs \ {m} : msg'[x] = msg[x]
    BY <1>0, <1>2 DEF Send, SmsMessage
  <2>2. OutcomeOf(msg[m]) = "none" /\ OutcomeOf(msg'[m]) = "open"
    BY <2>1 DEF OutcomeOf, Open, InFlight
  <2>3. \A x \in Msgs : OutcomeOf(msg'[x]) = IF x = m THEN "open" ELSE OutcomeOf(msg[x])
    BY <2>1, <2>2
  <2>. QED BY <2>1, <2>2, <2>3, ContractTells
<1>3. ASSUME NEW m \in Msgs, msg[m].status \in Open, msg'[m].status \in Open, job' = job,
             \A x \in Msgs \ {m} : msg'[x] = msg[x]
      PROVE  UNCHANGED Contract!vars
  <2>1. OutcomeOf(msg[m]) = "open" /\ OutcomeOf(msg'[m]) = "open"
    BY <1>3 DEF OutcomeOf, Open, InFlight
  <2>. QED BY <1>3, <2>1, ContractStutters DEF FactsOf
<1>4. ASSUME NEW m \in Msgs, NEW w \in Workers, DispatchDefer(w, m) PROVE UNCHANGED Contract!vars
  <2>1. /\ msg[m].status = "queued" /\ msg'[m].status = "queued" /\ job' = job
        /\ \A x \in Msgs \ {m} : msg'[x] = msg[x]
    BY <1>0, <1>4 DEF DispatchDefer, Taken, SmsMessage
  <2>. QED BY <1>3, <2>1 DEF Open
<1>5. ASSUME NEW m \in Msgs, NEW w \in Workers, NEW s \in Sims, Assign(w, m, s)
      PROVE  UNCHANGED Contract!vars
  <2> DEFINE k == msg[m].attempts + 1
  <2>1. /\ msg[m].status = "queued" /\ job' = job
        /\ msg' = [msg EXCEPT ![m] = [@ EXCEPT !.status = "assigned", !.sim = s, !.attempts = k,
                                               !.lease = "running", !.error = "none"]]
    BY <1>5 DEF Assign, Taken
  <2>. HIDE DEF k
  <2>2. msg'[m].status = "assigned" /\ \A x \in Msgs \ {m} : msg'[x] = msg[x]
    BY <1>0, <2>1 DEF SmsMessage
  <2>. QED BY <1>3, <2>1, <2>2 DEF Open, InFlight
<1>6. ASSUME NEW m \in Msgs, NEW g \in Gateways, Acknowledge(g, m) PROVE UNCHANGED Contract!vars
  <2>1. /\ msg[m].status = "assigned" /\ msg'[m].status = "sending" /\ job' = job
        /\ \A x \in Msgs \ {m} : msg'[x] = msg[x]
    BY <1>0, <1>6 DEF Acknowledge, SmsMessage
  <2>. QED BY <1>3, <2>1 DEF Open, InFlight
<1>7. ASSUME NEW m \in Msgs, LeaseElapses(m) PROVE UNCHANGED Contract!vars
  <2>1. job' = job /\ \A x \in Msgs : /\ msg'[x].status = msg[x].status
                                      /\ msg'[x].error = msg[x].error
    BY <1>0, <1>7 DEF LeaseElapses, SmsMessage
  <2>. QED BY <2>1, ContractStutters DEF OutcomeOf, WasSent, FactsOf
<1>8. ASSUME NEW m \in Msgs, ClosedLate(m) \/ \E e \in Subscribed : WebhookJobEnds(m, e)
      PROVE  Contract!Next \/ UNCHANGED Contract!vars
  BY <1>1, <1>8 DEF ClosedLate, WebhookJobEnds
<1>9. ASSUME NEW w \in Workers, HandOff(w) PROVE UNCHANGED Contract!vars
  <2>0. dispatch[w] # Idle /\ dispatch[w].sim \in Sims /\ dispatch[w].msg \in Msgs
    BY <1>9 DEF HandOff, TypeInv, TypeOK, HandOffs
  <2>1. PICK s \in Sims, m \in Msgs :
           job[s][m] = "none" /\ job' = [job EXCEPT ![s][m] = "held"] /\ msg' = msg
    BY <1>9, <2>0 DEF HandOff, OneHandOffPerSim
  <2>2. \A t \in Sims, x \in Msgs : job'[t][x] = job[t][x]
                                    \/ (job[t][x] = "none" /\ job'[t][x] = "held")
    BY <2>1 DEF TypeInv, TypeOK
  <2>3. \A x \in Msgs : \A fact : fact \in FactsOf(x)' <=> fact \in FactsOf(x)
    BY <2>2, FactsAre, FactsPrimed DEF OnTheAir
  <2>4. \A x \in Msgs : FactsOf(x)' = FactsOf(x)
    BY <2>3
  <2>. QED BY <2>1, <2>4, ContractStutters
<1>10. ASSUME NEW m \in Msgs, NEW s \in Sims, PhoneStep(s, m)
       PROVE  Contract!Next \/ UNCHANGED Contract!vars
  BY <1>10, ContractWhenCarried
<1>11. ASSUME NEW m \in Msgs, Closed(m) PROVE Contract!Next \/ UNCHANGED Contract!vars
  BY <1>11, ContractWhenClosed
<1>12. ASSUME NEW m \in Msgs, NEW n \in AttemptNos, NEW verdict \in Verdicts,
              Heard(m, n, verdict)
       PROVE  Contract!Next \/ UNCHANGED Contract!vars
  BY <1>12, ContractWhenHeard
<1>. QED BY <1>1, <1>2, <1>4, <1>5, <1>6, <1>7, <1>8, <1>9, <1>10, <1>11, <1>12, StepKinds

\* The life of undisturbed messages implements the contract, but for its
\* promise to settle them: every reachable step tells the tenant nothing, or
\* opens a message, gives an open one up, or improves its outcome to something
\* that a radio or an operator really did.
THEOREM ContractIsKept ==
  ASSUME Undisturbed PROVE Spec => Contract!Init /\ [][Contract!Next]_(Contract!vars)
<1>1. Init => Contract!Init
  <2> SUFFICES ASSUME Init PROVE Contract!Init
    OBVIOUS
  <2>1. \A m \in Msgs : OutcomeOf(msg[m]) = "none"
    BY DEF Init, NoMessage, OutcomeOf, Open, InFlight
  <2>2. \A m \in Msgs : \A fact : fact \notin FactsOf(m)
    BY FactsAre DEF Init, OnTheAir
  <2>3. \A m \in Msgs : FactsOf(m) = {}
    BY <2>2
  <2>4. [m \in Msgs |-> OutcomeOf(msg[m])] = [m \in Msgs |-> "none"]
    BY <2>1
  <2>5. [m \in Msgs |-> FactsOf(m)] = [m \in Msgs |-> {}]
    BY <2>3
  <2>. QED BY <2>4, <2>5 DEF Contract!Init
<1>2. TypeInv /\ Held /\ Kept /\ OneHandOffPerSim /\ [Next]_vars => [Contract!Next]_(Contract!vars)
  BY ContractStep
<1>. QED BY <1>1, <1>2, KeptAlways, AlwaysOneHandOffPerSim, PTL DEF Spec
=============================================================================
