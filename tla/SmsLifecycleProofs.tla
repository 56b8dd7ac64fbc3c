------------------------- MODULE SmsLifecycleProofs -------------------------
(***************************************************************************)
(* Proofs about SmsLifecycle, for any messages, SIMs, phones, dispatchers, *)
(* limits and faults.  Every reachable state is well typed; then, who is   *)
(* answerable for a message and who has been given it: a message in flight *)
(* is held by its attempt and has its text; no SIM is handed a message     *)
(* twice.                                                                  *)
(***************************************************************************)
EXTENDS SmsLifecycle, FiniteSetTheorems, TLAPS

Ledgers == [Sims -> [Recipients -> Nat \union {NoRow}]]
Attempts == [AttemptNos -> SmsAttempt \union {NoAttempt}]
EventTables == [Msgs -> [Subscribed -> {"none", "pending", "done"}]]

-----------------------------------------------------------------------------
(* Type correctness. *)

\* A row that waits has an attempt left, so that its next attempt number is in
\* range; a row not written yet is blank.
RoomToTry ==
    \A m \in Msgs : /\ msg[m].status = "queued" => msg[m].attempts < MaxAttempts
                    /\ msg[m].status = "absent" => msg[m] = NoMessage

TypeInv == TypeOK /\ RoomToTry

\* Replacing one row by a well-typed one that is not absent keeps the table typed.
LEMMA RowWritten ==
  ASSUME TypeInv, NEW m \in Msgs, NEW r \in SmsMessage, r.status # "absent",
         r.status = "queued" => r.attempts < MaxAttempts,
         msg' = [msg EXCEPT ![m] = r]
  PROVE  msg' \in [Msgs -> SmsMessage] /\ RoomToTry'
BY DEF TypeInv, TypeOK, RoomToTry, NoMessage

\* RecipientAllowance.release leaves a ledger.
LEMMA ReleasedType ==
  ASSUME TypeInv, NEW s, NEW m \in Msgs PROVE Released(s, m) \in Ledgers
BY ConstantsAssumption DEF TypeInv, TypeOK, Released, Ledgers

\* So does countSend.
LEMMA CountSendType ==
  ASSUME NEW led \in Ledgers, NEW s \in Sims, NEW m \in Msgs PROVE CountSend(led, s, m) \in Ledgers
BY ConstantsAssumption DEF CountSend, Ledgers, NoRow

\* A published event is an event of the table.
LEMMA PublishType ==
  ASSUME TypeInv, NEW m \in Msgs, NEW es, Publish(m, es) PROVE event' \in EventTables
BY DEF TypeInv, TypeOK, Publish, EventTables

\* updateCurrentAttempt leaves attempts, whatever row it names.
LEMMA CloseCurrentType ==
  ASSUME TypeInv, NEW m \in Msgs, NEW status \in {"failed", "timed_out"}, CloseCurrent(m, status)
  PROVE  attempt' \in [Msgs -> Attempts]
<1> DEFINE k == msg[m].attempts
<1>1. attempt \in [Msgs -> Attempts]
  BY DEF TypeInv, TypeOK, Attempts
<1>2. CASE attempt' = [attempt EXCEPT ![m][k].status = status] /\ attempt[m][k] # NoAttempt
  <2>1. CASE k \in AttemptNos
    <3>0. attempt[m][k] \in SmsAttempt
      BY <1>1, <1>2, <2>1 DEF Attempts
    <3>1. [attempt[m][k] EXCEPT !.status = status] \in SmsAttempt
      BY <3>0 DEF SmsAttempt
    <3>2. [attempt[m] EXCEPT ![k] = [attempt[m][k] EXCEPT !.status = status]] \in Attempts
      BY <1>1, <3>1 DEF Attempts
    <3>3. attempt' = [attempt EXCEPT ![m] =
                        [attempt[m] EXCEPT ![k] = [attempt[m][k] EXCEPT !.status = status]]]
      BY <1>2
    <3>. QED BY <1>1, <3>2, <3>3
  <2>2. CASE k \notin AttemptNos
    BY <1>1, <1>2, <2>2 DEF Attempts
  <2>. QED BY <2>1, <2>2
<1>. QED BY <1>1, <1>2 DEF CloseCurrent

\* retryOrFail leaves a row with room for another attempt, or settled.
LEMMA RetryOrFailType ==
  ASSUME TypeInv, NEW m \in Msgs, NEW code \in {"transient", "permanent"},
         RetryOrFail(m, code)
  PROVE  /\ msg' \in [Msgs -> SmsMessage] /\ RoomToTry'
         /\ ledger' \in Ledgers
         /\ event' \in EventTables
<1> DEFINE again == [msg[m] EXCEPT !.status = "queued", !.sim = NoSim, !.lease = "none",
                                   !.error = code]
           over == [msg[m] EXCEPT !.status = "failed", !.lease = "none", !.body = FALSE,
                                  !.error = IF code = "permanent" THEN code ELSE "exhausted"]
<1>1. msg[m] \in SmsMessage
  BY DEF TypeInv, TypeOK
<1>2. again \in SmsMessage /\ over \in SmsMessage
  BY <1>1 DEF SmsMessage, SmsStatus, InFlight, Terminal, ErrorCodes
<1>3. ledger' \in Ledgers
  BY <1>1, ReleasedType DEF RetryOrFail, SmsMessage, TypeInv, TypeOK, Ledgers
<1>4. CASE MayRetry(code, msg[m].attempts) /\ msg' = [msg EXCEPT ![m] = again] /\ UNCHANGED event
  <2>1. again.status = "queued" /\ again.attempts < MaxAttempts
    BY <1>1, <1>4 DEF MayRetry, SmsMessage
  <2>. QED BY <1>2, <1>3, <1>4, <2>1, RowWritten DEF TypeInv, TypeOK, EventTables
<1>5. CASE msg' = [msg EXCEPT ![m] = over] /\ Publish(m, {"failed"})
  <2>1. over.status = "failed"
    BY <1>1 DEF SmsMessage
  <2>. QED BY <1>2, <1>3, <1>5, <2>1, RowWritten, PublishType
<1>. QED BY <1>4, <1>5 DEF RetryOrFail

\* Recording a send keeps the types of the row, its attempts and the ledger.
LEMMA OnceSentType ==
  ASSUME TypeInv, NEW m \in Msgs, NEW n \in AttemptNos, attempt[m][n] # NoAttempt
  PROVE  /\ RowOnceSent(m, n) \in SmsMessage
         /\ RowOnceSent(m, n).status \in {"sent", "delivered", "failed"}
         /\ AttemptsOnceSent(m, n) \in Attempts
         /\ LedgerOnceSent(m, n) \in Ledgers
<1>1. msg[m] \in SmsMessage /\ attempt[m][n] \in SmsAttempt /\ attempt[m] \in Attempts
      /\ ledger \in Ledgers
  BY DEF TypeInv, TypeOK, Attempts, Ledgers
<1>2. RowOnceSent(m, n) \in SmsMessage
  BY <1>1 DEF RowOnceSent, SmsMessage, SmsStatus, ErrorCodes, SmsAttempt
<1>3. RowOnceSent(m, n).status \in {"sent", "delivered", "failed"}
  BY <1>1 DEF RowOnceSent, WasSent, SmsMessage
<1>4. AttemptsOnceSent(m, n) \in Attempts
  BY <1>1 DEF AttemptsOnceSent, Attempts, SmsAttempt
<1>5. LedgerOnceSent(m, n) \in Ledgers
  <2>1. CASE WasSent(msg[m]) /\ attempt[m][n].status = "sent"
    BY <2>1, <1>1 DEF LedgerOnceSent
  <2>2. CASE ~(WasSent(msg[m]) /\ attempt[m][n].status = "sent")
    <3> DEFINE k == msg[m].attempts
               led == IF Supersedes(m, n) /\ attempt[m][k] # NoAttempt
                      THEN Released(attempt[m][k].sim, m) ELSE ledger
    <3>1. led \in Ledgers
      BY <1>1, ReleasedType
    <3>2. attempt[m][n].sim \in Sims
      BY <1>1 DEF SmsAttempt
    <3>. QED BY <2>2, <3>1, <3>2, CountSendType DEF LedgerOnceSent
  <2>. QED BY <2>1, <2>2
<1>. QED BY <1>2, <1>3, <1>4, <1>5

\* The empty tables.
LEMMA InitTypeInv == Init => TypeInv
<1> SUFFICES ASSUME Init PROVE TypeInv
  OBVIOUS
<1>1. NoMessage \in SmsMessage
  BY ConstantsAssumption DEF NoMessage, SmsMessage, SmsStatus, InFlight, Terminal, ErrorCodes
<1>2. TypeOK
  BY <1>1 DEF Init, TypeOK, NoRow, JobStates
<1>3. RoomToTry
  BY DEF Init, RoomToTry, NoMessage
<1>. QED BY <1>2, <1>3 DEF TypeInv

\* Every step keeps the type invariant, one group of actions at a time.

\* Sending and cancelling.
LEMMA TenantTypes ==
  ASSUME TypeInv, NEW m \in Msgs, Send(m) \/ CancelRead(m) \/ CancelSave(m)
  PROVE  TypeInv'
<1>1. msg[m] \in SmsMessage
  BY DEF TypeInv, TypeOK
<1>2. CASE Send(m)
  <2> DEFINE r == [msg[m] EXCEPT !.status = "queued", !.body = TRUE,
                                 !.deadline = IF m \in Deadlined THEN "ahead" ELSE "none"]
  <2>1. r \in SmsMessage /\ r.status = "queued" /\ r.attempts = msg[m].attempts
    BY <1>1 DEF SmsMessage, SmsStatus
  <2>2. r.attempts < MaxAttempts
    BY <1>2, <2>1, ConstantsAssumption DEF Send, TypeInv, RoomToTry, NoMessage
  <2>3. msg' \in [Msgs -> SmsMessage] /\ RoomToTry'
    BY <1>2, <2>1, <2>2, RowWritten DEF Send
  <2>. QED BY <1>2, <2>3 DEF Send, TypeInv, TypeOK, serverVars
<1>3. CASE CancelRead(m)
  BY <1>3 DEF CancelRead, TypeInv, TypeOK, RoomToTry
<1>4. CASE CancelSave(m)
  <2> DEFINE r == [msg[m] EXCEPT !.status = "cancelled", !.error = "cancelled"]
  <2>1. r \in SmsMessage /\ r.status = "cancelled"
    BY <1>1 DEF SmsMessage, SmsStatus, Terminal, ErrorCodes
  <2>2. msg' \in [Msgs -> SmsMessage] /\ RoomToTry'
    BY <1>4, <2>1, RowWritten DEF CancelSave
  <2>3. event' \in EventTables
    BY <1>4 DEF CancelSave, PublishAlone, TypeInv, TypeOK, EventTables
  <2>. QED BY <1>4, <2>2, <2>3 DEF CancelSave, TypeInv, TypeOK, EventTables
<1>. QED BY <1>2, <1>3, <1>4

\* Taking a message, assigning it, handing it off and undoing that.
LEMMA DispatcherTypes ==
  ASSUME TypeInv, NEW m \in Msgs, NEW w \in Workers,
         \/ DispatchExpired(w, m) \/ DispatchUndeliverable(w, m) \/ DispatchDefer(w, m)
         \/ \E s \in Sims : Assign(w, m, s)
         \/ HandOff(w) \/ RequeueUndelivered(w)
  PROVE  TypeInv'
<1>1. msg[m] \in SmsMessage
  BY DEF TypeInv, TypeOK
<1>2. CASE DispatchExpired(w, m)
  <2> DEFINE r == [msg[m] EXCEPT !.status = "expired", !.error = "expired"]
  <2>1. r \in SmsMessage /\ r.status = "expired"
    BY <1>1 DEF SmsMessage, SmsStatus, Terminal, ErrorCodes
  <2>2. msg' \in [Msgs -> SmsMessage] /\ RoomToTry'
    BY <1>2, <2>1, RowWritten DEF DispatchExpired
  <2>. QED BY <1>2, <2>2 DEF DispatchExpired, TypeInv, TypeOK, serverVars
<1>3. CASE DispatchUndeliverable(w, m)
  <2> DEFINE r == [msg[m] EXCEPT !.status = "failed", !.error = "body_unavailable"]
  <2>1. r \in SmsMessage /\ r.status = "failed"
    BY <1>1 DEF SmsMessage, SmsStatus, Terminal, ErrorCodes
  <2>2. msg' \in [Msgs -> SmsMessage] /\ RoomToTry'
    BY <1>3, <2>1, RowWritten DEF DispatchUndeliverable
  <2>. QED BY <1>3, <2>2 DEF DispatchUndeliverable, TypeInv, TypeOK, serverVars
<1>4. CASE DispatchDefer(w, m)
  <2>1. PICK error \in {"waiting", IF msg[m].error = "waiting" THEN "none" ELSE msg[m].error} :
           msg' = [msg EXCEPT ![m].error = error]
    BY <1>4 DEF DispatchDefer
  <2> DEFINE r == [msg[m] EXCEPT !.error = error]
  <2>2. /\ r \in SmsMessage /\ r.status = msg[m].status /\ r.attempts = msg[m].attempts
        /\ msg' = [msg EXCEPT ![m] = r]
    BY <1>1, <2>1 DEF SmsMessage, ErrorCodes
  <2>3. msg[m].status = "queued" /\ msg[m].attempts < MaxAttempts
    BY <1>4 DEF DispatchDefer, Taken, TypeInv, RoomToTry
  <2>4. msg' \in [Msgs -> SmsMessage] /\ RoomToTry'
    BY <2>2, <2>3, RowWritten
  <2>. QED BY <1>4, <2>4 DEF DispatchDefer, TypeInv, TypeOK, serverVars
<1>5. ASSUME NEW s \in Sims, Assign(w, m, s) PROVE TypeInv'
  <2> DEFINE n == msg[m].attempts + 1
             r == [msg[m] EXCEPT !.status = "assigned", !.sim = s, !.attempts = n,
                                 !.lease = "running", !.error = "none"]
  <2>0. msg[m].attempts \in 0 .. MaxAttempts /\ msg[m].attempts < MaxAttempts
    BY <1>1, <1>5 DEF Assign, Taken, TypeInv, RoomToTry, SmsMessage
  <2>1. n \in AttemptNos /\ n \in 0 .. MaxAttempts
    BY <2>0, ConstantsAssumption DEF AttemptNos
  <2>2. r \in SmsMessage /\ r.status = "assigned"
    <3>. HIDE DEF n
    <3>. QED BY <1>1, <2>1 DEF SmsMessage, SmsStatus, InFlight, ErrorCodes
  <2>3. msg' \in [Msgs -> SmsMessage] /\ RoomToTry'
    BY <1>5, <2>2, RowWritten DEF Assign
  <2>4. attempt' \in [Msgs -> Attempts]
    BY <1>5, <2>1 DEF Assign, TypeInv, TypeOK, SmsAttempt, Attempts
  <2>5. ledger' \in Ledgers
    BY <1>5, ConstantsAssumption DEF Assign, TypeInv, TypeOK, Claimed, Ledgers
  <2>6. dispatch' \in [Workers -> HandOffs \union {Idle}]
    BY <1>5, <2>1 DEF Assign, TypeInv, TypeOK, HandOffs
  <2>. QED BY <1>5, <2>3, <2>4, <2>5, <2>6 DEF Assign, TypeInv, TypeOK, Attempts, Ledgers
<1>6. CASE HandOff(w)
  <2>1. job' \in [Sims -> [Msgs -> JobStates]]
    BY <1>6 DEF HandOff, TypeInv, TypeOK, JobStates
  <2>2. dispatch' \in [Workers -> HandOffs \union {Idle}]
    BY <1>6 DEF HandOff, TypeInv, TypeOK
  <2>. QED BY <1>6, <2>1, <2>2 DEF HandOff, TypeInv, TypeOK, RoomToTry
<1>7. CASE RequeueUndelivered(w)
  <2> DEFINE x == dispatch[w].msg
             n == dispatch[w].no
             r == [msg[x] EXCEPT !.status = "queued", !.sim = NoSim, !.lease = "none",
                                 !.attempts = n - 1]
  <2>1. x \in Msgs /\ n \in AttemptNos
    BY <1>7 DEF RequeueUndelivered, TypeInv, TypeOK, HandOffs
  <2>2. n - 1 \in 0 .. MaxAttempts /\ n - 1 < MaxAttempts
    BY <2>1, ConstantsAssumption DEF AttemptNos
  <2>3. msg[x] \in SmsMessage
    BY <2>1 DEF TypeInv, TypeOK
  <2>4. r \in SmsMessage /\ r.status = "queued" /\ r.attempts = n - 1
    BY <2>2, <2>3 DEF SmsMessage, SmsStatus
  <2>5. msg' \in [Msgs -> SmsMessage] /\ RoomToTry'
    BY <1>7, <2>1, <2>2, <2>4, RowWritten DEF RequeueUndelivered
  <2>6. ledger' \in Ledgers
    BY <1>7, <2>1, ReleasedType DEF RequeueUndelivered
  <2>7. attempt' \in [Msgs -> Attempts]
    BY <1>7, <2>1 DEF RequeueUndelivered, TypeInv, TypeOK, Attempts
  <2>8. dispatch' \in [Workers -> HandOffs \union {Idle}] /\ faults' \in Nat
    BY <1>7 DEF RequeueUndelivered, TypeInv, TypeOK
  <2>. QED BY <1>7, <2>5, <2>6, <2>7, <2>8
           DEF RequeueUndelivered, TypeInv, TypeOK, Attempts, Ledgers
<1>. QED BY <1>2, <1>3, <1>4, <1>5, <1>6, <1>7

\* What a phone reports.
LEMMA ReportTypes ==
  ASSUME TypeInv, NEW m \in Msgs, NEW g \in Gateways, Report(g, m)
  PROVE  TypeInv'
<1>1. /\ msg[m] \in SmsMessage /\ msg \in [Msgs -> SmsMessage]
      /\ attempt \in [Msgs -> Attempts]
  BY DEF TypeInv, TypeOK, Attempts
<1>2. CASE Acknowledge(g, m)
  <2>1. PICK n \in AttemptNos :
           /\ Owns(m, n, g) /\ msg[m].status = "assigned"
           /\ msg' = [msg EXCEPT ![m] = [@ EXCEPT !.status = "sending", !.lease = "running"]]
           /\ attempt' = [attempt EXCEPT ![m][n].status = "sending"]
    BY <1>2 DEF Acknowledge
  <2> DEFINE r == [msg[m] EXCEPT !.status = "sending", !.lease = "running"]
  <2>2. r \in SmsMessage /\ r.status = "sending"
    BY <1>1 DEF SmsMessage, SmsStatus, InFlight
  <2>3. msg' \in [Msgs -> SmsMessage] /\ RoomToTry'
    BY <2>1, <2>2, RowWritten
  <2>4. attempt[m][n] \in SmsAttempt
    BY <1>1, <2>1 DEF Attempts, Owns, HeldBy
  <2>5. [attempt[m][n] EXCEPT !.status = "sending"] \in SmsAttempt
    BY <2>4 DEF SmsAttempt
  <2>6. attempt' \in [Msgs -> Attempts]
    BY <1>1, <2>1, <2>5 DEF Attempts
  <2>. QED BY <1>2, <2>3, <2>6 DEF Acknowledge, TypeInv, TypeOK, Attempts, serverVars
<1>3. ASSUME NEW n \in AttemptNos, Owns(m, n, g), NEW r \in SmsMessage,
             r.status \in {"sent", "delivered", "failed"},
             msg' = [msg EXCEPT ![m] = r],
             attempt' = [attempt EXCEPT ![m] = AttemptsOnceSent(m, n)],
             ledger' = LedgerOnceSent(m, n), event' \in EventTables,
             UNCHANGED <<job, serverVars>>
      PROVE  TypeInv'
  <2>1. msg' \in [Msgs -> SmsMessage] /\ RoomToTry'
    BY <1>3, RowWritten
  <2>2. attempt' \in [Msgs -> Attempts] /\ ledger' \in Ledgers
    BY <1>1, <1>3, OnceSentType DEF Owns, HeldBy
  <2>. QED BY <1>3, <2>1, <2>2
           DEF TypeInv, TypeOK, Attempts, Ledgers, EventTables, serverVars
<1>4. CASE RecordSent(g, m)
  <2>1. PICK n \in AttemptNos :
           /\ Owns(m, n, g)
           /\ msg' = [msg EXCEPT ![m] = RowOnceSent(m, n)]
           /\ attempt' = [attempt EXCEPT ![m] = AttemptsOnceSent(m, n)]
           /\ ledger' = LedgerOnceSent(m, n)
           /\ Publish(m, EventsOnceSent(m))
    BY <1>4 DEF RecordSent
  <2>2. /\ RowOnceSent(m, n) \in SmsMessage
        /\ RowOnceSent(m, n).status \in {"sent", "delivered", "failed"}
    BY <2>1, OnceSentType DEF Owns, HeldBy
  <2>5. UNCHANGED <<job, serverVars>>
    BY <1>4 DEF RecordSent
  <2>6. event' \in EventTables
    BY <2>1, PublishType
  <2>. QED BY <2>6, <1>3, <2>1, <2>2, <2>5
<1>5. CASE RecordDelivered(g, m)
  <2>1. PICK n \in AttemptNos :
           /\ Owns(m, n, g)
           /\ msg' = [msg EXCEPT ![m] = [RowOnceSent(m, n) EXCEPT !.status = "delivered"]]
           /\ attempt' = [attempt EXCEPT ![m] = AttemptsOnceSent(m, n)]
           /\ ledger' = LedgerOnceSent(m, n)
           /\ Publish(m, EventsOnceSent(m) \union {"delivered"})
    BY <1>5 DEF RecordDelivered
  <2>2. RowOnceSent(m, n) \in SmsMessage
    BY <2>1, OnceSentType DEF Owns, HeldBy
  <2> DEFINE r == [RowOnceSent(m, n) EXCEPT !.status = "delivered"]
  <2>3. r \in SmsMessage /\ r.status \in {"sent", "delivered", "failed"}
    BY <2>2 DEF SmsMessage, SmsStatus, Terminal
  <2>. HIDE DEF r
  <2>4. msg' = [msg EXCEPT ![m] = r]
    BY <2>1 DEF r
  <2>5. UNCHANGED <<job, serverVars>>
    BY <1>5 DEF RecordDelivered
  <2>6. event' \in EventTables
    BY <2>1, PublishType
  <2>. QED BY <2>6, <1>3, <2>1, <2>3, <2>4, <2>5
<1>6. CASE RecordUndelivered(g, m)
  <2>1. PICK n \in AttemptNos :
           /\ Owns(m, n, g)
           /\ msg' = [msg EXCEPT ![m] = [RowOnceSent(m, n) EXCEPT !.status = "failed",
                                                                  !.error = "delivery_failed"]]
           /\ attempt' = [attempt EXCEPT ![m] = AttemptsOnceSent(m, n)]
           /\ ledger' = LedgerOnceSent(m, n)
           /\ Publish(m, EventsOnceSent(m) \union {"failed"})
    BY <1>6 DEF RecordUndelivered
  <2>2. RowOnceSent(m, n) \in SmsMessage
    BY <2>1, OnceSentType DEF Owns, HeldBy
  <2> DEFINE r == [RowOnceSent(m, n) EXCEPT !.status = "failed", !.error = "delivery_failed"]
  <2>3. r \in SmsMessage /\ r.status \in {"sent", "delivered", "failed"}
    BY <2>2 DEF SmsMessage, SmsStatus, Terminal, ErrorCodes
  <2>. HIDE DEF r
  <2>4. msg' = [msg EXCEPT ![m] = r]
    BY <2>1 DEF r
  <2>5. UNCHANGED <<job, serverVars>>
    BY <1>6 DEF RecordUndelivered
  <2>6. event' \in EventTables
    BY <2>1, PublishType
  <2>. QED BY <2>6, <1>3, <2>1, <2>3, <2>4, <2>5
<1>7. ASSUME NEW code \in {"transient", "permanent"}, RecordFailure(g, m, code)
      PROVE  TypeInv'
  <2>1. PICK n \in AttemptNos :
           /\ Owns(m, n, g)
           /\ \/ CloseCurrent(m, "failed") /\ RetryOrFail(m, code)
              \/ /\ attempt' = [attempt EXCEPT ![m][n].status = "failed"]
                 /\ UNCHANGED <<msg, ledger, event>>
    BY <1>7 DEF RecordFailure
  <2>2. CASE CloseCurrent(m, "failed") /\ RetryOrFail(m, code)
    <3>1. attempt' \in [Msgs -> Attempts]
      BY <2>2, CloseCurrentType
    <3>2. /\ msg' \in [Msgs -> SmsMessage] /\ RoomToTry'
          /\ ledger' \in Ledgers /\ event' \in EventTables
      BY <2>2, RetryOrFailType
    <3>. QED BY <1>7, <3>1, <3>2
             DEF RecordFailure, TypeInv, TypeOK, Attempts, Ledgers, EventTables, serverVars
  <2>3. CASE /\ attempt' = [attempt EXCEPT ![m][n].status = "failed"]
             /\ UNCHANGED <<msg, ledger, event>>
    <3>1. attempt[m][n] \in SmsAttempt
      BY <1>1, <2>1 DEF Attempts, Owns, HeldBy
    <3>2. [attempt[m][n] EXCEPT !.status = "failed"] \in SmsAttempt
      BY <3>1 DEF SmsAttempt
    <3>3. attempt' \in [Msgs -> Attempts]
      BY <1>1, <2>3, <3>2 DEF Attempts
    <3>. QED BY <1>7, <2>3, <3>3
             DEF RecordFailure, TypeInv, TypeOK, RoomToTry, Attempts, serverVars
  <2>. QED BY <2>1, <2>2, <2>3
<1>. QED BY <1>2, <1>4, <1>5, <1>6, <1>7 DEF Report

\* The lease sweep and the deadline sweep.
LEMMA SweepTypes ==
  ASSUME TypeInv,
         SelectLeases \/ SelectDeadlines \/ \E m \in Msgs : ReclaimLease(m) \/ ExpireMessage(m)
  PROVE  TypeInv'
<1>1. \A m \in Msgs : msg[m] \in SmsMessage
  BY DEF TypeInv, TypeOK
<1>2. CASE SelectLeases
  BY <1>2 DEF SelectLeases, TypeInv, TypeOK, RoomToTry
<1>3. CASE SelectDeadlines
  BY <1>3 DEF SelectDeadlines, TypeInv, TypeOK, RoomToTry
<1>4. ASSUME NEW m \in Msgs, ReclaimLease(m) PROVE TypeInv'
  <2>1. CASE CloseCurrent(m, "timed_out") /\ RetryOrFail(m, "transient")
    <3>1. attempt' \in [Msgs -> Attempts]
      BY <2>1, CloseCurrentType
    <3>2. /\ msg' \in [Msgs -> SmsMessage] /\ RoomToTry'
          /\ ledger' \in Ledgers /\ event' \in EventTables
      BY <2>1, RetryOrFailType
    <3>. QED BY <1>4, <3>1, <3>2
             DEF ReclaimLease, TypeInv, TypeOK, Attempts, Ledgers, EventTables
  <2>2. CASE UNCHANGED <<msg, attempt, ledger, event>>
    BY <1>4, <2>2 DEF ReclaimLease, TypeInv, TypeOK, RoomToTry
  <2>. QED BY <1>4, <2>1, <2>2 DEF ReclaimLease
<1>5. ASSUME NEW m \in Msgs, ExpireMessage(m) PROVE TypeInv'
  <2> DEFINE r == [msg[m] EXCEPT !.status = "expired", !.error = "expired", !.body = FALSE]
  <2>1. r \in SmsMessage /\ r.status = "expired"
    BY <1>1 DEF SmsMessage, SmsStatus, Terminal, ErrorCodes
  <2>2. CASE msg' = [msg EXCEPT ![m] = r] /\ Publish(m, {"expired"})
    <3>1. msg' \in [Msgs -> SmsMessage] /\ RoomToTry'
      BY <2>1, <2>2, RowWritten
    <3>2. event' \in EventTables
      BY <2>2, PublishType
    <3>. QED BY <1>5, <3>1, <3>2 DEF ExpireMessage, TypeInv, TypeOK, EventTables
  <2>3. CASE UNCHANGED <<msg, event>>
    BY <1>5, <2>3 DEF ExpireMessage, TypeInv, TypeOK, RoomToTry
  <2>. QED BY <1>5, <2>2, <2>3 DEF ExpireMessage
<1>. QED BY <1>2, <1>3, <1>4, <1>5

\* The clock, the phones, the webhook worker and a restart.
LEMMA WorldTypes ==
  ASSUME TypeInv,
         \/ \E m \in Msgs : LeaseElapses(m) \/ DeadlinePasses(m)
         \/ \E m \in Msgs, s \in Sims : PhoneStep(s, m)
         \/ \E m \in Msgs, e \in Subscribed : WebhookJobEnds(m, e)
         \/ Restart
  PROVE  TypeInv'
<1>1. \A m \in Msgs : msg[m] \in SmsMessage
  BY DEF TypeInv, TypeOK
<1>2. ASSUME NEW m \in Msgs, LeaseElapses(m) PROVE TypeInv'
  <2> DEFINE r == [msg[m] EXCEPT !.lease = "elapsed"]
  <2>1. /\ r \in SmsMessage /\ r.status = msg[m].status /\ r.attempts = msg[m].attempts
        /\ msg' = [msg EXCEPT ![m] = r]
    BY <1>1, <1>2 DEF LeaseElapses, SmsMessage
  <2>2. msg[m].status # "absent"
    BY <1>2 DEF LeaseElapses, TypeInv, RoomToTry, NoMessage
  <2>3. msg' \in [Msgs -> SmsMessage] /\ RoomToTry'
    BY <2>1, <2>2, RowWritten DEF TypeInv, RoomToTry
  <2>. QED BY <1>2, <2>3 DEF LeaseElapses, TypeInv, TypeOK, serverVars
<1>3. ASSUME NEW m \in Msgs, DeadlinePasses(m) PROVE TypeInv'
  <2> DEFINE r == [msg[m] EXCEPT !.deadline = "passed"]
  <2>1. /\ r \in SmsMessage /\ r.status = msg[m].status /\ r.attempts = msg[m].attempts
        /\ msg' = [msg EXCEPT ![m] = r]
    BY <1>1, <1>3 DEF DeadlinePasses, SmsMessage
  <2>2. msg[m].status # "absent"
    BY <1>3 DEF DeadlinePasses, TypeInv, RoomToTry, NoMessage
  <2>3. msg' \in [Msgs -> SmsMessage] /\ RoomToTry'
    BY <2>1, <2>2, RowWritten DEF TypeInv, RoomToTry
  <2>. QED BY <1>3, <2>3 DEF DeadlinePasses, TypeInv, TypeOK, serverVars
<1>4. ASSUME NEW m \in Msgs, NEW s \in Sims, PhoneStep(s, m) PROVE TypeInv'
  <2>1. PICK x \in JobStates : job' = [job EXCEPT ![s][m] = x]
    BY <1>4 DEF PhoneStep, JobStates
  <2>2. job' \in [Sims -> [Msgs -> JobStates]]
    BY <2>1 DEF TypeInv, TypeOK
  <2>. QED BY <1>4, <2>2 DEF PhoneStep, TypeInv, TypeOK, RoomToTry, serverVars
<1>5. CASE Restart
  BY <1>5 DEF Restart, TypeInv, TypeOK, RoomToTry
<1>6. ASSUME NEW m \in Msgs, NEW e \in Subscribed, WebhookJobEnds(m, e) PROVE TypeInv'
  BY <1>6 DEF WebhookJobEnds, TypeInv, TypeOK, RoomToTry, serverVars
<1>. QED BY <1>2, <1>3, <1>4, <1>5, <1>6

\* No step leaves the types.
LEMMA StepTypeInv == TypeInv /\ [Next]_vars => TypeInv'
<1> SUFFICES ASSUME TypeInv, [Next]_vars PROVE TypeInv'
  OBVIOUS
<1>1. CASE UNCHANGED vars
  BY <1>1 DEF vars, TypeInv, TypeOK, RoomToTry
<1>2. ASSUME NEW m \in Msgs, Send(m) \/ CancelRead(m) \/ CancelSave(m) PROVE TypeInv'
  BY <1>2, TenantTypes
<1>3. ASSUME NEW m \in Msgs, Dispatch(m) \/ \E w \in Workers : DispatchDefer(w, m) PROVE TypeInv'
  BY <1>3, DispatcherTypes DEF Dispatch
<1>4. ASSUME NEW w \in Workers, HandOff(w) \/ RequeueUndelivered(w) PROVE TypeInv'
  <2>1. dispatch[w].msg \in Msgs
    BY <1>4 DEF HandOff, RequeueUndelivered, TypeInv, TypeOK, HandOffs
  <2>. QED BY <1>4, <2>1, DispatcherTypes
<1>. QED BY <1>1, <1>2, <1>3, <1>4, ReportTypes, SweepTypes, WorldTypes DEF Next

\* Hence the inductive invariant holds throughout.
LEMMA TypeInvAlways == Spec => []TypeInv
BY InitTypeInv, StepTypeInv, PTL DEF Spec

\* TypeOK holds in every reachable state: no handler writes a value its column
\* cannot hold, no count of sends becomes negative, no attempt is numbered
\* beyond max_attempts.
THEOREM TypeCorrect == Spec => []TypeOK
<1>1. TypeInv => TypeOK
  BY DEF TypeInv
<1>. QED BY <1>1, TypeInvAlways, PTL

-----------------------------------------------------------------------------
(* A message in flight, its attempt and its body. *)

HeldRow(m) ==
    msg[m].status \in InFlight =>
        /\ msg[m].lease # "none"
        /\ msg[m].attempts \in AttemptNos
        /\ attempt[m][msg[m].attempts] = [sim |-> msg[m].sim, status |-> msg[m].status]
        /\ msg[m].body

\* HeldByItsAttempt and InFlightHasBody are inductive only together with the
\* type invariant, and are proved together.
Held == \A m \in Msgs : HeldRow(m)

\* A step that writes to one message need only be looked at there.
LEMMA HeldElsewhere ==
  ASSUME Held, NEW m \in Msgs, HeldRow(m)',
         \A x \in Msgs \ {m} : msg'[x] = msg[x] /\ attempt'[x] = attempt[x]
  PROVE  Held'
BY DEF Held, HeldRow

\* A step that leaves the rows and the attempts alone.
LEMMA HeldUntouched ==
  ASSUME Held, UNCHANGED <<msg, attempt>> PROVE Held'
BY DEF Held, HeldRow

\* Steps after which the message they write is not in flight.
LEMMA HeldSettled ==
  ASSUME TypeInv, Held, NEW m \in Msgs, NEW r, r.status \notin InFlight,
         msg' = [msg EXCEPT ![m] = r],
         \A x \in Msgs \ {m} : attempt'[x] = attempt[x]
  PROVE  Held'
<1>1. \A x \in Msgs \ {m} : msg'[x] = msg[x]
  BY DEF TypeInv, TypeOK
<1>2. msg'[m] = r
  BY DEF TypeInv, TypeOK
<1>3. HeldRow(m)'
  BY <1>2 DEF HeldRow
<1>. QED BY <1>1, <1>3, HeldElsewhere

\* Closing the attempt of one message changes no other.
LEMMA CloseCurrentElsewhere ==
  ASSUME TypeInv, NEW m \in Msgs, NEW status, CloseCurrent(m, status)
  PROVE  \A x \in Msgs \ {m} : attempt'[x] = attempt[x]
BY DEF CloseCurrent, TypeInv, TypeOK

\* Only the status of attempts can change while one is closed, and not to sent.
LEMMA ClosedAttempts ==
  ASSUME TypeInv, NEW m \in Msgs, NEW status \in {"failed", "timed_out"}, CloseCurrent(m, status)
  PROVE  /\ attempt' \in [Msgs -> Attempts]
         /\ \A x \in Msgs \ {m} : attempt'[x] = attempt[x]
         /\ \A n \in AttemptNos : \/ attempt'[m][n] = attempt[m][n]
                                  \/ n = msg[m].attempts /\ attempt'[m][n].status = status
<1>1. attempt' \in [Msgs -> Attempts] /\ attempt \in [Msgs -> Attempts]
  BY CloseCurrentType DEF TypeInv, TypeOK, Attempts
<1>2. \A x \in Msgs \ {m} : attempt'[x] = attempt[x]
  BY CloseCurrentElsewhere
<1> DEFINE k == msg[m].attempts
<1>3. CASE attempt' = attempt
  BY <1>1, <1>2, <1>3
<1>4. CASE attempt[m][k] # NoAttempt /\ attempt' = [attempt EXCEPT ![m][k].status = status]
  <2>1. \A n \in AttemptNos \ {k} : attempt'[m][n] = attempt[m][n]
    BY <1>1, <1>4 DEF Attempts
  <2>2. ASSUME k \in AttemptNos PROVE attempt'[m][k].status = status
    <3>1. attempt[m][k] \in SmsAttempt
      BY <1>1, <1>4, <2>2 DEF Attempts
    <3>2. attempt'[m][k] = [attempt[m][k] EXCEPT !.status = status]
      BY <1>1, <1>4, <2>2 DEF Attempts
    <3>. QED BY <3>1, <3>2 DEF SmsAttempt
  <2>. QED BY <1>1, <1>2, <2>1, <2>2
<1>. QED BY <1>3, <1>4 DEF CloseCurrent


\* A message that is queued again or has failed is not in flight.
LEMMA HeldAfterRetryOrFail ==
  ASSUME TypeInv, Held, NEW m \in Msgs, NEW code, NEW status,
         CloseCurrent(m, status), RetryOrFail(m, code)
  PROVE  Held'
<1>1. msg[m] \in SmsMessage
  BY DEF TypeInv, TypeOK
<1> DEFINE again == [msg[m] EXCEPT !.status = "queued", !.sim = NoSim, !.lease = "none",
                                   !.error = code]
           over == [msg[m] EXCEPT !.status = "failed", !.lease = "none", !.body = FALSE,
                                  !.error = IF code = "permanent" THEN code ELSE "exhausted"]
<1>2. again.status \notin InFlight /\ over.status \notin InFlight
  BY <1>1 DEF SmsMessage, InFlight
<1>3. msg' = [msg EXCEPT ![m] = again] \/ msg' = [msg EXCEPT ![m] = over]
  BY DEF RetryOrFail
<1>. HIDE DEF again, over
<1>. QED BY <1>2, <1>3, CloseCurrentElsewhere, HeldSettled

\* Sending and cancelling.
LEMMA HeldByTenant ==
  ASSUME TypeInv, Held, NEW m \in Msgs, Send(m) \/ CancelRead(m) \/ CancelSave(m)
  PROVE  Held'
<1>1. msg[m] \in SmsMessage
  BY DEF TypeInv, TypeOK
<1>2. CASE Send(m)
  <2> DEFINE r == [msg[m] EXCEPT !.status = "queued", !.body = TRUE,
                                 !.deadline = IF m \in Deadlined THEN "ahead" ELSE "none"]
  <2>1. msg' = [msg EXCEPT ![m] = r] /\ r.status \notin InFlight
    BY <1>1, <1>2 DEF Send, SmsMessage, InFlight
  <2>. HIDE DEF r
  <2>. QED BY <1>2, <2>1, HeldSettled DEF Send
<1>3. CASE CancelRead(m)
  BY <1>3, HeldUntouched DEF CancelRead
<1>4. CASE CancelSave(m)
  <2> DEFINE r == [msg[m] EXCEPT !.status = "cancelled", !.error = "cancelled"]
  <2>1. msg' = [msg EXCEPT ![m] = r] /\ r.status \notin InFlight
    BY <1>1, <1>4 DEF CancelSave, SmsMessage, InFlight
  <2>. HIDE DEF r
  <2>. QED BY <1>4, <2>1, HeldSettled DEF CancelSave
<1>. QED BY <1>2, <1>3, <1>4

\* The dispatcher's steps, the stale undo included.
LEMMA HeldByDispatcher ==
  ASSUME TypeInv, Held, NEW m \in Msgs, NEW w \in Workers,
         \/ DispatchExpired(w, m) \/ DispatchUndeliverable(w, m) \/ DispatchDefer(w, m)
         \/ \E s \in Sims : Assign(w, m, s)
         \/ HandOff(w) \/ RequeueUndelivered(w)
  PROVE  Held'
<1>1. msg[m] \in SmsMessage /\ msg \in [Msgs -> SmsMessage] /\ attempt \in [Msgs -> Attempts]
  BY DEF TypeInv, TypeOK, Attempts
<1>2. CASE DispatchExpired(w, m)
  <2> DEFINE r == [msg[m] EXCEPT !.status = "expired", !.error = "expired"]
  <2>1. msg' = [msg EXCEPT ![m] = r] /\ r.status \notin InFlight
    BY <1>1, <1>2 DEF DispatchExpired, SmsMessage, InFlight
  <2>. HIDE DEF r
  <2>. QED BY <1>2, <2>1, HeldSettled DEF DispatchExpired
<1>3. CASE DispatchUndeliverable(w, m)
  <2> DEFINE r == [msg[m] EXCEPT !.status = "failed", !.error = "body_unavailable"]
  <2>1. msg' = [msg EXCEPT ![m] = r] /\ r.status \notin InFlight
    BY <1>1, <1>3 DEF DispatchUndeliverable, SmsMessage, InFlight
  <2>. HIDE DEF r
  <2>. QED BY <1>3, <2>1, HeldSettled DEF DispatchUndeliverable
<1>4. CASE DispatchDefer(w, m)
  <2>1. PICK error : msg' = [msg EXCEPT ![m].error = error]
    BY <1>4 DEF DispatchDefer
  <2>2. /\ msg' = [msg EXCEPT ![m] = [msg[m] EXCEPT !.error = error]]
        /\ [msg[m] EXCEPT !.error = error].status \notin InFlight
    BY <1>1, <1>4, <2>1 DEF DispatchDefer, Taken, SmsMessage, InFlight
  <2>. QED BY <1>4, <2>2, HeldSettled DEF DispatchDefer
<1>5. ASSUME NEW s \in Sims, Assign(w, m, s) PROVE Held'
  <2> DEFINE n == msg[m].attempts + 1
             r == [msg[m] EXCEPT !.status = "assigned", !.sim = s, !.attempts = n,
                                 !.lease = "running", !.error = "none"]
  <2>1. msg[m].attempts \in 0 .. MaxAttempts /\ msg[m].attempts < MaxAttempts
    BY <1>1, <1>5 DEF Assign, Taken, TypeInv, RoomToTry, SmsMessage
  <2>2. n \in AttemptNos
    BY <2>1, ConstantsAssumption DEF AttemptNos
  <2>3. /\ msg' = [msg EXCEPT ![m] = r]
        /\ attempt' = [attempt EXCEPT ![m][n] = [sim |-> s, status |-> "assigned"]]
    BY <1>5 DEF Assign
  <2>4. /\ r.status = "assigned" /\ r.sim = s /\ r.attempts = n /\ r.lease = "running"
        /\ r.body
    <3>1. msg[m].body
      BY <1>5 DEF Assign, Sendable
    <3>. HIDE DEF n
    <3>. QED BY <1>1, <3>1 DEF SmsMessage
  <2>5. msg'[m] = r /\ attempt'[m][n] = [sim |-> s, status |-> "assigned"]
    <3>. HIDE DEF n, r
    <3>. QED BY <1>1, <2>2, <2>3 DEF Attempts
  <2>6. HeldRow(m)'
    <3>. HIDE DEF n, r
    <3>. QED BY <2>2, <2>4, <2>5 DEF HeldRow
  <2>7. \A x \in Msgs \ {m} : msg'[x] = msg[x] /\ attempt'[x] = attempt[x]
    <3>. HIDE DEF n, r
    <3>. QED BY <1>1, <2>3
  <2>. QED BY <2>6, <2>7, HeldElsewhere
<1>6. CASE HandOff(w)
  BY <1>6, HeldUntouched DEF HandOff
<1>7. CASE RequeueUndelivered(w)
  <2> DEFINE x == dispatch[w].msg
             r == [msg[x] EXCEPT !.status = "queued", !.sim = NoSim, !.lease = "none",
                                 !.attempts = dispatch[w].no - 1]
  <2>1. x \in Msgs
    BY <1>7 DEF RequeueUndelivered, TypeInv, TypeOK, HandOffs
  <2>2. r.status \notin InFlight
    <3>1. msg[x] \in SmsMessage
      BY <1>1, <2>1
    <3>. QED BY <3>1 DEF SmsMessage, InFlight
  <2>3. msg' = [msg EXCEPT ![x] = r] /\ \A y \in Msgs \ {x} : attempt'[y] = attempt[y]
    BY <1>1, <1>7, <2>1 DEF RequeueUndelivered
  <2>. HIDE DEF x, r
  <2>. QED BY <2>1, <2>2, <2>3, HeldSettled
<1>. QED BY <1>2, <1>3, <1>4, <1>5, <1>6, <1>7

\* A report about an attempt that does not hold the message leaves the one that
\* does alone: that is what IsCurrent compares number and SIM for.
LEMMA HeldByReport ==
  ASSUME TypeInv, Held, NEW m \in Msgs, NEW g \in Gateways, Report(g, m)
  PROVE  Held'
<1>1. msg[m] \in SmsMessage /\ msg \in [Msgs -> SmsMessage] /\ attempt \in [Msgs -> Attempts]
  BY DEF TypeInv, TypeOK, Attempts
<1>2. CASE Acknowledge(g, m)
  <2>1. PICK n \in AttemptNos :
           /\ IsCurrent(m, n) /\ msg[m].status = "assigned"
           /\ msg' = [msg EXCEPT ![m] = [@ EXCEPT !.status = "sending", !.lease = "running"]]
           /\ attempt' = [attempt EXCEPT ![m][n].status = "sending"]
    BY <1>2 DEF Acknowledge
  <2> DEFINE r == [msg[m] EXCEPT !.status = "sending", !.lease = "running"]
             a == [attempt[m][n] EXCEPT !.status = "sending"]
  <2>2. /\ r.status = "sending" /\ r.lease = "running" /\ r.sim = msg[m].sim
        /\ r.attempts = n /\ r.body = msg[m].body
    BY <1>1, <2>1 DEF SmsMessage, IsCurrent
  <2>3. msg[m].body /\ attempt[m][n] = [sim |-> msg[m].sim, status |-> "assigned"]
    BY <2>1 DEF Held, HeldRow, IsCurrent, InFlight
  <2>4. a = [sim |-> msg[m].sim, status |-> "sending"]
    BY <2>3
  <2>5. msg'[m] = r /\ attempt'[m][n] = a
    BY <1>1, <2>1 DEF Attempts
  <2>6. \A x \in Msgs \ {m} : msg'[x] = msg[x] /\ attempt'[x] = attempt[x]
    BY <1>1, <2>1
  <2>. HIDE DEF r, a
  <2>7. HeldRow(m)'
    BY <2>2, <2>3, <2>4, <2>5 DEF HeldRow
  <2>. QED BY <2>6, <2>7, HeldElsewhere
<1>3. ASSUME NEW n \in AttemptNos, Owns(m, n, g), NEW r, r.status \notin InFlight,
             msg' = [msg EXCEPT ![m] = r],
             attempt' = [attempt EXCEPT ![m] = AttemptsOnceSent(m, n)]
      PROVE  Held'
  <2>1. \A x \in Msgs \ {m} : attempt'[x] = attempt[x]
    BY <1>1, <1>3
  <2>. QED BY <1>3, <2>1, HeldSettled
<1>4. CASE RecordSent(g, m)
  <2>1. PICK n \in AttemptNos :
           /\ Owns(m, n, g)
           /\ msg' = [msg EXCEPT ![m] = RowOnceSent(m, n)]
           /\ attempt' = [attempt EXCEPT ![m] = AttemptsOnceSent(m, n)]
    BY <1>4 DEF RecordSent
  <2>2. RowOnceSent(m, n).status \notin InFlight
    BY <2>1, OnceSentType DEF Owns, HeldBy, InFlight
  <2>. QED BY <1>3, <2>1, <2>2
<1>5. CASE RecordDelivered(g, m)
  <2>1. PICK n \in AttemptNos :
           /\ Owns(m, n, g)
           /\ msg' = [msg EXCEPT ![m] = [RowOnceSent(m, n) EXCEPT !.status = "delivered"]]
           /\ attempt' = [attempt EXCEPT ![m] = AttemptsOnceSent(m, n)]
    BY <1>5 DEF RecordDelivered
  <2>2. [RowOnceSent(m, n) EXCEPT !.status = "delivered"].status \notin InFlight
    BY <2>1, OnceSentType DEF Owns, HeldBy, InFlight, SmsMessage
  <2>. QED BY <1>3, <2>1, <2>2
<1>6. CASE RecordUndelivered(g, m)
  <2>1. PICK n \in AttemptNos :
           /\ Owns(m, n, g)
           /\ msg' = [msg EXCEPT ![m] = [RowOnceSent(m, n) EXCEPT !.status = "failed",
                                                                  !.error = "delivery_failed"]]
           /\ attempt' = [attempt EXCEPT ![m] = AttemptsOnceSent(m, n)]
    BY <1>6 DEF RecordUndelivered
  <2>2. [RowOnceSent(m, n) EXCEPT !.status = "failed", !.error = "delivery_failed"].status
           \notin InFlight
    BY <2>1, OnceSentType DEF Owns, HeldBy, InFlight, SmsMessage
  <2>. QED BY <1>3, <2>1, <2>2
<1>7. ASSUME NEW code \in {"transient", "permanent"}, RecordFailure(g, m, code)
      PROVE  Held'
  <2>1. CASE CloseCurrent(m, "failed") /\ RetryOrFail(m, code)
    BY <2>1, HeldAfterRetryOrFail
  <2>2. ASSUME NEW n \in AttemptNos, Owns(m, n, g), ~IsCurrent(m, n),
               attempt' = [attempt EXCEPT ![m][n].status = "failed"], msg' = msg
        PROVE  Held'
    <3>1. \A x \in Msgs \ {m} : msg'[x] = msg[x] /\ attempt'[x] = attempt[x]
      BY <1>1, <2>2
    <3>2. msg[m].status \in InFlight => n # msg[m].attempts
      <4> SUFFICES ASSUME msg[m].status \in InFlight, n = msg[m].attempts PROVE FALSE
        OBVIOUS
      <4>1. attempt[m][n] = [sim |-> msg[m].sim, status |-> msg[m].status]
        BY DEF Held, HeldRow
      <4>2. attempt[m][n].sim = msg[m].sim
        BY <4>1
      <4>. QED BY <2>2, <4>2 DEF IsCurrent
    <3>3. \A k \in AttemptNos \ {n} : attempt'[m][k] = attempt[m][k]
      BY <1>1, <2>2 DEF Attempts
    <3>4. msg[m].status \in InFlight =>
            attempt'[m][msg[m].attempts] = attempt[m][msg[m].attempts]
      BY <3>2, <3>3 DEF Held, HeldRow
    <3>5. HeldRow(m) /\ msg'[m] = msg[m]
      BY <2>2 DEF Held
    <3>6. HeldRow(m)'
      BY <3>4, <3>5 DEF HeldRow
    <3>. QED BY <3>1, <3>6, HeldElsewhere
  <2>. QED BY <1>7, <2>1, <2>2 DEF RecordFailure
<1>. QED BY <1>2, <1>4, <1>5, <1>6, <1>7 DEF Report

\* The lease sweep and the deadline sweep.
LEMMA HeldBySweep ==
  ASSUME TypeInv, Held,
         SelectLeases \/ SelectDeadlines \/ \E m \in Msgs : ReclaimLease(m) \/ ExpireMessage(m)
  PROVE  Held'
<1>1. CASE SelectLeases \/ SelectDeadlines
  BY <1>1, HeldUntouched DEF SelectLeases, SelectDeadlines
<1>2. ASSUME NEW m \in Msgs, ReclaimLease(m) PROVE Held'
  <2>1. CASE CloseCurrent(m, "timed_out") /\ RetryOrFail(m, "transient")
    BY <2>1, HeldAfterRetryOrFail
  <2>2. CASE UNCHANGED <<msg, attempt>>
    BY <2>2, HeldUntouched
  <2>. QED BY <1>2, <2>1, <2>2 DEF ReclaimLease
<1>3. ASSUME NEW m \in Msgs, ExpireMessage(m) PROVE Held'
  <2> DEFINE r == [msg[m] EXCEPT !.status = "expired", !.error = "expired", !.body = FALSE]
  <2>1. msg[m] \in SmsMessage
    BY DEF TypeInv, TypeOK
  <2>2. r.status \notin InFlight
    BY <2>1 DEF SmsMessage, InFlight
  <2>3. CASE msg' = [msg EXCEPT ![m] = r] /\ attempt' = attempt
    <3>. HIDE DEF r
    <3>. QED BY <2>2, <2>3, HeldSettled
  <2>4. CASE UNCHANGED <<msg, attempt>>
    BY <2>4, HeldUntouched
  <2>. QED BY <1>3, <2>3, <2>4 DEF ExpireMessage
<1>. QED BY <1>1, <1>2, <1>3

\* The clock, the phones, the webhook worker and a restart.
LEMMA HeldByWorld ==
  ASSUME TypeInv, Held,
         \/ \E m \in Msgs : LeaseElapses(m) \/ DeadlinePasses(m)
         \/ \E m \in Msgs, s \in Sims : PhoneStep(s, m)
         \/ \E m \in Msgs, e \in Subscribed : WebhookJobEnds(m, e)
         \/ Restart
  PROVE  Held'
<1>1. ASSUME NEW m \in Msgs, LeaseElapses(m) \/ DeadlinePasses(m) PROVE Held'
  <2>1. /\ attempt' = attempt /\ \A x \in Msgs \ {m} : msg'[x] = msg[x]
        /\ msg'[m].status = msg[m].status /\ msg'[m].sim = msg[m].sim
        /\ msg'[m].attempts = msg[m].attempts /\ msg'[m].body = msg[m].body
        /\ msg'[m].lease \in {"elapsed", msg[m].lease}
    BY <1>1 DEF LeaseElapses, DeadlinePasses, TypeInv, TypeOK, SmsMessage
  <2>2. HeldRow(m)'
    BY <2>1 DEF Held, HeldRow
  <2>. QED BY <2>1, <2>2, HeldElsewhere
<1>2. CASE UNCHANGED <<msg, attempt>>
  BY <1>2, HeldUntouched
<1>. QED BY <1>1, <1>2 DEF PhoneStep, WebhookJobEnds, Restart

\* No step leaves a message in flight without its attempt.
LEMMA StepHeld == TypeInv /\ Held /\ [Next]_vars => Held'
<1> SUFFICES ASSUME TypeInv, Held, [Next]_vars PROVE Held'
  OBVIOUS
<1>1. CASE UNCHANGED vars
  BY <1>1, HeldUntouched DEF vars
<1>2. ASSUME NEW m \in Msgs, Send(m) \/ CancelRead(m) \/ CancelSave(m) PROVE Held'
  BY <1>2, HeldByTenant
<1>3. ASSUME NEW m \in Msgs, Dispatch(m) \/ \E w \in Workers : DispatchDefer(w, m) PROVE Held'
  BY <1>3, HeldByDispatcher DEF Dispatch
<1>4. ASSUME NEW w \in Workers, HandOff(w) \/ RequeueUndelivered(w) PROVE Held'
  <2>1. dispatch[w].msg \in Msgs
    BY <1>4 DEF HandOff, RequeueUndelivered, TypeInv, TypeOK, HandOffs
  <2>. QED BY <1>4, <2>1, HeldByDispatcher
<1>. QED BY <1>1, <1>2, <1>3, <1>4, HeldByReport, HeldBySweep, HeldByWorld DEF Next

\* Hence it holds throughout.
LEMMA HeldAlways == Spec => []Held
<1>1. Init => Held
  BY DEF Init, Held, HeldRow, NoMessage, InFlight
<1>. QED BY <1>1, StepHeld, TypeInvAlways, PTL DEF Spec

\* Whatever reports, sweeps, undone assignments, cancels and crashes come in
\* between, a message in flight is answered for by the attempt it names, under
\* a lease.
THEOREM AlwaysHeldByItsAttempt == Spec => []HeldByItsAttempt
<1>1. Held => HeldByItsAttempt
  BY DEF Held, HeldRow, HeldByItsAttempt
<1>. QED BY <1>1, HeldAlways, PTL

\* No message in flight has lost its text.
THEOREM AlwaysInFlightHasBody == Spec => []InFlightHasBody
<1>1. Held => InFlightHasBody
  BY DEF Held, HeldRow, InFlightHasBody
<1>. QED BY <1>1, HeldAlways, PTL
-----------------------------------------------------------------------------
(* Which SIMs a message has been handed to.  Every job a phone has ever     *)
(* been given traces back to its own row of sms_attempts, which no undone   *)
(* assignment can take away.                                                *)

\* A dispatcher has committed attempt n of m and not handed it off yet.
Pending(m, n) ==
    \E w \in Workers : dispatch[w] # Idle /\ dispatch[w].msg = m /\ dispatch[w].no = n

\* No SIM has two attempts at a message.
OneRowPerSim ==
    \A m \in Msgs : \A n, k \in AttemptNos :
        n # k /\ attempt[m][n].sim # NoSim => attempt[m][n].sim # attempt[m][k].sim

\* A pending hand-off has its row, and the row is its alone.
PendingHasRow ==
    \A w \in Workers : dispatch[w] # Idle =>
        attempt[dispatch[w].msg][dispatch[w].no].sim = dispatch[w].sim
PendingAlone ==
    \A v, w \in Workers : v # w /\ dispatch[v] # Idle /\ dispatch[w] # Idle =>
        dispatch[v].msg # dispatch[w].msg \/ dispatch[v].no # dispatch[w].no

\* A job ever handed to a SIM has a row that is not waiting to be handed off,
\* so that no dispatcher can delete it any more.
JobHasRow ==
    \A s \in Sims, m \in Msgs : job[s][m] # "none" =>
        \E n \in AttemptNos : attempt[m][n].sim = s /\ ~Pending(m, n)

Carriers == OneRowPerSim /\ PendingHasRow /\ PendingAlone /\ JobHasRow

SameSims == \A m \in Msgs, n \in AttemptNos : attempt'[m][n].sim = attempt[m][n].sim

\* Most steps touch neither the SIMs of the attempts nor what is pending, and
\* hand nothing to a phone.
LEMMA CarriersKept ==
  ASSUME TypeInv, Carriers, SameSims, UNCHANGED dispatch,
         \A s \in Sims, m \in Msgs : job'[s][m] # "none" => job[s][m] # "none"
  PROVE  Carriers'
<1>0. dispatch \in [Workers -> HandOffs \union {Idle}]
  BY DEF TypeInv, TypeOK
<1>1. OneRowPerSim'
  BY DEF Carriers, OneRowPerSim, SameSims
<1>2. PendingHasRow'
  <2> SUFFICES ASSUME NEW w \in Workers, dispatch[w] # Idle
               PROVE  attempt'[dispatch[w].msg][dispatch[w].no].sim = dispatch[w].sim
    BY DEF PendingHasRow
  <2>1. dispatch[w].msg \in Msgs /\ dispatch[w].no \in AttemptNos
    BY <1>0 DEF HandOffs
  <2>. QED BY <2>1 DEF Carriers, PendingHasRow, SameSims
<1>3. PendingAlone'
  BY DEF Carriers, PendingAlone
<1>4. JobHasRow'
  BY DEF Carriers, JobHasRow, SameSims, Pending
<1>. QED BY <1>1, <1>2, <1>3, <1>4 DEF Carriers

\* Closing attempts keeps their SIMs.
LEMMA CloseCurrentSims ==
  ASSUME TypeInv, NEW m \in Msgs, NEW status, CloseCurrent(m, status) PROVE SameSims
<1>1. attempt \in [Msgs -> Attempts]
  BY DEF TypeInv, TypeOK, Attempts
<1>2. CASE attempt' = [attempt EXCEPT ![m][msg[m].attempts].status = status]
  <2> DEFINE k == msg[m].attempts
  <2>1. \A x \in Msgs, n \in AttemptNos : x # m \/ n # k => attempt'[x][n] = attempt[x][n]
    BY <1>1, <1>2 DEF Attempts
  <2>2. k \in AttemptNos => attempt'[m][k] = [attempt[m][k] EXCEPT !.status = status]
    BY <1>1, <1>2 DEF Attempts
  <2>3. k \in AttemptNos => attempt'[m][k].sim = attempt[m][k].sim
    <3> SUFFICES ASSUME k \in AttemptNos PROVE attempt'[m][k].sim = attempt[m][k].sim
      OBVIOUS
    <3>1. attempt[m][k] \in SmsAttempt \union {NoAttempt}
      BY <1>1 DEF Attempts
    <3>. QED BY <2>2, <3>1 DEF SmsAttempt, NoAttempt
  <2>. QED BY <2>1, <2>3 DEF SameSims
<1>. QED BY <1>1, <1>2 DEF CloseCurrent, SameSims

AllOnceSent(m, n) == attempt' = [attempt EXCEPT ![m] = AttemptsOnceSent(m, n)]
OneStatusSet(m, n, status) == attempt' = [attempt EXCEPT ![m][n].status = status]

\* A late success moves statuses between attempts, never SIMs.
LEMMA OnceSentSims ==
  ASSUME TypeInv, NEW m \in Msgs, NEW n \in AttemptNos, AllOnceSent(m, n)
  PROVE  SameSims
<1>1. attempt \in [Msgs -> Attempts]
  BY DEF TypeInv, TypeOK, Attempts
<1>2. \A k \in AttemptNos : AttemptsOnceSent(m, n)[k].sim = attempt[m][k].sim
  <2> SUFFICES ASSUME NEW k \in AttemptNos
               PROVE  AttemptsOnceSent(m, n)[k].sim = attempt[m][k].sim
    OBVIOUS
  <2>1. attempt[m][k] \in SmsAttempt \union {NoAttempt}
    BY <1>1 DEF Attempts
  <2>2. \A st : [attempt[m][k] EXCEPT !.status = st].sim = attempt[m][k].sim
    BY <2>1 DEF SmsAttempt, NoAttempt
  <2>. QED BY <2>2 DEF AttemptsOnceSent
<1>3. \A x \in Msgs : attempt'[x] = IF x = m THEN AttemptsOnceSent(m, n) ELSE attempt[x]
  BY <1>1 DEF AllOnceSent
<1>. QED BY <1>2, <1>3 DEF SameSims

\* A row that changes its status alone keeps its SIM.
LEMMA OneStatusSims ==
  ASSUME TypeInv, NEW m \in Msgs, NEW n \in AttemptNos, NEW status, OneStatusSet(m, n, status)
  PROVE  SameSims
<1>1. attempt \in [Msgs -> Attempts]
  BY DEF TypeInv, TypeOK, Attempts
<1>2. attempt[m][n] \in SmsAttempt \union {NoAttempt}
  BY <1>1 DEF Attempts
<1>3. /\ attempt'[m][n] = [attempt[m][n] EXCEPT !.status = status]
      /\ \A x \in Msgs, k \in AttemptNos : x # m \/ k # n => attempt'[x][k] = attempt[x][k]
  BY <1>1 DEF Attempts, OneStatusSet
<1>4. attempt'[m][n].sim = attempt[m][n].sim
  BY <1>2, <1>3 DEF SmsAttempt, NoAttempt
<1>. QED BY <1>3, <1>4 DEF SameSims

-----------------------------------------------------------------------------
(* The three steps that do change who carries a message. *)

\* pickRoute excludes every SIM tried before, and the unique attempt number
\* keeps the row of another dispatcher's pending hand-off.
LEMMA AssignCarriers ==
  ASSUME TypeInv, Carriers, NEW w \in Workers, NEW m \in Msgs, NEW s \in Sims, Assign(w, m, s)
  PROVE  Carriers'
<1> DEFINE n == msg[m].attempts + 1
           a == [sim |-> s, status |-> "assigned"]
           d == [msg |-> m, sim |-> s, no |-> n]
<1>1. /\ attempt \in [Msgs -> Attempts] /\ dispatch \in [Workers -> HandOffs \union {Idle}]
      /\ msg[m] \in SmsMessage
  BY DEF TypeInv, TypeOK, Attempts
<1>2. n \in AttemptNos
  <2>1. msg[m].attempts \in 0 .. MaxAttempts /\ msg[m].attempts < MaxAttempts
    BY <1>1 DEF Assign, Taken, TypeInv, RoomToTry, SmsMessage
  <2>. QED BY <2>1, ConstantsAssumption DEF AttemptNos
<1>3. /\ dispatch[w] = Idle /\ s \notin Tried(m) /\ attempt[m][n] = NoAttempt
      /\ attempt' = [attempt EXCEPT ![m][n] = a] /\ dispatch' = [dispatch EXCEPT ![w] = d]
      /\ job' = job
  BY DEF Assign, Taken
<1>4. a.sim = s /\ d.msg = m /\ d.sim = s /\ d.no = n /\ d # Idle /\ s # NoSim
  BY ConstantsAssumption DEF Idle
<1>. HIDE DEF n, a, d
<1>5. \A x \in Msgs, k \in AttemptNos :
         attempt'[x][k] = IF x = m /\ k = n THEN a ELSE attempt[x][k]
  BY <1>1, <1>2, <1>3 DEF Attempts
<1>6. \A v \in Workers : dispatch'[v] = IF v = w THEN d ELSE dispatch[v]
  BY <1>1, <1>3
<1>7. \A k \in AttemptNos : attempt[m][k].sim # s
  BY <1>3, <1>4 DEF Tried
<1>8. attempt[m][n].sim = NoSim
  BY <1>3 DEF NoAttempt
<1>9. \A v \in Workers : dispatch[v] # Idle =>
         dispatch[v].msg \in Msgs /\ dispatch[v].no \in AttemptNos /\ dispatch[v].sim \in Sims
  BY <1>1 DEF HandOffs
<1>10. \A v \in Workers : dispatch[v] # Idle => dispatch[v].msg # m \/ dispatch[v].no # n
  BY <1>8, <1>9, ConstantsAssumption DEF Carriers, PendingHasRow
<1>11. OneRowPerSim'
  BY <1>4, <1>5, <1>7 DEF Carriers, OneRowPerSim
<1>12. PendingHasRow'
  BY <1>2, <1>4, <1>5, <1>6, <1>9, <1>10 DEF Carriers, PendingHasRow
<1>13. PendingAlone'
  BY <1>4, <1>6, <1>10 DEF Carriers, PendingAlone
<1>14. JobHasRow'
  <2> SUFFICES ASSUME NEW t \in Sims, NEW x \in Msgs, job[t][x] # "none"
               PROVE  \E k \in AttemptNos : attempt'[x][k].sim = t /\ ~Pending(x, k)'
    BY <1>3 DEF JobHasRow
  <2>1. PICK k \in AttemptNos : attempt[x][k].sim = t /\ ~Pending(x, k)
    BY DEF Carriers, JobHasRow
  <2>2. ~(x = m /\ k = n)
    BY <1>8, <2>1, ConstantsAssumption
  <2>3. attempt'[x][k].sim = t
    BY <1>5, <2>1, <2>2
  <2>4. ~Pending(x, k)'
    BY <1>4, <1>6, <2>1, <2>2 DEF Pending
  <2>. QED BY <2>3, <2>4
<1>. QED BY <1>11, <1>12, <1>13, <1>14 DEF Carriers

\* When a dispatcher is done with its hand-off, the others keep theirs.
LEMMA OthersPending ==
  ASSUME TypeInv, Carriers, NEW w \in Workers, NEW m, NEW n,
         dispatch[w] # Idle, dispatch[w].msg = m, dispatch[w].no = n,
         dispatch' = [dispatch EXCEPT ![w] = Idle]
  PROVE  /\ \A v \in Workers : dispatch'[v] = IF v = w THEN Idle ELSE dispatch[v]
         /\ PendingAlone'
         /\ ~Pending(m, n)'
         /\ \A x, k : Pending(x, k)' => Pending(x, k)
<1>1. \A v \in Workers : dispatch'[v] = IF v = w THEN Idle ELSE dispatch[v]
  BY DEF TypeInv, TypeOK
<1>2. PendingAlone'
  BY <1>1 DEF Carriers, PendingAlone
<1>3. ~Pending(m, n)'
  BY <1>1 DEF Carriers, PendingAlone, Pending
<1>4. \A x, k : Pending(x, k)' => Pending(x, k)
  BY <1>1 DEF Pending
<1>. QED BY <1>1, <1>2, <1>3, <1>4

\* Writing the frame gives the SIM the job its row stands for.
LEMMA HandOffCarriers ==
  ASSUME TypeInv, Carriers, NEW w \in Workers, HandOff(w)
  PROVE  Carriers'
<1>0. dispatch[w] # Idle
  BY DEF HandOff
<1>1. PICK m \in Msgs, n \in AttemptNos, s \in Sims :
         dispatch[w].msg = m /\ dispatch[w].no = n /\ dispatch[w].sim = s
  BY <1>0 DEF TypeInv, TypeOK, HandOffs
<1>2. /\ dispatch' = [dispatch EXCEPT ![w] = Idle] /\ attempt' = attempt
      /\ job' = [job EXCEPT ![s][m] = "held"]
  BY <1>1 DEF HandOff
<1>3. attempt[m][n].sim = s
  BY <1>0, <1>1 DEF Carriers, PendingHasRow
<1>4. /\ \A v \in Workers : dispatch'[v] = IF v = w THEN Idle ELSE dispatch[v]
      /\ PendingAlone' /\ ~Pending(m, n)'
      /\ \A x, k : Pending(x, k)' => Pending(x, k)
  BY <1>0, <1>1, <1>2, OthersPending
<1>5. OneRowPerSim' /\ PendingHasRow'
  BY <1>2, <1>4 DEF Carriers, OneRowPerSim, PendingHasRow
<1>6. JobHasRow'
  <2> SUFFICES ASSUME NEW t \in Sims, NEW x \in Msgs, job'[t][x] # "none"
               PROVE  \E k \in AttemptNos : attempt'[x][k].sim = t /\ ~Pending(x, k)'
    BY DEF JobHasRow
  <2>1. CASE t = s /\ x = m
    BY <1>2, <1>3, <1>4, <2>1
  <2>2. CASE ~(t = s /\ x = m)
    <3>1. job[t][x] # "none"
      BY <1>2, <2>2 DEF TypeInv, TypeOK
    <3>. QED BY <1>2, <1>4, <3>1 DEF Carriers, JobHasRow
  <2>. QED BY <2>1, <2>2
<1>. QED BY <1>4, <1>5, <1>6 DEF Carriers

\* The row that is deleted is the dispatcher's own: no job of a phone and no
\* other pending hand-off rests on it.
LEMMA RequeueCarriers ==
  ASSUME TypeInv, Carriers, NEW w \in Workers, RequeueUndelivered(w)
  PROVE  Carriers'
<1>0. dispatch[w] # Idle
  BY DEF RequeueUndelivered
<1>1. PICK m \in Msgs, n \in AttemptNos : dispatch[w].msg = m /\ dispatch[w].no = n
  BY <1>0 DEF TypeInv, TypeOK, HandOffs
<1>2. /\ dispatch' = [dispatch EXCEPT ![w] = Idle] /\ job' = job
      /\ attempt' = [attempt EXCEPT ![m][n] = NoAttempt]
      /\ attempt \in [Msgs -> Attempts] /\ dispatch \in [Workers -> HandOffs \union {Idle}]
  BY <1>1 DEF RequeueUndelivered, TypeInv, TypeOK, Attempts
<1>3. Pending(m, n)
  BY <1>0, <1>1 DEF Pending
<1>4. /\ \A v \in Workers : dispatch'[v] = IF v = w THEN Idle ELSE dispatch[v]
      /\ PendingAlone' /\ \A x, k : Pending(x, k)' => Pending(x, k)
  BY <1>0, <1>1, <1>2, OthersPending
<1>5. \A v \in Workers \ {w} : dispatch[v] # Idle =>
         /\ dispatch[v].msg # m \/ dispatch[v].no # n
         /\ dispatch[v].msg \in Msgs /\ dispatch[v].no \in AttemptNos
  BY <1>0, <1>1, <1>2 DEF Carriers, PendingAlone, HandOffs
<1>6. \A x \in Msgs, k \in AttemptNos :
         attempt'[x][k] = IF x = m /\ k = n THEN NoAttempt ELSE attempt[x][k]
  BY <1>2 DEF Attempts
<1>7. NoAttempt.sim = NoSim
  BY DEF NoAttempt
<1>8. OneRowPerSim'
  BY <1>6, <1>7 DEF Carriers, OneRowPerSim
<1>9. PendingHasRow'
  BY <1>4, <1>5, <1>6 DEF Carriers, PendingHasRow
<1>10. JobHasRow'
  <2> SUFFICES ASSUME NEW t \in Sims, NEW x \in Msgs, job[t][x] # "none"
               PROVE  \E k \in AttemptNos : attempt'[x][k].sim = t /\ ~Pending(x, k)'
    BY <1>2 DEF JobHasRow
  <2>1. PICK k \in AttemptNos : attempt[x][k].sim = t /\ ~Pending(x, k)
    BY DEF Carriers, JobHasRow
  <2>. QED BY <1>3, <1>4, <1>6, <2>1
<1>. QED BY <1>4, <1>8, <1>9, <1>10 DEF Carriers

\* A crash forgets the hand-offs, never the rows.
LEMMA RestartCarriers ==
  ASSUME TypeInv, Carriers, Restart PROVE Carriers'
<1>1. \A w \in Workers : dispatch'[w] = Idle
  BY DEF Restart
<1>2. attempt' = attempt /\ job' = job
  BY DEF Restart
<1>3. \A m, n : ~Pending(m, n)'
  BY <1>1 DEF Pending
<1>4. JobHasRow'
  BY <1>2, <1>3 DEF Carriers, JobHasRow
<1>. QED BY <1>1, <1>2, <1>4 DEF Carriers, OneRowPerSim, PendingHasRow, PendingAlone

-----------------------------------------------------------------------------
(* All the others. *)

\* Steps that leave sms_attempts alone.
LEMMA UnchangedSims == ASSUME UNCHANGED attempt PROVE SameSims
BY DEF SameSims

\* Reports close and reopen attempts without giving any to another SIM.
LEMMA ReportCarriers ==
  ASSUME TypeInv, Carriers, NEW m \in Msgs, NEW g \in Gateways, Report(g, m)
  PROVE  Carriers'
<1>1. UNCHANGED <<job, dispatch>>
  BY DEF Report, Acknowledge, RecordSent, RecordDelivered, RecordUndelivered, RecordFailure,
         serverVars
<1>2. ASSUME Acknowledge(g, m) PROVE SameSims
  <2>1. PICK n \in AttemptNos : OneStatusSet(m, n, "sending")
    BY <1>2 DEF Acknowledge, OneStatusSet
  <2>. QED BY <2>1, OneStatusSims
<1>3. ASSUME RecordSent(g, m) \/ RecordDelivered(g, m) \/ RecordUndelivered(g, m)
      PROVE  SameSims
  <2>1. PICK n \in AttemptNos : AllOnceSent(m, n)
    BY <1>3 DEF AllOnceSent, RecordSent, RecordDelivered, RecordUndelivered
  <2>. QED BY <2>1, OnceSentSims
<1>4. ASSUME NEW code \in {"transient", "permanent"}, RecordFailure(g, m, code) PROVE SameSims
  <2>1. \/ CloseCurrent(m, "failed")
        \/ \E n \in AttemptNos : OneStatusSet(m, n, "failed")
    BY <1>4 DEF RecordFailure, OneStatusSet
  <2>2. CASE CloseCurrent(m, "failed")
    BY <2>2, CloseCurrentSims
  <2>. QED BY <2>1, <2>2, OneStatusSims
<1>5. SameSims
  BY <1>2, <1>3, <1>4 DEF Report
<1>. QED BY <1>1, <1>5, CarriersKept

\* Neither do the sweeps.
LEMMA SweepCarriers ==
  ASSUME TypeInv, Carriers,
         SelectLeases \/ SelectDeadlines \/ \E m \in Msgs : ReclaimLease(m) \/ ExpireMessage(m)
  PROVE  Carriers'
<1>1. UNCHANGED <<job, dispatch>>
  BY DEF SelectLeases, SelectDeadlines, ReclaimLease, ExpireMessage
<1>2. SameSims
  BY CloseCurrentSims, UnchangedSims
     DEF SelectLeases, SelectDeadlines, ReclaimLease, ExpireMessage
<1>. QED BY <1>1, <1>2, CarriersKept

\* A phone moves on only with a job it has.
LEMMA WorldCarriers ==
  ASSUME TypeInv, Carriers,
         \/ \E m \in Msgs : LeaseElapses(m) \/ DeadlinePasses(m)
         \/ \E m \in Msgs, s \in Sims : PhoneStep(s, m)
         \/ \E m \in Msgs, e \in Subscribed : WebhookJobEnds(m, e)
  PROVE  Carriers'
<1>1. UNCHANGED <<attempt, dispatch>>
  BY DEF LeaseElapses, DeadlinePasses, PhoneStep, WebhookJobEnds, serverVars
<1>2. CASE job' = job
  BY <1>1, <1>2, UnchangedSims, CarriersKept
<1>3. ASSUME NEW m \in Msgs, NEW s \in Sims, PhoneStep(s, m) PROVE Carriers'
  <2>1. job[s][m] # "none" /\ \E x : job' = [job EXCEPT ![s][m] = x]
    BY <1>3 DEF PhoneStep
  <2>2. \A t \in Sims, y \in Msgs : job'[t][y] # "none" => job[t][y] # "none"
    BY <2>1 DEF TypeInv, TypeOK
  <2>. QED BY <1>1, <2>2, UnchangedSims, CarriersKept
<1>. QED BY <1>2, <1>3 DEF LeaseElapses, DeadlinePasses, WebhookJobEnds

\* No step gives a SIM a second row for a message.
LEMMA StepCarriers == TypeInv /\ Carriers /\ [Next]_vars => Carriers'
<1> SUFFICES ASSUME TypeInv, Carriers, [Next]_vars PROVE Carriers'
  OBVIOUS
<1>1. CASE UNCHANGED <<attempt, job, dispatch>>
  BY <1>1, UnchangedSims, CarriersKept
<1>2. ASSUME NEW m \in Msgs, Send(m) \/ CancelRead(m) \/ CancelSave(m) PROVE Carriers'
  BY <1>1, <1>2 DEF Send, CancelRead, CancelSave, serverVars
<1>3. ASSUME NEW m \in Msgs, NEW w \in Workers,
             DispatchExpired(w, m) \/ DispatchUndeliverable(w, m) \/ DispatchDefer(w, m)
      PROVE  Carriers'
  BY <1>1, <1>3 DEF DispatchExpired, DispatchUndeliverable, DispatchDefer, serverVars
<1>4. ASSUME NEW m \in Msgs, Dispatch(m) PROVE Carriers'
  BY <1>3, <1>4, AssignCarriers DEF Dispatch
<1>5. ASSUME NEW w \in Workers, HandOff(w) \/ RequeueUndelivered(w) PROVE Carriers'
  BY <1>5, HandOffCarriers, RequeueCarriers
<1>6. CASE UNCHANGED vars
  BY <1>1, <1>6 DEF vars
<1>. QED BY <1>2, <1>3, <1>4, <1>5, <1>6, ReportCarriers, SweepCarriers, WorldCarriers,
            RestartCarriers DEF Next

\* Hence the inductive invariant holds throughout.
LEMMA CarriersAlways == Spec => [](TypeInv /\ Carriers)
<1>1. Init => Carriers
  BY DEF Init, Carriers, OneRowPerSim, PendingHasRow, PendingAlone, JobHasRow, NoAttempt
<1>. QED BY <1>1, StepCarriers, TypeInvAlways, PTL DEF Spec

-----------------------------------------------------------------------------

\* A dispatcher about to write a job to a socket writes it to a SIM that has
\* never had it: no SIM is handed the same message twice.
THEOREM AlwaysOneHandOffPerSim == Spec => []OneHandOffPerSim
<1>1. TypeInv /\ Carriers => OneHandOffPerSim
  <2> SUFFICES ASSUME TypeInv, Carriers, NEW w \in Workers, dispatch[w] # Idle,
                      job[dispatch[w].sim][dispatch[w].msg] # "none"
               PROVE  FALSE
    BY DEF OneHandOffPerSim
  <2>1. /\ dispatch[w].msg \in Msgs /\ dispatch[w].no \in AttemptNos
        /\ dispatch[w].sim \in Sims
    BY DEF TypeInv, TypeOK, HandOffs
  <2>2. PICK n \in AttemptNos : /\ attempt[dispatch[w].msg][n].sim = dispatch[w].sim
                                /\ ~Pending(dispatch[w].msg, n)
    BY <2>1 DEF Carriers, JobHasRow
  <2>3. attempt[dispatch[w].msg][dispatch[w].no].sim = dispatch[w].sim
    BY DEF Carriers, PendingHasRow
  <2>4. n = dispatch[w].no
    BY <2>1, <2>2, <2>3, ConstantsAssumption DEF Carriers, OneRowPerSim
  <2>. QED BY <2>2, <2>4 DEF Pending
<1>. QED BY <1>1, CarriersAlways, PTL

\* Rows of sms_attempts bound the copies of a message on the air.
LEMMA CopiesHaveRows ==
  ASSUME TypeInv, Carriers, NEW m \in Msgs
  PROVE  Cardinality({s \in Sims : job[s][m] \in OnTheAir}) <= MaxAttempts
<1> DEFINE used == {attempt[m][n].sim : n \in AttemptNos}
           copies == {s \in Sims : job[s][m] \in OnTheAir}
           f == [n \in AttemptNos |-> attempt[m][n].sim]
<1>1. f \in Surjection(AttemptNos, used)
  BY DEF Surjection
<1>2. IsFiniteSet(AttemptNos) /\ Cardinality(AttemptNos) = MaxAttempts
  <2>1. MaxAttempts \in Int /\ 1 \in Int /\ MaxAttempts >= 1
    BY ConstantsAssumption
  <2>. QED BY <2>1, FS_Interval DEF AttemptNos
<1>3. IsFiniteSet(used) /\ Cardinality(used) <= MaxAttempts
  <2>. HIDE DEF f, used
  <2>. QED BY <1>1, <1>2, FS_Surjection
<1>4. copies \subseteq used
  BY DEF Carriers, JobHasRow, OnTheAir
<1>5. Cardinality(copies) <= Cardinality(used) /\ Cardinality(copies) \in Nat
  <2>. HIDE DEF copies, used
  <2>. QED BY <1>3, <1>4, FS_Subset, FS_CardinalityType
<1>6. Cardinality(used) \in Nat
  BY <1>3, FS_CardinalityType
<1>. QED BY <1>3, <1>5, <1>6, ConstantsAssumption

\* No more than max_attempts radios ever send a message.
THEOREM AlwaysCopiesWithinBudget == Spec => []CopiesWithinBudget
<1>1. TypeInv /\ Carriers => CopiesWithinBudget
  BY CopiesHaveRows DEF CopiesWithinBudget
<1>. QED BY <1>1, CarriersAlways, PTL


-----------------------------------------------------------------------------
(* Who times an attempt out. *)

\* A step that times no attempt out.
NoneTimedOut ==
    \A m \in Msgs, n \in AttemptNos :
        attempt'[m][n] = attempt[m][n] \/ attempt'[m][n].status # "timed_out"

\* A row that takes another status than timed_out.
LEMMA OneStatusTimesNone ==
  ASSUME TypeInv, NEW m \in Msgs, NEW n \in AttemptNos, NEW status \in {"sending", "failed"},
         attempt[m][n] # NoAttempt, OneStatusSet(m, n, status)
  PROVE  NoneTimedOut
<1>1. attempt \in [Msgs -> Attempts]
  BY DEF TypeInv, TypeOK, Attempts
<1>2. attempt[m][n] \in SmsAttempt
  BY <1>1 DEF Attempts
<1>3. /\ attempt'[m][n] = [attempt[m][n] EXCEPT !.status = status]
      /\ \A x \in Msgs, k \in AttemptNos : x # m \/ k # n => attempt'[x][k] = attempt[x][k]
  BY <1>1 DEF Attempts, OneStatusSet
<1>4. attempt'[m][n].status = status
  BY <1>2, <1>3 DEF SmsAttempt
<1>. QED BY <1>3, <1>4 DEF NoneTimedOut

LEMMA OnceSentTimesNone ==
  ASSUME TypeInv, NEW m \in Msgs, NEW n \in AttemptNos, attempt[m][n] # NoAttempt,
         AllOnceSent(m, n)
  PROVE  NoneTimedOut
<1>1. attempt \in [Msgs -> Attempts]
  BY DEF TypeInv, TypeOK, Attempts
<1>2. /\ \A x \in Msgs \ {m} : attempt'[x] = attempt[x]
      /\ attempt'[m] = AttemptsOnceSent(m, n)
  BY <1>1 DEF AllOnceSent
<1>3. ASSUME NEW k \in AttemptNos, attempt'[m][k] # attempt[m][k]
      PROVE  attempt'[m][k].status # "timed_out"
  <2>1. attempt[m][k] # NoAttempt
    BY <1>2, <1>3 DEF AttemptsOnceSent
  <2>2. attempt[m][k] \in SmsAttempt
    BY <1>1, <2>1 DEF Attempts
  <2>3. \/ attempt'[m][k] = [attempt[m][k] EXCEPT !.status = "sent"]
        \/ attempt'[m][k] = [attempt[m][k] EXCEPT !.status = "failed"]
    BY <1>2, <1>3 DEF AttemptsOnceSent
  <2>. QED BY <2>2, <2>3 DEF SmsAttempt
<1>. QED BY <1>2, <1>3 DEF NoneTimedOut

\* What a phone reports times no attempt out.
LEMMA ReportTimesNone ==
  ASSUME TypeInv, NEW m \in Msgs, NEW g \in Gateways, Report(g, m) PROVE NoneTimedOut
<1>1. ASSUME Acknowledge(g, m) PROVE NoneTimedOut
  <2>1. PICK n \in AttemptNos : attempt[m][n] # NoAttempt /\ OneStatusSet(m, n, "sending")
    BY <1>1 DEF Acknowledge, OneStatusSet, Owns, HeldBy
  <2>. QED BY <2>1, OneStatusTimesNone
<1>2. ASSUME RecordSent(g, m) \/ RecordDelivered(g, m) \/ RecordUndelivered(g, m)
      PROVE  NoneTimedOut
  <2>1. PICK n \in AttemptNos : attempt[m][n] # NoAttempt /\ AllOnceSent(m, n)
    BY <1>2 DEF RecordSent, RecordDelivered, RecordUndelivered, AllOnceSent, Owns, HeldBy
  <2>. QED BY <2>1, OnceSentTimesNone
<1>3. ASSUME NEW code \in {"transient", "permanent"}, RecordFailure(g, m, code)
      PROVE  NoneTimedOut
  <2>1. PICK n \in AttemptNos :
           /\ attempt[m][n] # NoAttempt
           /\ CloseCurrent(m, "failed") \/ OneStatusSet(m, n, "failed")
    BY <1>3 DEF RecordFailure, OneStatusSet, Owns, HeldBy
  <2>2. CASE CloseCurrent(m, "failed")
    BY <2>2, ClosedAttempts DEF NoneTimedOut
  <2>. QED BY <2>1, <2>2, OneStatusTimesNone
<1>. QED BY <1>1, <1>2, <1>3 DEF Report

\* A dispatcher opens attempts and undoes them.
LEMMA DispatcherTimesNone ==
  ASSUME TypeInv, NEW w \in Workers,
         RequeueUndelivered(w) \/ \E m \in Msgs, s \in Sims : Assign(w, m, s)
  PROVE  NoneTimedOut
<1>1. attempt \in [Msgs -> Attempts]
  BY DEF TypeInv, TypeOK, Attempts
<1>2. ASSUME NEW x, NEW k, NEW a, a.status # "timed_out",
             attempt' = [attempt EXCEPT ![x][k] = a]
      PROVE  NoneTimedOut
  BY <1>1, <1>2 DEF Attempts, NoneTimedOut
<1>3. CASE RequeueUndelivered(w)
  <2>1. attempt' = [attempt EXCEPT ![dispatch[w].msg][dispatch[w].no] = NoAttempt]
    BY <1>3 DEF RequeueUndelivered
  <2>2. NoAttempt.status # "timed_out"
    BY DEF NoAttempt
  <2>. QED BY <1>2, <2>1, <2>2
<1>4. ASSUME NEW m \in Msgs, NEW s \in Sims, Assign(w, m, s) PROVE NoneTimedOut
  <2> DEFINE a == [sim |-> s, status |-> "assigned"]
             k == msg[m].attempts + 1
  <2>1. attempt' = [attempt EXCEPT ![m][k] = a] /\ a.status # "timed_out"
    BY <1>4 DEF Assign
  <2>. HIDE DEF a, k
  <2>. QED BY <1>2, <2>1
<1>. QED BY <1>3, <1>4

\* An attempt is timed out only by a lease that has elapsed at that moment,
\* and only if it is the one the message names: an acknowledgement that comes
\* between the sweep's selection and its lock saves the attempt.
THEOREM LeasesAreRespected == Spec => LeaseRespected
<1> DEFINE Respected ==
        \A m \in Msgs, n \in AttemptNos :
           attempt[m][n].status # "timed_out" /\ attempt'[m][n].status = "timed_out" =>
              msg[m].lease = "elapsed" /\ n = msg[m].attempts
<1>1. ASSUME TypeInv, [Next]_vars PROVE Respected
  <2>1. CASE NoneTimedOut
    BY <2>1 DEF NoneTimedOut
  <2>2. CASE attempt' = attempt
    BY <2>2
  <2>3. ASSUME NEW m \in Msgs, ReclaimLease(m) PROVE Respected
    <3>1. CASE Reclaimable(msg[m]) /\ CloseCurrent(m, "timed_out")
      <4>1. /\ \A x \in Msgs \ {m} : attempt'[x] = attempt[x]
            /\ \A n \in AttemptNos : attempt'[m][n] = attempt[m][n] \/ n = msg[m].attempts
        BY <1>1, <3>1, ClosedAttempts
      <4>2. msg[m].lease = "elapsed"
        BY <3>1 DEF Reclaimable
      <4>. QED BY <4>1, <4>2
    <3>. QED BY <2>2, <2>3, <3>1 DEF ReclaimLease
  <2>. HIDE DEF Respected
  <2>4. ASSUME NEW m \in Msgs, NEW g \in Gateways, Report(g, m) PROVE Respected
    BY <1>1, <2>1, <2>4, ReportTimesNone
  <2>5. ASSUME NEW w \in Workers,
               RequeueUndelivered(w) \/ \E m \in Msgs, s \in Sims : Assign(w, m, s)
        PROVE  Respected
    BY <1>1, <2>1, <2>5, DispatcherTimesNone
  <2>6. ASSUME NEW m \in Msgs,
               \/ Send(m) \/ CancelRead(m) \/ CancelSave(m) \/ ExpireMessage(m)
               \/ LeaseElapses(m) \/ DeadlinePasses(m)
        PROVE  Respected
    BY <2>2, <2>6 DEF Send, CancelRead, CancelSave, ExpireMessage, LeaseElapses, DeadlinePasses
  <2>7. ASSUME NEW m \in Msgs, NEW w \in Workers,
               \/ DispatchExpired(w, m) \/ DispatchUndeliverable(w, m) \/ DispatchDefer(w, m)
               \/ HandOff(w)
        PROVE  Respected
    BY <2>2, <2>7 DEF DispatchExpired, DispatchUndeliverable, DispatchDefer, HandOff
  <2>8. ASSUME NEW w \in Workers, HandOff(w) PROVE Respected
    BY <2>2, <2>8 DEF HandOff
  <2>9. ASSUME NEW m \in Msgs, \/ \E s \in Sims : PhoneStep(s, m)
                               \/ \E e \in Subscribed : WebhookJobEnds(m, e)
        PROVE  Respected
    BY <2>2, <2>9 DEF PhoneStep, WebhookJobEnds
  <2>10. CASE SelectLeases \/ SelectDeadlines \/ Restart
    BY <2>2, <2>10 DEF SelectLeases, SelectDeadlines, Restart
  <2>11. CASE UNCHANGED vars
    BY <2>2, <2>11 DEF vars
  <2>12. ASSUME NEW m \in Msgs, Dispatch(m) PROVE Respected
    BY <2>5, <2>7, <2>12 DEF Dispatch
  <2>. QED BY <1>1, <2>3, <2>4, <2>5, <2>6, <2>7, <2>8, <2>9, <2>10, <2>11, <2>12 DEF Next
<1>2. TypeInv /\ [Next]_vars => [Respected]_vars
  BY <1>1
<1>. QED BY <1>2, TypeInvAlways, PTL DEF Spec, LeaseRespected
=============================================================================
