---------------------------- MODULE SmsLifecycle ----------------------------
(***************************************************************************)
(* The life of a message between the tenant that sends it and the phones   *)
(* that carry it: rows of sms_messages and sms_attempts, moved by the      *)
(* dispatcher, by what devices report, by the two sweeps and by the        *)
(* tenant's cancel.                                                        *)
(*                                                                         *)
(* A database transaction is one step.  What the code reads outside the    *)
(* transaction that later writes is a step of its own: the cancel request  *)
(* reads the row, then saves it; a sweep selects ids, then locks them one  *)
(* by one; a dispatcher commits the assignment, then writes to the socket, *)
(* and undoes the assignment from the copy it still has in memory.         *)
(*                                                                         *)
(* Time appears only as a lease that is running or has elapsed and a       *)
(* deadline that is ahead or has passed.  Retry delays are left out: a     *)
(* queued message may be picked at any moment.                             *)
(***************************************************************************)
EXTENDS Integers, FiniteSets

CONSTANTS
    Msgs,            \* messages of one tenant
    Sims,            \* SIM profiles
    Gateways,        \* phones
    GatewayOf,       \* the phone each SIM is in
    Recipients,      \* normalised phone numbers
    RecipientOf,     \* the number each message goes to
    RecipientLimit,  \* distinct recipients a SIM may take in a day
    MaxAttempts,     \* sms_messages.max_attempts
    Workers,         \* concurrent dispatchers
    Subscribed,      \* events the tenant's webhook endpoint receives
    Cancels,         \* messages whose tenant asks to cancel
    Deadlined,       \* messages sent with expiresIn
    Faults,          \* which of "restart" and "socket_gone" can happen
    MaxFaults,       \* bound on how often they happen
    NoSim, NoMsg     \* null

AttemptNos == 1 .. MaxAttempts
Events == {"sent", "delivered", "failed", "expired", "cancelled"}

ASSUME ConstantsAssumption ==
    /\ GatewayOf \in [Sims -> Gateways]
    /\ RecipientOf \in [Msgs -> Recipients]
    /\ RecipientLimit \in Nat
    /\ MaxAttempts \in Nat \ {0}
    /\ MaxFaults \in Nat
    /\ Subscribed \subseteq Events
    /\ Cancels \subseteq Msgs
    /\ Deadlined \subseteq Msgs
    /\ NoSim \notin Sims
    /\ NoMsg \notin Msgs

VARIABLES
    msg,            \* sms_messages
    attempt,        \* sms_attempts, by message and attempt_no
    ledger,         \* sim_daily_recipients.messages_sent, by SIM and number
    event,          \* the webhook job of each event of a message
    job,            \* what a phone has done with a message on one of its SIMs
    dispatch,       \* the assignment a dispatcher committed and still has to hand off
    cancelling,     \* cancel requests that have read a cancellable row
    leaseSweep,     \* ids the lease sweep selected and has not locked yet
    deadlineSweep,  \* ids the deadline sweep selected and has not locked yet
    faults          \* restarts and lost sockets so far

vars == <<msg, attempt, ledger, event, job, dispatch, cancelling, leaseSweep,
          deadlineSweep, faults>>
serverVars == <<dispatch, cancelling, leaseSweep, deadlineSweep, faults>>

-----------------------------------------------------------------------------
(* Rows. *)

InFlight == {"assigned", "sending"}
Terminal == {"delivered", "failed", "cancelled", "expired"}
Cancellable == {"queued", "assigned"}
SmsStatus == {"absent", "queued", "sent"} \union InFlight \union Terminal

\* Error codes, as far as the code or a property tells them apart.
ErrorCodes == {"none", "waiting", "transient", "permanent", "exhausted",
               "delivery_failed", "body_unavailable", "expired", "cancelled"}

SmsMessage == [status : SmsStatus, sim : Sims \union {NoSim}, attempts : 0 .. MaxAttempts,
               lease : {"none", "running", "elapsed"},
               deadline : {"none", "ahead", "passed"},
               body : BOOLEAN, error : ErrorCodes]

NoMessage == [status |-> "absent", sim |-> NoSim, attempts |-> 0, lease |-> "none",
              deadline |-> "none", body |-> FALSE, error |-> "none"]

SmsAttempt == [sim : Sims, status : {"assigned", "sending", "sent", "failed", "timed_out"}]
NoAttempt == [sim |-> NoSim, status |-> "none"]

NoRow == -1   \* no ledger row for this number on this SIM today

Idle == [msg |-> NoMsg, sim |-> NoSim, no |-> 0]
HandOffs == [msg : Msgs, sim : Sims, no : AttemptNos]

\* What the radio has done: a job the phone holds is sent or fails, and the
\* operator may report on a sent one.
JobStates == {"none", "held", "sent", "failed", "delivered", "undelivered"}
OnTheAir == {"sent", "delivered", "undelivered"}

TypeOK ==
    /\ msg \in [Msgs -> SmsMessage]
    /\ attempt \in [Msgs -> [AttemptNos -> SmsAttempt \union {NoAttempt}]]
    /\ ledger \in [Sims -> [Recipients -> Nat \union {NoRow}]]
    /\ event \in [Msgs -> [Subscribed -> {"none", "pending", "done"}]]
    /\ job \in [Sims -> [Msgs -> JobStates]]
    /\ dispatch \in [Workers -> HandOffs \union {Idle}]
    /\ cancelling \subseteq Msgs
    /\ leaseSweep \subseteq Msgs
    /\ deadlineSweep \subseteq Msgs
    /\ faults \in Nat

Init ==
    /\ msg = [m \in Msgs |-> NoMessage]
    /\ attempt = [m \in Msgs |-> [n \in AttemptNos |-> NoAttempt]]
    /\ ledger = [s \in Sims |-> [r \in Recipients |-> NoRow]]
    /\ event = [m \in Msgs |-> [e \in Subscribed |-> "none"]]
    /\ job = [s \in Sims |-> [m \in Msgs |-> "none"]]
    /\ dispatch = [w \in Workers |-> Idle]
    /\ cancelling = {}
    /\ leaseSweep = {}
    /\ deadlineSweep = {}
    /\ faults = 0

-----------------------------------------------------------------------------
(* The recipient allowance, as the handlers below call it. *)

SlotsUsed(s) == Cardinality({r \in Recipients : ledger[s][r] # NoRow})

\* RecipientAllowance.claim does not answer 'full'.
CanClaim(s, r) == ledger[s][r] # NoRow \/ SlotsUsed(s) < RecipientLimit

Claimed(s, r) == [ledger EXCEPT ![s][r] = IF @ = NoRow THEN 0 ELSE @]

\* Mutant: the count of the row is taken back, whatever it is.
ReleasedBlindly(s, m) == [ledger EXCEPT ![s][RecipientOf[m]] = @ - 1]

\* Mutant: a settled message that names the SIM counts as holding the slot.
ReleasedUnlessNamed(s, m) ==
    LET shared == \E x \in Msgs \ {m} : msg[x].sim = s /\ RecipientOf[x] = RecipientOf[m]
    IN  IF ledger[s][RecipientOf[m]] = 0 /\ ~shared
        THEN [ledger EXCEPT ![s][RecipientOf[m]] = NoRow] ELSE ledger

\* The slot goes back unless something was sent through it or another message
\* to the number is in flight on the SIM.
Released(s, m) ==
    LET r == RecipientOf[m]
        shared == \E x \in Msgs \ {m} : /\ msg[x].sim = s
                                        /\ RecipientOf[x] = r
                                        /\ msg[x].status \in InFlight
    IN  IF ledger[s][r] = 0 /\ ~shared THEN [ledger EXCEPT ![s][r] = NoRow] ELSE ledger

CountSend(led, s, m) ==
    [led EXCEPT ![s][RecipientOf[m]] = IF @ = NoRow THEN 1 ELSE @ + 1]

-----------------------------------------------------------------------------
(* Webhook jobs.  The dedupe key of a message, event and endpoint is unique *)
(* among the jobs that wait.  Inside a transaction a second insert aborts   *)
(* everything the transaction did, although the error itself is swallowed:  *)
(* such a step changes nothing, so Publish simply does not take place.      *)

Collides(m, e) == e \in Subscribed /\ event[m][e] = "pending"

Publish(m, es) ==
    /\ \A e \in es : ~Collides(m, e)
    /\ event' = [event EXCEPT ![m] = [e \in Subscribed |-> IF e \in es THEN "pending" ELSE @[e]]]

\* The same outside a transaction: the second insert alone is refused.
PublishAlone(m, e) ==
    event' = [event EXCEPT ![m] = [x \in Subscribed |-> IF x = e THEN "pending" ELSE @[x]]]

\* The job is delivered or given up; either way its key is free again.
WebhookJobEnds(m, e) ==
    /\ event[m][e] = "pending"
    /\ event' = [event EXCEPT ![m][e] = "done"]
    /\ UNCHANGED <<msg, attempt, ledger, job, serverVars>>

-----------------------------------------------------------------------------
(* The tenant. *)

Send(m) ==
    /\ msg[m].status = "absent"
    /\ msg' = [msg EXCEPT ![m] =
                 [@ EXCEPT !.status = "queued", !.body = TRUE,
                           !.deadline = IF m \in Deadlined THEN "ahead" ELSE "none"]]
    /\ UNCHANGED <<attempt, ledger, event, job, serverVars>>

\* cancel() reads the row and refuses one that is no longer cancellable ...
CancelRead(m) ==
    /\ m \in Cancels \ cancelling
    /\ msg[m].status \in Cancellable
    /\ cancelling' = cancelling \union {m}
    /\ UNCHANGED <<msg, attempt, ledger, event, job, dispatch, leaseSweep, deadlineSweep, faults>>

\* ... and saves the columns it changed, whatever the row has become.
CancelSave(m) ==
    /\ m \in cancelling
    /\ cancelling' = cancelling \ {m}
    /\ msg' = [msg EXCEPT ![m] = [@ EXCEPT !.status = "cancelled", !.error = "cancelled"]]
    /\ PublishAlone(m, "cancelled")
    /\ UNCHANGED <<attempt, ledger, job, dispatch, leaseSweep, deadlineSweep, faults>>

-----------------------------------------------------------------------------
(* The dispatcher. *)

\* The row dispatchOne takes: queued, and locked by nobody else.
Taken(w, m) == dispatch[w] = Idle /\ msg[m].status = "queued"
\* Mutant: the dispatcher does not look at the body.
SendableUnread(m) == msg[m].deadline # "passed"

Sendable(m) == msg[m].deadline # "passed" /\ msg[m].body

DispatchExpired(w, m) ==
    /\ Taken(w, m)
    /\ msg[m].deadline = "passed"
    /\ msg' = [msg EXCEPT ![m] = [@ EXCEPT !.status = "expired", !.error = "expired"]]
    /\ UNCHANGED <<attempt, ledger, event, job, serverVars>>

DispatchUndeliverable(w, m) ==
    /\ Taken(w, m)
    /\ msg[m].deadline # "passed"
    /\ ~msg[m].body
    /\ msg' = [msg EXCEPT ![m] = [@ EXCEPT !.status = "failed", !.error = "body_unavailable"]]
    /\ UNCHANGED <<attempt, ledger, event, job, serverVars>>

\* No route now: for lack of a device or of allowance ("waiting"), or because
\* the right SIM is busy, which clears an older waiting reason.
DispatchDefer(w, m) ==
    /\ Taken(w, m)
    /\ Sendable(m)
    /\ \E error \in {"waiting", IF msg[m].error = "waiting" THEN "none" ELSE msg[m].error} :
          msg' = [msg EXCEPT ![m].error = error]
    /\ UNCHANGED <<attempt, ledger, event, job, serverVars>>

\* Mutant: only SIMs that answered with a failure are excluded.
TriedAndFailed(m) ==
    {attempt[m][n].sim : n \in {k \in AttemptNos : attempt[m][k].status = "failed"}}

\* The SIMs pickRoute excludes: every one with an attempt at this message.
Tried(m) == {attempt[m][n].sim : n \in AttemptNos} \ {NoSim}

\* Which of the other SIMs is online, free and preferred is left open.  A
\* second row with the same attempt number violates a unique index and rolls
\* the assignment back.
Assign(w, m, s) ==
    LET n == msg[m].attempts + 1
    IN  /\ Taken(w, m)
        /\ Sendable(m)
        /\ s \notin Tried(m)
        /\ CanClaim(s, RecipientOf[m])
        /\ attempt[m][n] = NoAttempt
        /\ ledger' = Claimed(s, RecipientOf[m])
        /\ msg' = [msg EXCEPT ![m] = [@ EXCEPT !.status = "assigned", !.sim = s, !.attempts = n,
                                               !.lease = "running", !.error = "none"]]
        /\ attempt' = [attempt EXCEPT ![m][n] = [sim |-> s, status |-> "assigned"]]
        /\ dispatch' = [dispatch EXCEPT ![w] = [msg |-> m, sim |-> s, no |-> n]]
        /\ UNCHANGED <<event, job, cancelling, leaseSweep, deadlineSweep, faults>>

\* After the commit: the frame is written to the phone's socket ...
HandOff(w) ==
    /\ dispatch[w] # Idle
    /\ job' = [job EXCEPT ![dispatch[w].sim][dispatch[w].msg] = "held"]
    /\ dispatch' = [dispatch EXCEPT ![w] = Idle]
    /\ UNCHANGED <<msg, attempt, ledger, event, cancelling, leaseSweep, deadlineSweep, faults>>

\* Mutant: the assignment is undone although the frame was written.
RequeueDelivered(w) ==
    LET m == dispatch[w].msg
        n == dispatch[w].no
    IN  /\ dispatch[w] # Idle
        /\ "socket_gone" \in Faults
        /\ faults < MaxFaults
        /\ faults' = faults + 1
        /\ ledger' = Released(dispatch[w].sim, m)
        /\ msg' = [msg EXCEPT ![m] = [@ EXCEPT !.status = "queued", !.sim = NoSim,
                                               !.lease = "none", !.attempts = n - 1]]
        /\ attempt' = [attempt EXCEPT ![m][n] = NoAttempt]
        /\ dispatch' = [dispatch EXCEPT ![w] = Idle]
        /\ job' = [job EXCEPT ![dispatch[w].sim][m] = "held"]
        /\ UNCHANGED <<event, cancelling, leaseSweep, deadlineSweep>>

\* ... or the socket is gone, and the assignment is undone from the copy of
\* the row the dispatcher committed, without looking at the row again.
RequeueUndelivered(w) ==
    LET m == dispatch[w].msg
        n == dispatch[w].no
    IN  /\ dispatch[w] # Idle
        /\ "socket_gone" \in Faults
        /\ faults < MaxFaults
        /\ faults' = faults + 1
        /\ ledger' = Released(dispatch[w].sim, m)
        /\ msg' = [msg EXCEPT ![m] = [@ EXCEPT !.status = "queued", !.sim = NoSim,
                                               !.lease = "none", !.attempts = n - 1]]
        /\ attempt' = [attempt EXCEPT ![m][n] = NoAttempt]
        /\ dispatch' = [dispatch EXCEPT ![w] = Idle]
        /\ UNCHANGED <<event, job, cancelling, leaseSweep, deadlineSweep>>

-----------------------------------------------------------------------------
(* What a device reports.  A report names the job and comes from a phone:   *)
(* which of its attempts, and which of its SIMs, it is about is decided by  *)
(* lockOwnedMessage.                                                        *)

HeldBy(m, n, g) == attempt[m][n] # NoAttempt /\ GatewayOf[attempt[m][n].sim] = g

\* The latest attempt of this phone at the message.
Owns(m, n, g) ==
    /\ HeldBy(m, n, g)
    /\ \A k \in AttemptNos : k > n => ~HeldBy(m, k, g)

\* Mutants: an attempt is taken for the current one by less than its number,
\* its SIM and the status of the message.
CurrentByStatus(m, n) == msg[m].status \in InFlight
CurrentByNumber(m, n) == n = msg[m].attempts
CurrentBySim(m, n) == n = msg[m].attempts /\ msg[m].sim = attempt[m][n].sim

IsCurrent(m, n) ==
    /\ n = msg[m].attempts
    /\ msg[m].sim = attempt[m][n].sim
    /\ msg[m].status \in InFlight

Reports(g, m, states) == \E s \in Sims : GatewayOf[s] = g /\ job[s][m] \in states

Acknowledge(g, m) ==
    /\ Reports(g, m, JobStates \ {"none"})
    /\ \E n \in AttemptNos :
          /\ Owns(m, n, g)
          /\ IsCurrent(m, n)
          /\ msg[m].status = "assigned"
          /\ msg' = [msg EXCEPT ![m] = [@ EXCEPT !.status = "sending", !.lease = "running"]]
          /\ attempt' = [attempt EXCEPT ![m][n].status = "sending"]
    /\ UNCHANGED <<ledger, event, job, serverVars>>

\* Mutant: a reported non-delivery does not count as sent.
WasSentOrDelivered(row) == row.status \in {"sent", "delivered"}

\* The network took the message, even if it was not delivered in the end.
WasSent(row) ==
    \/ row.status \in {"sent", "delivered"}
    \/ row.status = "failed" /\ row.error = "delivery_failed"

\* The report is about an earlier attempt while a newer one holds the message:
\* the newer one is called off (SMS_CANCEL, which a phone may see too late).
Supersedes(m, n) == msg[m].status \in InFlight /\ ~IsCurrent(m, n) /\ n # msg[m].attempts

\* ensureSent, one effect at a time: on the row, the attempts, the ledger (the
\* SIM's daily message count moves with it) and the events.
RowOnceSent(m, n) ==
    IF WasSent(msg[m]) THEN msg[m]
    ELSE [msg[m] EXCEPT !.status = "sent", !.sim = attempt[m][n].sim, !.lease = "none",
                        !.error = "none", !.body = FALSE]

AttemptsOnceSent(m, n) ==
    [k \in AttemptNos |->
        IF k = n THEN [attempt[m][n] EXCEPT !.status = "sent"]
        ELSE IF Supersedes(m, n) /\ k = msg[m].attempts /\ attempt[m][k] # NoAttempt
             THEN [attempt[m][k] EXCEPT !.status = "failed"]
             ELSE attempt[m][k]]

\* Mutants: every report counts; the SIM now holding the message is charged.
LedgerPerReport(m, n) == CountSend(ledger, attempt[m][n].sim, m)
LedgerOfHolder(m, n) ==
    IF WasSent(msg[m]) /\ attempt[m][n].status = "sent" THEN ledger
    ELSE CountSend(ledger, IF msg[m].sim = NoSim THEN attempt[m][n].sim ELSE msg[m].sim, m)

LedgerOnceSent(m, n) ==
    IF WasSent(msg[m]) /\ attempt[m][n].status = "sent" THEN ledger
    ELSE CountSend(IF Supersedes(m, n) /\ attempt[m][msg[m].attempts] # NoAttempt
                   THEN Released(attempt[m][msg[m].attempts].sim, m) ELSE ledger,
                   attempt[m][n].sim, m)

\* Mutant: a success that arrives late is not announced.
EventsWhileHeld(m) == IF msg[m].status \in InFlight THEN {"sent"} ELSE {}

EventsOnceSent(m) == IF WasSent(msg[m]) THEN {} ELSE {"sent"}

RecordSent(g, m) ==
    /\ Reports(g, m, OnTheAir)
    /\ \E n \in AttemptNos :
          /\ Owns(m, n, g)
          /\ msg' = [msg EXCEPT ![m] = RowOnceSent(m, n)]
          /\ attempt' = [attempt EXCEPT ![m] = AttemptsOnceSent(m, n)]
          /\ ledger' = LedgerOnceSent(m, n)
          /\ Publish(m, EventsOnceSent(m))
    /\ UNCHANGED <<job, serverVars>>

RecordDelivered(g, m) ==
    /\ Reports(g, m, {"delivered"})
    /\ msg[m].status # "delivered"
    /\ \E n \in AttemptNos :
          /\ Owns(m, n, g)
          /\ msg' = [msg EXCEPT ![m] = [RowOnceSent(m, n) EXCEPT !.status = "delivered"]]
          /\ attempt' = [attempt EXCEPT ![m] = AttemptsOnceSent(m, n)]
          /\ ledger' = LedgerOnceSent(m, n)
          /\ Publish(m, EventsOnceSent(m) \union {"delivered"})
    /\ UNCHANGED <<job, serverVars>>

RecordUndelivered(g, m) ==
    /\ Reports(g, m, {"undelivered"})
    /\ msg[m].status # "delivered"
    /\ ~(msg[m].status = "failed" /\ msg[m].error = "delivery_failed")
    /\ \E n \in AttemptNos :
          /\ Owns(m, n, g)
          /\ msg' = [msg EXCEPT ![m] = [RowOnceSent(m, n) EXCEPT !.status = "failed",
                                                                 !.error = "delivery_failed"]]
          /\ attempt' = [attempt EXCEPT ![m] = AttemptsOnceSent(m, n)]
          /\ ledger' = LedgerOnceSent(m, n)
          /\ Publish(m, EventsOnceSent(m) \union {"failed"})
    /\ UNCHANGED <<job, serverVars>>

\* decideRetry.
MayRetry(code, attempts) == code # "permanent" /\ attempts < MaxAttempts

RetryOrFail(m, code) ==
    /\ ledger' = IF msg[m].sim = NoSim THEN ledger ELSE Released(msg[m].sim, m)
    /\ \/ /\ MayRetry(code, msg[m].attempts)
          /\ msg' = [msg EXCEPT ![m] = [@ EXCEPT !.status = "queued", !.sim = NoSim,
                                                 !.lease = "none", !.error = code]]
          /\ UNCHANGED event
       \/ /\ ~MayRetry(code, msg[m].attempts)
          /\ msg' = [msg EXCEPT ![m] =
                       [@ EXCEPT !.status = "failed", !.lease = "none", !.body = FALSE,
                                 !.error = IF code = "permanent" THEN code ELSE "exhausted"]]
          /\ Publish(m, {"failed"})

\* updateCurrentAttempt.
CloseCurrent(m, status) ==
    attempt' = IF attempt[m][msg[m].attempts] = NoAttempt THEN attempt
               ELSE [attempt EXCEPT ![m][msg[m].attempts].status = status]

RecordFailure(g, m, code) ==
    /\ Reports(g, m, {"failed"})
    /\ \E n \in AttemptNos :
          /\ Owns(m, n, g)
          /\ \/ /\ IsCurrent(m, n)
                /\ CloseCurrent(m, "failed")
                /\ RetryOrFail(m, code)
             \/ /\ ~IsCurrent(m, n)
                /\ attempt[m][n].status \notin {"sent", "failed"}
                /\ attempt' = [attempt EXCEPT ![m][n].status = "failed"]
                /\ UNCHANGED <<msg, ledger, event>>
    /\ UNCHANGED <<job, serverVars>>

-----------------------------------------------------------------------------
(* The sweeps. *)

SelectLeases ==
    /\ leaseSweep = {}
    /\ leaseSweep' = {m \in Msgs : msg[m].status \in InFlight /\ msg[m].lease = "elapsed"}
    /\ UNCHANGED <<msg, attempt, ledger, event, job, dispatch, cancelling, deadlineSweep, faults>>

\* Mutants: the lease is not looked at again; an acknowledged message is skipped.
ReclaimableOnceSelected(row) == row.lease # "none" /\ row.status \notin Terminal
ReclaimableUnacknowledged(row) == row.lease = "elapsed" /\ row.status = "assigned"

\* The check repeated once the row is locked.
Reclaimable(row) == row.lease = "elapsed" /\ row.status \notin Terminal

ReclaimLease(m) ==
    /\ m \in leaseSweep
    /\ leaseSweep' = leaseSweep \ {m}
    /\ \/ /\ Reclaimable(msg[m])
          /\ CloseCurrent(m, "timed_out")
          /\ RetryOrFail(m, "transient")
       \/ /\ \/ ~Reclaimable(msg[m])
             \/ ~MayRetry("transient", msg[m].attempts) /\ Collides(m, "failed")
          /\ UNCHANGED <<msg, attempt, ledger, event>>
    /\ UNCHANGED <<job, dispatch, cancelling, deadlineSweep, faults>>

SelectDeadlines ==
    /\ deadlineSweep = {}
    /\ deadlineSweep' = {m \in Msgs : msg[m].status = "queued" /\ msg[m].deadline = "passed"}
    /\ UNCHANGED <<msg, attempt, ledger, event, job, dispatch, cancelling, leaseSweep, faults>>

ExpireMessage(m) ==
    /\ m \in deadlineSweep
    /\ deadlineSweep' = deadlineSweep \ {m}
    /\ \/ /\ msg[m].status \notin Terminal
          /\ msg' = [msg EXCEPT ![m] = [@ EXCEPT !.status = "expired", !.error = "expired",
                                                 !.body = FALSE]]
          /\ Publish(m, {"expired"})
       \/ /\ msg[m].status \in Terminal \/ Collides(m, "expired")
          /\ UNCHANGED <<msg, event>>
    /\ UNCHANGED <<attempt, ledger, job, dispatch, cancelling, leaseSweep, faults>>

-----------------------------------------------------------------------------
(* The world: clocks, phones, the operator, and the process itself. *)

LeaseElapses(m) ==
    /\ msg[m].lease = "running"
    /\ msg' = [msg EXCEPT ![m].lease = "elapsed"]
    /\ UNCHANGED <<attempt, ledger, event, job, serverVars>>

DeadlinePasses(m) ==
    /\ msg[m].deadline = "ahead"
    /\ msg' = [msg EXCEPT ![m].deadline = "passed"]
    /\ UNCHANGED <<attempt, ledger, event, job, serverVars>>

\* A phone sends what it holds unless the deadline has passed, fails to, or
\* loses it (the frame never arrived, the phone died, it was called off).
PhoneStep(s, m) ==
    /\ \/ /\ job[s][m] = "held"
          /\ \/ msg[m].deadline # "passed" /\ job' = [job EXCEPT ![s][m] = "sent"]
             \/ job' = [job EXCEPT ![s][m] = "failed"]
             \/ job' = [job EXCEPT ![s][m] = "none"]
       \/ /\ job[s][m] = "sent"
          /\ \E report \in {"delivered", "undelivered"} :
                job' = [job EXCEPT ![s][m] = report]
    /\ UNCHANGED <<msg, attempt, ledger, event, serverVars>>

\* The server process dies and starts again; what only it knew is gone.
Restart ==
    /\ "restart" \in Faults
    /\ faults < MaxFaults
    /\ faults' = faults + 1
    /\ dispatch' = [w \in Workers |-> Idle]
    /\ cancelling' = {}
    /\ leaseSweep' = {}
    /\ deadlineSweep' = {}
    /\ UNCHANGED <<msg, attempt, ledger, event, job>>

-----------------------------------------------------------------------------
Dispatch(m) ==
    \E w \in Workers :
       \/ DispatchExpired(w, m) \/ DispatchUndeliverable(w, m)
       \/ \E s \in Sims : Assign(w, m, s)

Report(g, m) ==
    \/ Acknowledge(g, m) \/ RecordSent(g, m) \/ RecordDelivered(g, m) \/ RecordUndelivered(g, m)
    \/ \E code \in {"transient", "permanent"} : RecordFailure(g, m, code)

Next ==
    \/ \E m \in Msgs : \/ Send(m) \/ CancelRead(m) \/ CancelSave(m)
                       \/ Dispatch(m) \/ \E w \in Workers : DispatchDefer(w, m)
                       \/ ReclaimLease(m) \/ ExpireMessage(m)
                       \/ LeaseElapses(m) \/ DeadlinePasses(m)
    \/ \E w \in Workers : HandOff(w) \/ RequeueUndelivered(w)
    \/ \E g \in Gateways, m \in Msgs : Report(g, m)
    \/ \E s \in Sims, m \in Msgs : PhoneStep(s, m)
    \/ \E m \in Msgs, e \in Subscribed : WebhookJobEnds(m, e)
    \/ SelectLeases \/ SelectDeadlines \/ Restart

Spec == Init /\ [][Next]_vars

\* Fairness: the dispatcher polls, both sweeps run on a timer, every selected
\* row is processed, a committed assignment is handed off or undone, requests
\* finish, and time passes.  Nothing is asked of phones, operators or tenants.
\* WF of Dispatch also assumes that a SIM not tried yet becomes usable.
Fairness ==
    /\ \A m \in Msgs : /\ WF_vars(Dispatch(m))
                       /\ WF_vars(ReclaimLease(m)) /\ WF_vars(ExpireMessage(m))
                       /\ WF_vars(LeaseElapses(m)) /\ WF_vars(DeadlinePasses(m))
                       /\ WF_vars(CancelSave(m))
    /\ \A w \in Workers : WF_vars(HandOff(w) \/ RequeueUndelivered(w))
    /\ WF_vars(SelectLeases) /\ WF_vars(SelectDeadlines)

FairSpec == Spec /\ Fairness

-----------------------------------------------------------------------------
(* Safety of hand-off, retry and reclaim. *)

\* A message in flight is held by the attempt its row names: same SIM, same
\* stage, and a lease the sweep will find.  No late report, stale undo, crash
\* or cancel leaves a message in flight that nobody is answerable for.
HeldByItsAttempt ==
    \A m \in Msgs : msg[m].status \in InFlight =>
        /\ msg[m].lease # "none"
        /\ msg[m].attempts \in AttemptNos
        /\ attempt[m][msg[m].attempts] = [sim |-> msg[m].sim, status |-> msg[m].status]

\* No SIM is handed the same message twice, even after a dispatcher undid an
\* assignment and another one reused its attempt number.
OneHandOffPerSim ==
    \A w \in Workers : dispatch[w] # Idle => job[dispatch[w].sim][dispatch[w].msg] = "none"

\* However often attempts are undone, lost and reused, no more than
\* max_attempts radios ever send the message.
CopiesWithinBudget ==
    \A m \in Msgs : Cardinality({s \in Sims : job[s][m] \in OnTheAir}) <= MaxAttempts

\* The text is erased as soon as a message settles, yet a message on its way
\* to a phone still has it: no phone is handed a blank SMS.
InFlightHasBody == \A m \in Msgs : msg[m].status \in InFlight => msg[m].body

\* An attempt times out only if its lease has elapsed at that moment: a phone
\* that acknowledged after the sweep selected its message keeps the job.
LeaseRespected ==
    [][\A m \in Msgs, n \in AttemptNos :
          attempt[m][n].status # "timed_out" /\ attempt'[m][n].status = "timed_out" =>
              msg[m].lease = "elapsed" /\ n = msg[m].attempts]_vars

-----------------------------------------------------------------------------
(* What became of a message. *)

\* The row never forgets that an attempt went out: once one has been recorded
\* as sent, the message is sent, delivered or reported undeliverable.
LateSuccessKept ==
    \A m \in Msgs : (\E n \in AttemptNos : attempt[m][n].status = "sent") => WasSent(msg[m])

\* Every message a radio sent and a phone reported is counted once against the
\* SIM and number it used: not again when the report is repeated, arrives late,
\* or is overtaken by the delivery report.
SendsCountedOnce ==
    \A s \in Sims, r \in Recipients :
        LET sends == {x \in Msgs \X AttemptNos :
                        /\ RecipientOf[x[1]] = r
                        /\ attempt[x[1]][x[2]] = [sim |-> s, status |-> "sent"]}
        IN  Cardinality(sends) = IF ledger[s][r] = NoRow THEN 0 ELSE ledger[s][r]

\* A SIM is charged only for numbers its own radio sent something to.
CountedWhereSent ==
    \A s \in Sims, r \in Recipients : ledger[s][r] > 0 =>
        \E m \in Msgs : RecipientOf[m] = r /\ job[s][m] \in OnTheAir

\* A slot of the allowance that never carried a message to the network does not
\* stay spent: it is taken only while a message to its number is in flight on
\* its SIM.  A cancel breaks this (it returns nothing), so the run has none.
UnusedSlotReturned ==
    \A s \in Sims, r \in Recipients : ledger[s][r] = 0 =>
        \E m \in Msgs : /\ RecipientOf[m] = r
                        /\ msg[m].sim = s /\ msg[m].status \in InFlight

\* A settled message leaves its state only for what a radio really did.
RevivedOnlyByProof ==
    [][\A m \in Msgs :
          msg[m].status \in Terminal /\ msg'[m].status # msg[m].status =>
              /\ WasSent(msg'[m])
              /\ \E s \in Sims : job[s][m] \in OnTheAir]_vars

\* The tenant hears of every outcome: the webhook job of the event that belongs
\* to the status exists or existed.
OutcomePublished ==
    \A m \in Msgs, e \in Subscribed :
        \/ msg[m].status = e
        \/ e = "sent" /\ WasSent(msg[m])
        => event[m][e] # "none"

Open == {"queued"} \union InFlight

\* An accepted message is settled in the end, whatever its phones do.
Settles == \A m \in Msgs : msg[m].status \in Open ~> msg[m].status \notin Open

-----------------------------------------------------------------------------
(* What the code's comments say and the code does not keep.                 *)

\* sms_service.ts:684: "A message already handed to a device cannot be
\* recalled, so those are refused rather than marked cancelled and quietly
\* delivered anyway."
CancelledNeverSent ==
    \A m \in Msgs : msg[m].status = "cancelled" => \A s \in Sims : job[s][m] \notin OnTheAir
=============================================================================
