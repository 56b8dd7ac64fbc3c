-------------------------------- MODULE Ussd --------------------------------
(***************************************************************************)
(* USSD sessions on the SIMs of the phones: asked for by the balance        *)
(* scheduler when a SIM is due, or by an administrator; answered by the     *)
(* phone, maybe more than once, maybe never; written off by the sweep of    *)
(* any process.  Failed balance readings are counted on the SIM, and past a *)
(* limit the scheduler leaves it alone.                                     *)
(*                                                                          *)
(* No transaction and no lock: every handler reads rows, awaits, and saves  *)
(* the columns that it changed.  Cut where a handler awaits the database.   *)
(***************************************************************************)
EXTENDS Naturals, FiniteSets

CONSTANTS
    Sims,
    Reqs,         \* rows of ussd_requests that may matter at once, see Forget
    Kinds,        \* what may be asked
    BalanceKinds, \* those of them that read a balance
    Scheduler,    \* the balance scheduler of the process that holds the phones
    Admins,       \* requests by administrators that may be under way at once
    Answerers,    \* connections whose frames are handled
    Sweepers,     \* processes whose sweep runs
    GiveUp,       \* giveUpAfterFailures
    MaxChanges,   \* bound on what administrators change
    MaxUpsets,    \* bound on handlers that die or whose statement fails
    NoReq, NoSim, NoKind

Starters == {Scheduler} \union Admins
Handlers == Answerers \union Sweepers

ASSUME UssdAssumption ==
    /\ BalanceKinds \subseteq Kinds
    /\ GiveUp \in Nat \ {0} /\ MaxChanges \in Nat /\ MaxUpsets \in Nat
    /\ Scheduler \notin Admins /\ Answerers \intersect Sweepers = {}
    /\ NoReq \notin Reqs /\ NoSim \notin Sims /\ NoKind \notin Kinds

VARIABLES
    sim,      \* sim_profiles
    code,     \* operator_ussd_commands, of the one operator, by kind
    req,      \* ussd_requests
    session,  \* what the phone holds of each request
    pass,     \* the SIMs left in the scheduler's pass
    start,    \* requests being started
    task,     \* answers and sweeps being handled
    changes, upsets

vars == <<sim, code, req, session, pass, start, task, changes, upsets>>

-----------------------------------------------------------------------------
Open == {"queued", "sending"}
Closed == {"success", "failed", "unsupported"}

\* failures: counted as far as the limit.  due: balance_checked_at is older than
\* the interval, or was never set.
Sim == [failures : 0 .. GiveUp, supported : BOOLEAN, due : BOOLEAN, ready : BOOLEAN]

\* late: requested_at is older than the session window.
Req == [status : {"none"} \union Open \union Closed, sim : Sims \union {NoSim},
        kind : Kinds \union {NoKind}, late : BOOLEAN, completed : BOOLEAN]
NoRow == [status |-> "none", sim |-> NoSim, kind |-> NoKind, late |-> FALSE,
          completed |-> FALSE]

\* checked: the SIM, the code and the connection.  sent, unsent: the row is there
\* and the frame was written, or could not be.
Start == [step : {"idle", "checked", "sent", "unsent"}, sim : Sims \union {NoSim},
          kind : Kinds \union {NoKind}, req : Reqs \union {NoReq}]
NotStarting == [step |-> "idle", sim |-> NoSim, kind |-> NoKind, req |-> NoReq]

\* picked: what a sweep still has to look at.  read: the request was read as
\* open.  seen: the SIM's failures as read.
Task == [step : {"idle", "picked", "read", "parsing", "closing", "closed", "saving"},
         picked : SUBSET Reqs, req : Reqs \union {NoReq},
         outcome : Closed, seen : 0 .. GiveUp]
NoTask == [step |-> "idle", picked |-> {}, req |-> NoReq, outcome |-> "failed", seen |-> 0]

TypeOK ==
    /\ sim \in [Sims -> Sim]
    /\ code \in [Kinds -> {"none", "active", "inactive"}]
    /\ req \in [Reqs -> Req]
    /\ \A r \in Reqs : /\ (req[r].status = "none") = (req[r].sim = NoSim)
                       /\ req[r].status \in Closed => req[r].completed
    /\ session \in [Reqs -> {"none", "held"} \union Closed]
    /\ pass \subseteq Sims
    /\ start \in [Starters -> Start]
    /\ task \in [Handlers -> Task]
    /\ changes \in 0 .. MaxChanges /\ upsets \in 0 .. MaxUpsets

Init ==
    /\ sim = [s \in Sims |->
                [failures |-> 0, supported |-> TRUE, due |-> TRUE, ready |-> TRUE]]
    /\ code = [k \in Kinds |-> "active"]
    /\ req = [r \in Reqs |-> NoRow]
    /\ session = [r \in Reqs |-> "none"]
    /\ pass = {}
    /\ start = [x \in Starters |-> NotStarting]
    /\ task = [h \in Handlers |-> NoTask]
    /\ changes = 0 /\ upsets = 0

-----------------------------------------------------------------------------
(* UssdService.request, and the scheduler's pass. *)

\* BalanceScheduler.dueSimProfiles
Due == {s \in Sims : /\ sim[s].supported /\ sim[s].ready /\ sim[s].due
                     /\ sim[s].failures < GiveUp
                     /\ \E k \in BalanceKinds : code[k] = "active"}

Pass ==
    /\ pass = {} /\ start[Scheduler].step = "idle"
    /\ Due # {}
    /\ pass' = Due
    /\ UNCHANGED <<sim, code, req, session, start, task, changes, upsets>>

\* The SIM and the code are read again, and the connection is looked for.
Checked(x, s, k) ==
    /\ sim[s].supported /\ code[k] = "active"
    /\ start' = [start EXCEPT ![x] =
                   [NotStarting EXCEPT !.step = "checked", !.sim = s, !.kind = k]]

\* A SIM of the pass is started, or is skipped when the request is refused.
NextDue ==
    /\ start[Scheduler].step = "idle"
    /\ \E s \in pass :
         /\ pass' = pass \ {s}
         /\ \/ \E k \in BalanceKinds : Checked(Scheduler, s, k)
            \/ UNCHANGED start
    /\ UNCHANGED <<sim, code, req, session, task, changes, upsets>>

\* An administrator may ask a SIM that is not due, or was given up.
RunUssd(x, s, k) ==
    /\ start[x].step = "idle"
    /\ Checked(x, s, k)
    /\ UNCHANGED <<sim, code, req, session, pass, task, changes, upsets>>

\* The frame is written as soon as the row is there, unless the socket closed.
CreateAndSend(x, r) ==
    /\ start[x].step = "checked"
    /\ req[r].status = "none"
    /\ req' = [req EXCEPT ![r] = [NoRow EXCEPT !.status = "queued", !.sim = start[x].sim,
                                               !.kind = start[x].kind]]
    /\ \/ /\ session' = [session EXCEPT ![r] = "held"]
          /\ start' = [start EXCEPT ![x].step = "sent", ![x].req = r]
       \/ /\ start' = [start EXCEPT ![x].step = "unsent", ![x].req = r]
          /\ UNCHANGED session
    /\ UNCHANGED <<sim, code, pass, task, changes, upsets>>

\* Saved from the row as it was created, whatever has been answered since.
SaveSending(x) ==
    /\ start[x].step = "sent"
    /\ req' = [req EXCEPT ![start[x].req].status = "sending"]
    /\ start' = [start EXCEPT ![x] = NotStarting]
    /\ UNCHANGED <<sim, code, session, pass, task, changes, upsets>>

\* Mutant: the row is left without the time of its completion.
FinishedUnstamped(r, status) == [req EXCEPT ![r].status = status]

\* UssdService.finish
Finished(r, status) == [req EXCEPT ![r].status = status, ![r].completed = TRUE]

\* A request that was never sent is not counted.
FailUnsent(x) ==
    /\ start[x].step = "unsent"
    /\ req' = Finished(start[x].req, "failed")
    /\ start' = [start EXCEPT ![x] = NotStarting]
    /\ UNCHANGED <<sim, code, session, pass, task, changes, upsets>>

-----------------------------------------------------------------------------
(* The phone, and recordResult. *)

\* What a phone has answered it may send again, over another connection too.
\* An answer to a request that is closed is confirmed and dropped.
Receive(a, r, outcome) ==
    /\ task[a].step = "idle"
    /\ session[r] \in {"held", outcome}
    /\ session' = [session EXCEPT ![r] = outcome]
    /\ task' = [task EXCEPT ![a] =
                  IF req[r].status \notin Open THEN NoTask
                  ELSE [NoTask EXCEPT !.step = "read", !.req = r, !.outcome = outcome]]
    /\ UNCHANGED <<sim, code, req, pass, start, changes, upsets>>

\* The SIM is read, before the request is closed.
ReadSim(a) ==
    LET seen == sim[req[task[a].req].sim].failures
    IN  /\ task[a].step = "read"
        /\ task' = [task EXCEPT
                      ![a].seen = seen,
                      ![a].step = IF task[a].outcome = "success" THEN "parsing" ELSE "closing"]
        /\ UNCHANGED <<sim, code, req, session, pass, start, changes, upsets>>

\* The text is read with the parser of the code as it is now; without one, the
\* answer is not understood.
Parse(a) ==
    /\ task[a].step = "parsing"
    /\ task' = [task EXCEPT ![a].step = "closing",
                  ![a].outcome = IF code[req[task[a].req].kind] = "none" THEN "failed" ELSE @]
    /\ UNCHANGED <<sim, code, req, session, pass, start, changes, upsets>>

-----------------------------------------------------------------------------
(* sweepStaleRequests *)

\* Mutant: only the requests that are known to have been sent are written off.
StaleSending == {r \in Reqs : req[r].status = "sending" /\ req[r].late}

Stale == {r \in Reqs : req[r].status \in Open /\ req[r].late}

Select(w) ==
    /\ task[w].step = "idle"
    /\ Stale # {}
    /\ task' = [task EXCEPT ![w] = [NoTask EXCEPT !.step = "picked", !.picked = Stale]]
    /\ UNCHANGED <<sim, code, req, session, pass, start, changes, upsets>>

\* After its last request, a sweep is over.
SweepOn(picked) ==
    IF picked = {} THEN NoTask ELSE [NoTask EXCEPT !.step = "picked", !.picked = picked]

\* Read again, one by one: those answered since are left alone.
Find(w, r) ==
    /\ task[w].step = "picked" /\ r \in task[w].picked
    /\ task' = [task EXCEPT ![w] =
                  IF req[r].status \in Open
                  THEN [task[w] EXCEPT !.step = "closing", !.req = r, !.picked = @ \ {r}]
                  ELSE SweepOn(task[w].picked \ {r})]
    /\ UNCHANGED <<sim, code, req, session, pass, start, changes, upsets>>

\* A sweep reads the SIM after it has closed the request.
ReadSwept(w) ==
    /\ task[w].step = "closed" /\ w \in Sweepers
    /\ task' = [task EXCEPT ![w].step = "saving",
                            ![w].seen = sim[req[task[w].req].sim].failures]
    /\ UNCHANGED <<sim, code, req, session, pass, start, changes, upsets>>

-----------------------------------------------------------------------------
(* What an answer and a sweep have in common. *)

\* The request is saved as it ended, whoever may have closed it since it was read.
Finish(h) ==
    /\ task[h].step = "closing"
    /\ req' = Finished(task[h].req, task[h].outcome)
    /\ task' = [task EXCEPT ![h].step = IF h \in Sweepers THEN "closed" ELSE "saving"]
    /\ UNCHANGED <<sim, code, session, pass, start, changes, upsets>>

\* Mutant: a session that was never answered is not counted.
CountsAnswered(h) == h \in Answerers

\* countBalanceFailure is called for a failed answer and for a swept request.
Counts(h) == h \in Handlers

\* Only what differs from the row as it was read is written.
SavedSim(h, s, kind) ==
    IF task[h].outcome = "unsupported" THEN [sim[s] EXCEPT !.supported = FALSE]
    ELSE IF kind \notin BalanceKinds THEN sim[s]
    ELSE IF task[h].outcome = "success"
    THEN [sim[s] EXCEPT !.due = FALSE, !.failures = IF task[h].seen = 0 THEN @ ELSE 0]
    ELSE IF Counts(h)
    THEN [sim[s] EXCEPT
            !.due = FALSE,
            !.failures = IF task[h].seen < GiveUp THEN task[h].seen + 1 ELSE GiveUp]
    ELSE sim[s]

SaveSim(h) ==
    LET r == task[h].req
    IN  /\ task[h].step = "saving"
        /\ sim' = [sim EXCEPT ![req[r].sim] = SavedSim(h, req[r].sim, req[r].kind)]
        /\ task' = [task EXCEPT ![h] = SweepOn(task[h].picked)]
        /\ UNCHANGED <<code, req, session, pass, start, changes, upsets>>

-----------------------------------------------------------------------------
(* Administrators, phones, time and faults. *)

Change == changes < MaxChanges /\ changes' = changes + 1

\* upsertUssdCommand
UpsertUssdCommand(k, to) ==
    /\ Change /\ to # code[k]
    /\ code' = [code EXCEPT ![k] = to]
    /\ UNCHANGED <<sim, req, session, pass, start, task, upsets>>

DestroyUssdCommand(k) ==
    /\ Change /\ code[k] # "none"
    /\ code' = [code EXCEPT ![k] = "none"]
    /\ UNCHANGED <<sim, req, session, pass, start, task, upsets>>

\* FleetService.updateSim: re-arming clears the failures too.
Rearm(s) ==
    /\ Change
    /\ sim' = [sim EXCEPT ![s].supported = TRUE, ![s].failures = 0]
    /\ UNCHANGED <<code, req, session, pass, start, task, upsets>>

\* A phone reports its slots, or the state of one; a slot it leaves out is absent.
ReportSim(s) ==
    /\ Change
    /\ sim' = [sim EXCEPT ![s].ready = ~@]
    /\ UNCHANGED <<code, req, session, pass, start, task, upsets>>

IntervalPasses(s) ==
    /\ ~sim[s].due
    /\ sim' = [sim EXCEPT ![s].due = TRUE]
    /\ UNCHANGED <<code, req, session, pass, start, task, changes, upsets>>

WindowPasses(r) ==
    /\ req[r].status \in Open /\ ~req[r].late
    /\ req' = [req EXCEPT ![r].late = TRUE]
    /\ UNCHANGED <<sim, code, session, pass, start, task, changes, upsets>>

\* Rows are kept; a closed one that no handler has in hand is of no consequence
\* any more, since an answer to it is dropped, and its place is used again.
Forget(r) ==
    /\ req[r].status \in Closed
    /\ \A x \in Starters : start[x].req # r
    /\ \A h \in Handlers : task[h].req # r /\ r \notin task[h].picked
    /\ req' = [req EXCEPT ![r] = NoRow]
    /\ session' = [session EXCEPT ![r] = "none"]
    /\ UNCHANGED <<sim, code, pass, start, task, changes, upsets>>

Upset == upsets < MaxUpsets /\ upsets' = upsets + 1

DieStarting(x) ==
    /\ Upset /\ start[x].step # "idle"
    /\ start' = [start EXCEPT ![x] = NotStarting]
    /\ UNCHANGED <<sim, code, req, session, pass, task, changes>>

DieHandling(h) ==
    /\ Upset /\ task[h].step # "idle"
    /\ task' = [task EXCEPT ![h] = NoTask]
    /\ UNCHANGED <<sim, code, req, session, pass, start, changes>>

-----------------------------------------------------------------------------
Go(x) == (\E r \in Reqs : CreateAndSend(x, r)) \/ SaveSending(x) \/ FailUnsent(x)
Sweep(w) == \/ Select(w) \/ \E r \in Reqs : Find(w, r)
            \/ ReadSwept(w) \/ Finish(w) \/ SaveSim(w)
Handle(a) == ReadSim(a) \/ Parse(a) \/ Finish(a) \/ SaveSim(a)

Next ==
    \/ Pass \/ NextDue
    \/ \E x \in Admins, s \in Sims, k \in Kinds : RunUssd(x, s, k)
    \/ \E x \in Starters : Go(x) \/ DieStarting(x)
    \/ \E a \in Answerers : \/ Handle(a)
                            \/ \E r \in Reqs, outcome \in Closed : Receive(a, r, outcome)
    \/ \E w \in Sweepers : Sweep(w)
    \/ \E h \in Handlers : DieHandling(h)
    \/ \E k \in Kinds : DestroyUssdCommand(k)
                        \/ \E to \in {"active", "inactive"} : UpsertUssdCommand(k, to)
    \/ \E s \in Sims : Rearm(s) \/ ReportSim(s) \/ IntervalPasses(s)
    \/ \E r \in Reqs : WindowPasses(r) \/ Forget(r)

\* Sweeps come round, handlers that have begun go on, and time passes.  Nothing
\* makes a phone answer, a pass begin, or a SIM fall due.
Fairness ==
    /\ \A x \in Starters : WF_vars(SaveSending(x) \/ FailUnsent(x))
    /\ \A w \in Sweepers : WF_vars(Sweep(w))
    /\ \A a \in Answerers : WF_vars(Handle(a))
    /\ \A r \in Reqs : WF_vars(WindowPasses(r))

Spec == Init /\ [][Next]_vars /\ Fairness

-----------------------------------------------------------------------------
\* Every session comes to an end, answered or not, although the process that
\* started it may have died, the frame may be lost, and a fast answer may be
\* overwritten by the starter: no request "would sit in sending forever"
\* (ussd_service.ts, of the sweep).
Concludes == \A r \in Reqs : req[r].status \in Open ~> req[r].status \in Closed

Asked(s) == start[Scheduler].step = "sent" /\ start[Scheduler].sim = s
Understood(s) == \E a \in Answerers : task[a].step = "saving" /\ task[a].outcome = "success"
                                      /\ req[task[a].req].sim = s

\* A SIM that never gives a readable answer is not "retried on the interval
\* forever" (ussd_service.ts, of the count), although counts are lost when two
\* handlers save what they have read: to be asked without end, it must be
\* understood without end.
GivesUp == \A s \in Sims : []<>Asked(s) => []<>Understood(s)
=============================================================================
