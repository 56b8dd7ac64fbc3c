------------------------------- MODULE Routing -------------------------------
(***************************************************************************)
(* Which SIM carries a message.  A dispatcher reads the candidates, orders *)
(* them, and then tries to reserve one: a conditional update of the SIM's  *)
(* row, and of its phone's where the phone has a rate of its own, decides  *)
(* among concurrent dispatchers and keeps the rows locked while the slot   *)
(* of the recipient is claimed.  The candidates were read before any lock. *)
(*                                                                         *)
(* SmsLifecycle leaves the choice of the SIM open and takes an assignment  *)
(* for one step; here the steps inside that transaction are what matters.  *)
(* A pacing window is a row's next_available_at: running or over.  now()   *)
(* is the start of the transaction, so a window that ends while a          *)
(* transaction is open is still running for that transaction.              *)
(*                                                                         *)
(* One operator day.  Balance, quota, state, presence and pool are one     *)
(* fact, whether the SIM is usable; which SIMs a message's request and     *)
(* tenant permit is a constant.                                            *)
(***************************************************************************)
EXTENDS Integers, FiniteSets

CONSTANTS
    Msgs, Sims, Gateways,
    GatewayOf,        \* the phone each SIM is in
    Rated,            \* phones with a rate of their own
    FleetOrder,       \* the place of each SIM in the fleet: priority, device, slot
    Priority,         \* the priority of the SIM's phone
    Recipients, RecipientOf,
    Permits,          \* the SIMs the request and the tenant of a message permit
    Limited,          \* SIMs with a cap of distinct recipients
    RecipientLimit,   \* that cap
    MaxInFlight,      \* messages each SIM of a phone may have in flight
    MaxAttempts,
    Strategies,       \* the fill strategies a process may be configured with
    Workers,          \* concurrent dispatchers
    Flaky,            \* SIMs that may stop and start being usable
    MaxUpsets,        \* bound on sockets lost, rollbacks and such changes
    NoMsg, NoSim

Rows == Sims \union Rated

ASSUME RoutingAssumption ==
    /\ GatewayOf \in [Sims -> Gateways] /\ Rated \subseteq Gateways
    /\ Sims \intersect Gateways = {}
    /\ FleetOrder \in [Sims -> Nat] /\ Priority \in [Sims -> Nat]
    /\ \A s, t \in Sims : /\ FleetOrder[s] = FleetOrder[t] => s = t
                          /\ Priority[s] < Priority[t] => FleetOrder[s] < FleetOrder[t]
    /\ RecipientOf \in [Msgs -> Recipients] /\ Permits \in [Msgs -> SUBSET Sims]
    /\ Limited \subseteq Sims /\ RecipientLimit \in Nat
    /\ MaxInFlight \in [Gateways -> Nat \ {0}] /\ MaxAttempts \in Nat \ {0} /\ MaxUpsets \in Nat
    /\ Strategies \subseteq {"sequential", "spread"}
    /\ NoMsg \notin Msgs /\ NoSim \notin Sims
    /\ IsFiniteSet(Workers) /\ IsFiniteSet(Sims) /\ IsFiniteSet(Recipients)

VARIABLES
    strategy,    \* gatewayConfig.routing.fillStrategy
    sms,         \* sms_messages: status, SIM and why it waits
    tried,       \* the SIMs with an attempt at each message
    ledger,      \* sim_daily_recipients.messages_sent, by SIM and number
    window,      \* rows whose next_available_at is in the future
    usable,      \* SIMs the query accepts but for what is modelled here
    pass,        \* what each dispatcher is doing
    held,        \* messages a phone was given and has not reported on, by SIM
    upsets,
    uncounted,   \* history: slots a report took without asking, by SIM
    paced,       \* history: reservations of the current window that were not undone
    disturbed,   \* history: rows whose window was cleared by another's undo
    filled       \* history: SIMs that were full once, see FullSims

rows == <<sms, tried, ledger>>
history == <<uncounted, paced, disturbed, filled>>
vars == <<strategy, rows, window, usable, pass, held, upsets, history>>

-----------------------------------------------------------------------------
NoRow == -1

\* A dispatcher between two passes, reading on with a plan, holding the SIM's
\* window, with the slot claimed, with the assignment committed, or with it
\* undone but the windows not yet cleared.  known (history): the shortlist is of
\* SIMs that could message the number already when it was read.
Steps == {"idle", "picking", "phone", "reserved", "claimed", "committed", "undone"}

Pass == [step : Steps, msg : Msgs \union {NoMsg}, plan : SUBSET Sims, sim : Sims \union {NoSim},
         locks : SUBSET Rows, late : SUBSET Rows, slot : {"none", "existing", "claimed"},
         known : BOOLEAN]
Idle == [step |-> "idle", msg |-> NoMsg, plan |-> {}, sim |-> NoSim, locks |-> {}, late |-> {},
         slot |-> "none", known |-> FALSE]

TypeOK ==
    /\ strategy \in Strategies
    /\ sms \in [Msgs -> [status : {"queued", "in_flight", "sent", "failed"},
                         sim : Sims \union {NoSim}, waits : {"no", "device", "allowance"}]]
    /\ tried \in [Msgs -> SUBSET Sims]
    /\ ledger \in [Sims -> [Recipients -> Nat \union {NoRow}]]
    /\ window \subseteq Rows
    /\ usable \subseteq Sims
    /\ pass \in [Workers -> Pass]
    /\ held \in [Sims -> SUBSET Msgs]
    /\ upsets \in 0 .. MaxUpsets
    /\ uncounted \in [Sims -> Nat]
    /\ paced \in [Rows -> SUBSET Msgs]
    /\ disturbed \subseteq Rows
    /\ filled \subseteq Sims

Init ==
    /\ strategy \in Strategies
    /\ sms = [m \in Msgs |-> [status |-> "queued", sim |-> NoSim, waits |-> "no"]]
    /\ tried = [m \in Msgs |-> {}]
    /\ ledger = [s \in Sims |-> [r \in Recipients |-> NoRow]]
    /\ window = {}
    /\ usable = Sims
    /\ pass = [w \in Workers |-> Idle]
    /\ held = [s \in Sims |-> {}]
    /\ upsets = 0
    /\ uncounted = [s \in Sims |-> 0]
    /\ paced = [x \in Rows |-> {}]
    /\ disturbed = {}
    /\ filled = {s \in Limited : RecipientLimit = 0}

-----------------------------------------------------------------------------
(* What a statement sees: rows others have locked, and windows others have  *)
(* reserved but not committed, look as they did before.                     *)

InTransaction(w) == pass[w].step \in {"picking", "phone", "reserved", "claimed"}
Taken(m) == \E w \in Workers : InTransaction(w) /\ pass[w].msg = m
LockedByOther(w, x) == \E v \in Workers \ {w} : x \in pass[v].locks
Locked(x) == \E v \in Workers : x \in pass[v].locks

\* Every reservation that is not committed sits on a row its dispatcher has
\* locked and found free.
SeenFree(x) == x \notin window \/ Locked(x)

\* The rows a message on a SIM is paced by.
PacedBy(s) == {s} \union ({GatewayOf[s]} \intersect Rated)

FullSims(led) ==
    {s \in Limited : Cardinality({r \in Recipients : led[s][r] # NoRow}) >= RecipientLimit}

InFlight(s) == {m \in Msgs : sms[m].status = "in_flight" /\ sms[m].sim = s}
SlotsUsed(s) == Cardinality({r \in Recipients : ledger[s][r] # NoRow})
HasAllowance(s) == s \in Limited => SlotsUsed(s) < RecipientLimit
Holds(s, m) == ledger[s][RecipientOf[m]] # NoRow

-----------------------------------------------------------------------------
(* The plan. *)

Candidates(m) == (usable \intersect Permits[m]) \ tried[m]
Holders(m) == {s \in Candidates(m) : Holds(s, m)}
WithAllowance(m) == {s \in Candidates(m) : HasAllowance(s)}

FirstOf(S) == {s \in S : \A t \in S : FleetOrder[s] <= FleetOrder[t]}

\* Mutant: a busy SIM is passed over, also by the sequential strategy.
TargetsUnordered(m) == IF Holders(m) # {} THEN Holders(m) ELSE WithAllowance(m)

\* A SIM that may already message the number comes first; the sequential
\* strategy then has one target only.
Targets(m) ==
    IF Holders(m) # {} THEN Holders(m)
    ELSE IF strategy = "sequential" THEN FirstOf(WithAllowance(m))
    ELSE WithAllowance(m)

\* Mutant: the messages in flight are not counted.
AvailableUncounted(s) == \A x \in PacedBy(s) : SeenFree(x)

AvailableNow(s) ==
    /\ \A x \in PacedBy(s) : SeenFree(x)
    /\ Cardinality(InFlight(s)) < MaxInFlight[GatewayOf[s]]

Begin(w, m) ==
    /\ pass[w] = Idle
    /\ sms[m].status = "queued"
    /\ ~Taken(m)

\* No candidate, none with allowance, or none that is free just now, which
\* clears an older reason.
Reason(m) ==
    IF Candidates(m) = {} THEN "device" ELSE IF Targets(m) = {} THEN "allowance" ELSE "no"

Defer(w, m) ==
    /\ Begin(w, m)
    /\ \A s \in Targets(m) : ~AvailableNow(s)
    /\ sms' = [sms EXCEPT ![m].waits = Reason(m)]
    /\ UNCHANGED <<strategy, tried, ledger, window, usable, pass, held, upsets, history>>

\* compare() orders by priority first; what comes after it (the recipient's
\* network, recent success, load, balance, last use) is left open.
Preferred(S) == {s \in S : \A t \in S : Priority[s] <= Priority[t]}

Plan(w, m) ==
    /\ Begin(w, m)
    /\ LET try == {s \in Targets(m) : AvailableNow(s)}
       IN  \E s \in Preferred(try) :
              pass' = [pass EXCEPT ![w] = [Idle EXCEPT !.step = "picking", !.msg = m, !.plan = try,
                                                       !.sim = s, !.known = Holders(m) # {}]]
    /\ UNCHANGED <<strategy, rows, window, usable, held, upsets, history>>

-----------------------------------------------------------------------------
(* Walking the shortlist, inside the transaction. *)

SimOf(w) == pass[w].sim
NumberOf(w) == RecipientOf[pass[w].msg]
Phone(w) == GatewayOf[SimOf(w)]

\* The conditional update finds the row free: nobody's window is running, and
\* none was when the transaction began.
FoundFree(w, x) == x \notin window /\ x \notin pass[w].late

\* The next of the shortlist, with the locks taken so far; after the last one
\* the message is parked for a moment and the transaction ends.
NextOf(w, locks) ==
    LET rest == pass[w].plan \ {SimOf(w)}
    IN  IF rest = {} THEN {Idle}
        ELSE {[pass[w] EXCEPT !.step = "picking", !.plan = rest, !.sim = s, !.locks = locks]
                 : s \in Preferred(rest)}

MoveOn(w, locks) ==
    /\ \E next \in NextOf(w, locks) : pass' = [pass EXCEPT ![w] = next]
    /\ sms' = IF pass[w].plan = {SimOf(w)} THEN [sms EXCEPT ![pass[w].msg].waits = "no"] ELSE sms

ReserveSim(w) ==
    /\ pass[w].step = "picking"
    /\ ~LockedByOther(w, SimOf(w))
    /\ FoundFree(w, SimOf(w))
    /\ window' = window \union {SimOf(w)}
    /\ pass' = [pass EXCEPT ![w].step = IF Phone(w) \in Rated THEN "phone" ELSE "reserved",
                            ![w].locks = @ \union {SimOf(w)}]
    /\ UNCHANGED <<strategy, rows, usable, held, upsets, history>>

SimTaken(w) ==
    /\ pass[w].step = "picking"
    /\ ~LockedByOther(w, SimOf(w))
    /\ ~FoundFree(w, SimOf(w))
    /\ MoveOn(w, pass[w].locks)
    /\ UNCHANGED <<strategy, tried, ledger, window, usable, held, upsets, history>>

\* Mutant: the window of the phone is set, whether or not it is running.
ReservePhoneAnyway(w) ==
    /\ pass[w].step = "phone"
    /\ ~LockedByOther(w, Phone(w))
    /\ window' = window \union {Phone(w)}
    /\ pass' = [pass EXCEPT ![w].step = "reserved", ![w].locks = @ \union {Phone(w)}]
    /\ UNCHANGED <<strategy, rows, usable, held, upsets, history>>

ReservePhone(w) ==
    /\ pass[w].step = "phone"
    /\ ~LockedByOther(w, Phone(w))
    /\ FoundFree(w, Phone(w))
    /\ window' = window \union {Phone(w)}
    /\ pass' = [pass EXCEPT ![w].step = "reserved", ![w].locks = @ \union {Phone(w)}]
    /\ UNCHANGED <<strategy, rows, usable, held, upsets, history>>

\* The SIM was free but its phone is not: the SIM is given back, still locked.
PhoneTaken(w) ==
    /\ pass[w].step = "phone"
    /\ ~LockedByOther(w, Phone(w))
    /\ ~FoundFree(w, Phone(w))
    /\ window' = window \ {SimOf(w)}
    /\ MoveOn(w, pass[w].locks)
    /\ UNCHANGED <<strategy, tried, ledger, usable, held, upsets, history>>

\* Mutant: the count the shortlist was read with is relied on.
ClaimUncounted(w) ==
    LET s == SimOf(w)
    IN  /\ pass[w].step = "reserved"
        /\ pass' = [pass EXCEPT ![w].step = "claimed",
                                ![w].slot = IF Holds(s, pass[w].msg) THEN "existing" ELSE "claimed"]
        /\ UNCHANGED <<strategy, rows, window, usable, held, upsets, history>>

\* Counting, then inserting, under the lock of the SIM's row.
Claim(w) ==
    LET s == SimOf(w)
    IN  /\ pass[w].step = "reserved"
        /\ Holds(s, pass[w].msg) \/ HasAllowance(s)
        /\ pass' = [pass EXCEPT ![w].step = "claimed",
                                ![w].slot = IF Holds(s, pass[w].msg) THEN "existing" ELSE "claimed"]
        /\ UNCHANGED <<strategy, rows, window, usable, held, upsets, history>>

\* The last slot went in between: the reservation is undone, the locks stay.
Full(w) ==
    /\ pass[w].step = "reserved"
    /\ ~Holds(SimOf(w), pass[w].msg) /\ ~HasAllowance(SimOf(w))
    /\ window' = window \ PacedBy(SimOf(w))
    /\ MoveOn(w, pass[w].locks)
    /\ UNCHANGED <<strategy, tried, ledger, usable, held, upsets, history>>

Commit(w) ==
    LET s == SimOf(w)
        m == pass[w].msg
    IN  /\ pass[w].step = "claimed"
        /\ sms' = [sms EXCEPT ![m] = [status |-> "in_flight", sim |-> s, waits |-> "no"]]
        /\ tried' = [tried EXCEPT ![m] = @ \union {s}]
        /\ ledger' = IF pass[w].slot = "claimed" /\ ~Holds(s, m)
                     THEN [ledger EXCEPT ![s][NumberOf(w)] = 0] ELSE ledger
        /\ pass' = [pass EXCEPT ![w] = [Idle EXCEPT !.step = "committed", !.msg = m, !.sim = s]]
        /\ paced' = [x \in Rows |-> IF x \in PacedBy(s) \intersect window
                                    THEN paced[x] \union {m} ELSE paced[x]]
        /\ filled' = filled \union FullSims(ledger')
        /\ UNCHANGED <<strategy, window, usable, held, upsets, uncounted, disturbed>>

-----------------------------------------------------------------------------
(* After the commit. *)

HandOff(w) ==
    /\ pass[w].step = "committed"
    /\ held' = [held EXCEPT ![SimOf(w)] = @ \union {pass[w].msg}]
    /\ pass' = [pass EXCEPT ![w] = Idle]
    /\ UNCHANGED <<strategy, rows, window, usable, upsets, history>>

\* Mutant: the count of the row is taken back, whatever it is.
ReleasedBlindly(led, s, m) == [led EXCEPT ![s][RecipientOf[m]] = @ - 1]

\* The slot goes back unless something was sent through it or another message
\* to the number is in flight on the SIM, as far as that is committed.
Released(led, s, m) ==
    LET r == RecipientOf[m]
        shared == \E x \in InFlight(s) \ {m} : RecipientOf[x] = r
    IN  IF led[s][r] = 0 /\ ~shared THEN [led EXCEPT ![s][r] = NoRow] ELSE led

\* The socket is gone.  The assignment is undone in one transaction ...
Undo(w) ==
    LET s == SimOf(w)
        m == pass[w].msg
    IN  /\ pass[w].step = "committed"
        /\ upsets < MaxUpsets
        /\ ~Taken(m)
        /\ upsets' = upsets + 1
        /\ ledger' = Released(ledger, s, m)
        /\ sms' = [sms EXCEPT ![m].status = "queued", ![m].sim = NoSim]
        /\ tried' = [tried EXCEPT ![m] = @ \ {s}]
        /\ pass' = [pass EXCEPT ![w] = [Idle EXCEPT !.step = "undone", !.msg = m, !.sim = s]]
        /\ paced' = [x \in Rows |-> paced[x] \ (IF x \in PacedBy(s) THEN {m} ELSE {})]
        /\ UNCHANGED <<strategy, window, usable, held, uncounted, disturbed, filled>>

\* ... and the windows are cleared in statements of their own, whoever has
\* reserved the rows since.
ClearWindows(w) ==
    LET cleared == PacedBy(SimOf(w))
    IN  /\ pass[w].step = "undone"
        /\ \A x \in cleared : ~Locked(x)
        /\ window' = window \ cleared
        /\ disturbed' = disturbed \union {x \in cleared : paced[x] # {}}
        /\ pass' = [pass EXCEPT ![w] = Idle]
        /\ UNCHANGED <<strategy, rows, usable, held, upsets, uncounted, paced, filled>>

\* What the transaction has reserved and not committed.
Reserved(w) ==
    CASE pass[w].step = "phone" -> {SimOf(w)}
      [] pass[w].step \in {"reserved", "claimed"} -> PacedBy(SimOf(w))
      [] OTHER -> {}

RolledBack(w) ==
    /\ window' = window \ Reserved(w)
    /\ pass' = [pass EXCEPT ![w] = Idle]

\* The process or its connection dies, at any point of a pass.
Die(w) ==
    /\ pass[w] # Idle
    /\ upsets < MaxUpsets
    /\ upsets' = upsets + 1
    /\ RolledBack(w)
    /\ UNCHANGED <<strategy, rows, usable, held, history>>

\* The row a dispatcher needs next.
Wants(w) ==
    CASE pass[w].step = "picking" -> {SimOf(w)}
      [] pass[w].step = "phone" -> {Phone(w)}
      [] OTHER -> {}
WaitsFor(w, v) == w # v /\ Wants(w) \intersect pass[v].locks # {}

\* Dispatchers that walk shortlists in different orders may wait for each
\* other; the database then fails one of them.
Deadlocked(w) ==
    \E S \in SUBSET Workers : w \in S /\ \A v \in S : \E u \in S : WaitsFor(v, u)

BreakDeadlock(w) ==
    /\ Deadlocked(w)
    /\ RolledBack(w)
    /\ UNCHANGED <<strategy, rows, usable, held, upsets, history>>

-----------------------------------------------------------------------------
(* Phones and time. *)

\* The send is counted at the SIM's row, so it waits for the row's lock; the
\* ledger takes it whether or not its slot is still there.  A send by an
\* attempt that has lost the message calls off the one that has it.
Sent(s, m) ==
    LET r == RecipientOf[m]
        led == IF sms[m].status = "in_flight" /\ sms[m].sim # s
               THEN Released(ledger, sms[m].sim, m) ELSE ledger
    IN  /\ m \in held[s]
        /\ ~Locked(s) /\ ~Taken(m)
        /\ held' = [held EXCEPT ![s] = @ \ {m}]
        /\ ledger' = [led EXCEPT ![s][r] = IF @ = NoRow THEN 1 ELSE @ + 1]
        /\ uncounted' = [uncounted EXCEPT ![s] = IF led[s][r] = NoRow THEN @ + 1 ELSE @]
        /\ sms' = [sms EXCEPT ![m] = [status |-> "sent", sim |-> s, waits |-> "no"]]
        /\ filled' = filled \union FullSims(ledger')
        /\ UNCHANGED <<strategy, tried, window, usable, pass, upsets, paced, disturbed>>

\* The attempt is over: reported as failed, or its lease is taken back.
RetryOrFail(m) ==
    /\ ledger' = Released(ledger, sms[m].sim, m)
    /\ sms' = [sms EXCEPT ![m] = IF Cardinality(tried[m]) < MaxAttempts
                                 THEN [status |-> "queued", sim |-> NoSim, waits |-> "no"]
                                 ELSE [@ EXCEPT !.status = "failed"]]
    /\ UNCHANGED <<strategy, tried, window, usable, pass, history>>

Failed(m) ==
    /\ sms[m].status = "in_flight" /\ m \in held[sms[m].sim]
    /\ held' = [held EXCEPT ![sms[m].sim] = @ \ {m}]
    /\ upsets' = upsets
    /\ RetryOrFail(m)

\* Nobody will answer for the message: its dispatcher died before the hand-off.
Orphaned(m) ==
    /\ sms[m].status = "in_flight" /\ m \notin held[sms[m].sim]
    /\ \A w \in Workers : pass[w].step = "committed" => pass[w].msg # m

\* The lease of an orphaned message runs out, or that of a message a phone is
\* silent about and may still send, or that is not handed off yet.
Reclaim(m) ==
    /\ sms[m].status = "in_flight"
    /\ upsets' = IF Orphaned(m) THEN upsets ELSE upsets + 1
    /\ upsets' <= MaxUpsets
    /\ held' = held
    /\ RetryOrFail(m)

\* For a transaction that is open, the window has not ended.
WindowEnds(x) ==
    /\ x \in window \/ paced[x] # {}
    /\ window' = window \ {x}
    /\ pass' = [w \in Workers |-> IF InTransaction(w) /\ x \notin pass[w].locks
                                  THEN [pass[w] EXCEPT !.late = @ \union {x}] ELSE pass[w]]
    /\ paced' = [paced EXCEPT ![x] = {}]
    /\ disturbed' = disturbed \ {x}
    /\ UNCHANGED <<strategy, rows, usable, held, upsets, uncounted, filled>>

FleetChanges(s) ==
    /\ s \in Flaky
    /\ upsets < MaxUpsets \/ s \notin usable
    /\ upsets' = IF s \in usable THEN upsets + 1 ELSE upsets
    /\ usable' = IF s \in usable THEN usable \ {s} ELSE usable \union {s}
    /\ UNCHANGED <<strategy, rows, window, pass, held, history>>

-----------------------------------------------------------------------------
Walk(w) ==
    \/ ReserveSim(w) \/ SimTaken(w) \/ ReservePhone(w) \/ PhoneTaken(w)
    \/ Claim(w) \/ Full(w) \/ Commit(w)
    \/ HandOff(w) \/ ClearWindows(w) \/ BreakDeadlock(w)

Dispatch(w) ==
    \/ \E m \in Msgs : Defer(w, m) \/ Plan(w, m)
    \/ Walk(w)
    \/ Undo(w) \/ Die(w)

Report(m) == (\E s \in Sims : Sent(s, m)) \/ Failed(m) \/ Reclaim(m)

Next ==
    \/ \E w \in Workers : Dispatch(w)
    \/ \E m \in Msgs : Report(m)
    \/ \E x \in Rows : WindowEnds(x)
    \/ \E s \in Sims : FleetChanges(s)

Spec == Init /\ [][Next]_vars

-----------------------------------------------------------------------------
\* Distinct recipients of a SIM never exceed its cap but by sends that were
\* reported after their slot had gone back.
ClaimsExact ==
    \A s \in Limited : SlotsUsed(s) <= RecipientLimit + uncounted[s]

\* The in-flight limit is read before the lock and not again: each concurrent
\* dispatcher may exceed it by the one message it is assigning, no more.
InFlightBounded ==
    \A s \in Sims :
      Cardinality(InFlight(s)) < MaxInFlight[GatewayOf[s]] + Cardinality(Workers)

\* At most one message in a window of a SIM, or of a phone with a rate of its
\* own, unless a dispatcher that lost its socket cleared a window meanwhile.
OnePerWindow ==
    \A x \in Rows : Cardinality(paced[x]) <= 1 \/ x \in disturbed

\* The sequential strategy takes a number to a SIM that could not message it yet
\* only once the SIMs before it were full, cannot carry the message or have
\* failed it.
SpareUntouched ==
    [][\A w \in Workers :
          /\ strategy = "sequential"
          /\ pass[w].step = "claimed" /\ ~pass[w].known /\ pass'[w].step = "committed"
          => \A t \in Permits[pass[w].msg] \ (Flaky \union tried[pass[w].msg]) :
                FleetOrder[t] < FleetOrder[SimOf(w)] => t \in filled]_vars
=============================================================================
