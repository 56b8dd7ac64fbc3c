---------------------------- MODULE RoutingProofs ----------------------------
(***************************************************************************)
(* Of the choice of a SIM, for any fleet, any number of concurrent         *)
(* dispatchers, messages and numbers, and any limits.                      *)
(***************************************************************************)
EXTENDS Routing, FiniteSetTheorems, TLAPS

-----------------------------------------------------------------------------
(* What a dispatcher may be doing. *)

Open == {"picking", "phone", "reserved", "claimed"}

\* A pass that is open walks a shortlist with the SIM it is at still on it, and
\* has locked every row it has reserved; one that is not has let go of them.
Sound(p) ==
    /\ p \in Pass
    /\ p.step = "idle" => p = Idle
    /\ p.step # "idle" => p.msg \in Msgs /\ p.sim \in Sims
    /\ p.step \in Open => p.sim \in p.plan
    /\ p.step \notin Open => p.locks = {}
    /\ p.step = "phone" => GatewayOf[p.sim] \in Rated /\ p.sim \in p.locks
    /\ p.step \in {"reserved", "claimed"} => PacedBy(p.sim) \subseteq p.locks

TypeInv ==
    /\ TypeOK
    /\ \A w \in Workers : Sound(pass[w])
    /\ \A m \in Msgs : sms[m].status = "in_flight" => sms[m].sim \in Sims

LEMMA IdleSound == Sound(Idle)
BY DEF Sound, Idle, Pass, Steps, Open

LEMMA AfterCommit ==
    ASSUME NEW m \in Msgs, NEW s \in Sims, NEW step \in {"committed", "undone"}
    PROVE  Sound([Idle EXCEPT !.step = step, !.msg = m, !.sim = s])
<1>1. Idle \in Pass /\ Idle.locks = {} BY DEF Idle, Pass, Steps
<1> QED BY <1>1 DEF Sound, Pass, Steps, Open

LEMMA RowsOfSims ==
    ASSUME NEW s \in Sims
    PROVE  PacedBy(s) \subseteq Rows /\ s \in PacedBy(s)
           /\ (GatewayOf[s] \notin Rated => PacedBy(s) = {s})
           /\ (GatewayOf[s] \in Rated => PacedBy(s) = {s, GatewayOf[s]})
BY DEF PacedBy, Rows

LEMMA TargetsAreSims ==
    ASSUME NEW m \in Msgs, TypeInv
    PROVE  Targets(m) \subseteq Sims
BY RoutingAssumption
   DEF Targets, Holders, WithAllowance, Candidates, FirstOf, RoutingAssumption

\* Going on with the shortlist, or being done with it.
LEMMA NextSound ==
    ASSUME NEW w \in Workers, Sound(pass[w]), pass[w].step \in Open,
           NEW next \in NextOf(w, pass[w].locks)
    PROVE  /\ Sound(next)
           /\ next.step \in Open =>
                /\ next.step = "picking" /\ next.msg = pass[w].msg
                /\ next.plan = pass[w].plan \ {SimOf(w)}
                /\ next.known = pass[w].known
           /\ next.locks \subseteq pass[w].locks
           /\ next.step \in {"idle", "picking"}
<1> DEFINE rest == pass[w].plan \ {SimOf(w)}
<1>1. CASE rest = {}
  <2>1. next = Idle BY <1>1 DEF NextOf
  <2>2. Idle.step = "idle" /\ Idle.locks = {} BY DEF Idle
  <2> QED BY <2>1, <2>2, IdleSound DEF Open
<1>2. CASE rest # {}
  <2>1. PICK s \in Preferred(rest) :
          next = [pass[w] EXCEPT !.step = "picking", !.plan = rest, !.sim = s, !.locks = pass[w].locks]
    BY <1>2 DEF NextOf
  <2>2. s \in rest BY <2>1 DEF Preferred
  <2>3. pass[w] \in Pass /\ pass[w].msg \in Msgs BY DEF Sound, Open
  <2>4. s \in Sims /\ rest \subseteq Sims BY <2>2, <2>3 DEF Pass
  <2>5. next \in Pass /\ next.step = "picking" /\ next.plan = rest /\ next.sim = s
        /\ next.locks = pass[w].locks /\ next.msg = pass[w].msg /\ next.known = pass[w].known
    BY <2>1, <2>3, <2>4 DEF Pass, Steps
  <2> QED BY <2>2, <2>3, <2>4, <2>5 DEF Sound, Open
<1> QED BY <1>1, <1>2


\* A dispatcher's step changes its own pass, which stays sound, and locks no
\* row that another has locked.
LEMMA OwnPass ==
    ASSUME TypeInv, NEW w \in Workers, Dispatch(w)
    PROVE  /\ Sound(pass'[w])
           /\ pass' \in [Workers -> Pass]
           /\ \A v \in Workers \ {w} : pass'[v] = pass[v]
           /\ \A x \in pass'[w].locks : x \in pass[w].locks \/ ~LockedByOther(w, x)
<1> USE DEF TypeInv
<1>1. pass \in [Workers -> Pass] /\ Sound(pass[w]) BY DEF TypeOK
<1>2. SUFFICES \E p : /\ Sound(p) /\ pass' = [pass EXCEPT ![w] = p]
                      /\ \A x \in p.locks : x \in pass[w].locks \/ ~LockedByOther(w, x)
  BY <1>1 DEF Sound
<1>3. Idle.locks = {} BY DEF Idle
<1>4. ASSUME NEW m \in Msgs, Defer(w, m) PROVE UNCHANGED pass BY <1>4 DEF Defer
<1>5. ASSUME NEW m \in Msgs, Plan(w, m)
      PROVE  \E p : /\ Sound(p) /\ pass' = [pass EXCEPT ![w] = p]
                    /\ \A x \in p.locks : x \in pass[w].locks \/ ~LockedByOther(w, x)
  <2> DEFINE try == {s \in Targets(m) : AvailableNow(s)}
  <2>1. PICK s \in Preferred(try) :
          pass' = [pass EXCEPT ![w] = [Idle EXCEPT !.step = "picking", !.msg = m, !.plan = try,
                                                   !.sim = s, !.known = Holders(m) # {}]]
    BY <1>5 DEF Plan
  <2> DEFINE p == [Idle EXCEPT !.step = "picking", !.msg = m, !.plan = try,
                               !.sim = s, !.known = Holders(m) # {}]
  <2>2. s \in try /\ try \subseteq Sims BY <2>1, TargetsAreSims DEF Preferred
  <2>3. Idle \in Pass BY IdleSound DEF Sound
  <2>4. p \in Pass /\ p.step = "picking" /\ p.msg = m /\ p.plan = try /\ p.sim = s /\ p.locks = {}
    BY <1>3, <2>2, <2>3 DEF Pass, Steps
  <2>5. Sound(p) BY <2>2, <2>4 DEF Sound, Open
  <2> QED BY <2>1, <2>4, <2>5
<1>6. CASE ReserveSim(w)
  <2> DEFINE p == [pass[w] EXCEPT !.step = IF Phone(w) \in Rated THEN "phone" ELSE "reserved",
                                  !.locks = pass[w].locks \union {SimOf(w)}]
  <2>1. pass' = [pass EXCEPT ![w] = p] BY <1>6 DEF ReserveSim
  <2>2. pass[w] \in Pass /\ pass[w].step = "picking" /\ SimOf(w) \in Sims /\ pass[w].msg \in Msgs
        /\ SimOf(w) \in pass[w].plan
    BY <1>1, <1>6 DEF ReserveSim, Sound, SimOf, Open
  <2>3. p \in Pass BY <2>2 DEF Pass, Steps, Rows
  <2>4. /\ p.msg = pass[w].msg /\ p.sim = SimOf(w) /\ p.plan = pass[w].plan
        /\ p.locks = pass[w].locks \union {SimOf(w)}
        /\ p.step = IF Phone(w) \in Rated THEN "phone" ELSE "reserved"
    BY <2>2 DEF Pass, SimOf
  <2>5. Sound(p)
    <3>1. SimOf(w) \in p.locks BY <2>4
    <3>2. p.step = "phone" => GatewayOf[p.sim] \in Rated BY <2>4 DEF Phone
    <3>3. p.step = "reserved" => PacedBy(p.sim) \subseteq p.locks
      BY <2>2, <2>4, <3>1, RowsOfSims DEF Phone
    <3>4. p.step \in {"phone", "reserved"} BY <2>4
    <3> QED BY <2>2, <2>3, <2>4, <3>1, <3>2, <3>3, <3>4 DEF Sound, Open
  <2>6. ~LockedByOther(w, SimOf(w)) BY <1>6 DEF ReserveSim
  <2> HIDE DEF p
  <2> QED BY <2>1, <2>4, <2>5, <2>6
<1>7. CASE ReservePhone(w)
  <2> DEFINE p == [pass[w] EXCEPT !.step = "reserved", !.locks = pass[w].locks \union {Phone(w)}]
  <2>1. pass' = [pass EXCEPT ![w] = p] BY <1>7 DEF ReservePhone
  <2>2. pass[w] \in Pass /\ pass[w].step = "phone" /\ SimOf(w) \in Sims /\ pass[w].msg \in Msgs
        /\ SimOf(w) \in pass[w].plan /\ Phone(w) \in Rated /\ SimOf(w) \in pass[w].locks
    BY <1>1, <1>7 DEF ReservePhone, Sound, SimOf, Open, Phone
  <2>3. p \in Pass BY <2>2 DEF Pass, Steps, Rows
  <2>4. /\ p.msg = pass[w].msg /\ p.sim = SimOf(w) /\ p.plan = pass[w].plan
        /\ p.locks = pass[w].locks \union {Phone(w)}
        /\ p.step = "reserved"
    BY <2>2 DEF Pass, SimOf
  <2>5. Sound(p) BY <2>2, <2>3, <2>4, RowsOfSims DEF Sound, Open, Phone
  <2>6. ~LockedByOther(w, Phone(w)) BY <1>7 DEF ReservePhone
  <2> QED BY <2>1, <2>4, <2>5, <2>6
<1>8. CASE SimTaken(w) \/ PhoneTaken(w) \/ Full(w)
  <2>1. PICK next \in NextOf(w, pass[w].locks) : pass' = [pass EXCEPT ![w] = next]
    BY <1>8 DEF SimTaken, PhoneTaken, Full, MoveOn
  <2>2. pass[w].step \in Open BY <1>8 DEF SimTaken, PhoneTaken, Full, Open
  <2> QED BY <1>1, <2>1, <2>2, NextSound
<1>9. CASE Claim(w)
  <2> DEFINE p == [pass[w] EXCEPT !.step = "claimed",
                     !.slot = IF Holds(SimOf(w), pass[w].msg) THEN "existing" ELSE "claimed"]
  <2>1. pass' = [pass EXCEPT ![w] = p] BY <1>9 DEF Claim
  <2>2. pass[w] \in Pass /\ pass[w].step = "reserved" BY <1>1, <1>9 DEF Claim, Sound
  <2>3. p \in Pass /\ p.step = "claimed" /\ p.msg = pass[w].msg /\ p.sim = pass[w].sim
        /\ p.plan = pass[w].plan /\ p.locks = pass[w].locks
    BY <2>2 DEF Pass, Steps
  <2>4. Sound(p) BY <1>1, <2>2, <2>3 DEF Sound, Open
  <2> QED BY <2>1, <2>3, <2>4
<1>10. CASE Commit(w) \/ Undo(w)
  <2>1. PICK step \in {"committed", "undone"} :
          pass' = [pass EXCEPT ![w] = [Idle EXCEPT !.step = step, !.msg = pass[w].msg,
                                                   !.sim = SimOf(w)]]
    BY <1>10 DEF Commit, Undo
  <2>2. pass[w].msg \in Msgs /\ SimOf(w) \in Sims
    BY <1>1, <1>10 DEF Commit, Undo, Sound, SimOf
  <2>3. [Idle EXCEPT !.step = step, !.msg = pass[w].msg, !.sim = SimOf(w)].locks = {}
    BY <1>3 DEF Idle
  <2> QED BY <2>1, <2>2, <2>3, AfterCommit
<1>11. CASE HandOff(w) \/ ClearWindows(w) \/ BreakDeadlock(w) \/ Die(w)
  <2>1. pass' = [pass EXCEPT ![w] = Idle]
    BY <1>11 DEF HandOff, ClearWindows, BreakDeadlock, Die, RolledBack
  <2> QED BY <1>3, <2>1, IdleSound
<1>12. CASE UNCHANGED pass BY <1>1, <1>12
<1> QED BY <1>4, <1>5, <1>6, <1>7, <1>8, <1>9, <1>10, <1>11, <1>12 DEF Dispatch, Walk


LEMMA PassesSound ==
    ASSUME TypeInv, [Next]_vars
    PROVE  pass' \in [Workers -> Pass] /\ \A w \in Workers : Sound(pass'[w])
<1>1. pass \in [Workers -> Pass] /\ \A w \in Workers : Sound(pass[w]) BY DEF TypeInv, TypeOK
<1>2. ASSUME UNCHANGED pass
      PROVE  pass' \in [Workers -> Pass] /\ \A w \in Workers : Sound(pass'[w])
  BY <1>1, <1>2
<1>3. ASSUME NEW w \in Workers, Dispatch(w)
      PROVE  pass' \in [Workers -> Pass] /\ \A v \in Workers : Sound(pass'[v])
  BY <1>1, <1>3, OwnPass
<1>4. ASSUME NEW x \in Rows, WindowEnds(x)
      PROVE  pass' \in [Workers -> Pass] /\ \A w \in Workers : Sound(pass'[w])
  <2>1. pass' = [w \in Workers |-> IF InTransaction(w) /\ x \notin pass[w].locks
                  THEN [pass[w] EXCEPT !.late = pass[w].late \union {x}] ELSE pass[w]]
    BY <1>4 DEF WindowEnds
  <2>2. ASSUME NEW w \in Workers PROVE Sound(pass'[w])
    <3>1. CASE InTransaction(w) /\ x \notin pass[w].locks
      <4> DEFINE p == [pass[w] EXCEPT !.late = pass[w].late \union {x}]
      <4>1. pass'[w] = p BY <2>1, <3>1
      <4>2. pass[w] \in Pass /\ pass[w].step \in Open BY <1>1, <3>1 DEF InTransaction, Open
      <4>3. p \in Pass /\ p.step = pass[w].step /\ p.msg = pass[w].msg /\ p.sim = pass[w].sim
            /\ p.plan = pass[w].plan /\ p.locks = pass[w].locks
        BY <4>2 DEF Pass
      <4> HIDE DEF p
      <4> QED BY <1>1, <4>1, <4>2, <4>3 DEF Sound, Open
    <3>2. CASE ~(InTransaction(w) /\ x \notin pass[w].locks) BY <1>1, <2>1, <3>2
    <3> QED BY <3>1, <3>2
  <2> QED BY <2>1, <2>2 DEF Sound
<1>5. ASSUME NEW m \in Msgs, Report(m) PROVE UNCHANGED pass
  BY <1>5 DEF Report, Sent, Failed, Reclaim, RetryOrFail
<1>6. ASSUME NEW s \in Sims, FleetChanges(s) PROVE UNCHANGED pass BY <1>6 DEF FleetChanges
<1>7. CASE UNCHANGED vars BY <1>2, <1>7 DEF vars
<1> QED BY <1>2, <1>3, <1>4, <1>5, <1>6, <1>7 DEF Next

-----------------------------------------------------------------------------
(* Messages, ledgers and the rest. *)

Row == [status : {"queued", "in_flight", "sent", "failed"}, sim : Sims \union {NoSim},
        waits : {"no", "device", "allowance"}]
Ledger == [Sims -> [Recipients -> Nat \union {NoRow}]]

\* A message in flight is on a SIM.
Placed(row) == row.status = "in_flight" => row.sim \in Sims

LEMMA RowChanged ==
    ASSUME sms \in [Msgs -> Row], \A k \in Msgs : Placed(sms[k]),
           NEW m \in Msgs, NEW row \in Row, Placed(row), sms' = [sms EXCEPT ![m] = row]
    PROVE  sms' \in [Msgs -> Row] /\ \A k \in Msgs : Placed(sms'[k])
OBVIOUS

LEMMA MessagesTyped ==
    ASSUME TypeInv, [Next]_vars
    PROVE  sms' \in [Msgs -> Row] /\ \A m \in Msgs : Placed(sms'[m])
<1> DEFINE Goal == sms' \in [Msgs -> Row] /\ \A m \in Msgs : Placed(sms'[m])
<1>1. sms \in [Msgs -> Row] /\ \A m \in Msgs : Placed(sms[m])
  BY DEF TypeInv, TypeOK, Row, Placed
<1>2. ASSUME UNCHANGED sms PROVE Goal BY <1>1, <1>2
<1>3. ASSUME NEW m \in Msgs, NEW row \in Row, Placed(row), sms' = [sms EXCEPT ![m] = row] PROVE Goal
  BY <1>1, <1>3, RowChanged
<1> HIDE DEF Goal
<1>4. ASSUME NEW w \in Workers, NEW m \in Msgs, Defer(w, m) PROVE Goal
  <2>1. sms' = [sms EXCEPT ![m] = [sms[m] EXCEPT !.waits = Reason(m)]] BY <1>4 DEF Defer
  <2>2. [sms[m] EXCEPT !.waits = Reason(m)] \in Row BY <1>1 DEF Row, Reason
  <2>3. Placed([sms[m] EXCEPT !.waits = Reason(m)]) BY <1>1 DEF Row, Placed
  <2> QED BY <1>3, <2>1, <2>2, <2>3
<1>5. ASSUME NEW w \in Workers, SimTaken(w) \/ PhoneTaken(w) \/ Full(w) PROVE Goal
  <2> DEFINE m == pass[w].msg
  <2>1. m \in Msgs BY <1>5 DEF SimTaken, PhoneTaken, Full, TypeInv, Sound
  <2>2. UNCHANGED sms \/ sms' = [sms EXCEPT ![m] = [sms[m] EXCEPT !.waits = "no"]]
    BY <1>5 DEF SimTaken, PhoneTaken, Full, MoveOn
  <2>3. [sms[m] EXCEPT !.waits = "no"] \in Row BY <1>1, <2>1 DEF Row
  <2>4. Placed([sms[m] EXCEPT !.waits = "no"]) BY <1>1, <2>1 DEF Row, Placed
  <2> QED BY <1>2, <1>3, <2>1, <2>2, <2>3, <2>4
<1>6. ASSUME NEW w \in Workers, Commit(w) PROVE Goal
  <2> DEFINE row == [status |-> "in_flight", sim |-> SimOf(w), waits |-> "no"]
  <2>1. pass[w].msg \in Msgs /\ SimOf(w) \in Sims BY <1>6 DEF Commit, TypeInv, Sound, SimOf
  <2>2. sms' = [sms EXCEPT ![pass[w].msg] = row] BY <1>6 DEF Commit
  <2> QED BY <1>3, <2>1, <2>2 DEF Row, Placed
<1>7. ASSUME NEW w \in Workers, Undo(w) PROVE Goal
  <2> DEFINE m == pass[w].msg
  <2>1. m \in Msgs BY <1>7 DEF Undo, TypeInv, Sound
  <2>2. sms' = [sms EXCEPT ![m] = [sms[m] EXCEPT !.status = "queued", !.sim = NoSim]]
    BY <1>7 DEF Undo
  <2>3. [sms[m] EXCEPT !.status = "queued", !.sim = NoSim] \in Row BY <1>1, <2>1 DEF Row
  <2>4. Placed([sms[m] EXCEPT !.status = "queued", !.sim = NoSim]) BY <1>1, <2>1 DEF Row, Placed
  <2> QED BY <1>3, <2>1, <2>2, <2>3, <2>4
<1>8. ASSUME NEW m \in Msgs, NEW s \in Sims, Sent(s, m) PROVE Goal
  <2>1. sms' = [sms EXCEPT ![m] = [status |-> "sent", sim |-> s, waits |-> "no"]] BY <1>8 DEF Sent
  <2> QED BY <1>3, <2>1 DEF Row, Placed
<1>9. ASSUME NEW m \in Msgs, Failed(m) \/ Reclaim(m) PROVE Goal
  <2>1. \/ sms' = [sms EXCEPT ![m] = [status |-> "queued", sim |-> NoSim, waits |-> "no"]]
        \/ sms' = [sms EXCEPT ![m] = [sms[m] EXCEPT !.status = "failed"]]
    BY <1>9 DEF Failed, Reclaim, RetryOrFail
  <2>2. [status |-> "queued", sim |-> NoSim, waits |-> "no"] \in Row BY DEF Row
  <2>3. Placed([status |-> "queued", sim |-> NoSim, waits |-> "no"]) BY DEF Placed
  <2>4. [sms[m] EXCEPT !.status = "failed"] \in Row BY <1>1 DEF Row
  <2>5. Placed([sms[m] EXCEPT !.status = "failed"]) BY <1>1 DEF Row, Placed
  <2> QED BY <1>3, <2>1, <2>2, <2>3, <2>4, <2>5
<1>10. ASSUME NEW w \in Workers,
              \/ \E m \in Msgs : Plan(w, m)
              \/ ReserveSim(w) \/ ReservePhone(w) \/ Claim(w) \/ HandOff(w) \/ ClearWindows(w)
              \/ BreakDeadlock(w) \/ Die(w)
       PROVE  UNCHANGED sms
  BY <1>10 DEF Plan, ReserveSim, ReservePhone, Claim, HandOff, ClearWindows, BreakDeadlock, Die, rows
<1>11. ASSUME (\E x \in Rows : WindowEnds(x)) \/ (\E s \in Sims : FleetChanges(s)) PROVE UNCHANGED sms
  BY <1>11 DEF WindowEnds, FleetChanges, rows
<1>12. ASSUME UNCHANGED vars PROVE Goal BY <1>2, <1>12 DEF vars, rows
<1>13. Goal
  BY <1>2, <1>4, <1>5, <1>6, <1>7, <1>8, <1>9, <1>10, <1>11, <1>12
     DEF Next, Dispatch, Walk, Report
<1> QED BY <1>13 DEF Goal


LEMMA ReleasedTyped ==
    ASSUME NEW led \in Ledger, NEW s, NEW m \in Msgs
    PROVE  Released(led, s, m) \in Ledger
<1>1. NoRow \in Nat \union {NoRow} /\ RecipientOf[m] \in Recipients
  BY RoutingAssumption DEF RoutingAssumption
<1>2. [led EXCEPT ![s][RecipientOf[m]] = NoRow] \in Ledger BY <1>1 DEF Ledger
<1> QED BY <1>2 DEF Released

LEMMA LedgerTyped ==
    ASSUME TypeInv, [Next]_vars
    PROVE  ledger' \in Ledger
<1>1. ledger \in Ledger BY DEF TypeInv, TypeOK, Ledger
<1>2. ASSUME UNCHANGED ledger PROVE ledger' \in Ledger BY <1>1, <1>2
<1>3. ASSUME NEW w \in Workers, Commit(w) PROVE ledger' \in Ledger
  <2>1. pass[w].msg \in Msgs /\ SimOf(w) \in Sims BY <1>3 DEF Commit, TypeInv, Sound, SimOf
  <2>2. NumberOf(w) \in Recipients BY <2>1, RoutingAssumption DEF NumberOf, RoutingAssumption
  <2>3. [ledger EXCEPT ![SimOf(w)][NumberOf(w)] = 0] \in Ledger BY <1>1, <2>1, <2>2 DEF Ledger
  <2> QED BY <1>1, <1>3, <2>3 DEF Commit
<1>4. ASSUME NEW w \in Workers, Undo(w) PROVE ledger' \in Ledger
  <2>1. pass[w].msg \in Msgs BY <1>4 DEF Undo, TypeInv, Sound
  <2> QED BY <1>1, <1>4, <2>1, ReleasedTyped DEF Undo
<1>5. ASSUME NEW m \in Msgs, NEW s \in Sims, Sent(s, m) PROVE ledger' \in Ledger
  <2> DEFINE led == IF sms[m].status = "in_flight" /\ sms[m].sim # s
                    THEN Released(ledger, sms[m].sim, m) ELSE ledger
             r == RecipientOf[m]
             n == IF led[s][r] = NoRow THEN 1 ELSE led[s][r] + 1
  <2>1. led \in Ledger BY <1>1, ReleasedTyped
  <2>2. ledger' = [led EXCEPT ![s][r] = n] BY <1>5 DEF Sent
  <2>3. r \in Recipients BY RoutingAssumption DEF RoutingAssumption
  <2> HIDE DEF led, r
  <2>4. n \in Nat BY <2>1, <2>3 DEF Ledger
  <2> HIDE DEF n
  <2> QED BY <2>1, <2>2, <2>3, <2>4 DEF Ledger
<1>6. ASSUME NEW m \in Msgs, Failed(m) \/ Reclaim(m) PROVE ledger' \in Ledger
  BY <1>1, <1>6, ReleasedTyped DEF Failed, Reclaim, RetryOrFail
<1>7. ASSUME NEW w \in Workers,
             \/ \E m \in Msgs : Plan(w, m) \/ Defer(w, m)
             \/ ReserveSim(w) \/ ReservePhone(w) \/ Claim(w) \/ HandOff(w) \/ ClearWindows(w)
             \/ BreakDeadlock(w) \/ Die(w) \/ SimTaken(w) \/ PhoneTaken(w) \/ Full(w)
      PROVE  UNCHANGED ledger
  BY <1>7 DEF Plan, Defer, ReserveSim, ReservePhone, Claim, HandOff, ClearWindows, BreakDeadlock,
              Die, SimTaken, PhoneTaken, Full, rows
<1>8. ASSUME (\E x \in Rows : WindowEnds(x)) \/ (\E s \in Sims : FleetChanges(s))
      PROVE  UNCHANGED ledger
  BY <1>8 DEF WindowEnds, FleetChanges, rows
<1>9. CASE UNCHANGED vars BY <1>2, <1>9 DEF vars, rows
<1> QED BY <1>2, <1>3, <1>4, <1>5, <1>6, <1>7, <1>8, <1>9 DEF Next, Dispatch, Walk, Report


\* Windows, and what the history records of them.
LEMMA WindowsTyped ==
    ASSUME TypeInv, [Next]_vars
    PROVE  window' \subseteq Rows /\ paced' \in [Rows -> SUBSET Msgs] /\ disturbed' \subseteq Rows
<1> DEFINE Goal == window' \subseteq Rows /\ paced' \in [Rows -> SUBSET Msgs] /\ disturbed' \subseteq Rows
<1>1. window \subseteq Rows /\ paced \in [Rows -> SUBSET Msgs] /\ disturbed \subseteq Rows
  BY DEF TypeInv, TypeOK
<1>2. ASSUME UNCHANGED <<window, paced, disturbed>> PROVE Goal BY <1>1, <1>2
<1>3. ASSUME NEW w \in Workers, ReserveSim(w) \/ ReservePhone(w) PROVE Goal
  <2>1. SimOf(w) \in Rows /\ (pass[w].step = "phone" => Phone(w) \in Rows)
    BY <1>3 DEF ReserveSim, ReservePhone, TypeInv, Sound, SimOf, Phone, Rows
  <2>2. window' \subseteq window \union {SimOf(w)} \/ (pass[w].step = "phone" /\ window' \subseteq window \union {Phone(w)})
    BY <1>3 DEF ReserveSim, ReservePhone
  <2>3. UNCHANGED <<paced, disturbed>> BY <1>3 DEF ReserveSim, ReservePhone, history
  <2> QED BY <1>1, <2>1, <2>2, <2>3
<1>4. ASSUME NEW w \in Workers, PhoneTaken(w) \/ Full(w) \/ BreakDeadlock(w) \/ Die(w) PROVE Goal
  <2>1. UNCHANGED <<paced, disturbed>> BY <1>4 DEF PhoneTaken, Full, BreakDeadlock, Die, history
  <2>2. window' \subseteq window BY <1>4 DEF PhoneTaken, Full, BreakDeadlock, Die, RolledBack
  <2> QED BY <1>1, <2>1, <2>2
<1>5. ASSUME NEW w \in Workers, Commit(w) PROVE Goal
  <2>1. pass[w].msg \in Msgs BY <1>5 DEF Commit, TypeInv, Sound
  <2>2. paced' = [x \in Rows |-> IF x \in PacedBy(SimOf(w)) \intersect window
                                 THEN paced[x] \union {pass[w].msg} ELSE paced[x]]
    BY <1>5 DEF Commit
  <2>3. UNCHANGED <<window, disturbed>> BY <1>5 DEF Commit
  <2> QED BY <1>1, <2>1, <2>2, <2>3
<1>6. ASSUME NEW w \in Workers, Undo(w) PROVE Goal BY <1>1, <1>6 DEF Undo
<1>7. ASSUME NEW w \in Workers, ClearWindows(w) PROVE Goal
  <2>1. SimOf(w) \in Sims BY <1>7 DEF ClearWindows, TypeInv, Sound, SimOf
  <2> QED BY <1>1, <1>7, <2>1, RowsOfSims DEF ClearWindows
<1>8. ASSUME NEW x \in Rows, WindowEnds(x) PROVE Goal BY <1>1, <1>8 DEF WindowEnds
<1>9. ASSUME NEW w \in Workers,
             \/ \E m \in Msgs : Plan(w, m) \/ Defer(w, m)
             \/ Claim(w) \/ HandOff(w) \/ SimTaken(w)
      PROVE  UNCHANGED <<window, paced, disturbed>>
  BY <1>9 DEF Plan, Defer, Claim, HandOff, SimTaken, history
<1>10. ASSUME NEW m \in Msgs, Report(m) PROVE UNCHANGED <<window, paced, disturbed>>
  BY <1>10 DEF Report, Sent, Failed, Reclaim, RetryOrFail, history
<1>11. ASSUME NEW s \in Sims, FleetChanges(s) PROVE UNCHANGED <<window, paced, disturbed>>
  BY <1>11 DEF FleetChanges, history
<1>12. ASSUME UNCHANGED vars PROVE UNCHANGED <<window, paced, disturbed>> BY <1>12 DEF vars, history
<1> HIDE DEF Goal
<1>13. Goal
  BY <1>2, <1>3, <1>4, <1>5, <1>6, <1>7, <1>8, <1>9, <1>10, <1>11, <1>12
     DEF Next, Dispatch, Walk
<1> QED BY <1>13 DEF Goal

LEMMA HeldTyped ==
    ASSUME TypeInv, [Next]_vars
    PROVE  held' \in [Sims -> SUBSET Msgs] /\ tried' \in [Msgs -> SUBSET Sims]
<1>1. held \in [Sims -> SUBSET Msgs] /\ tried \in [Msgs -> SUBSET Sims] BY DEF TypeInv, TypeOK
<1>2. ASSUME NEW w \in Workers, Dispatch(w)
      PROVE  held' \in [Sims -> SUBSET Msgs] /\ tried' \in [Msgs -> SUBSET Sims]
  <2>1. CASE HandOff(w)
    <3>1. pass[w].msg \in Msgs BY <2>1 DEF HandOff, TypeInv, Sound
    <3> QED BY <1>1, <2>1, <3>1 DEF HandOff, rows
  <2>2. CASE Commit(w)
    <3>1. SimOf(w) \in Sims BY <2>2 DEF Commit, TypeInv, Sound, SimOf
    <3> QED BY <1>1, <2>2, <3>1 DEF Commit
  <2>3. CASE Undo(w) BY <1>1, <2>3 DEF Undo
  <2>4. CASE UNCHANGED <<held, tried>> BY <1>1, <2>4
  <2>5. ASSUME ~HandOff(w), ~Commit(w), ~Undo(w) PROVE UNCHANGED <<held, tried>>
    BY <1>2, <2>5
       DEF Dispatch, Walk, Defer, Plan, ReserveSim, SimTaken, ReservePhone, PhoneTaken, Claim, Full,
           ClearWindows, BreakDeadlock, Die, rows
  <2> QED BY <2>1, <2>2, <2>3, <2>4, <2>5
<1>3. ASSUME NEW m \in Msgs, Report(m)
      PROVE  held' \in [Sims -> SUBSET Msgs] /\ tried' \in [Msgs -> SUBSET Sims]
  <2>1. UNCHANGED tried BY <1>3 DEF Report, Sent, Failed, Reclaim, RetryOrFail
  <2>2. held' = held \/ \E s : held' = [held EXCEPT ![s] = held[s] \ {m}]
    BY <1>3 DEF Report, Sent, Failed, Reclaim
  <2> QED BY <1>1, <2>1, <2>2
<1>4. ASSUME (\E x \in Rows : WindowEnds(x)) \/ (\E s \in Sims : FleetChanges(s)) \/ UNCHANGED vars
      PROVE  UNCHANGED <<held, tried>>
  BY <1>4 DEF WindowEnds, FleetChanges, rows, vars
<1> QED BY <1>1, <1>2, <1>3, <1>4 DEF Next

LEMMA CountersTyped ==
    ASSUME TypeInv, [Next]_vars
    PROVE  /\ strategy' \in Strategies /\ usable' \subseteq Sims /\ upsets' \in 0 .. MaxUpsets
           /\ uncounted' \in [Sims -> Nat] /\ filled' \subseteq Sims
<1>1. /\ strategy \in Strategies /\ usable \subseteq Sims /\ upsets \in 0 .. MaxUpsets
      /\ uncounted \in [Sims -> Nat] /\ filled \subseteq Sims
      /\ MaxUpsets \in Nat /\ Limited \subseteq Sims
  BY RoutingAssumption DEF TypeInv, TypeOK, RoutingAssumption
<1>2. ASSUME NEW w \in Workers, Dispatch(w)
      PROVE  /\ UNCHANGED <<strategy, usable, uncounted>>
             /\ filled' = filled \/ filled' = filled \union FullSims(ledger')
             /\ upsets' = upsets \/ (upsets < MaxUpsets /\ upsets' = upsets + 1)
  BY <1>2
     DEF Dispatch, Walk, Defer, Plan, ReserveSim, SimTaken, ReservePhone, PhoneTaken, Claim, Full,
         Commit, HandOff, Undo, ClearWindows, BreakDeadlock, Die, history
<1>3. ASSUME NEW m \in Msgs, NEW s \in Sims, Sent(s, m)
      PROVE  /\ UNCHANGED <<strategy, usable, upsets>> /\ filled' = filled \union FullSims(ledger')
             /\ \E n \in Nat : uncounted' = [uncounted EXCEPT ![s] = n]
  <2>1. PICK led : uncounted' = [uncounted EXCEPT ![s] = IF led[s][RecipientOf[m]] = NoRow
                                                         THEN uncounted[s] + 1 ELSE uncounted[s]]
    BY <1>3 DEF Sent
  <2>2. (IF led[s][RecipientOf[m]] = NoRow THEN uncounted[s] + 1 ELSE uncounted[s]) \in Nat
    BY <1>1
  <2> QED BY <1>3, <2>1, <2>2 DEF Sent
<1>4. ASSUME NEW m \in Msgs, Failed(m) \/ Reclaim(m)
      PROVE  /\ UNCHANGED <<strategy, usable, uncounted, filled>>
             /\ upsets' \in 0 .. MaxUpsets
  <2>1. UNCHANGED <<strategy, usable, uncounted, filled>>
    BY <1>4 DEF Failed, Reclaim, RetryOrFail, history
  <2>2. ASSUME Failed(m) PROVE upsets' \in 0 .. MaxUpsets BY <1>1, <2>2 DEF Failed
  <2>3. ASSUME Reclaim(m) PROVE upsets' \in 0 .. MaxUpsets
    <3>1. upsets' \in {upsets, upsets + 1} /\ upsets' <= MaxUpsets BY <2>3 DEF Reclaim
    <3> QED BY <1>1, <3>1
  <2> QED BY <1>4, <2>1, <2>2, <2>3
<1>5. ASSUME NEW x \in Rows, WindowEnds(x) PROVE UNCHANGED <<strategy, usable, upsets, uncounted, filled>>
  BY <1>5 DEF WindowEnds
<1>6. ASSUME NEW s \in Sims, FleetChanges(s)
      PROVE  /\ UNCHANGED <<strategy, uncounted, filled>> /\ usable' \subseteq Sims
             /\ upsets' = upsets \/ (upsets < MaxUpsets /\ upsets' = upsets + 1)
  BY <1>1, <1>6 DEF FleetChanges, history
<1>7. CASE UNCHANGED vars BY <1>1, <1>7 DEF vars, history
<1>8. FullSims(ledger') \subseteq Sims BY <1>1 DEF FullSims
<1> QED BY <1>1, <1>2, <1>3, <1>4, <1>5, <1>6, <1>7, <1>8 DEF Next, Report

LEMMA TypeStep == TypeInv /\ [Next]_vars => TypeInv'
BY PassesSound, MessagesTyped, LedgerTyped, WindowsTyped, HeldTyped, CountersTyped
   DEF TypeInv, TypeOK, Row, Placed, Ledger

LEMMA TypeInit == Init => TypeInv
<1> SUFFICES ASSUME Init PROVE TypeInv
  OBVIOUS
<1>1. sms \in [Msgs -> Row] /\ \A m \in Msgs : sms[m].status # "in_flight" BY DEF Init, Row
<1>2. pass \in [Workers -> Pass] /\ \A w \in Workers : Sound(pass[w])
  BY IdleSound DEF Init, Sound
<1> QED BY <1>1, <1>2, RoutingAssumption DEF Init, TypeInv, TypeOK, Row, RoutingAssumption

\* The rows of messages, ledgers and windows, and what each dispatcher holds, stay
\* well typed: no count of a ledger row falls below zero, whatever is released,
\* claimed and reported in between (sim_profile_selector.ts, recipient_allowance.ts).
THEOREM AlwaysTyped == Spec => []TypeOK
<1>1. TypeInv => TypeOK BY DEF TypeInv
<1> QED BY <1>1, TypeInit, TypeStep, PTL DEF Spec


-----------------------------------------------------------------------------
(* How a shortlist shrinks. *)

LEMMA OpenIs == \A w \in Workers : InTransaction(w) <=> pass[w].step \in Open
BY DEF InTransaction, Open

LEMMA Planned ==
    ASSUME TypeInv, NEW w \in Workers, NEW m \in Msgs, Plan(w, m)
    PROVE  /\ pass'[w].step = "picking" /\ pass'[w].msg = m
           /\ pass'[w].plan = {s \in Targets(m) : AvailableNow(s)}
           /\ pass'[w].known = (Holders(m) # {})
           /\ pass[w] = Idle
<1> DEFINE try == {s \in Targets(m) : AvailableNow(s)}
<1>1. PICK s \in Preferred(try) :
        pass' = [pass EXCEPT ![w] = [Idle EXCEPT !.step = "picking", !.msg = m, !.plan = try,
                                                 !.sim = s, !.known = Holders(m) # {}]]
  BY DEF Plan
<1>2. Idle \in Pass BY IdleSound DEF Sound
<1>3. pass'[w] = [Idle EXCEPT !.step = "picking", !.msg = m, !.plan = try,
                              !.sim = s, !.known = Holders(m) # {}]
  BY <1>1 DEF TypeInv, TypeOK
<1> HIDE DEF try
<1>4. pass'[w].step = "picking" /\ pass'[w].msg = m /\ pass'[w].plan = try
      /\ pass'[w].known = (Holders(m) # {})
  BY <1>2, <1>3 DEF Pass
<1>5. pass[w] = Idle BY DEF Plan, Begin
<1> QED BY <1>4, <1>5 DEF try

\* Once planned, a message stays the one the dispatcher works on, and the SIMs
\* it may go to become fewer, until it is committed or given up.
LEMMA PlanShrinks ==
    ASSUME TypeInv, NEW w \in Workers, Dispatch(w), \A m \in Msgs : ~Plan(w, m),
           pass'[w].step \in Open
    PROVE  /\ pass[w].step \in Open /\ pass'[w].plan \subseteq pass[w].plan
           /\ pass'[w].msg = pass[w].msg /\ pass'[w].known = pass[w].known
<1>1. pass \in [Workers -> Pass] /\ Sound(pass[w]) BY DEF TypeInv, TypeOK
<1>2. CASE UNCHANGED pass BY <1>2
<1>3. CASE SimTaken(w) \/ PhoneTaken(w) \/ Full(w)
  <2>1. PICK next \in NextOf(w, pass[w].locks) : pass' = [pass EXCEPT ![w] = next]
    BY <1>3 DEF SimTaken, PhoneTaken, Full, MoveOn
  <2>2. pass[w].step \in Open BY <1>3 DEF SimTaken, PhoneTaken, Full, Open
  <2>3. pass'[w] = next BY <1>1, <2>1
  <2> QED BY <1>1, <2>2, <2>3, NextSound
<1>4. CASE ReserveSim(w) \/ ReservePhone(w) \/ Claim(w)
  <2>1. pass[w].step \in Open BY <1>4 DEF ReserveSim, ReservePhone, Claim, Open
  <2>2. pass'[w].plan = pass[w].plan /\ pass'[w].msg = pass[w].msg /\ pass'[w].known = pass[w].known
    <3>1. CASE ReserveSim(w) BY <1>1, <3>1 DEF ReserveSim, Pass
    <3>2. CASE ReservePhone(w) BY <1>1, <3>2 DEF ReservePhone, Pass
    <3>3. CASE Claim(w) BY <1>1, <3>3 DEF Claim, Pass
    <3> QED BY <1>4, <3>1, <3>2, <3>3
  <2> QED BY <2>1, <2>2
<1>5. CASE HandOff(w) \/ ClearWindows(w) \/ BreakDeadlock(w) \/ Die(w)
  <2>1. pass'[w] = Idle
    BY <1>1, <1>5 DEF HandOff, ClearWindows, BreakDeadlock, Die, RolledBack
  <2> QED BY <2>1 DEF Idle, Open
<1>6. CASE Commit(w) \/ Undo(w)
  <2>1. PICK step \in {"committed", "undone"} :
          pass'[w] = [Idle EXCEPT !.step = step, !.msg = pass[w].msg, !.sim = SimOf(w)]
    BY <1>1, <1>6 DEF Commit, Undo
  <2>2. Idle \in Pass BY IdleSound DEF Sound
  <2>3. pass'[w].step = step BY <2>1, <2>2 DEF Pass
  <2> QED BY <2>3 DEF Open
<1>7. CASE \E m \in Msgs : Defer(w, m)
  <2>1. UNCHANGED pass BY <1>7 DEF Defer
  <2> QED BY <1>2, <2>1
<1> QED BY <1>3, <1>4, <1>5, <1>6, <1>7 DEF Dispatch, Walk

\* What does not plan changes no shortlist but to shorten it.
LEMMA OthersPlans ==
    ASSUME TypeInv, [Next]_vars, NEW v \in Workers, \A m \in Msgs : ~Plan(v, m),
           pass'[v].step \in Open
    PROVE  /\ pass[v].step \in Open /\ pass'[v].plan \subseteq pass[v].plan
           /\ pass'[v].msg = pass[v].msg /\ pass'[v].known = pass[v].known
<1>1. CASE UNCHANGED pass BY <1>1
<1>2. ASSUME NEW w \in Workers, Dispatch(w)
      PROVE  /\ pass[v].step \in Open /\ pass'[v].plan \subseteq pass[v].plan
             /\ pass'[v].msg = pass[v].msg /\ pass'[v].known = pass[v].known
  <2>1. CASE v = w BY <1>2, <2>1, PlanShrinks
  <2>2. CASE v # w
    <3>1. pass'[v] = pass[v] BY <1>2, <2>2, OwnPass
    <3> QED BY <3>1
  <2> QED BY <2>1, <2>2
<1>3. ASSUME NEW x \in Rows, WindowEnds(x)
      PROVE  /\ pass[v].step \in Open /\ pass'[v].plan \subseteq pass[v].plan
             /\ pass'[v].msg = pass[v].msg /\ pass'[v].known = pass[v].known
  <2>1. pass[v] \in Pass BY DEF TypeInv, TypeOK
  <2>2. pass'[v] \in {pass[v], [pass[v] EXCEPT !.late = pass[v].late \union {x}]}
    BY <1>3 DEF WindowEnds
  <2> QED BY <2>1, <2>2 DEF Pass
<1>4. ASSUME (\E m \in Msgs : Report(m)) \/ (\E s \in Sims : FleetChanges(s)) \/ UNCHANGED vars
      PROVE  UNCHANGED pass
  BY <1>4 DEF Report, Sent, Failed, Reclaim, RetryOrFail, FleetChanges, vars
<1> QED BY <1>1, <1>2, <1>3, <1>4 DEF Next

-----------------------------------------------------------------------------
(* Messages in flight. *)

\* Only a commit puts a message on a SIM.
LEMMA InFlightGrows ==
    ASSUME TypeInv, [Next]_vars, NEW s \in Sims
    PROVE  \/ InFlight(s)' \subseteq InFlight(s)
           \/ \E w \in Workers : /\ Commit(w) /\ s = SimOf(w)
                                 /\ InFlight(s)' \subseteq InFlight(s) \union {pass[w].msg}
<1> DEFINE Kept(m) == sms'[m].status = "in_flight" /\ sms'[m].sim = s
                        => sms[m].status = "in_flight" /\ sms[m].sim = s
<1>1. sms \in [Msgs -> Row] BY DEF TypeInv, TypeOK, Row
<1>2. ASSUME \A m \in Msgs : Kept(m) PROVE InFlight(s)' \subseteq InFlight(s)
  BY <1>2 DEF InFlight
<1>3. ASSUME NEW m \in Msgs, Kept(m), \A k \in Msgs \ {m} : sms'[k] = sms[k]
      PROVE  InFlight(s)' \subseteq InFlight(s)
  BY <1>2, <1>3
<1>4. ASSUME UNCHANGED sms PROVE InFlight(s)' \subseteq InFlight(s) BY <1>2, <1>4
<1>5. ASSUME NEW w \in Workers, Dispatch(w), ~Commit(w) PROVE InFlight(s)' \subseteq InFlight(s)
  <2>1. CASE UNCHANGED sms BY <1>4, <2>1
  <2>2. ASSUME NEW m \in Msgs, sms' = [sms EXCEPT ![m].waits = sms'[m].waits]
        PROVE  InFlight(s)' \subseteq InFlight(s)
    <3>1. Kept(m) BY <1>1, <2>2 DEF Row
    <3>2. \A k \in Msgs \ {m} : sms'[k] = sms[k] BY <1>1, <2>2
    <3> QED BY <1>3, <3>1, <3>2
  <2>3. ASSUME NEW m \in Msgs, Defer(w, m) PROVE sms' = [sms EXCEPT ![m].waits = sms'[m].waits]
    BY <1>1, <2>3 DEF Defer, Row
  <2>4. ASSUME SimTaken(w) \/ PhoneTaken(w) \/ Full(w)
        PROVE  UNCHANGED sms \/ \E m \in Msgs : sms' = [sms EXCEPT ![m].waits = sms'[m].waits]
    <3>1. pass[w].msg \in Msgs BY <2>4 DEF SimTaken, PhoneTaken, Full, TypeInv, Sound
    <3>2. UNCHANGED sms \/ sms' = [sms EXCEPT ![pass[w].msg].waits = "no"]
      BY <2>4 DEF SimTaken, PhoneTaken, Full, MoveOn
    <3> QED BY <1>1, <3>1, <3>2 DEF Row
  <2>5. CASE Undo(w)
    <3>1. pass[w].msg \in Msgs BY <2>5 DEF Undo, TypeInv, Sound
    <3>2. Kept(pass[w].msg) BY <1>1, <2>5, <3>1 DEF Undo, Row
    <3>3. \A k \in Msgs \ {pass[w].msg} : sms'[k] = sms[k] BY <1>1, <2>5 DEF Undo
    <3> QED BY <1>3, <3>1, <3>2, <3>3
  <2>6. ASSUME \/ \E m \in Msgs : Plan(w, m)
               \/ ReserveSim(w) \/ ReservePhone(w) \/ Claim(w) \/ HandOff(w) \/ ClearWindows(w)
               \/ BreakDeadlock(w) \/ Die(w)
        PROVE  UNCHANGED sms
    BY <2>6 DEF Plan, ReserveSim, ReservePhone, Claim, HandOff, ClearWindows, BreakDeadlock, Die, rows
  <2> QED BY <1>5, <2>1, <2>2, <2>3, <2>4, <2>5, <2>6 DEF Dispatch, Walk
<1>6. ASSUME NEW m \in Msgs, Report(m) PROVE InFlight(s)' \subseteq InFlight(s)
  <2>1. \A k \in Msgs \ {m} : sms'[k] = sms[k]
    BY <1>1, <1>6 DEF Report, Sent, Failed, Reclaim, RetryOrFail
  <2>2. Kept(m)
    <3>1. ASSUME NEW t \in Sims, Sent(t, m) PROVE sms'[m].status = "sent" BY <1>1, <3>1 DEF Sent
    <3>2. ASSUME Failed(m) \/ Reclaim(m) PROVE sms'[m].status # "in_flight"
      BY <1>1, <3>2 DEF Failed, Reclaim, RetryOrFail, Row
    <3> QED BY <1>6, <3>1, <3>2 DEF Report
  <2> QED BY <1>3, <2>1, <2>2
<1>7. ASSUME NEW w \in Workers, Commit(w)
      PROVE  IF s = SimOf(w) THEN InFlight(s)' \subseteq InFlight(s) \union {pass[w].msg}
             ELSE InFlight(s)' \subseteq InFlight(s)
  <2>1. pass[w].msg \in Msgs BY <1>7 DEF Commit, TypeInv, Sound
  <2>2. sms' = [sms EXCEPT ![pass[w].msg] = [status |-> "in_flight", sim |-> SimOf(w),
                                             waits |-> "no"]]
    BY <1>7 DEF Commit
  <2>3. \A k \in Msgs \ {pass[w].msg} : sms'[k] = sms[k] BY <1>1, <2>2
  <2>4. CASE s = SimOf(w) BY <2>3, <2>4 DEF InFlight
  <2>5. CASE s # SimOf(w)
    <3>1. Kept(pass[w].msg) BY <1>1, <2>1, <2>2, <2>5
    <3> QED BY <1>3, <2>1, <2>3, <2>5, <3>1
  <2> QED BY <2>4, <2>5
<1>8. ASSUME (\E x \in Rows : WindowEnds(x)) \/ (\E t \in Sims : FleetChanges(t)) \/ UNCHANGED vars
      PROVE  UNCHANGED sms
  BY <1>8 DEF WindowEnds, FleetChanges, rows, vars
<1> HIDE DEF Kept
<1> QED BY <1>4, <1>5, <1>6, <1>7, <1>8 DEF Next


\* The dispatchers that may still put a message on a SIM.
Planning(s) == {w \in Workers : pass[w].step \in Open /\ s \in pass[w].plan}

\* A SIM has room for every message that a dispatcher may yet put on it, but for
\* one too many of each.
Roomy(s) ==
    /\ IsFiniteSet(InFlight(s))
    /\ Cardinality(InFlight(s)) + Cardinality(Planning(s))
         <= MaxInFlight[GatewayOf[s]] - 1 + Cardinality(Workers)

LEMMA Fewer ==
    ASSUME NEW A, NEW B, IsFiniteSet(A), IsFiniteSet(B), NEW A2 \in SUBSET A, NEW B2 \in SUBSET B
    PROVE  /\ IsFiniteSet(A2) /\ IsFiniteSet(B2)
           /\ Cardinality(A2) + Cardinality(B2) <= Cardinality(A) + Cardinality(B)
<1>1. /\ IsFiniteSet(A2) /\ IsFiniteSet(B2)
      /\ Cardinality(A2) <= Cardinality(A) /\ Cardinality(B2) <= Cardinality(B)
  BY FS_Subset
<1>2. Cardinality(A) \in Nat /\ Cardinality(B) \in Nat /\ Cardinality(A2) \in Nat
      /\ Cardinality(B2) \in Nat
  BY <1>1, FS_CardinalityType
<1> QED BY <1>1, <1>2

LEMMA OneMovesOver ==
    ASSUME NEW A, NEW B, IsFiniteSet(A), IsFiniteSet(B), NEW a, NEW b \in B,
           NEW A2 \in SUBSET (A \union {a}), NEW B2 \in SUBSET (B \ {b})
    PROVE  /\ IsFiniteSet(A2)
           /\ Cardinality(A2) + Cardinality(B2) <= Cardinality(A) + Cardinality(B)
<1>1. Cardinality(A) \in Nat /\ Cardinality(B) \in Nat BY FS_CardinalityType
<1>2. IsFiniteSet(A \union {a}) /\ Cardinality(A \union {a}) <= Cardinality(A) + 1
  <2>1. IsFiniteSet(A \union {a}) BY FS_AddElement
  <2>2. Cardinality(A \union {a}) = IF a \in A THEN Cardinality(A) ELSE Cardinality(A) + 1
    BY FS_AddElement
  <2>3. CASE a \in A BY <1>1, <2>1, <2>2, <2>3
  <2>4. CASE a \notin A BY <1>1, <2>1, <2>2, <2>4
  <2> QED BY <2>3, <2>4
<1>3. IsFiniteSet(B \ {b}) /\ Cardinality(B \ {b}) = Cardinality(B) - 1 BY FS_RemoveElement
<1>4. /\ IsFiniteSet(A2)
      /\ Cardinality(A2) + Cardinality(B2) <= Cardinality(A \union {a}) + Cardinality(B \ {b})
  BY <1>2, <1>3, Fewer
<1>5. Cardinality(A2) \in Nat /\ Cardinality(B2) \in Nat /\ Cardinality(A \union {a}) \in Nat
  BY <1>2, <1>3, <1>4, FS_CardinalityType, FS_Subset
<1> QED BY <1>1, <1>2, <1>3, <1>4, <1>5

LEMMA WorkersFinite ==
    IsFiniteSet(Workers) /\ Cardinality(Workers) \in Nat /\ \A s : IsFiniteSet(Planning(s))
BY RoutingAssumption, FS_CardinalityType, FS_Subset DEF RoutingAssumption, Planning

LEMMA RoomyStep ==
    ASSUME TypeInv, [Next]_vars, NEW s \in Sims, Roomy(s)
    PROVE  Roomy(s)'
<1> DEFINE Max == MaxInFlight[GatewayOf[s]]
<1>1. Max \in Nat \ {0} BY RoutingAssumption DEF RoutingAssumption
<1>2. IsFiniteSet(Planning(s)) /\ Planning(s)' \in SUBSET Workers /\ IsFiniteSet(Planning(s)')
  <2>1. Planning(s)' \in SUBSET Workers BY DEF Planning
  <2> QED BY <2>1, WorkersFinite, FS_Subset
<1>3. IsFiniteSet(InFlight(s)) BY DEF Roomy
<1>4. CASE \E w \in Workers, m \in Msgs : Plan(w, m) /\ s \in pass'[w].plan
  <2>1. PICK w \in Workers, m \in Msgs : Plan(w, m) /\ s \in pass'[w].plan BY <1>4
  <2>2. AvailableNow(s) BY <2>1, Planned
  <2>3. UNCHANGED sms BY <2>1 DEF Plan, rows
  <2>4. InFlight(s)' = InFlight(s) BY <2>3 DEF InFlight
  <2>5. Cardinality(InFlight(s)) < Max BY <2>2 DEF AvailableNow
  <2>6. Cardinality(Planning(s)') <= Cardinality(Workers) BY <1>2, WorkersFinite, FS_Subset
  <2>7. Cardinality(InFlight(s)) \in Nat /\ Cardinality(Planning(s)') \in Nat
    BY <1>2, <1>3, FS_CardinalityType
  <2> QED BY <1>1, <1>3, <2>4, <2>5, <2>6, <2>7, WorkersFinite DEF Roomy
<1>5. ASSUME \A w \in Workers, m \in Msgs : ~(Plan(w, m) /\ s \in pass'[w].plan)
      PROVE  Planning(s)' \subseteq Planning(s)
  <2> SUFFICES ASSUME NEW v \in Workers, pass'[v].step \in Open, s \in pass'[v].plan
               PROVE  v \in Planning(s)
    BY DEF Planning
  <2>1. \A m \in Msgs : ~Plan(v, m) BY <1>5
  <2>2. pass[v].step \in Open /\ pass'[v].plan \subseteq pass[v].plan BY <2>1, OthersPlans
  <2> QED BY <2>2 DEF Planning
<1>6. ASSUME InFlight(s)' \subseteq InFlight(s), Planning(s)' \subseteq Planning(s)
      PROVE  Roomy(s)'
  <2>1. IsFiniteSet(InFlight(s)')
        /\ Cardinality(InFlight(s)') + Cardinality(Planning(s)')
             <= Cardinality(InFlight(s)) + Cardinality(Planning(s))
    BY <1>2, <1>3, <1>6, Fewer
  <2>2. /\ Cardinality(InFlight(s)) \in Nat /\ Cardinality(Planning(s)) \in Nat
        /\ Cardinality(InFlight(s)') \in Nat /\ Cardinality(Planning(s)') \in Nat
    BY <1>2, <1>3, <2>1, FS_CardinalityType
  <2> QED BY <1>1, <2>1, <2>2, WorkersFinite DEF Roomy
<1>7. ASSUME NEW w \in Workers, Commit(w), s = SimOf(w),
             InFlight(s)' \subseteq InFlight(s) \union {pass[w].msg},
             Planning(s)' \subseteq Planning(s)
      PROVE  Roomy(s)'
  <2>1. w \in Planning(s) BY <1>7 DEF Commit, Planning, Open, SimOf, TypeInv, Sound
  <2>2. pass'[w].step = "committed"
    <3>1. pass'[w] = [Idle EXCEPT !.step = "committed", !.msg = pass[w].msg, !.sim = SimOf(w)]
      BY <1>7 DEF Commit, TypeInv, TypeOK
    <3>2. Idle \in Pass BY IdleSound DEF Sound
    <3> QED BY <3>1, <3>2 DEF Pass
  <2>3. Planning(s)' \subseteq Planning(s) \ {w} BY <1>7, <2>2 DEF Planning, Open
  <2>4. IsFiniteSet(InFlight(s)')
        /\ Cardinality(InFlight(s)') + Cardinality(Planning(s)')
             <= Cardinality(InFlight(s)) + Cardinality(Planning(s))
    BY <1>2, <1>3, <1>7, <2>1, <2>3, OneMovesOver
  <2>5. /\ Cardinality(InFlight(s)) \in Nat /\ Cardinality(Planning(s)) \in Nat
        /\ Cardinality(InFlight(s)') \in Nat /\ Cardinality(Planning(s)') \in Nat
    BY <1>2, <1>3, <2>4, FS_CardinalityType
  <2> QED BY <1>1, <2>4, <2>5, WorkersFinite DEF Roomy
<1> QED BY <1>4, <1>5, <1>6, <1>7, InFlightGrows

\* However many dispatchers plan from counts that are out of date, a SIM has
\* fewer messages in flight than its limit and one for each dispatcher
\* (sim_profile_selector.ts reads the count before any row is locked).
THEOREM InFlightStaysBounded == Spec => []InFlightBounded
<1> DEFINE AllRoomy == \A s \in Sims : Roomy(s)
<1>1. Init => AllRoomy
  <2> SUFFICES ASSUME Init, NEW s \in Sims PROVE Roomy(s)
    OBVIOUS
  <2>1. InFlight(s) = {} BY DEF Init, InFlight
  <2>2. Planning(s) = {} BY DEF Init, Planning, Idle, Open
  <2>3. MaxInFlight[GatewayOf[s]] \in Nat \ {0} BY RoutingAssumption DEF RoutingAssumption
  <2> QED BY <2>1, <2>2, <2>3, FS_EmptySet, WorkersFinite DEF Roomy
<1>2. TypeInv /\ AllRoomy /\ [Next]_vars => AllRoomy' BY RoomyStep
<1>3. AllRoomy => InFlightBounded
  <2> SUFFICES ASSUME AllRoomy, NEW s \in Sims
               PROVE  Cardinality(InFlight(s)) < MaxInFlight[GatewayOf[s]] + Cardinality(Workers)
    BY DEF InFlightBounded
  <2>1. MaxInFlight[GatewayOf[s]] \in Nat \ {0} BY RoutingAssumption DEF RoutingAssumption
  <2>2. Cardinality(InFlight(s)) \in Nat /\ Cardinality(Planning(s)) \in Nat
    BY WorkersFinite, FS_CardinalityType DEF Roomy
  <2> QED BY <2>1, <2>2, WorkersFinite DEF Roomy
<1> HIDE DEF AllRoomy
<1> QED BY <1>1, <1>2, <1>3, TypeInit, TypeStep, PTL DEF Spec


-----------------------------------------------------------------------------
(* Windows. *)

\* No two dispatchers hold the lock of one row.
Exclusive == \A v, w \in Workers : v # w => pass[v].locks \intersect pass[w].locks = {}

LEMMA ExclusiveStep == TypeInv /\ Exclusive /\ [Next]_vars => Exclusive'
<1> SUFFICES ASSUME TypeInv, Exclusive, [Next]_vars PROVE Exclusive'
  OBVIOUS
<1>1. ASSUME \A w \in Workers : pass'[w].locks = pass[w].locks PROVE Exclusive'
  BY <1>1 DEF Exclusive
<1>2. ASSUME NEW w \in Workers, Dispatch(w) PROVE Exclusive'
  <2>1. \A v \in Workers \ {w} : pass'[v] = pass[v] BY <1>2, OwnPass
  <2>2. \A v \in Workers \ {w} : pass'[w].locks \intersect pass[v].locks = {}
    BY <1>2, OwnPass DEF Exclusive, LockedByOther
  <2> QED BY <2>1, <2>2 DEF Exclusive
<1>3. ASSUME NEW x \in Rows, WindowEnds(x) PROVE \A w \in Workers : pass'[w].locks = pass[w].locks
  <2> SUFFICES ASSUME NEW w \in Workers PROVE pass'[w].locks = pass[w].locks
    OBVIOUS
  <2>1. pass[w] \in Pass BY DEF TypeInv, TypeOK
  <2>2. pass'[w] \in {pass[w], [pass[w] EXCEPT !.late = pass[w].late \union {x}]}
    BY <1>3 DEF WindowEnds
  <2> QED BY <2>1, <2>2 DEF Pass
<1>4. ASSUME (\E m \in Msgs : Report(m)) \/ (\E s \in Sims : FleetChanges(s)) \/ UNCHANGED vars
      PROVE  UNCHANGED pass
  BY <1>4 DEF Report, Sent, Failed, Reclaim, RetryOrFail, FleetChanges, vars
<1> QED BY <1>1, <1>2, <1>3, <1>4 DEF Next

LEMMA ReservedLocked ==
    ASSUME NEW w \in Workers, Sound(pass[w])
    PROVE  Reserved(w) \subseteq pass[w].locks
BY DEF Reserved, Sound, SimOf

\* A dispatcher reserves a row only if it finds its window over.
LEMMA ReservedFree ==
    ASSUME TypeInv, [Next]_vars, NEW w \in Workers, NEW x \in Reserved(w)'
    PROVE  x \in Reserved(w) \/ x \notin window
<1>1. pass \in [Workers -> Pass] /\ Sound(pass[w]) BY DEF TypeInv, TypeOK
<1>2. pass'[w].step \in {"phone", "reserved", "claimed"} BY DEF Reserved
<1>3. CASE pass'[w] = pass[w]
  BY <1>3 DEF Reserved, SimOf
<1>4. CASE Dispatch(w)
  <2>1. CASE ReserveSim(w)
    <3>1. pass'[w] = [pass[w] EXCEPT !.step = IF Phone(w) \in Rated THEN "phone" ELSE "reserved",
                                     !.locks = pass[w].locks \union {SimOf(w)}]
      BY <1>1, <2>1 DEF ReserveSim
    <3>2. pass'[w].sim = pass[w].sim /\ pass'[w].step = IF Phone(w) \in Rated THEN "phone" ELSE "reserved"
      BY <1>1, <3>1 DEF Pass
    <3>3. SimOf(w) \in Sims BY <1>1, <2>1 DEF ReserveSim, Sound, SimOf
    <3>4. x = SimOf(w) BY <3>2, <3>3, RowsOfSims DEF Reserved, SimOf, Phone
    <3> QED BY <2>1, <3>4 DEF ReserveSim, FoundFree
  <2>2. CASE ReservePhone(w)
    <3>1. pass'[w].sim = pass[w].sim /\ pass'[w].step = "reserved"
      BY <1>1, <2>2 DEF ReservePhone, Pass
    <3>2. SimOf(w) \in Sims /\ Phone(w) \in Rated BY <1>1, <2>2 DEF ReservePhone, Sound, SimOf, Phone
    <3>3. x \in {SimOf(w), Phone(w)} BY <3>1, <3>2, RowsOfSims DEF Reserved, SimOf, Phone
    <3>4. SimOf(w) \in Reserved(w) BY <2>2 DEF ReservePhone, Reserved
    <3> QED BY <2>2, <3>3, <3>4 DEF ReservePhone, FoundFree
  <2>3. CASE Claim(w)
    <3>1. pass'[w].sim = pass[w].sim /\ pass'[w].step = "claimed"
      BY <1>1, <2>3 DEF Claim, Pass
    <3>2. pass[w].step = "reserved" BY <2>3 DEF Claim
    <3> QED BY <3>1, <3>2 DEF Reserved, SimOf
  <2>4. CASE SimTaken(w) \/ PhoneTaken(w) \/ Full(w)
    <3>1. PICK next \in NextOf(w, pass[w].locks) : pass' = [pass EXCEPT ![w] = next]
      BY <2>4 DEF SimTaken, PhoneTaken, Full, MoveOn
    <3>2. pass[w].step \in Open BY <2>4 DEF SimTaken, PhoneTaken, Full, Open
    <3>3. pass'[w] = next BY <1>1, <3>1
    <3>4. next.step \in {"idle", "picking"} BY <1>1, <3>2, NextSound
    <3> QED BY <1>2, <3>3, <3>4
  <2>5. CASE \E m \in Msgs : Plan(w, m)
    <3>1. pass'[w].step = "picking" BY <2>5, Planned
    <3> QED BY <1>2, <3>1
  <2>6. CASE HandOff(w) \/ ClearWindows(w) \/ BreakDeadlock(w) \/ Die(w)
    <3>1. pass'[w] = Idle BY <1>1, <2>6 DEF HandOff, ClearWindows, BreakDeadlock, Die, RolledBack
    <3> QED BY <1>2, <3>1 DEF Idle
  <2>7. CASE Commit(w) \/ Undo(w)
    <3>1. PICK step \in {"committed", "undone"} :
            pass'[w] = [Idle EXCEPT !.step = step, !.msg = pass[w].msg, !.sim = SimOf(w)]
      BY <1>1, <2>7 DEF Commit, Undo
    <3>2. Idle \in Pass BY IdleSound DEF Sound
    <3>3. pass'[w].step = step BY <3>1, <3>2 DEF Pass
    <3> QED BY <1>2, <3>3
  <2>8. CASE \E m \in Msgs : Defer(w, m)
    <3>1. UNCHANGED pass BY <2>8 DEF Defer
    <3> QED BY <1>3, <3>1
  <2> QED BY <1>4, <2>1, <2>2, <2>3, <2>4, <2>5, <2>6, <2>7, <2>8 DEF Dispatch, Walk
<1>5. ASSUME NEW v \in Workers, Dispatch(v), v # w PROVE pass'[w] = pass[w]
  BY <1>5, OwnPass
<1>6. ASSUME NEW y \in Rows, WindowEnds(y) PROVE Reserved(w)' = Reserved(w)
  <2>1. pass'[w] \in {pass[w], [pass[w] EXCEPT !.late = pass[w].late \union {y}]}
    BY <1>6 DEF WindowEnds
  <2>2. pass'[w].step = pass[w].step /\ pass'[w].sim = pass[w].sim BY <1>1, <2>1 DEF Pass
  <2> QED BY <2>2 DEF Reserved, SimOf
<1>7. ASSUME (\E m \in Msgs : Report(m)) \/ (\E s \in Sims : FleetChanges(s)) \/ UNCHANGED vars
      PROVE  UNCHANGED pass
  BY <1>7 DEF Report, Sent, Failed, Reclaim, RetryOrFail, FleetChanges, vars
<1> QED BY <1>3, <1>4, <1>5, <1>6, <1>7 DEF Next


\* Nothing has been sent through the window of a row that runs, or it is not
\* known any more what was.
Clean(x) == paced[x] = {} \/ x \in disturbed

\* A row whose window is over, or is reserved by a dispatcher that has not
\* committed, has paced nothing yet; any other at most one message.
WindowInv(x) ==
    /\ x \notin window => Clean(x)
    /\ \A w \in Workers : x \in Reserved(w) => Clean(x)
    /\ Clean(x) \/ \E m \in Msgs : paced[x] = {m}

\* A step that paces nothing ends no window but those its own dispatcher had
\* reserved.
LEMMA WindowsFrame ==
    ASSUME TypeInv, [Next]_vars, NEW x \in Rows, WindowInv(x),
           paced'[x] \subseteq paced[x],
           x \in disturbed => x \in disturbed' \/ paced'[x] = {},
           x \notin window' => x \notin window \/ (\E w \in Workers : x \in Reserved(w)) \/ Clean(x)'
    PROVE  WindowInv(x)'
<1>1. Clean(x) => Clean(x)' BY DEF Clean
<1>2. Clean(x)' \/ \E m \in Msgs : paced'[x] = {m} BY <1>1 DEF WindowInv, Clean
<1>3. x \notin window' => Clean(x)' BY <1>1 DEF WindowInv
<1>4. \A w \in Workers : x \in Reserved(w)' => Clean(x)' BY <1>1, ReservedFree DEF WindowInv
<1> QED BY <1>2, <1>3, <1>4 DEF WindowInv

LEMMA WindowsCommit ==
    ASSUME TypeInv, Exclusive, [Next]_vars, NEW x \in Rows, WindowInv(x),
           NEW w \in Workers, Commit(w)
    PROVE  WindowInv(x)'
<1>1. /\ pass \in [Workers -> Pass] /\ Sound(pass[w]) /\ pass[w].step = "claimed"
      /\ UNCHANGED <<window, disturbed>>
  BY DEF Commit, TypeInv, TypeOK
<1>2. paced'[x] = IF x \in PacedBy(SimOf(w)) \intersect window THEN paced[x] \union {pass[w].msg}
                  ELSE paced[x]
  BY DEF Commit
<1>3. CASE x \notin PacedBy(SimOf(w)) \intersect window
  BY <1>1, <1>2, <1>3, WindowsFrame
<1>4. CASE x \in PacedBy(SimOf(w)) \intersect window
  <2>1. x \in Reserved(w) BY <1>1, <1>4 DEF Reserved
  <2>2. Clean(x) BY <2>1 DEF WindowInv
  <2>3. pass[w].msg \in Msgs BY <1>1 DEF Sound
  <2>4. Clean(x)' \/ paced'[x] = {pass[w].msg} BY <1>1, <1>2, <1>4, <2>2 DEF Clean
  <2>5. ASSUME NEW v \in Workers, x \in Reserved(v)' PROVE Clean(x)'
    <3>1. CASE v = w
      <4>1. pass'[w] = [Idle EXCEPT !.step = "committed", !.msg = pass[w].msg, !.sim = SimOf(w)]
        BY <1>1 DEF Commit
      <4>2. Idle \in Pass BY IdleSound DEF Sound
      <4>3. pass'[w].step = "committed" BY <4>1, <4>2 DEF Pass
      <4> QED BY <2>5, <3>1, <4>3 DEF Reserved
    <3>2. CASE v # w
      <4>1. x \in Reserved(v) BY <1>4, <2>5, ReservedFree
      <4>2. x \in pass[v].locks /\ x \in pass[w].locks
        BY <2>1, <4>1, ReservedLocked DEF TypeInv
      <4> QED BY <3>2, <4>2 DEF Exclusive
    <3> QED BY <3>1, <3>2
  <2> QED BY <1>1, <1>4, <2>3, <2>4, <2>5 DEF WindowInv
<1> QED BY <1>3, <1>4

LEMMA WindowStep ==
    ASSUME TypeInv, Exclusive, [Next]_vars, NEW x \in Rows, WindowInv(x)
    PROVE  WindowInv(x)'
<1>1. paced \in [Rows -> SUBSET Msgs] BY DEF TypeInv, TypeOK
<1>2. ASSUME UNCHANGED <<paced, disturbed>>,
             \A y \in window \ window' : \E w \in Workers : y \in Reserved(w)
      PROVE  WindowInv(x)'
  BY <1>2, WindowsFrame
<1>3. ASSUME NEW w \in Workers, Dispatch(w), ~Commit(w), ~Undo(w), ~ClearWindows(w)
      PROVE  /\ UNCHANGED <<paced, disturbed>>
             /\ \A y \in window \ window' : y \in Reserved(w)
  <2>1. UNCHANGED <<paced, disturbed>>
    BY <1>3 DEF Dispatch, Walk, Defer, Plan, ReserveSim, SimTaken, ReservePhone, PhoneTaken, Claim,
                Full, HandOff, BreakDeadlock, Die, history
  <2>2. CASE PhoneTaken(w) BY <2>1, <2>2 DEF PhoneTaken, Reserved
  <2>3. CASE Full(w) BY <2>1, <2>3 DEF Full, Reserved
  <2>4. CASE BreakDeadlock(w) \/ Die(w) BY <2>1, <2>4 DEF BreakDeadlock, Die, RolledBack
  <2>5. CASE ~PhoneTaken(w) /\ ~Full(w) /\ ~BreakDeadlock(w) /\ ~Die(w)
    <3>1. window \subseteq window'
      BY <1>3, <2>5 DEF Dispatch, Walk, Defer, Plan, ReserveSim, SimTaken, ReservePhone, Claim, HandOff
    <3> QED BY <2>1, <3>1
  <2> QED BY <2>2, <2>3, <2>4, <2>5
<1>4. ASSUME NEW w \in Workers, Undo(w) PROVE WindowInv(x)'
  <2>1. paced'[x] \subseteq paced[x] /\ UNCHANGED <<window, disturbed>> BY <1>4 DEF Undo
  <2> QED BY <2>1, WindowsFrame
<1>5. ASSUME NEW w \in Workers, ClearWindows(w) PROVE WindowInv(x)'
  <2>1. UNCHANGED paced BY <1>5 DEF ClearWindows
  <2>2. disturbed \subseteq disturbed' BY <1>5 DEF ClearWindows
  <2>3. x \notin window' => x \notin window \/ Clean(x)' BY <1>5 DEF ClearWindows, Clean
  <2> QED BY <2>1, <2>2, <2>3, WindowsFrame
<1>6. ASSUME NEW y \in Rows, WindowEnds(y) PROVE WindowInv(x)'
  <2>1. IF x = y THEN paced'[x] = {}
        ELSE paced'[x] = paced[x] /\ (x \in disturbed => x \in disturbed')
             /\ (x \notin window' => x \notin window)
    BY <1>1, <1>6 DEF WindowEnds
  <2>2. x = y => Clean(x)' BY <2>1 DEF Clean
  <2> QED BY <2>1, <2>2, WindowsFrame
<1>7. ASSUME (\E m \in Msgs : Report(m)) \/ (\E s \in Sims : FleetChanges(s)) \/ UNCHANGED vars
      PROVE  UNCHANGED <<window, paced, disturbed>>
  BY <1>7 DEF Report, Sent, Failed, Reclaim, RetryOrFail, FleetChanges, vars, history
<1> QED BY <1>2, <1>3, <1>4, <1>5, <1>6, <1>7, WindowsCommit DEF Next

\* At most one message goes out in a window of a SIM, or of a phone with a rate
\* of its own, for any number of dispatchers, unless an undo cleared the window
\* (SimProfileSelector.reserve and release).
THEOREM WindowsHoldOne == Spec => []OnePerWindow
<1> DEFINE AllWindows == \A x \in Rows : WindowInv(x)
<1>1. Init => Exclusive /\ AllWindows
  BY DEF Init, Exclusive, WindowInv, Clean, Reserved, Idle
<1>2. TypeInv /\ Exclusive /\ AllWindows /\ [Next]_vars => AllWindows'
  BY WindowStep
<1>3. AllWindows => OnePerWindow
  <2> SUFFICES ASSUME NEW x \in Rows, WindowInv(x)
               PROVE  Cardinality(paced[x]) <= 1 \/ x \in disturbed
    BY DEF OnePerWindow
  <2>1. CASE paced[x] = {} BY <2>1, FS_EmptySet
  <2>2. ASSUME NEW m \in Msgs, paced[x] = {m} PROVE Cardinality(paced[x]) <= 1
    BY <2>2, FS_Singleton
  <2> QED BY <2>1, <2>2 DEF WindowInv, Clean
<1> HIDE DEF AllWindows
<1> QED BY <1>1, <1>2, <1>3, TypeInit, TypeStep, ExclusiveStep, PTL DEF Spec


-----------------------------------------------------------------------------
(* The allowance. *)

\* The numbers a ledger has a row for, on a SIM.
Slots(led, s) == {r \in Recipients : led[s][r] # NoRow}

LEMMA SlotsFinite ==
    \A led, s : /\ IsFiniteSet(Slots(led, s)) /\ Cardinality(Slots(led, s)) \in Nat
BY RoutingAssumption, FS_Subset, FS_CardinalityType DEF Slots, RoutingAssumption

LEMMA FewerSlots ==
    ASSUME NEW S, IsFiniteSet(S), NEW T \in SUBSET S
    PROVE  Cardinality(T) <= Cardinality(S)
BY FS_Subset

LEMMA OneSlotMore ==
    ASSUME NEW S, IsFiniteSet(S), NEW r, NEW T \in SUBSET (S \union {r})
    PROVE  Cardinality(T) <= Cardinality(S) + 1
<1>1. IsFiniteSet(S \union {r}) BY FS_AddElement
<1>2. Cardinality(S \union {r}) = IF r \in S THEN Cardinality(S) ELSE Cardinality(S) + 1
  BY FS_AddElement
<1>3. Cardinality(T) <= Cardinality(S \union {r}) BY <1>1, FS_Subset
<1>4. Cardinality(S) \in Nat /\ Cardinality(T) \in Nat BY <1>1, FS_CardinalityType, FS_Subset
<1>5. CASE r \in S BY <1>2, <1>3, <1>4, <1>5
<1>6. CASE r \notin S BY <1>2, <1>3, <1>4, <1>6
<1> QED BY <1>5, <1>6

LEMMA ReleasedFewer ==
    ASSUME NEW led \in Ledger, NEW s, NEW m \in Msgs, NEW t \in Sims
    PROVE  Slots(Released(led, s, m), t) \subseteq Slots(led, t)
BY DEF Ledger, Released, Slots

\* What a step may do to the numbers a SIM has claimed.
LEMMA SlotsChange ==
    ASSUME TypeInv, [Next]_vars, NEW s \in Sims
    PROVE  \/ /\ Slots(ledger', s) \subseteq Slots(ledger, s)
              /\ uncounted'[s] = uncounted[s]
           \/ \E w \in Workers : /\ Commit(w) /\ s = SimOf(w) /\ pass[w].slot = "claimed"
                                 /\ Slots(ledger', s) \subseteq Slots(ledger, s) \union {NumberOf(w)}
                                 /\ uncounted'[s] = uncounted[s]
           \/ \E r : /\ Slots(ledger', s) \subseteq Slots(ledger, s) \union {r}
                     /\ uncounted'[s] = uncounted[s] + 1
<1> DEFINE Less == Slots(ledger', s) \subseteq Slots(ledger, s) /\ uncounted'[s] = uncounted[s]
<1>1. ledger \in Ledger /\ uncounted \in [Sims -> Nat] BY DEF TypeInv, TypeOK, Ledger
<1>2. ASSUME UNCHANGED <<ledger, uncounted>> PROVE Less BY <1>2
<1>3. ASSUME NEW w \in Workers, Commit(w)
      PROVE  \/ Less
             \/ /\ s = SimOf(w) /\ pass[w].slot = "claimed" /\ uncounted'[s] = uncounted[s]
                /\ Slots(ledger', s) \subseteq Slots(ledger, s) \union {NumberOf(w)}
  <2>1. UNCHANGED uncounted BY <1>3 DEF Commit
  <2>2. \/ UNCHANGED ledger
        \/ pass[w].slot = "claimed" /\ ledger' = [ledger EXCEPT ![SimOf(w)][NumberOf(w)] = 0]
    BY <1>3 DEF Commit
  <2>3. ASSUME ledger' = [ledger EXCEPT ![SimOf(w)][NumberOf(w)] = 0]
        PROVE  /\ Slots(ledger', s) \subseteq Slots(ledger, s) \union {NumberOf(w)}
               /\ s # SimOf(w) => Slots(ledger', s) \subseteq Slots(ledger, s)
    BY <1>1, <2>3 DEF Ledger, Slots
  <2> QED BY <2>1, <2>2, <2>3
<1>4. ASSUME NEW w \in Workers, Undo(w) PROVE Less
  <2>1. pass[w].msg \in Msgs BY <1>4 DEF Undo, TypeInv, Sound
  <2> QED BY <1>1, <1>4, <2>1, ReleasedFewer DEF Undo
<1>5. ASSUME NEW m \in Msgs, NEW t \in Sims, Sent(t, m)
      PROVE  \/ Less
             \/ \E r : /\ Slots(ledger', s) \subseteq Slots(ledger, s) \union {r}
                       /\ uncounted'[s] = uncounted[s] + 1
  <2> DEFINE led == IF sms[m].status = "in_flight" /\ sms[m].sim # t
                    THEN Released(ledger, sms[m].sim, m) ELSE ledger
             r == RecipientOf[m]
             n == IF led[t][r] = NoRow THEN 1 ELSE led[t][r] + 1
  <2>1. led \in Ledger /\ Slots(led, s) \subseteq Slots(ledger, s)
    BY <1>1, ReleasedTyped, ReleasedFewer
  <2>2. ledger' = [led EXCEPT ![t][r] = n] BY <1>5 DEF Sent
  <2>3. uncounted' = [uncounted EXCEPT ![t] = IF led[t][r] = NoRow THEN uncounted[t] + 1
                                              ELSE uncounted[t]]
    BY <1>5 DEF Sent
  <2> HIDE DEF led, r, n
  <2>4. CASE s # t
    <3>1. ledger'[s] = led[s] BY <2>1, <2>2, <2>4 DEF Ledger
    <3>2. Slots(ledger', s) = Slots(led, s) BY <3>1 DEF Slots
    <3> QED BY <1>1, <2>1, <2>3, <2>4, <3>2
  <2>5. CASE s = t /\ led[t][r] = NoRow
    <3>1. uncounted'[s] = uncounted[s] + 1 BY <1>1, <2>3, <2>5
    <3>2. Slots(ledger', s) \subseteq Slots(led, s) \union {r} BY <2>1, <2>2, <2>5 DEF Ledger, Slots
    <3> QED BY <2>1, <3>1, <3>2
  <2>6. CASE s = t /\ led[t][r] # NoRow
    <3>1. uncounted'[s] = uncounted[s] BY <1>1, <2>3, <2>6
    <3>2. Slots(ledger', s) \subseteq Slots(led, s)
      <4>1. \A q \in Recipients : q # r => ledger'[s][q] = led[s][q]
        BY <2>1, <2>2, <2>6 DEF Ledger
      <4> QED BY <2>6, <4>1 DEF Slots
    <3> QED BY <2>1, <3>1, <3>2
  <2> QED BY <2>4, <2>5, <2>6
<1>6. ASSUME NEW m \in Msgs, Failed(m) \/ Reclaim(m) PROVE Less
  <2>1. UNCHANGED uncounted BY <1>6 DEF Failed, Reclaim, RetryOrFail, history
  <2> QED BY <1>1, <1>6, <2>1, ReleasedFewer DEF Failed, Reclaim, RetryOrFail
<1>7. ASSUME NEW w \in Workers,
             \/ \E m \in Msgs : Plan(w, m) \/ Defer(w, m)
             \/ ReserveSim(w) \/ ReservePhone(w) \/ Claim(w) \/ HandOff(w) \/ ClearWindows(w)
             \/ BreakDeadlock(w) \/ Die(w) \/ SimTaken(w) \/ PhoneTaken(w) \/ Full(w)
      PROVE  UNCHANGED <<ledger, uncounted>>
  BY <1>7 DEF Plan, Defer, ReserveSim, ReservePhone, Claim, HandOff, ClearWindows, BreakDeadlock,
              Die, SimTaken, PhoneTaken, Full, rows, history
<1>8. ASSUME (\E x \in Rows : WindowEnds(x)) \/ (\E t \in Sims : FleetChanges(t)) \/ UNCHANGED vars
      PROVE  UNCHANGED <<ledger, uncounted>>
  BY <1>8 DEF WindowEnds, FleetChanges, rows, history, vars
<1> HIDE DEF Less
<1>9. \/ Less
      \/ \E w \in Workers : /\ Commit(w) /\ s = SimOf(w) /\ pass[w].slot = "claimed"
                            /\ Slots(ledger', s) \subseteq Slots(ledger, s) \union {NumberOf(w)}
                            /\ uncounted'[s] = uncounted[s]
      \/ \E r : /\ Slots(ledger', s) \subseteq Slots(ledger, s) \union {r}
                /\ uncounted'[s] = uncounted[s] + 1
  BY <1>2, <1>3, <1>4, <1>5, <1>6, <1>7, <1>8 DEF Next, Dispatch, Walk, Report
<1> QED BY <1>9 DEF Less


\* A dispatcher that has counted, and is going to write a slot of a SIM.
ClaimsOn(w, s) == pass[w].step = "claimed" /\ pass[w].slot = "claimed" /\ SimOf(w) = s

\* What is written and what is about to be stay within the cap.
ClaimInv(s) ==
    /\ SlotsUsed(s) <= RecipientLimit + uncounted[s]
    /\ \A w \in Workers : ClaimsOn(w, s) => SlotsUsed(s) < RecipientLimit + uncounted[s]

LEMMA ClaimedHow ==
    ASSUME TypeInv, [Next]_vars, NEW w \in Workers, NEW s \in Sims, ClaimsOn(w, s)'
    PROVE  \/ ClaimsOn(w, s)
           \/ Claim(w) /\ SimOf(w) = s /\ ~Holds(s, pass[w].msg)
<1>1. pass \in [Workers -> Pass] /\ Sound(pass[w]) BY DEF TypeInv, TypeOK
<1>2. pass'[w].step = "claimed" /\ pass'[w].slot = "claimed" /\ pass'[w].sim = s
  BY DEF ClaimsOn, SimOf
<1>3. CASE pass'[w] = pass[w] BY <1>3 DEF ClaimsOn, SimOf
<1>4. CASE Dispatch(w)
  <2>1. CASE ReserveSim(w) BY <1>1, <1>2, <2>1 DEF ReserveSim, Pass
  <2>2. CASE ReservePhone(w) BY <1>1, <1>2, <2>2 DEF ReservePhone, Pass
  <2>3. CASE Claim(w)
    <3>1. pass'[w] = [pass[w] EXCEPT !.step = "claimed",
                        !.slot = IF Holds(SimOf(w), pass[w].msg) THEN "existing" ELSE "claimed"]
      BY <1>1, <2>3 DEF Claim
    <3>2. pass'[w].sim = pass[w].sim
          /\ pass'[w].slot = IF Holds(SimOf(w), pass[w].msg) THEN "existing" ELSE "claimed"
      BY <1>1, <3>1 DEF Pass
    <3>3. SimOf(w) = s BY <1>2, <3>2 DEF SimOf
    <3>4. ~Holds(SimOf(w), pass[w].msg) BY <1>2, <3>2
    <3> QED BY <2>3, <3>3, <3>4
  <2>4. CASE SimTaken(w) \/ PhoneTaken(w) \/ Full(w)
    <3>1. PICK next \in NextOf(w, pass[w].locks) : pass' = [pass EXCEPT ![w] = next]
      BY <2>4 DEF SimTaken, PhoneTaken, Full, MoveOn
    <3>2. pass[w].step \in Open BY <2>4 DEF SimTaken, PhoneTaken, Full, Open
    <3>3. pass'[w] = next BY <1>1, <3>1
    <3>4. next.step \in {"idle", "picking"} BY <1>1, <3>2, NextSound
    <3> QED BY <1>2, <3>3, <3>4
  <2>5. CASE \E m \in Msgs : Plan(w, m)
    <3>1. pass'[w].step = "picking" BY <2>5, Planned
    <3> QED BY <1>2, <3>1
  <2>6. CASE HandOff(w) \/ ClearWindows(w) \/ BreakDeadlock(w) \/ Die(w)
    <3>1. pass'[w] = Idle BY <1>1, <2>6 DEF HandOff, ClearWindows, BreakDeadlock, Die, RolledBack
    <3> QED BY <1>2, <3>1 DEF Idle
  <2>7. CASE Commit(w) \/ Undo(w)
    <3>1. PICK step \in {"committed", "undone"} :
            pass'[w] = [Idle EXCEPT !.step = step, !.msg = pass[w].msg, !.sim = SimOf(w)]
      BY <1>1, <2>7 DEF Commit, Undo
    <3>2. Idle \in Pass BY IdleSound DEF Sound
    <3>3. pass'[w].step = step BY <3>1, <3>2 DEF Pass
    <3> QED BY <1>2, <3>3
  <2>8. CASE \E m \in Msgs : Defer(w, m)
    <3>1. UNCHANGED pass BY <2>8 DEF Defer
    <3> QED BY <1>3, <3>1
  <2> QED BY <1>4, <2>1, <2>2, <2>3, <2>4, <2>5, <2>6, <2>7, <2>8 DEF Dispatch, Walk
<1>5. ASSUME NEW v \in Workers, Dispatch(v), v # w PROVE pass'[w] = pass[w]
  BY <1>5, OwnPass
<1>6. ASSUME NEW y \in Rows, WindowEnds(y) PROVE ClaimsOn(w, s)
  <2>1. pass'[w] \in {pass[w], [pass[w] EXCEPT !.late = pass[w].late \union {y}]}
    BY <1>6 DEF WindowEnds
  <2>2. pass'[w].step = pass[w].step /\ pass'[w].sim = pass[w].sim /\ pass'[w].slot = pass[w].slot
    BY <1>1, <2>1 DEF Pass
  <2> QED BY <1>2, <2>2 DEF ClaimsOn, SimOf
<1>7. ASSUME (\E m \in Msgs : Report(m)) \/ (\E t \in Sims : FleetChanges(t)) \/ UNCHANGED vars
      PROVE  UNCHANGED pass
  BY <1>7 DEF Report, Sent, Failed, Reclaim, RetryOrFail, FleetChanges, vars
<1> QED BY <1>3, <1>4, <1>5, <1>6, <1>7 DEF Next

LEMMA ClaimStep ==
    ASSUME TypeInv, Exclusive, [Next]_vars, NEW s \in Limited, ClaimInv(s)
    PROVE  ClaimInv(s)'
<1>1. s \in Sims /\ RecipientLimit \in Nat /\ uncounted \in [Sims -> Nat]
  BY RoutingAssumption DEF RoutingAssumption, TypeInv, TypeOK
<1>2. /\ SlotsUsed(s) = Cardinality(Slots(ledger, s))
      /\ SlotsUsed(s)' = Cardinality(Slots(ledger', s))
      /\ SlotsUsed(s) \in Nat /\ SlotsUsed(s)' \in Nat
      /\ uncounted[s] \in Nat
  <2>1. SlotsUsed(s) = Cardinality(Slots(ledger, s)) BY DEF SlotsUsed, Slots
  <2>2. SlotsUsed(s)' = Cardinality(Slots(ledger', s)) BY DEF SlotsUsed, Slots
  <2> QED BY <1>1, <2>1, <2>2, SlotsFinite
<1>3. CASE /\ Slots(ledger', s) \subseteq Slots(ledger, s)
           /\ uncounted'[s] = uncounted[s]
  <2>1. SlotsUsed(s)' <= SlotsUsed(s) BY <1>2, <1>3, SlotsFinite, FewerSlots
  <2>2. ASSUME NEW w \in Workers, ClaimsOn(w, s)'
        PROVE  SlotsUsed(s) < RecipientLimit + uncounted[s]
    <3>1. CASE ClaimsOn(w, s) BY <3>1 DEF ClaimInv
    <3>2. CASE Claim(w) /\ SimOf(w) = s /\ ~Holds(s, pass[w].msg)
      <4>1. SlotsUsed(s) < RecipientLimit BY <3>2 DEF Claim, HasAllowance
      <4> QED BY <1>1, <1>2, <4>1
    <3> QED BY <1>1, <2>2, <3>1, <3>2, ClaimedHow
  <2> QED BY <1>1, <1>2, <1>3, <2>1, <2>2 DEF ClaimInv
<1>4. ASSUME NEW w \in Workers, Commit(w), s = SimOf(w), pass[w].slot = "claimed",
             Slots(ledger', s) \subseteq Slots(ledger, s) \union {NumberOf(w)},
             uncounted'[s] = uncounted[s]
      PROVE  ClaimInv(s)'
  <2>1. SlotsUsed(s)' <= SlotsUsed(s) + 1 BY <1>2, <1>4, SlotsFinite, OneSlotMore
  <2>2. pass[w].step = "claimed" BY <1>4 DEF Commit
  <2>3. SlotsUsed(s) < RecipientLimit + uncounted[s] BY <1>4, <2>2 DEF ClaimInv, ClaimsOn
  <2>4. ASSUME NEW v \in Workers, ClaimsOn(v, s)' PROVE FALSE
    <3>1. CASE v = w
      <4>1. pass'[w] = [Idle EXCEPT !.step = "committed", !.msg = pass[w].msg, !.sim = SimOf(w)]
        BY <1>4 DEF Commit, TypeInv, TypeOK
      <4>2. Idle \in Pass BY IdleSound DEF Sound
      <4>3. pass'[w].step = "committed" BY <4>1, <4>2 DEF Pass
      <4> QED BY <2>4, <3>1, <4>3 DEF ClaimsOn
    <3>2. CASE v # w
      <4>1. pass[v].step \in {"reserved", "claimed"} /\ SimOf(v) = s
        BY <1>1, <2>4, ClaimedHow DEF ClaimsOn, Claim
      <4>2. s \in pass[v].locks /\ s \in pass[w].locks
        BY <1>1, <1>4, <2>2, <4>1, RowsOfSims DEF TypeInv, Sound, SimOf
      <4> QED BY <3>2, <4>2 DEF Exclusive
    <3> QED BY <3>1, <3>2
  <2> QED BY <1>1, <1>2, <1>4, <2>1, <2>3, <2>4 DEF ClaimInv
<1>5. ASSUME NEW r, Slots(ledger', s) \subseteq Slots(ledger, s) \union {r},
             uncounted'[s] = uncounted[s] + 1
      PROVE  ClaimInv(s)'
  <2>1. SlotsUsed(s)' <= SlotsUsed(s) + 1 BY <1>2, <1>5, SlotsFinite, OneSlotMore
  <2>2. ASSUME NEW w \in Workers, ClaimsOn(w, s)'
        PROVE  SlotsUsed(s) < RecipientLimit + uncounted[s]
    <3>1. CASE ClaimsOn(w, s) BY <3>1 DEF ClaimInv
    <3>2. CASE Claim(w) /\ SimOf(w) = s /\ ~Holds(s, pass[w].msg)
      <4>1. SlotsUsed(s) < RecipientLimit BY <3>2 DEF Claim, HasAllowance
      <4> QED BY <1>1, <1>2, <4>1
    <3> QED BY <1>1, <2>2, <3>1, <3>2, ClaimedHow
  <2> QED BY <1>1, <1>2, <1>5, <2>1, <2>2 DEF ClaimInv
<1> QED BY <1>1, <1>3, <1>4, <1>5, SlotsChange

\* The numbers of a capped SIM exceed the cap by no more than the sends that were
\* reported after their slot was gone, for any number of dispatchers counting at
\* once: the lock of the SIM's row orders them (RecipientAllowance.claim).
THEOREM ClaimsStayExact == Spec => []ClaimsExact
<1> DEFINE AllClaims == \A s \in Limited : ClaimInv(s)
<1>1. Init => Exclusive /\ AllClaims
  <2> SUFFICES ASSUME Init PROVE Exclusive /\ AllClaims
    OBVIOUS
  <2>1. Exclusive BY DEF Init, Exclusive, Idle
  <2>2. ASSUME NEW s \in Limited PROVE ClaimInv(s)
    <3>1. s \in Sims /\ RecipientLimit \in Nat BY RoutingAssumption DEF RoutingAssumption
    <3>2. Slots(ledger, s) = {} BY <3>1 DEF Init, Slots
    <3>3. SlotsUsed(s) = 0 BY <3>2, FS_EmptySet DEF SlotsUsed, Slots
    <3>4. \A w \in Workers : ~ClaimsOn(w, s) BY DEF Init, ClaimsOn, Idle
    <3>5. uncounted[s] = 0 BY <3>1 DEF Init
    <3> QED BY <3>1, <3>3, <3>4, <3>5 DEF ClaimInv
  <2> QED BY <2>1, <2>2
<1>2. TypeInv /\ Exclusive /\ AllClaims /\ [Next]_vars => AllClaims' BY ClaimStep
<1>3. AllClaims => ClaimsExact BY DEF ClaimInv, ClaimsExact
<1> HIDE DEF AllClaims
<1> QED BY <1>1, <1>2, <1>3, TypeInit, TypeStep, ExclusiveStep, PTL DEF Spec


-----------------------------------------------------------------------------
(* The order in which SIMs are filled. *)

\* Whatever has been full is on record.
FullKnown == \A t \in Limited : SlotsUsed(t) >= RecipientLimit => t \in filled

Steady == Sims \ Flaky \subseteq usable

\* On a sequential shortlist that was not made of SIMs the number knew, a SIM
\* comes after none that could have taken the message and was never full.
Ordered(w) ==
    strategy = "sequential" /\ pass[w].step \in Open /\ ~pass[w].known =>
      \A s \in pass[w].plan, t \in Permits[pass[w].msg] \ (Flaky \union tried[pass[w].msg]) :
        FleetOrder[t] < FleetOrder[s] => t \in filled

OrderInv == FullKnown /\ Steady /\ \A w \in Workers : Ordered(w)

LEMMA RecordsGrow ==
    ASSUME TypeInv, [Next]_vars
    PROVE  /\ strategy' = strategy /\ filled \subseteq filled'
           /\ \A s \in usable \ Flaky : s \in usable'
           /\ \A m \in Msgs : Taken(m) => tried[m] \subseteq tried'[m]
<1>1. tried \in [Msgs -> SUBSET Sims] BY DEF TypeInv, TypeOK
<1>2. ASSUME NEW w \in Workers, Dispatch(w)
      PROVE  UNCHANGED <<strategy, usable>> /\ filled \subseteq filled'
  BY <1>2
     DEF Dispatch, Walk, Defer, Plan, ReserveSim, SimTaken, ReservePhone, PhoneTaken, Claim, Full,
         Commit, HandOff, Undo, ClearWindows, BreakDeadlock, Die, history
<1>3. ASSUME NEW w \in Workers, Dispatch(w), NEW m \in Msgs, Taken(m)
      PROVE  tried[m] \subseteq tried'[m]
  <2>1. CASE Commit(w)
    <3>1. tried' = [tried EXCEPT ![pass[w].msg] = tried[pass[w].msg] \union {SimOf(w)}]
      BY <2>1 DEF Commit
    <3> QED BY <1>1, <3>1
  <2>2. CASE Undo(w)
    <3>1. m # pass[w].msg BY <1>3, <2>2 DEF Undo
    <3>2. tried' = [tried EXCEPT ![pass[w].msg] = tried[pass[w].msg] \ {SimOf(w)}]
      BY <2>2 DEF Undo
    <3> QED BY <1>1, <3>1, <3>2
  <2>3. ASSUME ~Commit(w), ~Undo(w) PROVE UNCHANGED tried
    BY <1>3, <2>3
       DEF Dispatch, Walk, Defer, Plan, ReserveSim, SimTaken, ReservePhone, PhoneTaken, Claim, Full,
           HandOff, ClearWindows, BreakDeadlock, Die, rows
  <2> QED BY <2>1, <2>2, <2>3
<1>4. ASSUME NEW m \in Msgs, Report(m)
      PROVE  UNCHANGED <<strategy, usable, tried>> /\ filled \subseteq filled'
  BY <1>4 DEF Report, Sent, Failed, Reclaim, RetryOrFail, history
<1>5. ASSUME NEW x \in Rows, WindowEnds(x) PROVE UNCHANGED <<strategy, usable, tried, filled>>
  BY <1>5 DEF WindowEnds, rows
<1>6. ASSUME NEW s \in Sims, FleetChanges(s)
      PROVE  UNCHANGED <<strategy, tried, filled>> /\ \A t \in usable \ Flaky : t \in usable'
  BY <1>6 DEF FleetChanges, rows, history
<1>7. CASE UNCHANGED vars BY <1>7 DEF vars, rows, history
<1> QED BY <1>2, <1>3, <1>4, <1>5, <1>6, <1>7 DEF Next

LEMMA FullStep ==
    ASSUME TypeInv, FullKnown, [Next]_vars
    PROVE  FullKnown'
<1> SUFFICES ASSUME NEW t \in Limited, SlotsUsed(t)' >= RecipientLimit PROVE t \in filled'
  BY DEF FullKnown
<1>1. t \in Sims /\ RecipientLimit \in Nat BY RoutingAssumption DEF RoutingAssumption
<1>2. filled \subseteq filled' BY RecordsGrow
<1>3. ASSUME FullSims(ledger') \subseteq filled' PROVE t \in filled'
  BY <1>3 DEF FullSims, SlotsUsed
<1>4. ASSUME Slots(ledger', t) \subseteq Slots(ledger, t) PROVE t \in filled'
  <2>1. Cardinality(Slots(ledger', t)) <= Cardinality(Slots(ledger, t))
    BY <1>4, SlotsFinite, FewerSlots
  <2>2. SlotsUsed(t)' = Cardinality(Slots(ledger', t)) BY DEF SlotsUsed, Slots
  <2>3. SlotsUsed(t) = Cardinality(Slots(ledger, t)) BY DEF SlotsUsed, Slots
  <2>4. SlotsUsed(t) >= RecipientLimit BY <1>1, <2>1, <2>2, <2>3, SlotsFinite
  <2> QED BY <1>2, <2>4 DEF FullKnown
<1>5. ASSUME NEW w \in Workers, Commit(w) PROVE FullSims(ledger') \subseteq filled'
  BY <1>5 DEF Commit
<1>6. ASSUME NEW m \in Msgs, NEW s \in Sims, Sent(s, m) PROVE FullSims(ledger') \subseteq filled'
  BY <1>6 DEF Sent
<1>7. ASSUME \A w \in Workers : ~Commit(w), \A m \in Msgs, s \in Sims : ~Sent(s, m)
      PROVE  Slots(ledger', t) \subseteq Slots(ledger, t)
  <2>1. ASSUME uncounted'[t] = uncounted[t] + 1 PROVE FALSE
    <3>1. uncounted[t] \in Nat BY <1>1 DEF TypeInv, TypeOK
    <3>2. UNCHANGED uncounted
      BY <1>7
         DEF Next, Dispatch, Walk, Defer, Plan, ReserveSim, SimTaken, ReservePhone, PhoneTaken, Claim,
             Full, HandOff, Undo, ClearWindows, BreakDeadlock, Die, Report, Failed, Reclaim,
             RetryOrFail, WindowEnds, FleetChanges, history, vars
    <3> QED BY <2>1, <3>1, <3>2
  <2> QED BY <1>1, <1>7, <2>1, SlotsChange
<1> QED BY <1>3, <1>4, <1>5, <1>6, <1>7

\* What the sequential strategy plans when the number is new everywhere.
LEMMA PlannedInOrder ==
    ASSUME TypeInv, OrderInv, NEW w \in Workers, NEW m \in Msgs, Plan(w, m)
    PROVE  Ordered(w)'
<1> SUFFICES ASSUME strategy' = "sequential", ~pass'[w].known, NEW s \in pass'[w].plan,
                    NEW t \in Permits[pass'[w].msg] \ (Flaky \union tried'[pass'[w].msg]),
                    FleetOrder[t] < FleetOrder[s]
             PROVE  t \in filled'
  BY DEF Ordered
<1>1. UNCHANGED <<strategy, tried, filled>> BY DEF Plan, rows, history
<1>2. pass'[w].msg = m /\ s \in Targets(m) /\ Holders(m) = {}
  <2>1. pass'[w].known = (Holders(m) # {}) BY Planned
  <2>2. Holders(m) = {} BY <2>1
  <2> QED BY <2>2, Planned
<1>3. s \in FirstOf(WithAllowance(m)) BY <1>1, <1>2 DEF Targets
<1>4. t \in Sims /\ s \in Sims
  BY <1>2, TargetsAreSims, RoutingAssumption DEF RoutingAssumption
<1>5. t \in Candidates(m) BY <1>1, <1>2, <1>4 DEF Candidates, OrderInv, Steady
<1>6. FleetOrder[s] \in Nat /\ FleetOrder[t] \in Nat
  BY <1>4, RoutingAssumption DEF RoutingAssumption
<1>7. t \notin WithAllowance(m) BY <1>3, <1>6 DEF FirstOf
<1>8. t \in Limited /\ ~(SlotsUsed(t) < RecipientLimit) BY <1>5, <1>7 DEF WithAllowance, HasAllowance
<1>9. SlotsUsed(t) \in Nat
  BY SlotsFinite DEF SlotsUsed, Slots
<1>10. SlotsUsed(t) >= RecipientLimit
  BY <1>8, <1>9, RoutingAssumption DEF RoutingAssumption
<1>11. t \in filled BY <1>8, <1>10 DEF OrderInv, FullKnown
<1> QED BY <1>1, <1>11

LEMMA OrderStep == TypeInv /\ OrderInv /\ [Next]_vars => OrderInv'
<1> SUFFICES ASSUME TypeInv, OrderInv, [Next]_vars PROVE OrderInv'
  OBVIOUS
<1>1. FullKnown' BY FullStep DEF OrderInv
<1>2. Steady' BY RecordsGrow DEF OrderInv, Steady
<1>3. ASSUME NEW w \in Workers, ~(\E m \in Msgs : Plan(w, m)) PROVE Ordered(w)'
  <2> SUFFICES ASSUME strategy' = "sequential", ~pass'[w].known, pass'[w].step \in Open,
                      NEW s \in pass'[w].plan,
                      NEW t \in Permits[pass'[w].msg] \ (Flaky \union tried'[pass'[w].msg]),
                      FleetOrder[t] < FleetOrder[s]
               PROVE  t \in filled'
    BY DEF Ordered
  <2>1. /\ pass[w].step \in Open /\ pass'[w].plan \subseteq pass[w].plan
        /\ pass'[w].msg = pass[w].msg /\ pass'[w].known = pass[w].known
    BY <1>3, OthersPlans
  <2>2. pass[w].msg \in Msgs BY <2>1 DEF TypeInv, Sound, Open
  <2>3. Taken(pass[w].msg) BY <2>1, OpenIs DEF Taken
  <2>4. tried[pass[w].msg] \subseteq tried'[pass[w].msg] BY <2>2, <2>3, RecordsGrow
  <2>5. t \in filled BY <2>1, <2>4, RecordsGrow DEF OrderInv, Ordered
  <2> QED BY <2>5, RecordsGrow
<1> QED BY <1>1, <1>2, <1>3, PlannedInOrder DEF OrderInv

\* The sequential strategy takes a number to a SIM only after those before it,
\* for any fleet and any dispatchers filling it together: what was read before
\* the locks cannot put the order wrong (SimProfileSelector.plan).
THEOREM SparesStayUntouched == Spec => SpareUntouched
<1>1. Init => OrderInv
  <2> SUFFICES ASSUME Init PROVE OrderInv
    OBVIOUS
  <2>1. ASSUME NEW t \in Limited, SlotsUsed(t) >= RecipientLimit PROVE t \in filled
    <3>1. t \in Sims /\ RecipientLimit \in Nat BY RoutingAssumption DEF RoutingAssumption
    <3>2. Slots(ledger, t) = {} BY <3>1 DEF Init, Slots
    <3>3. SlotsUsed(t) = 0 BY <3>2, FS_EmptySet DEF SlotsUsed, Slots
    <3> QED BY <2>1, <3>1, <3>3 DEF Init
  <2>2. Steady BY DEF Init, Steady
  <2>3. \A w \in Workers : Ordered(w) BY DEF Init, Ordered, Idle, Open
  <2> QED BY <2>1, <2>2, <2>3 DEF OrderInv, FullKnown
<1>2. TypeInv /\ OrderInv /\ [Next]_vars =>
        [\A w \in Workers :
           /\ strategy = "sequential"
           /\ pass[w].step = "claimed" /\ ~pass[w].known /\ pass'[w].step = "committed"
           => \A t \in Permits[pass[w].msg] \ (Flaky \union tried[pass[w].msg]) :
                 FleetOrder[t] < FleetOrder[SimOf(w)] => t \in filled]_vars
  <2> SUFFICES ASSUME TypeInv, OrderInv, NEW w \in Workers, strategy = "sequential",
                      pass[w].step = "claimed", ~pass[w].known,
                      NEW t \in Permits[pass[w].msg] \ (Flaky \union tried[pass[w].msg]),
                      FleetOrder[t] < FleetOrder[SimOf(w)]
               PROVE  t \in filled
    OBVIOUS
  <2>1. SimOf(w) \in pass[w].plan /\ pass[w].step \in Open
    BY DEF TypeInv, Sound, Open, SimOf
  <2> QED BY <2>1 DEF OrderInv, Ordered
<1> QED BY <1>1, <1>2, TypeInit, TypeStep, OrderStep, PTL DEF Spec, SpareUntouched
=============================================================================
