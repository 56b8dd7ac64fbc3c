----------------------------- MODULE UssdProofs -----------------------------
(***************************************************************************)
(* Of the USSD sessions, for any number of SIMs, requests, connections and *)
(* sweeping processes and any limit of failures: rows stay well typed, and *)
(* whoever goes on with a request goes on with a row that is there.        *)
(***************************************************************************)
EXTENDS Ussd, TLAPS

\* A request being started names a SIM and a kind, and then the row made for it.
Starting(x) ==
    /\ start[x].step = "checked" => start[x].sim \in Sims /\ start[x].kind \in Kinds
    /\ start[x].step \in {"sent", "unsent"} =>
         start[x].req \in Reqs /\ req[start[x].req].status # "none"

\* What a handler has in hand it has found.
InHand(h) ==
    task[h].step \notin {"idle", "picked"} =>
      task[h].req \in Reqs /\ req[task[h].req].status # "none"

UssdInv ==
    /\ TypeOK
    /\ \A x \in Starters : Starting(x)
    /\ \A h \in Handlers : InHand(h)

-----------------------------------------------------------------------------
LEMMA HandlersApart ==
  Answerers \subseteq Handlers /\ Sweepers \subseteq Handlers
  /\ Scheduler \in Starters /\ Admins \subseteq Starters
BY DEF Handlers, Starters

\* The row a handler has in hand names a SIM and a kind.
LEMMA RowInHand ==
  ASSUME UssdInv, NEW r \in Reqs, req[r].status # "none"
  PROVE  req[r] \in Req /\ req[r].sim \in Sims /\ sim[req[r].sim] \in Sim
<1>1. req[r] \in Req /\ req[r].sim # NoSim
  BY DEF UssdInv, TypeOK
<1>2. req[r].sim \in Sims
  BY <1>1 DEF Req
<1>. QED BY <1>1, <1>2 DEF UssdInv, TypeOK

RowsTyped ==
    /\ req \in [Reqs -> Req]
    /\ \A r \in Reqs : /\ (req[r].status = "none") = (req[r].sim = NoSim)
                       /\ req[r].status \in Closed => req[r].completed

\* One row is written.
LEMMA RowWritten ==
  ASSUME UssdInv, NEW r \in Reqs, NEW row \in Req, req' = [req EXCEPT ![r] = row],
         (row.status = "none") = (row.sim = NoSim), row.status \in Closed => row.completed
  PROVE  /\ RowsTyped' /\ req'[r] = row
         /\ \A t \in Reqs \ {r} : req'[t] = req[t]
<1>1. req \in [Reqs -> Req]
  BY DEF UssdInv, TypeOK
<1>2. req' \in [Reqs -> Req] /\ req'[r] = row /\ \A t \in Reqs \ {r} : req'[t] = req[t]
  BY <1>1
<1>3. \A t \in Reqs : /\ (req'[t].status = "none") = (req'[t].sim = NoSim)
                      /\ req'[t].status \in Closed => req'[t].completed
  BY <1>2 DEF UssdInv, TypeOK
<1>. QED BY <1>2, <1>3 DEF RowsTyped

\* What the phone or the sweep ends a request with is written to a row that is there.
LEMMA RowFinished ==
  ASSUME UssdInv, NEW r \in Reqs, NEW status \in Closed, req[r].status # "none",
         req' = Finished(r, status)
  PROVE  RowsTyped' /\ \A t \in Reqs : req'[t].status = "none" => req[t].status = "none"
<1> DEFINE row == [req[r] EXCEPT !.status = status, !.completed = TRUE]
<1>1. req[r] \in Req /\ req[r].sim # NoSim /\ req \in [Reqs -> Req]
  BY RowInHand, UssdAssumption DEF UssdInv, TypeOK
<1>2. row \in Req /\ row.status = status /\ row.sim = req[r].sim /\ row.completed
  BY <1>1 DEF Req
<1>3. req' = [req EXCEPT ![r] = row]
  BY <1>1 DEF Finished
<1> HIDE DEF row
<1>4. status # "none"
  BY DEF Closed
<1>5. RowsTyped' /\ req'[r] = row /\ \A t \in Reqs \ {r} : req'[t] = req[t]
  BY <1>1, <1>2, <1>3, <1>4, RowWritten
<1>6. ASSUME NEW t \in Reqs, req'[t].status = "none" PROVE req[t].status = "none"
  <2>1. CASE t = r
    BY <1>2, <1>4, <1>5, <1>6, <2>1
  <2>2. CASE t # r
    BY <1>5, <1>6, <2>2
  <2>. QED BY <2>1, <2>2
<1>. QED BY <1>5, <1>6

\* Only what a handler does with its own task, or a starter with its request,
\* is left to see to, while the rows there are stay.
LEMMA RowsStay ==
  ASSUME UssdInv, \A r \in Reqs : req'[r].status = "none" => req[r].status = "none"
  PROVE  /\ \A x \in Starters : start'[x] = start[x] => Starting(x)'
         /\ \A h \in Handlers : task'[h] = task[h] => InHand(h)'
<1>1. ASSUME NEW x \in Starters, start'[x] = start[x] PROVE Starting(x)'
  <2>1. Starting(x)
    BY DEF UssdInv
  <2>. QED BY <1>1, <2>1 DEF Starting
<1>2. ASSUME NEW h \in Handlers, task'[h] = task[h] PROVE InHand(h)'
  <2>1. InHand(h)
    BY DEF UssdInv
  <2>. QED BY <1>2, <2>1 DEF InHand
<1>. QED BY <1>1, <1>2

-----------------------------------------------------------------------------
(* Starting a request. *)

\* A starter's step that leaves the rows where they are.
LEMMA StarterStep ==
  ASSUME UssdInv, NEW x \in Starters, NEW begun \in Start,
         start' = [start EXCEPT ![x] = begun], Starting(x)',
         RowsTyped', \A r \in Reqs : req'[r].status = "none" => req[r].status = "none",
         session' \in [Reqs -> {"none", "held"} \union Closed], pass' \subseteq Sims,
         upsets' \in 0 .. MaxUpsets,
         UNCHANGED <<sim, code, task, changes>>
  PROVE  UssdInv'
<1>1. TypeOK'
  BY DEF UssdInv, TypeOK, RowsTyped
<1>2. \A y \in Starters \ {x} : start'[y] = start[y]
  BY DEF UssdInv, TypeOK
<1>3. \A y \in Starters : Starting(y)'
  BY <1>2, RowsStay
<1>4. \A h \in Handlers : InHand(h)'
  BY RowsStay
<1>. QED BY <1>1, <1>3, <1>4 DEF UssdInv

LEMMA RowsTypedNow == UssdInv => RowsTyped
BY DEF UssdInv, TypeOK, RowsTyped

LEMMA NotStartingTyped == NotStarting \in Start
BY DEF NotStarting, Start

LEMMA CheckedKept ==
  ASSUME UssdInv, NEW x \in Starters, NEW s \in Sims, NEW k \in Kinds, Checked(x, s, k),
         pass' \subseteq Sims, UNCHANGED <<sim, code, req, session, task, changes, upsets>>
  PROVE  UssdInv'
<1> DEFINE begun == [NotStarting EXCEPT !.step = "checked", !.sim = s, !.kind = k]
<1>1. start' = [start EXCEPT ![x] = begun]
  BY DEF Checked
<1>2. begun \in Start /\ begun.step = "checked" /\ begun.sim = s /\ begun.kind = k
  BY DEF NotStarting, Start
<1> HIDE DEF begun
<1>3. Starting(x)'
  BY <1>1, <1>2 DEF Starting, UssdInv, TypeOK
<1>4. RowsTyped'
  BY RowsTypedNow DEF RowsTyped
<1>5. session' \in [Reqs -> {"none", "held"} \union Closed] /\ upsets' \in 0 .. MaxUpsets
  BY DEF UssdInv, TypeOK
<1>. QED BY <1>1, <1>2, <1>3, <1>4, <1>5, StarterStep

LEMMA CreateAndSendKept ==
  ASSUME UssdInv, NEW x \in Starters, NEW r \in Reqs, CreateAndSend(x, r)
  PROVE  UssdInv'
<1> DEFINE row == [NoRow EXCEPT !.status = "queued", !.sim = start[x].sim,
                                !.kind = start[x].kind]
<1>1. start[x].sim \in Sims /\ start[x].kind \in Kinds /\ start[x] \in Start
  BY DEF CreateAndSend, UssdInv, TypeOK, Starting
<1>2. row \in Req /\ row.status = "queued" /\ row.sim = start[x].sim /\ row.sim # NoSim
  BY <1>1, UssdAssumption DEF NoRow, Req, Open
<1>3. req' = [req EXCEPT ![r] = row]
  BY DEF CreateAndSend
<1> HIDE DEF row
<1>4. RowsTyped' /\ req'[r] = row /\ \A t \in Reqs \ {r} : req'[t] = req[t]
  BY <1>2, <1>3, RowWritten DEF Closed
<1>5. PICK step \in {"sent", "unsent"} : start' = [start EXCEPT ![x].step = step, ![x].req = r]
  BY DEF CreateAndSend
<1> DEFINE begun == [start[x] EXCEPT !.step = step, !.req = r]
<1>6. start' = [start EXCEPT ![x] = begun] /\ start'[x] = begun
  BY <1>1, <1>5 DEF UssdInv, TypeOK, Start
<1>7. begun \in Start /\ begun.step = step /\ begun.req = r
  BY <1>1 DEF Start
<1> HIDE DEF begun
<1>8. Starting(x)'
  BY <1>2, <1>4, <1>6, <1>7 DEF Starting
<1>9. /\ session' \in [Reqs -> {"none", "held"} \union Closed]
      /\ UNCHANGED <<sim, code, pass, task, changes, upsets>>
  BY DEF CreateAndSend, UssdInv, TypeOK
<1>10. \A t \in Reqs : req'[t].status = "none" => req[t].status = "none"
  BY <1>2, <1>4
<1>. QED BY <1>4, <1>6, <1>7, <1>8, <1>9, <1>10, StarterStep DEF UssdInv, TypeOK

LEMMA EndedKept ==
  ASSUME UssdInv, NEW x \in Starters, start' = [start EXCEPT ![x] = NotStarting],
         RowsTyped', \A r \in Reqs : req'[r].status = "none" => req[r].status = "none",
         upsets' \in 0 .. MaxUpsets, UNCHANGED <<sim, code, session, pass, task, changes>>
  PROVE  UssdInv'
<1>1. Starting(x)'
  BY DEF UssdInv, TypeOK, Starting, NotStarting
<1>2. session' \in [Reqs -> {"none", "held"} \union Closed] /\ pass' \subseteq Sims
  BY DEF UssdInv, TypeOK
<1>. QED BY <1>1, <1>2, NotStartingTyped, StarterStep

LEMMA SavedOrFailedKept ==
  ASSUME UssdInv, NEW x \in Starters, SaveSending(x) \/ FailUnsent(x)
  PROVE  UssdInv'
<1> DEFINE r == start[x].req
<1>1. /\ r \in Reqs /\ req[r].status # "none"
      /\ start' = [start EXCEPT ![x] = NotStarting]
      /\ UNCHANGED <<sim, code, session, pass, task, changes, upsets>>
  BY DEF SaveSending, FailUnsent, UssdInv, Starting
<1>2. /\ (SaveSending(x) => req' = [req EXCEPT ![r].status = "sending"])
      /\ (FailUnsent(x) => req' = Finished(r, "failed"))
  BY DEF SaveSending, FailUnsent
<1> HIDE DEF r
<1>3. RowsTyped' /\ \A t \in Reqs : req'[t].status = "none" => req[t].status = "none"
  <2>1. CASE SaveSending(x)
    <3> DEFINE row == [req[r] EXCEPT !.status = "sending"]
    <3>1. req[r] \in Req /\ req[r].sim \in Sims
      BY <1>1, RowInHand
    <3>2. row \in Req /\ row.status = "sending" /\ row.sim = req[r].sim
      BY <3>1 DEF Req, Open
    <3>3. req' = [req EXCEPT ![r] = row]
      BY <1>1, <1>2, <2>1, <3>1 DEF UssdInv, TypeOK
    <3>. HIDE DEF row
    <3>4. RowsTyped' /\ req'[r] = row /\ \A t \in Reqs \ {r} : req'[t] = req[t]
      BY <1>1, <3>1, <3>2, <3>3, RowWritten, UssdAssumption DEF Closed
    <3>. QED BY <1>1, <3>2, <3>4
  <2>2. CASE FailUnsent(x)
    <3>1. "failed" \in Closed
      BY DEF Closed
    <3>. QED BY <1>1, <1>2, <2>2, <3>1, RowFinished
  <2>. QED BY <2>1, <2>2
<1>4. upsets' \in 0 .. MaxUpsets
  BY <1>1 DEF UssdInv, TypeOK
<1>. QED BY <1>1, <1>3, <1>4, EndedKept

-----------------------------------------------------------------------------
(* Answers and sweeps. *)

LEMMA HandlerStep ==
  ASSUME UssdInv, NEW h \in Handlers, NEW handed \in Task,
         task' = [task EXCEPT ![h] = handed],
         handed.step \notin {"idle", "picked"} =>
           handed.req \in Reqs /\ req'[handed.req].status # "none",
         RowsTyped', \A r \in Reqs : req'[r].status = "none" => req[r].status = "none",
         sim' \in [Sims -> Sim], session' \in [Reqs -> {"none", "held"} \union Closed],
         upsets' \in 0 .. MaxUpsets, UNCHANGED <<code, pass, start, changes>>
  PROVE  UssdInv'
<1>1. TypeOK'
  BY DEF UssdInv, TypeOK, RowsTyped
<1>2. task'[h] = handed /\ \A g \in Handlers \ {h} : task'[g] = task[g]
  BY DEF UssdInv, TypeOK
<1>3. InHand(h)'
  BY <1>2 DEF InHand
<1>4. \A g \in Handlers : InHand(g)'
  BY <1>2, <1>3, RowsStay
<1>5. \A x \in Starters : Starting(x)'
  BY RowsStay
<1>. QED BY <1>1, <1>4, <1>5 DEF UssdInv

\* Most steps of a handler concern its own task alone.
LEMMA TaskStep ==
  ASSUME UssdInv, NEW h \in Handlers, NEW handed \in Task,
         task' = [task EXCEPT ![h] = handed],
         handed.step \notin {"idle", "picked"} =>
           handed.req \in Reqs /\ req[handed.req].status # "none",
         session' \in [Reqs -> {"none", "held"} \union Closed],
         upsets' \in 0 .. MaxUpsets, UNCHANGED <<sim, code, req, pass, start, changes>>
  PROVE  UssdInv'
<1>1. RowsTyped' /\ sim' \in [Sims -> Sim]
  BY RowsTypedNow DEF RowsTyped, UssdInv, TypeOK
<1>. QED BY <1>1, HandlerStep

LEMMA NoTaskTyped == NoTask \in Task /\ NoTask.step = "idle"
BY UssdAssumption DEF NoTask, Task, Closed

LEMMA SweepOnTyped ==
  ASSUME NEW picked \in SUBSET Reqs
  PROVE  SweepOn(picked) \in Task /\ SweepOn(picked).step \in {"idle", "picked"}
<1>1. CASE picked = {}
  BY <1>1, NoTaskTyped DEF SweepOn
<1>2. CASE picked # {}
  BY <1>2, NoTaskTyped DEF SweepOn, Task, NoTask
<1>. QED BY <1>1, <1>2

LEMMA HeldRow ==
  ASSUME UssdInv, NEW h \in Handlers, task[h].step \notin {"idle", "picked"}
  PROVE  /\ task[h] \in Task /\ task[h].req \in Reqs /\ req[task[h].req].status # "none"
         /\ req[task[h].req] \in Req /\ req[task[h].req].sim \in Sims
         /\ sim[req[task[h].req].sim] \in Sim
<1>1. task[h] \in Task /\ task[h].req \in Reqs /\ req[task[h].req].status # "none"
  BY DEF UssdInv, TypeOK, InHand
<1>. QED BY <1>1, RowInHand

LEMMA ReceiveKept ==
  ASSUME UssdInv, NEW a \in Handlers, NEW r \in Reqs, NEW outcome \in Closed,
         Receive(a, r, outcome)
  PROVE  UssdInv'
<1> DEFINE read == [NoTask EXCEPT !.step = "read", !.req = r, !.outcome = outcome]
<1>1. read \in Task /\ read.step = "read" /\ read.req = r
  BY NoTaskTyped DEF NoTask, Task
<1>2. /\ session' \in [Reqs -> {"none", "held"} \union Closed]
      /\ UNCHANGED <<sim, code, req, pass, start, changes, upsets>>
      /\ upsets' \in 0 .. MaxUpsets
  BY DEF Receive, UssdInv, TypeOK
<1>3. CASE req[r].status \notin Open
  BY <1>2, <1>3, NoTaskTyped, TaskStep DEF Receive
<1>4. CASE req[r].status \in Open
  <2>1. task' = [task EXCEPT ![a] = read] /\ req[r].status # "none"
    BY <1>4 DEF Receive, Open
  <2>. HIDE DEF read
  <2>. QED BY <1>1, <1>2, <2>1, TaskStep
<1>. QED BY <1>3, <1>4

LEMMA ReadKept ==
  ASSUME UssdInv, NEW h \in Handlers, ReadSim(h) \/ Parse(h) \/ ReadSwept(h)
  PROVE  UssdInv'
<1>1. /\ task[h].step \in {"read", "parsing", "closed"}
      /\ UNCHANGED <<sim, code, req, session, pass, start, changes, upsets>>
  BY DEF ReadSim, Parse, ReadSwept
<1>2. /\ task[h] \in Task /\ task[h].req \in Reqs /\ req[task[h].req].status # "none"
      /\ sim[req[task[h].req].sim].failures \in 0 .. GiveUp
  BY <1>1, HeldRow DEF Sim
<1>3. ASSUME NEW step \in {"parsing", "closing", "saving"}, NEW seen \in 0 .. GiveUp,
             NEW outcome \in Closed,
             task' = [task EXCEPT ![h].step = step, ![h].seen = seen, ![h].outcome = outcome]
      PROVE  UssdInv'
  <2> DEFINE handed == [task[h] EXCEPT !.step = step, !.seen = seen, !.outcome = outcome]
  <2>1. task' = [task EXCEPT ![h] = handed]
    BY <1>2, <1>3 DEF UssdInv, TypeOK, Task
  <2>2. handed \in Task /\ handed.req = task[h].req
    BY <1>2 DEF Task
  <2>. HIDE DEF handed
  <2>3. session' \in [Reqs -> {"none", "held"} \union Closed] /\ upsets' \in 0 .. MaxUpsets
    BY <1>1 DEF UssdInv, TypeOK
  <2>. QED BY <1>1, <1>2, <2>1, <2>2, <2>3, TaskStep
<1>4. \E step \in {"parsing", "closing", "saving"}, seen \in 0 .. GiveUp, outcome \in Closed :
         task' = [task EXCEPT ![h].step = step, ![h].seen = seen, ![h].outcome = outcome]
  <2>0. task[h].outcome \in Closed /\ task[h].seen \in 0 .. GiveUp /\ "failed" \in Closed
        /\ task \in [Handlers -> Task]
    BY <1>2 DEF Task, Closed, UssdInv, TypeOK
  <2>1. CASE ReadSim(h) \/ ReadSwept(h)
    <3> DEFINE seen == sim[req[task[h].req].sim].failures
    <3>1. PICK step \in {"parsing", "closing", "saving"} :
                 task' = [task EXCEPT ![h].step = step, ![h].seen = seen]
      BY <2>1 DEF ReadSim, ReadSwept
    <3>2. seen \in 0 .. GiveUp
      BY <1>2
    <3>. HIDE DEF seen
    <3>3. task' = [task EXCEPT ![h].step = step, ![h].seen = seen,
                               ![h].outcome = task[h].outcome]
      BY <1>2, <2>0, <3>1 DEF Task
    <3>. QED BY <2>0, <3>2, <3>3
  <2>2. CASE Parse(h)
    <3>1. PICK outcome \in Closed :
                 task' = [task EXCEPT ![h].step = "closing", ![h].outcome = outcome]
      BY <2>0, <2>2 DEF Parse
    <3>2. task' = [task EXCEPT ![h].step = "closing", ![h].seen = task[h].seen,
                               ![h].outcome = outcome]
      BY <1>2, <2>0, <3>1 DEF Task
    <3>. QED BY <2>0, <3>2
  <2>. QED BY <2>1, <2>2
<1>. QED BY <1>3, <1>4

LEMMA SweepKept ==
  ASSUME UssdInv, NEW w \in Handlers, Select(w) \/ \E r \in Reqs : Find(w, r)
  PROVE  UssdInv'
<1>1. /\ UNCHANGED <<sim, code, req, session, pass, start, changes, upsets>>
      /\ session' \in [Reqs -> {"none", "held"} \union Closed] /\ upsets' \in 0 .. MaxUpsets
      /\ task[w] \in Task
  BY DEF Select, Find, UssdInv, TypeOK
<1>2. CASE Select(w)
  <2> DEFINE handed == [NoTask EXCEPT !.step = "picked", !.picked = Stale]
  <2>1. task' = [task EXCEPT ![w] = handed]
    BY <1>2 DEF Select
  <2>2. handed \in Task /\ handed.step = "picked"
    BY NoTaskTyped DEF NoTask, Task, Stale
  <2>. HIDE DEF handed
  <2>. QED BY <1>1, <2>1, <2>2, TaskStep
<1>3. ASSUME NEW r \in Reqs, Find(w, r) PROVE UssdInv'
  <2>1. CASE req[r].status \in Open
    <3> DEFINE handed == [task[w] EXCEPT !.step = "closing", !.req = r,
                                      !.picked = task[w].picked \ {r}]
    <3>1. task' = [task EXCEPT ![w] = handed]
      BY <1>1, <1>3, <2>1 DEF Find, Task
    <3>2. handed \in Task /\ handed.req = r
      <4>1. task[w].picked \ {r} \in SUBSET Reqs
        BY <1>1 DEF Task
      <4>. QED BY <1>1, <4>1 DEF Task
    <3>3. req[r].status # "none"
      BY <2>1 DEF Open
    <3>. HIDE DEF handed
    <3>. QED BY <1>1, <3>1, <3>2, <3>3, TaskStep
  <2>2. CASE req[r].status \notin Open
    <3>1. task' = [task EXCEPT ![w] = SweepOn(task[w].picked \ {r})]
      BY <1>3, <2>2 DEF Find, UssdInv, TypeOK
    <3>2. task[w].picked \ {r} \in SUBSET Reqs
      BY <1>1 DEF Task
    <3>. QED BY <1>1, <3>1, <3>2, SweepOnTyped, TaskStep
  <2>. QED BY <2>1, <2>2
<1>. QED BY <1>2, <1>3

LEMMA FinishKept ==
  ASSUME UssdInv, NEW h \in Handlers, Finish(h)
  PROVE  UssdInv'
<1> DEFINE r == task[h].req
<1>1. /\ task[h].step = "closing" /\ task[h] \in Task /\ r \in Reqs
      /\ req[r].status # "none"
      /\ req' = Finished(r, task[h].outcome)
  BY HeldRow DEF Finish
<1>2. PICK step \in {"closed", "saving"} : task' = [task EXCEPT ![h].step = step]
  BY DEF Finish
<1> DEFINE handed == [task[h] EXCEPT !.step = step]
<1>3. task' = [task EXCEPT ![h] = handed]
  BY <1>1, <1>2 DEF UssdInv, TypeOK
<1>4. handed \in Task /\ handed.req = r /\ task[h].outcome \in Closed
  BY <1>1 DEF Task
<1> HIDE DEF handed, r
<1>5. RowsTyped' /\ \A t \in Reqs : req'[t].status = "none" => req[t].status = "none"
  BY <1>1, <1>4, RowFinished
<1>6. /\ sim' \in [Sims -> Sim] /\ session' \in [Reqs -> {"none", "held"} \union Closed]
      /\ upsets' \in 0 .. MaxUpsets /\ UNCHANGED <<code, pass, start, changes>>
  BY DEF Finish, UssdInv, TypeOK
<1>. QED BY <1>1, <1>3, <1>4, <1>5, <1>6, HandlerStep

\* What is saved of a SIM counts no further than the limit.
LEMMA SavedSimTyped ==
  ASSUME NEW h \in Handlers, NEW s \in Sims, NEW kind, sim[s] \in Sim,
         task[h].seen \in 0 .. GiveUp
  PROVE  SavedSim(h, s, kind) \in Sim
<1>1. GiveUp \in Nat \ {0}
  BY UssdAssumption
<1> DEFINE next == IF task[h].seen < GiveUp THEN task[h].seen + 1 ELSE GiveUp
<1>2. next \in 0 .. GiveUp /\ 0 \in 0 .. GiveUp /\ sim[s].failures \in 0 .. GiveUp
  BY <1>1 DEF Sim
<1>3. /\ [sim[s] EXCEPT !.supported = FALSE] \in Sim
      /\ \A n \in 0 .. GiveUp : [sim[s] EXCEPT !.due = FALSE, !.failures = n] \in Sim
  BY DEF Sim
<1>4. SavedSim(h, s, kind) \in
         {sim[s], [sim[s] EXCEPT !.supported = FALSE],
          [sim[s] EXCEPT !.due = FALSE, !.failures = sim[s].failures],
          [sim[s] EXCEPT !.due = FALSE, !.failures = 0],
          [sim[s] EXCEPT !.due = FALSE, !.failures = next]}
  BY DEF SavedSim
<1>. HIDE DEF next
<1>. QED BY <1>2, <1>3, <1>4

LEMMA SaveSimKept ==
  ASSUME UssdInv, NEW h \in Handlers, SaveSim(h)
  PROVE  UssdInv'
<1> DEFINE r == task[h].req
<1>1. /\ task[h].step = "saving" /\ task[h] \in Task
      /\ req[r].sim \in Sims /\ sim[req[r].sim] \in Sim
  BY HeldRow DEF SaveSim
<1>2. /\ sim' = [sim EXCEPT ![req[r].sim] = SavedSim(h, req[r].sim, req[r].kind)]
      /\ task' = [task EXCEPT ![h] = SweepOn(task[h].picked)]
      /\ UNCHANGED <<code, req, session, pass, start, changes, upsets>>
  BY DEF SaveSim
<1>3. /\ task[h].seen \in 0 .. GiveUp /\ task[h].picked \in SUBSET Reqs
      /\ task[h].outcome \in Closed
  BY <1>1 DEF Task
<1> HIDE DEF r
<1>4. SavedSim(h, req[r].sim, req[r].kind) \in Sim
  BY <1>1, <1>3, SavedSimTyped
<1>5. sim' \in [Sims -> Sim]
  BY <1>1, <1>2, <1>4 DEF UssdInv, TypeOK
<1>6. RowsTyped' /\ session' \in [Reqs -> {"none", "held"} \union Closed]
      /\ upsets' \in 0 .. MaxUpsets
  BY <1>2, RowsTypedNow DEF RowsTyped, UssdInv, TypeOK
<1>. QED BY <1>2, <1>3, <1>5, <1>6, SweepOnTyped, HandlerStep

-----------------------------------------------------------------------------
(* Administrators, phones, time and faults. *)

\* Steps that touch neither rows, starters nor handlers.
LEMMA OutsideStep ==
  ASSUME UssdInv, UNCHANGED <<req, session, pass, start, task, upsets>>,
         sim' \in [Sims -> Sim], code' \in [Kinds -> {"none", "active", "inactive"}],
         changes' \in 0 .. MaxChanges
  PROVE  UssdInv'
<1>1. TypeOK'
  BY DEF UssdInv, TypeOK
<1>2. (\A x \in Starters : Starting(x)') /\ \A h \in Handlers : InHand(h)'
  BY RowsStay
<1>. QED BY <1>1, <1>2 DEF UssdInv

LEMMA OutsideKept ==
  ASSUME UssdInv,
         \/ \E k \in Kinds : DestroyUssdCommand(k)
                             \/ \E to \in {"active", "inactive"} : UpsertUssdCommand(k, to)
         \/ \E s \in Sims : Rearm(s) \/ ReportSim(s) \/ IntervalPasses(s)
  PROVE  UssdInv'
<1>1. /\ sim \in [Sims -> Sim] /\ code \in [Kinds -> {"none", "active", "inactive"}]
      /\ changes \in 0 .. MaxChanges
  BY DEF UssdInv, TypeOK
<1>2. Change => changes' \in 0 .. MaxChanges
  BY <1>1, UssdAssumption DEF Change
<1>3. ASSUME NEW k \in Kinds, NEW to \in {"active", "inactive"},
             DestroyUssdCommand(k) \/ UpsertUssdCommand(k, to)
      PROVE  UssdInv'
  <2>1. /\ sim' = sim /\ changes' \in 0 .. MaxChanges
        /\ code' \in [Kinds -> {"none", "active", "inactive"}]
        /\ UNCHANGED <<req, session, pass, start, task, upsets>>
    BY <1>1, <1>2, <1>3 DEF DestroyUssdCommand, UpsertUssdCommand
  <2>. QED BY <1>1, <2>1, OutsideStep
<1>4. ASSUME NEW s \in Sims, Rearm(s) \/ ReportSim(s) \/ IntervalPasses(s)
      PROVE  UssdInv'
  <2>1. /\ code' = code /\ changes' \in 0 .. MaxChanges
        /\ UNCHANGED <<req, session, pass, start, task, upsets>>
    BY <1>1, <1>2, <1>4 DEF Rearm, ReportSim, IntervalPasses
  <2>2. sim' \in [Sims -> Sim]
    <3>1. GiveUp \in Nat
      BY UssdAssumption
    <3>2. sim[s] \in Sim
      BY <1>1
    <3>3. /\ [sim[s] EXCEPT !.supported = TRUE, !.failures = 0] \in Sim
          /\ \A b \in BOOLEAN : [sim[s] EXCEPT !.ready = b] \in Sim
          /\ [sim[s] EXCEPT !.due = TRUE] \in Sim
      <4>1. 0 \in 0 .. GiveUp
        BY <3>1
      <4>2. [sim[s] EXCEPT !.supported = TRUE, !.failures = 0] \in Sim
        BY <3>2, <4>1 DEF Sim
      <4>3. \A b \in BOOLEAN : [sim[s] EXCEPT !.ready = b] \in Sim
        BY <3>2 DEF Sim
      <4>4. [sim[s] EXCEPT !.due = TRUE] \in Sim
        BY <3>2 DEF Sim
      <4>. QED BY <4>2, <4>3, <4>4
    <3>4. \/ sim' = [sim EXCEPT ![s] = [sim[s] EXCEPT !.supported = TRUE, !.failures = 0]]
          \/ \E b \in BOOLEAN : sim' = [sim EXCEPT ![s] = [sim[s] EXCEPT !.ready = b]]
          \/ sim' = [sim EXCEPT ![s] = [sim[s] EXCEPT !.due = TRUE]]
      BY <1>1, <1>4, <3>2 DEF Rearm, ReportSim, IntervalPasses, Sim
    <3>. QED BY <1>1, <3>3, <3>4
  <2>. QED BY <1>1, <2>1, <2>2, OutsideStep
<1>. QED BY <1>3, <1>4

LEMMA WindowPassesKept ==
  ASSUME UssdInv, NEW r \in Reqs, WindowPasses(r)
  PROVE  UssdInv'
<1> DEFINE row == [req[r] EXCEPT !.late = TRUE]
<1>1. req[r] \in Req /\ req \in [Reqs -> Req] /\ req[r].status \in Open
  BY DEF WindowPasses, UssdInv, TypeOK
<1>2. row \in Req /\ row.status = req[r].status /\ row.sim = req[r].sim
      /\ row.completed = req[r].completed
  BY <1>1 DEF Req
<1>3. req' = [req EXCEPT ![r] = row]
  BY <1>1 DEF WindowPasses
<1> HIDE DEF row
<1>4. (req[r].status = "none") = (req[r].sim = NoSim)
      /\ (req[r].status \in Closed => req[r].completed)
  BY DEF UssdInv, TypeOK
<1>5. RowsTyped' /\ req'[r] = row /\ \A t \in Reqs \ {r} : req'[t] = req[t]
  BY <1>2, <1>3, <1>4, RowWritten
<1>6. \A t \in Reqs : req'[t].status = "none" => req[t].status = "none"
  BY <1>2, <1>5
<1>7. UNCHANGED <<sim, code, session, pass, start, task, changes, upsets>>
  BY DEF WindowPasses
<1>8. TypeOK'
  BY <1>5, <1>7 DEF UssdInv, TypeOK, RowsTyped
<1>9. (\A x \in Starters : Starting(x)') /\ \A h \in Handlers : InHand(h)'
  BY <1>6, <1>7, RowsStay
<1>. QED BY <1>8, <1>9 DEF UssdInv

\* A place is used again only when nobody has its row in hand.
LEMMA ForgetKept ==
  ASSUME UssdInv, NEW r \in Reqs, Forget(r)
  PROVE  UssdInv'
<1>1. NoRow \in Req /\ NoRow.status = "none" /\ NoRow.sim = NoSim
  BY DEF NoRow, Req
<1>2. RowsTyped' /\ \A t \in Reqs \ {r} : req'[t] = req[t]
  BY <1>1, RowWritten DEF Forget, Closed
<1>3. session' \in [Reqs -> {"none", "held"} \union Closed]
      /\ UNCHANGED <<sim, code, pass, start, task, changes, upsets>>
  BY DEF Forget, UssdInv, TypeOK
<1>4. TypeOK'
  BY <1>2, <1>3 DEF UssdInv, TypeOK, RowsTyped
<1>5. ASSUME NEW x \in Starters PROVE Starting(x)'
  <2>1. Starting(x) /\ start[x].req # r
    BY DEF UssdInv, Forget
  <2>. QED BY <1>2, <1>3, <2>1 DEF Starting
<1>6. ASSUME NEW h \in Handlers PROVE InHand(h)'
  <2>1. InHand(h) /\ task[h].req # r
    BY DEF UssdInv, Forget
  <2>. QED BY <1>2, <1>3, <2>1 DEF InHand
<1>. QED BY <1>4, <1>5, <1>6 DEF UssdInv

LEMMA DieKept ==
  ASSUME UssdInv,
         (\E x \in Starters : DieStarting(x)) \/ (\E h \in Handlers : DieHandling(h))
  PROVE  UssdInv'
<1>1. Upset => upsets' \in 0 .. MaxUpsets
  BY UssdAssumption DEF Upset, UssdInv, TypeOK
<1>2. ASSUME NEW x \in Starters, DieStarting(x) PROVE UssdInv'
  <2>1. /\ start' = [start EXCEPT ![x] = NotStarting] /\ upsets' \in 0 .. MaxUpsets
        /\ UNCHANGED <<sim, code, req, session, pass, task, changes>>
    BY <1>1, <1>2 DEF DieStarting
  <2>2. RowsTyped'
    BY <2>1, RowsTypedNow DEF RowsTyped
  <2>. QED BY <2>1, <2>2, EndedKept
<1>3. ASSUME NEW h \in Handlers, DieHandling(h) PROVE UssdInv'
  <2>1. /\ task' = [task EXCEPT ![h] = NoTask] /\ upsets' \in 0 .. MaxUpsets
        /\ UNCHANGED <<sim, code, req, session, pass, start, changes>>
        /\ session' \in [Reqs -> {"none", "held"} \union Closed]
    BY <1>1, <1>3 DEF DieHandling, UssdInv, TypeOK
  <2>. QED BY <2>1, NoTaskTyped, TaskStep
<1>. QED BY <1>2, <1>3

LEMMA PassKept ==
  ASSUME UssdInv, Pass \/ NextDue
  PROVE  UssdInv'
<1>1. CASE Pass \/ (NextDue /\ UNCHANGED start)
  <2>1. pass' \subseteq Sims
    BY <1>1 DEF Pass, NextDue, Due, UssdInv, TypeOK
  <2>2. UNCHANGED <<sim, code, req, session, start, task, changes, upsets>>
    BY <1>1 DEF Pass, NextDue
  <2>3. TypeOK'
    BY <2>1, <2>2 DEF UssdInv, TypeOK
  <2>4. (\A x \in Starters : Starting(x)') /\ \A h \in Handlers : InHand(h)'
    BY <2>2, RowsStay
  <2>. QED BY <2>3, <2>4 DEF UssdInv
<1>2. CASE NextDue /\ ~UNCHANGED start
  <2>1. PICK s \in pass, k \in BalanceKinds :
               Checked(Scheduler, s, k) /\ pass' = pass \ {s}
    BY <1>2 DEF NextDue
  <2>2. s \in Sims /\ k \in Kinds /\ pass' \subseteq Sims
    BY <2>1, UssdAssumption DEF UssdInv, TypeOK
  <2>3. UNCHANGED <<sim, code, req, session, task, changes, upsets>>
    BY <1>2 DEF NextDue
  <2>. QED BY <2>1, <2>2, <2>3, HandlersApart, CheckedKept
<1>. QED BY <1>1, <1>2

-----------------------------------------------------------------------------
LEMMA InitInv == Init => UssdInv
<1> SUFFICES ASSUME Init PROVE UssdInv
  OBVIOUS
<1>1. GiveUp \in Nat /\ MaxChanges \in Nat /\ MaxUpsets \in Nat
  BY UssdAssumption
<1>2. sim \in [Sims -> Sim]
  BY <1>1 DEF Init, Sim
<1>3. RowsTyped
  <2>1. NoRow \in Req /\ NoRow.status = "none" /\ NoRow.sim = NoSim
    BY DEF NoRow, Req
  <2>. QED BY <2>1 DEF Init, RowsTyped, Closed
<1>4. \A h \in Handlers : task[h] = NoTask
  BY DEF Init
<1>5. \A x \in Starters : start[x] = NotStarting
  BY DEF Init
<1>6. TypeOK
  BY <1>1, <1>2, <1>3, NoTaskTyped, NotStartingTyped DEF Init, TypeOK, RowsTyped
<1>7. (\A x \in Starters : Starting(x)) /\ \A h \in Handlers : InHand(h)
  BY <1>4, <1>5, NoTaskTyped DEF Starting, InHand, NotStarting
<1>. QED BY <1>6, <1>7 DEF UssdInv

LEMMA NextInv == UssdInv /\ [Next]_vars => UssdInv'
<1> SUFFICES ASSUME UssdInv, [Next]_vars PROVE UssdInv'
  OBVIOUS
<1>1. CASE Pass \/ NextDue
  BY <1>1, PassKept
<1>2. ASSUME NEW x \in Admins, NEW s \in Sims, NEW k \in Kinds, RunUssd(x, s, k)
      PROVE  UssdInv'
  <2>1. /\ Checked(x, s, k) /\ pass' \subseteq Sims /\ x \in Starters
        /\ UNCHANGED <<sim, code, req, session, task, changes, upsets>>
    BY <1>2, HandlersApart DEF RunUssd, UssdInv, TypeOK
  <2>. QED BY <2>1, CheckedKept
<1>3. ASSUME NEW x \in Starters, Go(x) \/ DieStarting(x) PROVE UssdInv'
  BY <1>3, CreateAndSendKept, SavedOrFailedKept, DieKept DEF Go
<1>4. ASSUME NEW a \in Answerers,
             Handle(a) \/ \E r \in Reqs, outcome \in Closed : Receive(a, r, outcome)
      PROVE  UssdInv'
  BY <1>4, HandlersApart, ReadKept, FinishKept, SaveSimKept, ReceiveKept DEF Handle
<1>5. ASSUME NEW w \in Sweepers, Sweep(w) PROVE UssdInv'
  BY <1>5, HandlersApart, SweepKept, ReadKept, FinishKept, SaveSimKept DEF Sweep
<1>6. ASSUME NEW h \in Handlers, DieHandling(h) PROVE UssdInv'
  BY <1>6, DieKept
<1>7. ASSUME NEW k \in Kinds,
             DestroyUssdCommand(k)
               \/ \E to \in {"active", "inactive"} : UpsertUssdCommand(k, to)
      PROVE  UssdInv'
  BY <1>7, OutsideKept
<1>8. ASSUME NEW s \in Sims, Rearm(s) \/ ReportSim(s) \/ IntervalPasses(s) PROVE UssdInv'
  BY <1>8, OutsideKept
<1>9. ASSUME NEW r \in Reqs, WindowPasses(r) \/ Forget(r) PROVE UssdInv'
  BY <1>9, WindowPassesKept, ForgetKept
<1>10. CASE UNCHANGED vars
  <2>1. UNCHANGED <<req, session, pass, start, task, upsets>>
        /\ sim' \in [Sims -> Sim] /\ code' \in [Kinds -> {"none", "active", "inactive"}]
        /\ changes' \in 0 .. MaxChanges
    BY <1>10 DEF vars, UssdInv, TypeOK
  <2>. QED BY <2>1, OutsideStep
<1>. QED BY <1>1, <1>2, <1>3, <1>4, <1>5, <1>6, <1>7, <1>8, <1>9, <1>10 DEF Next

LEMMA InvHolds == Spec => []UssdInv
<1>. QED BY InitInv, NextInv, PTL DEF Spec

\* Rows stay well typed and a closed one keeps the time of its completion, for
\* any number of starters, answers and sweeps that save what they have read
\* without a lock: each goes on with a row that is there (ussd_service.ts).
THEOREM AlwaysTyped == Spec => []TypeOK
<1>1. UssdInv => TypeOK
  BY DEF UssdInv
<1>. QED BY <1>1, InvHolds, PTL
=============================================================================
