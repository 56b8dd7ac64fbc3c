------------------------ MODULE WebhookDeliveryProofs ------------------------
(***************************************************************************)
(* Of the job queue, for any workers, jobs, keys, limits and faults: its   *)
(* states are well typed, and a job is worked on by the holder of its      *)
(* lease alone, as long as no handler of it outlived one.  Then of the     *)
(* queue with the deliveries as its jobs: what is proved of the queue with *)
(* any handler holds of it with this one, whose steps go between the claim *)
(* of a job and its end.                                                   *)
(***************************************************************************)
EXTENDS WebhookDelivery, FiniteSetTheorems, TLAPS

\* The tables of the queue, without the count of what went wrong, which the
\* handler of the jobs may add to.
Shape ==
    /\ job \in [JobIds -> Job]
    /\ runner \in [Workers -> Runner]
    /\ hand \in [Workers -> [JobIds -> Claimed]]
    /\ past \in [JobIds -> Past]

\* The lease is part of the invariant: it elapses only when nobody holds the
\* job, or is counted as outlived.
HeldUnderLease(j) ==
    past[j].stalls = 0 =>
      \A w \in Workers : Holds(w, j) => /\ job[j].status = "running"
                                        /\ job[j].lockedBy = w
                                        /\ job[j].leased

QueueInv == Shape /\ \A j \in JobIds : HeldUnderLease(j)

-----------------------------------------------------------------------------
\* Rows the queue writes are rows of the table.
LEMMA WrittenRows ==
    ASSUME Shape, NEW j \in JobIds
    PROVE  /\ \A n \in Nat : Waiting(j, n) \in Job
           /\ \A status \in {"failed", "deleted"} : Ended(j, status) \in Job
           /\ job[j].attempts \in Nat /\ NoClaim \in Claimed
BY DEF Shape, Waiting, Ended, Job, NoClaim, Claimed

\* Counting one more is history still.
LEMMA CountedPast ==
    ASSUME Shape, NEW j \in JobIds
    PROVE  /\ [past[j] EXCEPT !.reclaims = @ + 1] \in Past
           /\ [past[j] EXCEPT !.claims = @ + 1] \in Past
           /\ [past[j] EXCEPT !.stalls = @ + 1] \in Past
BY DEF Shape, Past

\* Producers and administrators touch only jobs that nobody works on.
LEMMA EnqueueStep ==
    ASSUME QueueInv, NEW k \in Keys, Enqueue(k)
    PROVE  QueueInv'
<1>1. CASE UNCHANGED queueVars
  BY <1>1 DEF QueueInv, Shape, HeldUnderLease, Holds, queueVars
<1>2. ASSUME NEW j \in JobIds, job[j].status = "none",
             job' = [job EXCEPT ![j] = [status |-> "pending", attempts |-> 0,
                        leased |-> FALSE, lockedBy |-> NoWorker, key |-> k]],
             UNCHANGED <<runner, hand, past, upsets>>
      PROVE  QueueInv'
  <2>1. Shape'
    BY <1>2 DEF QueueInv, Shape, Job
  <2>2. ASSUME NEW i \in JobIds PROVE HeldUnderLease(i)'
    BY <1>2 DEF QueueInv, Shape, HeldUnderLease, Holds
  <2> QED BY <2>1, <2>2 DEF QueueInv
<1> QED BY <1>1, <1>2 DEF Enqueue

LEMMA RetryStep ==
    ASSUME QueueInv, NEW j \in JobIds, Retry(j)
    PROVE  QueueInv'
<1>1. Shape'
  BY WrittenRows DEF QueueInv, Shape, Retry, Past
<1>2. ASSUME NEW i \in JobIds PROVE HeldUnderLease(i)'
  BY DEF QueueInv, Shape, Retry, HeldUnderLease, Holds, Past
<1> QED BY <1>1, <1>2 DEF QueueInv

LEMMA DestroyStep ==
    ASSUME QueueInv, NEW j \in JobIds, Destroy(j)
    PROVE  QueueInv'
<1>1. Shape'
  BY WrittenRows DEF QueueInv, Shape, Destroy
<1>2. ASSUME NEW i \in JobIds PROVE HeldUnderLease(i)'
  BY DEF QueueInv, Shape, Destroy, HeldUnderLease, Holds
<1> QED BY <1>1, <1>2 DEF QueueInv

\* A pass frees jobs without a lease, which nobody works on.
LEMMA BeginPassStep ==
    ASSUME QueueInv, NEW w \in Workers, BeginPass(w)
    PROVE  QueueInv'
<1>1. Shape'
  <2>1. job' \in [JobIds -> Job]
    BY WrittenRows DEF QueueInv, Shape, BeginPass
  <2>2. runner' \in [Workers -> Runner]
    BY DEF QueueInv, Shape, BeginPass, Runner
  <2>3. past' \in [JobIds -> Past]
    BY CountedPast DEF QueueInv, Shape, BeginPass
  <2> QED BY <2>1, <2>2, <2>3 DEF QueueInv, Shape, BeginPass
<1>2. ASSUME NEW i \in JobIds PROVE HeldUnderLease(i)'
  BY DEF QueueInv, Shape, BeginPass, HeldUnderLease, Holds, Past, Elapsed
<1> QED BY <1>1, <1>2 DEF QueueInv

\* A job that waits is worked on by nobody, and its claimer is the one it names.
LEMMA ClaimStep ==
    ASSUME QueueInv, NEW w \in Workers, NEW taken \in SUBSET JobIds, Claim(w, taken)
    PROVE  QueueInv'
<1>1. Shape'
  <2>1. job' \in [JobIds -> Job]
    BY DEF QueueInv, Shape, Claim, Job
  <2>2. runner' \in [Workers -> Runner]
    BY DEF QueueInv, Shape, Claim, Runner
  <2>3. hand' \in [Workers -> [JobIds -> Claimed]]
    BY DEF QueueInv, Shape, Claim, Job, Claimed
  <2>4. past' \in [JobIds -> Past]
    BY CountedPast DEF QueueInv, Shape, Claim
  <2> QED BY <2>1, <2>2, <2>3, <2>4 DEF Shape
<1>2. ASSUME NEW i \in JobIds PROVE HeldUnderLease(i)'
  BY DEF QueueInv, Shape, Claim, HeldUnderLease, Holds, Past
<1> QED BY <1>1, <1>2 DEF QueueInv

LEMMA PassStep ==
    ASSUME QueueInv, NEW w \in Workers, EndPass(w) \/ Stop(w) \/ Halt(w) \/ Start(w)
    PROVE  QueueInv'
<1>1. Shape'
  <2>1. runner' \in [Workers -> Runner]
    <3>1. CASE EndPass(w) BY <3>1 DEF QueueInv, Shape, EndPass, Runner
    <3>2. CASE Stop(w) BY <3>2 DEF QueueInv, Shape, Stop, Runner
    <3>3. CASE Halt(w) BY <3>3 DEF QueueInv, Shape, Halt, Runner
    <3>4. CASE Start(w) BY <3>4 DEF QueueInv, Shape, Start, Runner
    <3> QED BY <3>1, <3>2, <3>3, <3>4
  <2>2. hand' \in [Workers -> [JobIds -> Claimed]]
    BY WrittenRows DEF QueueInv, Shape, EndPass, Stop, Halt, Start
  <2> QED BY <2>1, <2>2 DEF QueueInv, Shape, EndPass, Stop, Halt, Start
<1>2. ASSUME NEW i \in JobIds PROVE HeldUnderLease(i)'
  BY DEF QueueInv, Shape, EndPass, Stop, Halt, Start, HeldUnderLease, Holds, NoClaim
<1> QED BY <1>1, <1>2 DEF QueueInv

-----------------------------------------------------------------------------
LEMMA OtherStage ==
    ASSUME NEW copy \in Claimed, NEW stage \in {"returned", "threw"}
    PROVE  [copy EXCEPT !.stage = stage] \in Claimed
BY DEF Claimed

LEMMA Unleased ==
    ASSUME NEW row \in Job
    PROVE  /\ [row EXCEPT !.leased = FALSE] \in Job
           /\ [row EXCEPT !.leased = FALSE].status = row.status
           /\ [row EXCEPT !.leased = FALSE].lockedBy = row.lockedBy
BY DEF Job

\* A handler that goes on holds what it held.
LEMMA HandlerStep ==
    ASSUME QueueInv, NEW w \in Workers, NEW j \in JobIds,
           Holds(w, j), NEW stage \in {"returned", "threw"},
           hand' = [hand EXCEPT ![w][j].stage = stage], UNCHANGED <<job, runner, past>>
    PROVE  QueueInv'
<1>1. Shape'
  <2>1. [hand[w][j] EXCEPT !.stage = stage] \in Claimed
    <3>1. hand[w][j] \in Claimed BY DEF QueueInv, Shape
    <3> QED BY <3>1, OtherStage
  <2>2. hand' = [hand EXCEPT ![w] = [hand[w] EXCEPT ![j] = [hand[w][j] EXCEPT !.stage = stage]]]
    OBVIOUS
  <2> QED BY <2>1, <2>2 DEF QueueInv, Shape
<1>2. ASSUME NEW i \in JobIds PROVE HeldUnderLease(i)'
  BY DEF QueueInv, Shape, HeldUnderLease, Holds, Claimed
<1> QED BY <1>1, <1>2 DEF QueueInv

\* A job that is completed or failed was worked on by no other, if no lease of
\* it was outlived, and nobody works on it then.
LEMMA SettledStep ==
    ASSUME QueueInv, NEW w \in Workers, NEW j \in JobIds, Holds(w, j),
           NEW row \in Job, job' = [job EXCEPT ![j] = row],
           hand' = [hand EXCEPT ![w][j] = NoClaim], UNCHANGED <<runner, past>>
    PROVE  QueueInv'
<1>1. Shape'
  BY WrittenRows DEF QueueInv, Shape
<1>2. ASSUME NEW i \in JobIds PROVE HeldUnderLease(i)'
  BY DEF QueueInv, Shape, HeldUnderLease, Holds, NoClaim
<1> QED BY <1>1, <1>2 DEF QueueInv

LEMMA WorkStep ==
    ASSUME QueueInv, NEW w \in Workers, NEW j \in JobIds, Work(w, j)
    PROVE  QueueInv'
<1>1. Holds(w, j) BY DEF Work, Return, Throw, Complete, CompleteErrs, Fail, FailErrs, Holds
<1>2. CASE Return(w, j) \/ Throw(w, j) \/ CompleteErrs(w, j)
  BY <1>1, <1>2, HandlerStep DEF Return, Throw, CompleteErrs
<1>3. CASE Complete(w, j)
  BY <1>1, <1>3, SettledStep, WrittenRows DEF Complete, QueueInv
<1>4. CASE Fail(w, j)
  <2>1. PICK row \in Job : job' = [job EXCEPT ![j] = row]
    BY <1>4, WrittenRows DEF Fail, QueueInv, Shape
  <2> QED BY <1>1, <1>4, <2>1, SettledStep DEF Fail
<1>5. CASE FailErrs(w, j)
  <2>1. job[j] \in Job /\ job' = [job EXCEPT ![j] = job[j]]
    BY <1>5 DEF FailErrs, QueueInv, Shape
  <2> QED BY <1>1, <1>5, <2>1, SettledStep DEF FailErrs
<1> QED BY <1>2, <1>3, <1>4, <1>5 DEF Work

\* What a claim holds is touched by its own steps alone.
LEMMA OneHand ==
    ASSUME Shape, NEW w \in Workers, NEW j \in JobIds,
           Work(w, j) \/ hand' = [hand EXCEPT ![w][j].stage = "threw"]
    PROVE  \A v \in Workers, i \in JobIds :
             (v # w \/ i # j) => hand'[v][i] = hand[v][i]
<1>1. CASE hand' = [hand EXCEPT ![w][j].stage = "threw"]
  BY <1>1 DEF Shape
<1>2. CASE hand' = [hand EXCEPT ![w][j].stage = "returned"]
  BY <1>2 DEF Shape
<1>3. CASE hand' = [hand EXCEPT ![w][j] = NoClaim]
  BY <1>3 DEF Shape
<1> QED BY <1>1, <1>2, <1>3 DEF Work, Return, Throw, Complete, CompleteErrs, Fail, FailErrs

\* A lease elapses under its holder only as a stall.
LEMMA LeaseStep ==
    ASSUME QueueInv, NEW j \in JobIds, LeaseElapses(j)
    PROVE  QueueInv'
<1>1. Shape'
  <2>1. job' \in [JobIds -> Job]
    <3>1. [job[j] EXCEPT !.leased = FALSE] \in Job BY Unleased DEF QueueInv, Shape
    <3>2. job' = [job EXCEPT ![j] = [job[j] EXCEPT !.leased = FALSE]] BY DEF LeaseElapses
    <3> QED BY <3>1, <3>2 DEF QueueInv, Shape
  <2>2. past' \in [JobIds -> Past]
    <3>1. [past[j] EXCEPT !.stalls = @ + 1] \in Past BY CountedPast DEF QueueInv
    <3>2. CASE UNCHANGED past BY <3>2 DEF QueueInv, Shape
    <3>3. CASE past' = [past EXCEPT ![j].stalls = @ + 1]
      BY <3>1, <3>3 DEF QueueInv, Shape
    <3> QED BY <3>2, <3>3 DEF LeaseElapses
  <2> QED BY <2>1, <2>2 DEF QueueInv, Shape, LeaseElapses
<1>2. ASSUME NEW i \in JobIds PROVE HeldUnderLease(i)'
  <2>1. CASE i = j /\ Forsaken(j)
    <3>1. UNCHANGED <<past, upsets>>
      BY <2>1 DEF LeaseElapses
    <3>2. past[j].stalls = 0 => \A w \in Workers : ~Holds(w, j)
      BY <2>1, JobQueueAssumption DEF QueueInv, HeldUnderLease, Forsaken
    <3>3. hand' = hand BY DEF LeaseElapses
    <3> QED BY <2>1, <3>1, <3>2, <3>3 DEF HeldUnderLease, Holds
  <2>2. CASE i = j /\ ~Forsaken(j)
    <3>1. past[j].stalls \in Nat BY DEF QueueInv, Shape, Past
    <3>2. past'[j].stalls = past[j].stalls + 1
      BY <2>2 DEF QueueInv, Shape, LeaseElapses, Past
    <3>3. past'[j].stalls # 0 BY <3>1, <3>2
    <3> QED BY <2>2, <3>3 DEF HeldUnderLease
  <2>3. CASE i # j
    BY <2>3 DEF QueueInv, Shape, LeaseElapses, HeldUnderLease, Holds, Past
  <2> QED BY <2>1, <2>2, <2>3
<1> QED BY <1>1, <1>2 DEF QueueInv

-----------------------------------------------------------------------------
LEMMA QueueInvInit ==
    ASSUME JobQueueAssumption, QueueInit
    PROVE  QueueInv
BY DEF QueueInit, QueueInv, Shape, HeldUnderLease, Holds, NoJob, NoClaim, Job, Runner,
       Claimed, Past

LEMMA QueueInvNext ==
    ASSUME QueueInv, [QueueNext]_queueVars
    PROVE  QueueInv'
<1>1. CASE UNCHANGED queueVars
  BY <1>1 DEF QueueInv, Shape, HeldUnderLease, Holds, queueVars
<1>2. CASE QueueNext
  BY <1>2, EnqueueStep, RetryStep, DestroyStep, LeaseStep, BeginPassStep, ClaimStep, PassStep,
     WorkStep DEF QueueNext, Process
<1> QED BY <1>1, <1>2

\* The tables of the queue stay well typed: the id of a worker, the stage of a
\* job and its attempts, whoever completes and fails it.
THEOREM AlwaysShaped == QueueSpec => []Shape
<1>1. QueueInit => QueueInv BY QueueInvInit, JobQueueAssumption
<1>2. QueueInv /\ [QueueNext]_queueVars => QueueInv' BY QueueInvNext
<1>3. QueueInv => Shape BY DEF QueueInv
<1> QED BY <1>1, <1>2, <1>3, PTL DEF QueueSpec

\* As long as no handler of a job outlives its lease, nobody but the holder of
\* the lease works on the job (JobRunner, JobQueue.complete and fail).
THEOREM QueueRunsAlone == QueueSpec => []RunAlone
<1>1. QueueInit => QueueInv BY QueueInvInit, JobQueueAssumption
<1>2. QueueInv /\ [QueueNext]_queueVars => QueueInv' BY QueueInvNext
<1>3. QueueInv => RunAlone BY DEF QueueInv, HeldUnderLease, RunAlone
<1> QED BY <1>1, <1>2, <1>3, PTL DEF QueueSpec

-----------------------------------------------------------------------------
(***************************************************************************)
(* The budget of a job.  A claim is made of a job that waits; it came to   *)
(* wait when it was written, retried, reclaimed, or put back by the holder *)
(* of an earlier claim whose number is below MaxAttempts.  What can still  *)
(* put it back, the claims being worked on (Tries) and those not made yet  *)
(* (Untried), is counted with the claims: no step adds to the sum, but     *)
(* for a retry and a reclaim, which add to the budget.                     *)
(***************************************************************************)
Tries(j) == {w \in Workers : Holds(w, j) /\ hand[w][j].attempts < MaxAttempts}

Untried(j) == IF job[j].attempts < MaxAttempts THEN MaxAttempts - 1 - job[j].attempts ELSE 0

Due(j) == IF job[j].status \in {"none", "pending"} THEN 1 ELSE 0

Budget(j) == MaxAttempts * (1 + past[j].retries) + past[j].reclaims

Accounted(j) ==
    /\ job[j].status = "none" => job[j].attempts = 0
    /\ IsFiniteSet(Tries(j))
    /\ past[j].claims + Due(j) + Cardinality(Tries(j)) + Untried(j) <= Budget(j)

LEMMA Product ==
    ASSUME NEW m \in Nat, NEW n \in Nat
    PROVE  m * (1 + n) \in Nat /\ m * (1 + (n + 1)) = m * (1 + n) + m
OBVIOUS

LEMMA BudgetNat ==
    ASSUME JobQueueAssumption, Shape, NEW j \in JobIds
    PROVE  /\ Budget(j) \in Nat /\ Untried(j) \in Nat /\ Due(j) \in Nat
           /\ job[j].attempts \in Nat
           /\ past[j].claims \in Nat /\ past[j].reclaims \in Nat /\ past[j].retries \in Nat
<1>1. /\ job[j].attempts \in Nat
      /\ past[j].claims \in Nat /\ past[j].reclaims \in Nat /\ past[j].retries \in Nat
  BY DEF Shape, Job, Past
<1>2. Budget(j) \in Nat BY <1>1, Product, JobQueueAssumption DEF Budget
<1>3. Untried(j) \in Nat BY <1>1, JobQueueAssumption DEF Untried
<1>4. Due(j) \in Nat BY DEF Due
<1> QED BY <1>1, <1>2, <1>3, <1>4

LEMMA Fewer ==
    ASSUME NEW S, IsFiniteSet(S), NEW T \in SUBSET S
    PROVE  /\ IsFiniteSet(T) /\ Cardinality(T) <= Cardinality(S)
           /\ Cardinality(T) \in Nat /\ Cardinality(S) \in Nat
BY FS_Subset, FS_CardinalityType

LEMMA OneMore ==
    ASSUME NEW S, NEW x, IsFiniteSet(S)
    PROVE  /\ IsFiniteSet(S \union {x})
           /\ Cardinality(S \union {x}) <= Cardinality(S) + 1
<1>1. IsFiniteSet(S \union {x}) BY FS_AddElement
<1>2. Cardinality(S \union {x}) = IF x \in S THEN Cardinality(S) ELSE Cardinality(S) + 1
  BY FS_AddElement
<1>3. Cardinality(S) \in Nat BY FS_CardinalityType
<1> QED BY <1>1, <1>2, <1>3

\* Steps that put no job back and claim none.
LEMMA AccountLess ==
    ASSUME JobQueueAssumption, Shape, Shape', NEW i \in JobIds, Accounted(i),
           Tries(i)' \subseteq Tries(i),
           job'[i].attempts = job[i].attempts,
           job'[i].status \in {"none", "pending"} => job[i].status \in {"none", "pending"},
           job'[i].status = "none" => job[i].status = "none",
           past'[i].claims = past[i].claims, past'[i].reclaims = past[i].reclaims,
           past'[i].retries = past[i].retries
    PROVE  Accounted(i)'
<1>1. IsFiniteSet(Tries(i)') /\ Cardinality(Tries(i)') <= Cardinality(Tries(i))
      /\ Cardinality(Tries(i)') \in Nat /\ Cardinality(Tries(i)) \in Nat
  BY Fewer DEF Accounted
<1>2. Untried(i)' = Untried(i) /\ Budget(i)' = Budget(i) BY DEF Untried, Budget
<1>3. Due(i)' <= Due(i) /\ Due(i)' \in Nat /\ Due(i) \in Nat BY DEF Due
<1>4. past[i].claims \in Nat /\ Untried(i) \in Nat /\ Budget(i) \in Nat BY BudgetNat
<1> QED BY <1>1, <1>2, <1>3, <1>4 DEF Accounted

AllAccounted == \A j \in JobIds : Accounted(j)

LEMMA SameTries ==
    ASSUME NEW i \in JobIds, \A w \in Workers : hand'[w][i] = hand[w][i]
    PROVE  Tries(i)' = Tries(i)
BY DEF Tries, Holds

\* Whoever adds a row, drops a failed one, or looks after a process.
LEMMA EnqueueAccount ==
    ASSUME QueueInv, AllAccounted, NEW k \in Keys, Enqueue(k)
    PROVE  AllAccounted'
<1>1. Shape /\ Shape' BY EnqueueStep DEF QueueInv
<1> SUFFICES ASSUME NEW i \in JobIds PROVE Accounted(i)' BY DEF AllAccounted
<1>2. UNCHANGED <<runner, hand, past>> BY DEF Enqueue, queueVars
<1>3. Tries(i)' \subseteq Tries(i) BY <1>2, SameTries
<1>4. Accounted(i) BY DEF AllAccounted
<1>5. /\ job'[i].attempts = job[i].attempts
      /\ job'[i].status \in {"none", "pending"} => job[i].status \in {"none", "pending"}
      /\ job'[i].status = "none" => job[i].status = "none"
  BY <1>1, <1>4 DEF Shape, Enqueue, Accounted, queueVars
<1> QED BY <1>1, <1>2, <1>3, <1>4, <1>5, AccountLess, JobQueueAssumption

LEMMA DestroyAccount ==
    ASSUME QueueInv, AllAccounted, NEW j \in JobIds, Destroy(j)
    PROVE  AllAccounted'
<1>1. Shape /\ Shape' BY DestroyStep DEF QueueInv
<1> SUFFICES ASSUME NEW i \in JobIds PROVE Accounted(i)' BY DEF AllAccounted
<1>2. UNCHANGED <<runner, hand, past>> BY DEF Destroy
<1>3. Tries(i)' \subseteq Tries(i) BY <1>2, SameTries
<1>4. Accounted(i) BY DEF AllAccounted
<1>5. /\ job'[i].attempts = job[i].attempts
      /\ job'[i].status \in {"none", "pending"} => job[i].status \in {"none", "pending"}
      /\ job'[i].status = "none" => job[i].status = "none"
  BY <1>1 DEF Shape, Destroy, Ended
<1> QED BY <1>1, <1>2, <1>3, <1>4, <1>5, AccountLess, JobQueueAssumption

LEMMA PassAccount ==
    ASSUME QueueInv, AllAccounted,
           NEW w \in Workers, EndPass(w) \/ Stop(w) \/ Halt(w) \/ Start(w)
    PROVE  AllAccounted'
<1>1. Shape /\ Shape' BY PassStep DEF QueueInv
<1> SUFFICES ASSUME NEW i \in JobIds PROVE Accounted(i)' BY DEF AllAccounted
<1>2. UNCHANGED <<job, past>> BY DEF EndPass, Stop, Halt, Start
<1>3. Tries(i)' \subseteq Tries(i)
  <2>1. CASE Halt(w) BY <1>1, <2>1 DEF Halt, Shape, Tries, Holds, NoClaim
  <2>2. CASE UNCHANGED hand BY <2>2, SameTries
  <2> QED BY <2>1, <2>2 DEF EndPass, Stop, Start
<1>4. Accounted(i) BY DEF AllAccounted
<1> QED BY <1>1, <1>2, <1>3, <1>4, AccountLess, JobQueueAssumption

LEMMA LeaseAccount ==
    ASSUME QueueInv, AllAccounted, NEW j \in JobIds, LeaseElapses(j)
    PROVE  AllAccounted'
<1>1. Shape /\ Shape' BY LeaseStep DEF QueueInv
<1> SUFFICES ASSUME NEW i \in JobIds PROVE Accounted(i)' BY DEF AllAccounted
<1>2. UNCHANGED hand BY DEF LeaseElapses
<1>3. Tries(i)' \subseteq Tries(i) BY <1>2, SameTries
<1>4. Accounted(i) BY DEF AllAccounted
<1>5. job'[i].attempts = job[i].attempts /\ job'[i].status = job[i].status
  <2>1. CASE i = j BY <1>1, <2>1 DEF Shape, LeaseElapses, Job
  <2>2. CASE i # j BY <1>1, <2>2 DEF Shape, LeaseElapses
  <2> QED BY <2>1, <2>2
<1>6. /\ past'[i].claims = past[i].claims /\ past'[i].reclaims = past[i].reclaims
      /\ past'[i].retries = past[i].retries
  <2>1. CASE UNCHANGED past BY <2>1
  <2>2. CASE past' = [past EXCEPT ![j].stalls = @ + 1]
    BY <1>1, <2>2 DEF Shape, Past
  <2> QED BY <2>1, <2>2 DEF LeaseElapses
<1> QED BY <1>1, <1>3, <1>4, <1>5, <1>6, AccountLess, JobQueueAssumption

\* A retry begins with no attempt, and is counted.
LEMMA RetryAccount ==
    ASSUME QueueInv, AllAccounted, NEW j \in JobIds, Retry(j)
    PROVE  AllAccounted'
<1>1. Shape /\ Shape' BY RetryStep DEF QueueInv
<1> SUFFICES ASSUME NEW i \in JobIds PROVE Accounted(i)' BY DEF AllAccounted
<1>2. UNCHANGED hand BY DEF Retry
<1>3. Tries(i)' = Tries(i) BY <1>2, SameTries
<1>4. Accounted(i) BY DEF AllAccounted
<1>5. CASE i # j
  <2>1. job'[i] = job[i] /\ past'[i] = past[i] BY <1>1, <1>5 DEF Shape, Retry
  <2> QED BY <1>1, <1>3, <1>4, <2>1, AccountLess, JobQueueAssumption
<1>6. CASE i = j
  <2>1. job'[j].status = "pending" /\ job'[j].attempts = 0 /\ job[j].status = "failed"
    BY <1>1 DEF Shape, Retry, Waiting
  <2>2. /\ past'[j].claims = past[j].claims /\ past'[j].reclaims = past[j].reclaims
        /\ past'[j].retries = past[j].retries + 1
    BY <1>1 DEF Shape, Retry, Past
  <2>3. Budget(j)' = Budget(j) + MaxAttempts
    BY <1>1, <2>2, BudgetNat, Product, JobQueueAssumption DEF Budget, JobQueueAssumption
  <2>4. Untried(j)' = MaxAttempts - 1 /\ Due(j)' = 1 /\ Due(j) = 0
    BY <2>1, JobQueueAssumption DEF Untried, Due, JobQueueAssumption
  <2>5. Cardinality(Tries(j)) \in Nat BY <1>4, <1>6, FS_CardinalityType DEF Accounted
  <2>6. past[j].claims \in Nat /\ Untried(j) \in Nat /\ Budget(j) \in Nat /\ MaxAttempts \in Nat
    BY <1>1, BudgetNat, JobQueueAssumption
  <2> QED BY <1>3, <1>4, <1>6, <2>1, <2>2, <2>3, <2>4, <2>5, <2>6 DEF Accounted
<1> QED BY <1>5, <1>6

\* A reclaim is counted.
LEMMA BeginPassAccount ==
    ASSUME QueueInv, AllAccounted, NEW w \in Workers, BeginPass(w)
    PROVE  AllAccounted'
<1>1. Shape /\ Shape' BY BeginPassStep DEF QueueInv
<1> SUFFICES ASSUME NEW i \in JobIds PROVE Accounted(i)' BY DEF AllAccounted
<1>2. UNCHANGED hand BY DEF BeginPass
<1>3. Tries(i)' = Tries(i) BY <1>2, SameTries
<1>4. Accounted(i) BY DEF AllAccounted
<1>5. CASE ~Elapsed(i)
  <2>1. job'[i] = job[i] /\ past'[i] = past[i] BY <1>1, <1>5 DEF Shape, BeginPass
  <2> QED BY <1>1, <1>3, <1>4, <2>1, AccountLess, JobQueueAssumption
<1>6. CASE Elapsed(i)
  <2>1. /\ job'[i].status = "pending" /\ job'[i].attempts = job[i].attempts
        /\ job[i].status = "running"
    BY <1>1, <1>6 DEF Shape, BeginPass, Waiting, Elapsed
  <2>2. past'[i] = [past[i] EXCEPT !.reclaims = @ + 1]
    BY <1>6 DEF BeginPass
  <2>3. /\ past'[i].claims = past[i].claims /\ past'[i].reclaims = past[i].reclaims + 1
        /\ past'[i].retries = past[i].retries
    BY <1>1, <2>2 DEF Shape, Past
  <2>4. Budget(i)' = Budget(i) + 1
    BY <1>1, <2>3, BudgetNat, Product, JobQueueAssumption DEF Budget, JobQueueAssumption
  <2>5. Untried(i)' = Untried(i) /\ Due(i)' = 1 /\ Due(i) = 0
    BY <2>1 DEF Untried, Due
  <2>6. Cardinality(Tries(i)) \in Nat BY <1>4, FS_CardinalityType DEF Accounted
  <2>7. past[i].claims \in Nat /\ Untried(i) \in Nat /\ Budget(i) \in Nat
    BY <1>1, BudgetNat, JobQueueAssumption
  <2> QED BY <1>3, <1>4, <2>1, <2>3, <2>4, <2>5, <2>6, <2>7 DEF Accounted
<1> QED BY <1>5, <1>6

\* A claim was due, and is one of those that had not been made yet.
LEMMA ClaimAccount ==
    ASSUME QueueInv, AllAccounted,
           NEW w \in Workers, NEW taken \in SUBSET JobIds, Claim(w, taken)
    PROVE  AllAccounted'
<1>1. Shape /\ Shape' BY ClaimStep DEF QueueInv
<1> SUFFICES ASSUME NEW i \in JobIds PROVE Accounted(i)' BY DEF AllAccounted
<1>2. Accounted(i) BY DEF AllAccounted
<1>3. hand' = [hand EXCEPT ![w] = [k \in JobIds |->
                 IF k \in taken THEN [stage |-> "handling", attempts |-> job[k].attempts + 1]
                 ELSE hand[w][k]]]
  BY DEF Claim
<1>4. CASE i \notin taken
  <2>1. job'[i] = job[i] /\ past'[i] = past[i] BY <1>4 DEF Claim
  <2>2. \A v \in Workers : hand'[v][i] = hand[v][i] BY <1>1, <1>3, <1>4 DEF Shape
  <2> QED BY <1>1, <1>2, <2>1, <2>2, SameTries, AccountLess, JobQueueAssumption
<1>5. CASE i \in taken
  <2>1. /\ job[i].status = "pending" /\ job'[i].status = "running"
        /\ job'[i].attempts = job[i].attempts + 1
    BY <1>5 DEF Claim
  <2>2. past'[i] = [past[i] EXCEPT !.claims = @ + 1]
    BY <1>5 DEF Claim
  <2>3. /\ past'[i].claims = past[i].claims + 1 /\ past'[i].reclaims = past[i].reclaims
        /\ past'[i].retries = past[i].retries
    BY <1>1, <2>2 DEF Shape, Past
  <2>4. Budget(i)' = Budget(i) BY <2>3 DEF Budget
  <2>5. Due(i)' = 0 /\ Due(i) = 1 BY <2>1 DEF Due
  <2>6. /\ hand'[w][i].attempts = job[i].attempts + 1
        /\ \A v \in Workers \ {w} : hand'[v][i] = hand[v][i]
    BY <1>1, <1>3, <1>5 DEF Shape
  <2>7. IsFiniteSet(Tries(i)) /\ Cardinality(Tries(i)) \in Nat
    BY <1>2, FS_CardinalityType DEF Accounted
  <2>8. /\ past[i].claims \in Nat /\ Untried(i) \in Nat /\ Budget(i) \in Nat
        /\ job[i].attempts \in Nat /\ MaxAttempts \in Nat
    BY <1>1, BudgetNat, JobQueueAssumption
  <2>9. CASE job[i].attempts + 1 < MaxAttempts
    <3>1. Tries(i)' \subseteq Tries(i) \union {w} BY <2>6 DEF Tries, Holds
    <3>2. /\ IsFiniteSet(Tries(i) \union {w})
          /\ Cardinality(Tries(i) \union {w}) <= Cardinality(Tries(i)) + 1
      BY <2>7, OneMore
    <3>3. /\ IsFiniteSet(Tries(i)') /\ Cardinality(Tries(i)') \in Nat
          /\ Cardinality(Tries(i)') <= Cardinality(Tries(i)) + 1
      BY <2>7, <3>1, <3>2, Fewer
    <3>4. Untried(i)' = Untried(i) - 1 BY <2>1, <2>8, <2>9 DEF Untried
    <3> QED BY <1>2, <2>1, <2>3, <2>4, <2>5, <2>7, <2>8, <3>3, <3>4 DEF Accounted
  <2>10. CASE ~(job[i].attempts + 1 < MaxAttempts)
    <3>1. Tries(i)' \subseteq Tries(i) BY <2>6, <2>10 DEF Tries, Holds
    <3>2. /\ IsFiniteSet(Tries(i)') /\ Cardinality(Tries(i)') \in Nat
          /\ Cardinality(Tries(i)') <= Cardinality(Tries(i))
      BY <2>7, <3>1, Fewer
    <3>3. Untried(i)' = 0 /\ Untried(i) = 0 BY <2>1, <2>8, <2>10 DEF Untried
    <3> QED BY <1>2, <2>1, <2>3, <2>4, <2>5, <2>7, <2>8, <3>2, <3>3 DEF Accounted
  <2> QED BY <2>9, <2>10
<1> QED BY <1>4, <1>5

LEMMA HandlerAccount ==
    ASSUME QueueInv, AllAccounted, NEW w \in Workers, NEW j \in JobIds,
           Holds(w, j), NEW stage \in {"returned", "threw"},
           hand' = [hand EXCEPT ![w][j].stage = stage], UNCHANGED <<job, runner, past>>
    PROVE  AllAccounted'
<1>1. Shape /\ Shape' BY HandlerStep DEF QueueInv
<1> SUFFICES ASSUME NEW i \in JobIds PROVE Accounted(i)' BY DEF AllAccounted
<1>2. Accounted(i) BY DEF AllAccounted
<1>3. Tries(i)' \subseteq Tries(i)
  <2>1. \A v \in Workers, k \in JobIds : hand'[v][k].attempts = hand[v][k].attempts
    BY <1>1 DEF Shape, Claimed
  <2>2. \A v \in Workers, k \in JobIds : (v # w \/ k # j) => hand'[v][k] = hand[v][k]
    BY <1>1 DEF Shape
  <2> QED BY <2>1, <2>2 DEF Tries, Holds
<1> QED BY <1>1, <1>2, <1>3, AccountLess, JobQueueAssumption

\* The holder of a claim is done with it.
LEMMA LetGo ==
    ASSUME Shape, NEW w \in Workers, NEW j \in JobIds, NEW i \in JobIds,
           hand' = [hand EXCEPT ![w][j] = NoClaim]
    PROVE  /\ Tries(i)' \subseteq Tries(i)
           /\ Tries(j)' = Tries(j) \ {w}
<1>1. hand'[w][j].stage = "none" BY DEF Shape, NoClaim
<1>2. \A v \in Workers, k \in JobIds : (v # w \/ k # j) => hand'[v][k] = hand[v][k]
  BY DEF Shape
<1> QED BY <1>1, <1>2 DEF Tries, Holds

\* A claim that puts its job back leaves the claims that may do so.
LEMMA FailAccount ==
    ASSUME QueueInv, AllAccounted, NEW w \in Workers, NEW j \in JobIds, Fail(w, j)
    PROVE  AllAccounted'
<1>1. Shape /\ Shape' BY WorkStep DEF QueueInv, Work
<1> SUFFICES ASSUME NEW i \in JobIds PROVE Accounted(i)' BY DEF AllAccounted
<1>2. Accounted(i) BY DEF AllAccounted
<1>3. Tries(i)' \subseteq Tries(i) /\ Tries(j)' = Tries(j) \ {w}
  BY <1>1, LetGo DEF Fail
<1>4. past' = past BY DEF Fail
<1>5. CASE \/ i # j \/ job' = [job EXCEPT ![j] = job[j]]
           \/ job' = [job EXCEPT ![j] = Ended(j, "failed")]
  <2>1. /\ job'[i].attempts = job[i].attempts
        /\ job'[i].status \in {"none", "pending"} => job[i].status \in {"none", "pending"}
        /\ job'[i].status = "none" => job[i].status = "none"
    BY <1>1, <1>5 DEF Shape, Fail, Ended
  <2> QED BY <1>1, <1>2, <1>3, <1>4, <2>1, AccountLess, JobQueueAssumption
<1>6. CASE i = j /\ ~GivesUp(w, j) /\ job' = [job EXCEPT ![j] = Waiting(j, job[j].attempts)]
  <2>1. job'[j].status = "pending" /\ job'[j].attempts = job[j].attempts
    BY <1>1, <1>6 DEF Shape, Waiting
  <2>2. w \in Tries(j)
    <3>1. hand[w][j].attempts \in Nat BY <1>1 DEF Shape, Claimed
    <3> QED BY <1>6, <3>1, JobQueueAssumption DEF Fail, GivesUp, Tries, Holds, JobQueueAssumption
  <2>3. /\ IsFiniteSet(Tries(j)') /\ Cardinality(Tries(j)') = Cardinality(Tries(j)) - 1
        /\ Cardinality(Tries(j)) \in Nat /\ Cardinality(Tries(j)') \in Nat
    BY <1>2, <1>3, <1>6, <2>2, FS_RemoveElement, FS_CardinalityType DEF Accounted
  <2>4. Budget(j)' = Budget(j) /\ Untried(j)' = Untried(j) /\ Due(j)' = 1 /\ Due(j) \in Nat
    BY <1>4, <2>1 DEF Budget, Untried, Due
  <2>5. past[j].claims \in Nat /\ Untried(j) \in Nat /\ Budget(j) \in Nat
    BY <1>1, BudgetNat, JobQueueAssumption
  <2> QED BY <1>2, <1>4, <1>6, <2>1, <2>3, <2>4, <2>5 DEF Accounted
<1> QED BY <1>5, <1>6 DEF Fail

LEMMA WorkAccount ==
    ASSUME QueueInv, AllAccounted, NEW w \in Workers, NEW j \in JobIds, Work(w, j)
    PROVE  AllAccounted'
<1>1. Shape /\ Shape' BY WorkStep DEF QueueInv
<1>2. CASE Return(w, j) \/ Throw(w, j) \/ CompleteErrs(w, j)
  BY <1>2, HandlerAccount DEF Return, Throw, CompleteErrs, Holds
<1>3. CASE Fail(w, j)
  BY <1>3, FailAccount
<1>4. CASE Complete(w, j) \/ FailErrs(w, j)
  <2> SUFFICES ASSUME NEW i \in JobIds PROVE Accounted(i)' BY DEF AllAccounted
  <2>1. Accounted(i) BY DEF AllAccounted
  <2>2. Tries(i)' \subseteq Tries(i) BY <1>1, <1>4, LetGo DEF Complete, FailErrs
  <2>3. /\ job'[i].attempts = job[i].attempts
        /\ job'[i].status \in {"none", "pending"} => job[i].status \in {"none", "pending"}
        /\ job'[i].status = "none" => job[i].status = "none"
    BY <1>1, <1>4 DEF Shape, Complete, FailErrs, Ended
  <2>4. past' = past BY <1>4 DEF Complete, FailErrs
  <2> QED BY <1>1, <2>1, <2>2, <2>3, <2>4, AccountLess, JobQueueAssumption
<1> QED BY <1>2, <1>3, <1>4 DEF Work

LEMMA AccountInit ==
    ASSUME QueueInit
    PROVE  AllAccounted
<1> SUFFICES ASSUME NEW j \in JobIds PROVE Accounted(j) BY DEF AllAccounted
<1>1. Tries(j) = {} BY DEF QueueInit, Tries, Holds, NoClaim
<1>2. IsFiniteSet(Tries(j)) /\ Cardinality(Tries(j)) = 0 BY <1>1, FS_EmptySet
<1>3. /\ job[j].status = "none" /\ job[j].attempts = 0
      /\ past[j].claims = 0 /\ past[j].reclaims = 0 /\ past[j].retries = 0
  BY DEF QueueInit, NoJob
<1>4. Due(j) = 1 /\ Untried(j) = MaxAttempts - 1 /\ Budget(j) = MaxAttempts
  BY <1>3, JobQueueAssumption DEF Due, Untried, Budget, JobQueueAssumption
<1> QED BY <1>2, <1>3, <1>4, JobQueueAssumption DEF Accounted, JobQueueAssumption

LEMMA BudgetKept ==
    ASSUME QueueInv, AllAccounted
    PROVE  ClaimsWithinBudget
<1> SUFFICES ASSUME NEW j \in JobIds PROVE past[j].claims <= Budget(j)
  BY DEF ClaimsWithinBudget, Budget
<1>1. Accounted(j) BY DEF AllAccounted
<1>2. Cardinality(Tries(j)) \in Nat BY <1>1, FS_CardinalityType DEF Accounted
<1>3. /\ past[j].claims \in Nat /\ Untried(j) \in Nat /\ Due(j) \in Nat
      /\ Budget(j) \in Nat
  BY BudgetNat, JobQueueAssumption DEF QueueInv
<1> QED BY <1>1, <1>2, <1>3 DEF Accounted

-----------------------------------------------------------------------------
(* The queue with its deliveries. *)

\* A handler is somewhere in a delivery only while its job is being handled.
Attached ==
    /\ run \in [Workers -> [JobIds -> Stage]]
    /\ \A w \in Workers, j \in JobIds : run[w][j] # "none" => hand[w][j].stage = "handling"

\* Who is still to be served is served with an event.
Announced ==
    /\ publishing \in [event : Events \union {NoEvent}, to : SUBSET Endpoints]
    /\ publishing.to # {} => publishing.event \in Events

DeliveryInv == QueueInv /\ Attached /\ Announced

-----------------------------------------------------------------------------
LEMMA SameQueue ==
    ASSUME QueueInv, UNCHANGED <<job, runner, hand, past>>
    PROVE  QueueInv'
BY DEF QueueInv, Shape, HeldUnderLease, Holds

\* The keys of the jobs are deliveries.
LEMMA EnqueueDeliveryStep ==
    ASSUME QueueInv, Announced, NEW e \in Endpoints, EnqueueDelivery(e)
    PROVE  QueueInv'
<1>1. <<publishing.event, e>> \in Keys
  BY WebhookAssumption DEF EnqueueDelivery, Announced
<1> QED BY <1>1, EnqueueStep DEF EnqueueDelivery

LEMMA PublisherStep ==
    ASSUME QueueInv, Announced, Publisher
    PROVE  QueueInv'
<1>1. CASE \E event \in Events : PublishSmsEvent(event) \/ RaiseAlert(event)
  BY <1>1, SameQueue DEF PublishSmsEvent, RaiseAlert, Publish, queueVars
<1>2. CASE \E e \in Endpoints : EnqueueDelivery(e)
  BY <1>2, EnqueueDeliveryStep
<1>3. CASE PublishErrs
  BY <1>3, SameQueue DEF PublishErrs
<1> QED BY <1>1, <1>2, <1>3 DEF Publisher

\* A step of the delivery leaves the queue alone, or ends the handling of a job
\* that was under way.
LEMMA HandleStep ==
    ASSUME QueueInv, Attached, NEW w \in Workers, NEW j \in JobIds, Handle(w, j)
    PROVE  QueueInv'
<1>1. run[w][j] # "none" /\ Holds(w, j)
  BY DEF Handle, DropDelivery, StartPost, PostAccepted, PostUnanswered, PostRefused,
         RecordSuccess, RecordSuccessErrs, RecordFailure, DisableEndpoint,
         RecordFailureErrs, At, Attached, Holds
<1>2. CASE DropDelivery(w, j) \/ RecordSuccess(w, j) \/ DisableEndpoint(w, j)
  <2>1. Return(w, j) \/ Throw(w, j)
    BY <1>2 DEF DropDelivery, RecordSuccess, DisableEndpoint
  <2> QED BY <2>1, WorkStep DEF Work
<1>3. CASE StartPost(w, j) \/ PostAccepted(w, j) \/ PostRefused(w, j)
  BY <1>3, SameQueue DEF StartPost, PostAccepted, PostRefused, queueVars
<1>4. CASE PostUnanswered(w, j) \/ RecordSuccessErrs(w, j)
  BY <1>4, SameQueue DEF PostUnanswered, RecordSuccessErrs
<1>5. CASE RecordFailure(w, j)
  <2>1. Throw(w, j) \/ UNCHANGED queueVars BY <1>5 DEF RecordFailure
  <2> QED BY <2>1, WorkStep, SameQueue DEF Work, queueVars
<1>6. CASE RecordFailureErrs(w, j)
  BY <1>1, <1>6, HandlerStep DEF RecordFailureErrs
<1> QED BY <1>2, <1>3, <1>4, <1>5, <1>6 DEF Handle

LEMMA QueueKept ==
    ASSUME DeliveryInv, [Next]_vars
    PROVE  QueueInv'
<1> USE DEF DeliveryInv
<1>1. CASE UNCHANGED vars
  BY <1>1, SameQueue DEF vars, queueVars
<1>2. CASE Tenant
  BY <1>2, SameQueue DEF Tenant, CountEndpoints, InsertEndpoint, ReadEndpoint, SaveEndpoint,
                         DeleteEndpoint, queueVars
<1>3. CASE Publisher
  BY <1>3, PublisherStep
<1>4. ASSUME NEW j \in JobIds, RetryJob(j) \/ DestroyJob(j) \/ Elapse(j)
      PROVE  QueueInv'
  BY <1>4, RetryStep, DestroyStep, LeaseStep DEF RetryJob, DestroyJob, Elapse
<1>5. ASSUME NEW w \in Workers, Manage(w) \/ HaltWorker(w)
      PROVE  QueueInv'
  BY <1>5, BeginPassStep, PassStep DEF Manage, HaltWorker
<1>6. ASSUME NEW w \in Workers, NEW taken \in SUBSET JobIds, ClaimDeliveries(w, taken)
      PROVE  QueueInv'
  BY <1>6, ClaimStep DEF ClaimDeliveries
<1>7. ASSUME NEW w \in Workers, NEW j \in JobIds, Handle(w, j)
      PROVE  QueueInv'
  BY <1>7, HandleStep
<1>8. ASSUME NEW w \in Workers, NEW j \in JobIds, Settle(w, j)
      PROVE  QueueInv'
  BY <1>8, WorkStep DEF Settle, Work
<1> QED BY <1>1, <1>2, <1>3, <1>4, <1>5, <1>6, <1>7, <1>8 DEF Next

-----------------------------------------------------------------------------
LEMMA SameHandling ==
    ASSUME Attached, UNCHANGED <<hand, run>>
    PROVE  Attached'
BY DEF Attached

\* A step of a delivery goes to another of its stages, or is its last.
LEMMA OneGoes ==
    ASSUME Attached, NEW w \in Workers, NEW j \in JobIds, NEW stage \in Stage,
           Goes(w, j, stage), stage # "none" => UNCHANGED hand,
           run[w][j] # "none",
           \A v \in Workers, i \in JobIds :
             (v # w \/ i # j) => hand'[v][i] = hand[v][i]
    PROVE  Attached'
<1>1. run' \in [Workers -> [JobIds -> Stage]]
  BY DEF Attached, Goes
<1>2. ASSUME NEW v \in Workers, NEW i \in JobIds, run'[v][i] # "none"
      PROVE  hand'[v][i].stage = "handling"
  <2>1. CASE v = w /\ i = j
    BY <1>2, <2>1 DEF Attached, Goes
  <2>2. CASE v # w \/ i # j
    BY <1>2, <2>2 DEF Attached, Goes
  <2> QED BY <2>1, <2>2
<1> QED BY <1>1, <1>2 DEF Attached

LEMMA HandleAttached ==
    ASSUME DeliveryInv, NEW w \in Workers, NEW j \in JobIds, Handle(w, j)
    PROVE  Attached'
<1> USE DEF DeliveryInv
<1>1. run[w][j] # "none"
  BY DEF Handle, DropDelivery, StartPost, PostAccepted, PostUnanswered, PostRefused,
         RecordSuccess, RecordSuccessErrs, RecordFailure, DisableEndpoint,
         RecordFailureErrs, At
<1>2. CASE StartPost(w, j) \/ PostAccepted(w, j) \/ PostRefused(w, j)
           \/ PostUnanswered(w, j) \/ RecordSuccessErrs(w, j)
  <2>1. UNCHANGED hand
    BY <1>2 DEF StartPost, PostAccepted, PostRefused, PostUnanswered, RecordSuccessErrs,
                queueVars
  <2>2. PICK stage \in Stage : Goes(w, j, stage)
    BY <1>2 DEF StartPost, PostAccepted, PostRefused, PostUnanswered, RecordSuccessErrs, Stage
  <2> QED BY <1>1, <2>1, <2>2, OneGoes
<1>3. CASE DropDelivery(w, j) \/ RecordSuccess(w, j) \/ DisableEndpoint(w, j)
           \/ RecordFailureErrs(w, j)
  <2>1. Goes(w, j, "none") /\ "none" \in Stage
    BY <1>3 DEF DropDelivery, RecordSuccess, DisableEndpoint, RecordFailureErrs, Stage
  <2>2. Work(w, j) \/ hand' = [hand EXCEPT ![w][j].stage = "threw"]
    BY <1>3 DEF DropDelivery, RecordSuccess, DisableEndpoint, RecordFailureErrs, Work
  <2> QED BY <1>1, <2>1, <2>2, OneHand, OneGoes DEF QueueInv
<1>4. CASE RecordFailure(w, j)
  <2>1. CASE Goes(w, j, "disabling") /\ UNCHANGED queueVars
    BY <1>1, <2>1, OneGoes DEF Stage, queueVars
  <2>2. CASE Goes(w, j, "none") /\ Throw(w, j)
    <3>1. "none" \in Stage BY DEF Stage
    <3> QED BY <1>1, <2>2, <3>1, OneHand, OneGoes DEF QueueInv, Work
  <2> QED BY <1>4, <2>1, <2>2 DEF RecordFailure
<1> QED BY <1>2, <1>3, <1>4 DEF Handle

LEMMA ClaimAttached ==
    ASSUME DeliveryInv, NEW w \in Workers, NEW taken \in SUBSET JobIds,
           ClaimDeliveries(w, taken)
    PROVE  Attached'
<1> USE DEF DeliveryInv
<1>1. run' \in [Workers -> [JobIds -> Stage]]
  BY DEF Attached, ClaimDeliveries, Stage
<1>2. ASSUME NEW v \in Workers, NEW i \in JobIds, run'[v][i] # "none"
      PROVE  hand'[v][i].stage = "handling"
  <2>1. hand' = [hand EXCEPT ![w] = [k \in JobIds |->
                   IF k \in taken THEN [stage |-> "handling", attempts |-> job[k].attempts + 1]
                   ELSE hand[w][k]]]
    BY DEF ClaimDeliveries, Claim
  <2>2. run' = [run EXCEPT ![w] = [k \in JobIds |->
                   IF k \in taken THEN "starting" ELSE run[w][k]]]
    BY DEF ClaimDeliveries
  <2>3. CASE v = w
    BY <1>2, <2>1, <2>2, <2>3 DEF Attached, QueueInv, Shape
  <2>4. CASE v # w
    BY <1>2, <2>1, <2>2, <2>4 DEF Attached, QueueInv, Shape
  <2> QED BY <2>3, <2>4
<1> QED BY <1>1, <1>2 DEF Attached

\* A claim is settled only when its handling is over.
LEMMA SettleAttached ==
    ASSUME DeliveryInv, NEW w \in Workers, NEW j \in JobIds, Settle(w, j)
    PROVE  Attached'
<1> USE DEF DeliveryInv
<1>1. run[w][j] = "none" /\ UNCHANGED run
  BY DEF Settle, Complete, CompleteErrs, Fail, FailErrs, Attached, deliveryVars
<1>2. Work(w, j) BY DEF Settle, Work
<1>3. \A v \in Workers, i \in JobIds : (v # w \/ i # j) => hand'[v][i] = hand[v][i]
  BY <1>2, OneHand DEF QueueInv
<1> QED BY <1>1, <1>3 DEF Attached

LEMMA HaltAttached ==
    ASSUME DeliveryInv, NEW w \in Workers, HaltWorker(w)
    PROVE  Attached'
BY DEF DeliveryInv, QueueInv, Shape, Attached, HaltWorker, Halt, Stage

LEMMA AttachedKept ==
    ASSUME DeliveryInv, [Next]_vars
    PROVE  Attached'
<1> USE DEF DeliveryInv
<1>1. CASE UNCHANGED vars
  BY <1>1, SameHandling DEF vars, queueVars, deliveryVars
<1>2. CASE Tenant
  BY <1>2, SameHandling DEF Tenant, CountEndpoints, InsertEndpoint, ReadEndpoint,
                            SaveEndpoint, DeleteEndpoint, queueVars
<1>3. CASE Publisher
  BY <1>3, SameHandling DEF Publisher, PublishSmsEvent, RaiseAlert, Publish, EnqueueDelivery,
                            Enqueue, PublishErrs, queueVars
<1>4. ASSUME NEW j \in JobIds, RetryJob(j) \/ DestroyJob(j) \/ Elapse(j)
      PROVE  Attached'
  BY <1>4, SameHandling DEF RetryJob, Retry, DestroyJob, Destroy, Elapse, LeaseElapses,
                            deliveryVars
<1>5. ASSUME NEW w \in Workers, Manage(w)
      PROVE  Attached'
  BY <1>5, SameHandling DEF Manage, BeginPass, EndPass, Stop, Start, deliveryVars
<1> QED BY <1>1, <1>2, <1>3, <1>4, <1>5, HandleAttached, ClaimAttached, SettleAttached,
           HaltAttached DEF Next

-----------------------------------------------------------------------------
LEMMA AnnouncedKept ==
    ASSUME DeliveryInv, [Next]_vars
    PROVE  Announced'
<1> USE DEF DeliveryInv, Announced
<1>1. ASSUME NEW event \in Events, Publish(event)
      PROVE  Announced'
  BY <1>1 DEF Publish, Subscribers
<1>2. ASSUME NEW e \in Endpoints, EnqueueDelivery(e)
      PROVE  Announced'
  BY <1>2 DEF EnqueueDelivery, Nothing
<1>3. CASE PublishErrs
  BY <1>3 DEF PublishErrs, Nothing
<1>4. CASE UNCHANGED publishing
  BY <1>4
<1>5. CASE Tenant
  BY <1>4, <1>5 DEF Tenant, CountEndpoints, InsertEndpoint, ReadEndpoint, SaveEndpoint,
                    DeleteEndpoint
<1>6. ASSUME NEW w \in Workers, NEW j \in JobIds, Handle(w, j)
      PROVE  Announced'
  BY <1>4, <1>6 DEF Handle, DropDelivery, StartPost, PostAccepted, PostUnanswered,
                    PostRefused, RecordSuccess, RecordSuccessErrs, RecordFailure,
                    DisableEndpoint, RecordFailureErrs, UnchangedRows
<1>7. ASSUME NEW j \in JobIds, RetryJob(j) \/ DestroyJob(j) \/ Elapse(j)
      PROVE  Announced'
  BY <1>4, <1>7 DEF RetryJob, DestroyJob, Elapse, deliveryVars, UnchangedRows
<1>8. ASSUME NEW w \in Workers, \/ Manage(w) \/ HaltWorker(w)
                                \/ \E taken \in SUBSET JobIds : ClaimDeliveries(w, taken)
                                \/ \E j \in JobIds : Settle(w, j)
      PROVE  Announced'
  BY <1>4, <1>8 DEF Manage, HaltWorker, ClaimDeliveries, Settle, deliveryVars, UnchangedRows
<1>9. CASE Publisher
  BY <1>1, <1>2, <1>3, <1>9 DEF Publisher, PublishSmsEvent, RaiseAlert
<1>10. CASE UNCHANGED vars
  BY <1>4, <1>10 DEF vars, deliveryVars
<1> QED BY <1>5, <1>6, <1>7, <1>8, <1>9, <1>10 DEF Next

LEMMA DeliveryInvInit ==
    ASSUME Init
    PROVE  DeliveryInv
<1>1. QueueInv BY QueueInvInit, JobQueueAssumption DEF Init
<1>2. Attached BY DEF Init, Attached, Stage
<1>3. Announced BY DEF Init, Announced, Nothing
<1> QED BY <1>1, <1>2, <1>3 DEF DeliveryInv

-----------------------------------------------------------------------------
\* The budget of a job, over the steps of the deliveries.
LEMMA SameAccount ==
    ASSUME QueueInv, AllAccounted, UNCHANGED <<job, runner, hand, past>>
    PROVE  AllAccounted'
<1>1. Shape /\ Shape' BY SameQueue DEF QueueInv
<1> SUFFICES ASSUME NEW i \in JobIds PROVE Accounted(i)' BY DEF AllAccounted
<1>2. Tries(i)' \subseteq Tries(i) BY SameTries
<1>3. Accounted(i) BY DEF AllAccounted
<1> QED BY <1>1, <1>2, <1>3, AccountLess, JobQueueAssumption

LEMMA HandleAccount ==
    ASSUME QueueInv, Attached, AllAccounted,
           NEW w \in Workers, NEW j \in JobIds, Handle(w, j)
    PROVE  AllAccounted'
<1>1. CASE DropDelivery(w, j) \/ RecordSuccess(w, j) \/ DisableEndpoint(w, j)
  <2>1. Work(w, j)
    BY <1>1 DEF DropDelivery, RecordSuccess, DisableEndpoint, Work
  <2> QED BY <2>1, WorkAccount
<1>2. CASE StartPost(w, j) \/ PostAccepted(w, j) \/ PostRefused(w, j)
           \/ PostUnanswered(w, j) \/ RecordSuccessErrs(w, j)
  BY <1>2, SameAccount DEF StartPost, PostAccepted, PostRefused, PostUnanswered,
                           RecordSuccessErrs, queueVars
<1>3. CASE RecordFailure(w, j)
  BY <1>3, WorkAccount, SameAccount DEF RecordFailure, Work, queueVars
<1>4. CASE RecordFailureErrs(w, j)
  <2>1. Holds(w, j) BY <1>4 DEF RecordFailureErrs, Attached, Holds
  <2> QED BY <1>4, <2>1, HandlerAccount DEF RecordFailureErrs
<1> QED BY <1>1, <1>2, <1>3, <1>4 DEF Handle

LEMMA AccountKept ==
    ASSUME DeliveryInv, AllAccounted, [Next]_vars
    PROVE  AllAccounted'
<1> USE DEF DeliveryInv
<1>1. CASE UNCHANGED vars
  BY <1>1, SameAccount DEF vars, queueVars
<1>2. CASE Tenant
  BY <1>2, SameAccount DEF Tenant, CountEndpoints, InsertEndpoint, ReadEndpoint, SaveEndpoint,
                           DeleteEndpoint, queueVars
<1>3. CASE Publisher
  <2>1. ASSUME NEW e \in Endpoints, EnqueueDelivery(e)
        PROVE  AllAccounted'
    <3>1. <<publishing.event, e>> \in Keys
      BY <2>1, WebhookAssumption DEF EnqueueDelivery, Announced
    <3> QED BY <2>1, <3>1, EnqueueAccount DEF EnqueueDelivery
  <2> QED BY <1>3, <2>1, SameAccount DEF Publisher, PublishSmsEvent, RaiseAlert, Publish,
                                         PublishErrs, queueVars
<1>4. ASSUME NEW j \in JobIds, RetryJob(j) \/ DestroyJob(j) \/ Elapse(j)
      PROVE  AllAccounted'
  BY <1>4, RetryAccount, DestroyAccount, LeaseAccount DEF RetryJob, DestroyJob, Elapse
<1>5. ASSUME NEW w \in Workers, Manage(w) \/ HaltWorker(w)
      PROVE  AllAccounted'
  BY <1>5, BeginPassAccount, PassAccount DEF Manage, HaltWorker
<1>6. ASSUME NEW w \in Workers, NEW taken \in SUBSET JobIds, ClaimDeliveries(w, taken)
      PROVE  AllAccounted'
  BY <1>6, ClaimAccount DEF ClaimDeliveries
<1>7. ASSUME NEW w \in Workers, NEW j \in JobIds, Handle(w, j)
      PROVE  AllAccounted'
  BY <1>7, HandleAccount
<1>8. ASSUME NEW w \in Workers, NEW j \in JobIds, Settle(w, j)
      PROVE  AllAccounted'
  BY <1>8, WorkAccount DEF Settle, Work
<1> QED BY <1>1, <1>2, <1>3, <1>4, <1>5, <1>6, <1>7, <1>8 DEF Next

-----------------------------------------------------------------------------
LEMMA DeliveryInvKept ==
    ASSUME DeliveryInv, [Next]_vars
    PROVE  DeliveryInv'
BY QueueKept, AttachedKept, AnnouncedKept DEF DeliveryInv

\* As long as no delivery of a job outlives its lease, nobody but the holder of
\* the lease works on the job, with endpoints that come, go and are switched
\* off, and with processes and statements that fail (WebhookSender, JobRunner).
THEOREM DeliveriesRunAlone == Spec => []RunAlone
<1>1. Init => DeliveryInv BY DeliveryInvInit
<1>2. DeliveryInv /\ [Next]_vars => DeliveryInv'
  BY DeliveryInvKept
<1>3. DeliveryInv => RunAlone
  BY DEF DeliveryInv, QueueInv, HeldUnderLease, RunAlone
<1> QED BY <1>1, <1>2, <1>3, PTL DEF Spec

\* A delivery is claimed no more often than its attempts and retries allow, but
\* for one claim per lease that elapsed, however many workers that were taken
\* for dead put it back under a successor (JobQueue.fail, reclaimExpired).
THEOREM DeliveriesWithinBudget == Spec => []ClaimsWithinBudget
<1>1. Init => DeliveryInv /\ AllAccounted BY DeliveryInvInit, AccountInit DEF Init
<1>2. DeliveryInv /\ AllAccounted /\ [Next]_vars => (DeliveryInv /\ AllAccounted)'
  BY DeliveryInvKept, AccountKept
<1>3. DeliveryInv /\ AllAccounted => ClaimsWithinBudget
  BY BudgetKept DEF DeliveryInv
<1> QED BY <1>1, <1>2, <1>3, PTL DEF Spec


-----------------------------------------------------------------------------
(* Types, and what becomes of a delivery. *)

Fate == [received : Nat, dropped : BOOLEAN, destroyed : BOOLEAN]

Recorded ==
    /\ endpoint \in [Endpoints -> Endpoint]
    /\ creating \subseteq Endpoints
    /\ update \in Update
    /\ fate \in [JobIds -> Fate]
    /\ upsets \in 0 .. MaxUpsets

RecordInv == DeliveryInv /\ Recorded

LEMMA OneEndpoint ==
    ASSUME Recorded, NEW e, NEW row,
           endpoint' = [endpoint EXCEPT ![e] = row], e \in Endpoints => row \in Endpoint
    PROVE  endpoint' \in [Endpoints -> Endpoint]
BY DEF Recorded

LEMMA OtherFields ==
    ASSUME NEW row \in Endpoint
    PROVE  /\ \A n \in 0 .. DisableAfter : [row EXCEPT !.failures = n] \in Endpoint
           /\ [row EXCEPT !.active = FALSE] \in Endpoint
           /\ [row EXCEPT !.state = "deleted"] \in Endpoint
BY DEF Endpoint

LEMMA CountedTyped ==
    ASSUME Recorded, NEW e, NEW n, e \in Endpoints => n \in 0 .. DisableAfter,
           endpoint' = Counted(e, n)
    PROVE  endpoint' \in [Endpoints -> Endpoint]
<1>1. CASE endpoint' = [endpoint EXCEPT ![e].failures = n]
  <2>1. endpoint' = [endpoint EXCEPT ![e] = [endpoint[e] EXCEPT !.failures = n]]
    BY <1>1
  <2>2. e \in Endpoints => [endpoint[e] EXCEPT !.failures = n] \in Endpoint
    BY OtherFields DEF Recorded
  <2> QED BY <2>1, <2>2, OneEndpoint
<1>2. CASE endpoint' = endpoint
  BY <1>2 DEF Recorded
<1> QED BY <1>1, <1>2 DEF Counted

LEMMA HandleEndpoint ==
    ASSUME Recorded, NEW w \in Workers, NEW j \in JobIds, Handle(w, j)
    PROVE  endpoint' \in [Endpoints -> Endpoint]
<1> DEFINE e == EndpointOf(j)
<1>1. DisableAfter \in Nat \ {0} BY WebhookAssumption DEF WebhookAssumption
<1>2. CASE RecordSuccess(w, j)
  <2>1. endpoint' = Counted(e, 0) /\ 0 \in 0 .. DisableAfter BY <1>1, <1>2 DEF RecordSuccess
  <2> QED BY <2>1, CountedTyped
<1>3. CASE RecordFailure(w, j)
  <2>1. endpoint' = Counted(e, FailuresNow(e)) BY <1>3 DEF RecordFailure
  <2>2. e \in Endpoints => FailuresNow(e) \in 0 .. DisableAfter
    BY <1>1 DEF FailuresNow, Recorded, Endpoint
  <2> QED BY <2>1, <2>2, CountedTyped
<1>4. CASE DisableEndpoint(w, j)
  <2>1. endpoint' = [endpoint EXCEPT ![e] = [endpoint[e] EXCEPT !.active = FALSE]]
    BY <1>4 DEF DisableEndpoint
  <2>2. e \in Endpoints => [endpoint[e] EXCEPT !.active = FALSE] \in Endpoint
    BY OtherFields DEF Recorded
  <2> QED BY <2>1, <2>2, OneEndpoint
<1>5. ASSUME ~RecordSuccess(w, j), ~RecordFailure(w, j), ~DisableEndpoint(w, j)
      PROVE  endpoint' = endpoint
  BY <1>5 DEF Handle, DropDelivery, StartPost, PostAccepted, PostUnanswered, PostRefused,
              RecordSuccessErrs, RecordFailureErrs, UnchangedRows
<1> QED BY <1>2, <1>3, <1>4, <1>5 DEF Recorded

LEMMA TenantEndpoint ==
    ASSUME Recorded, NEW e \in Endpoints,
           \/ SaveEndpoint(e) \/ DeleteEndpoint(e) \/ \E list \in Lists : InsertEndpoint(e, list)
    PROVE  endpoint' \in [Endpoints -> Endpoint]
<1>1. DisableAfter \in Nat \ {0} BY WebhookAssumption DEF WebhookAssumption
<1>2. ASSUME NEW list \in Lists, InsertEndpoint(e, list)
      PROVE  endpoint' \in [Endpoints -> Endpoint]
  <2> DEFINE row == [state |-> "present", active |-> TRUE, failures |-> 0, events |-> list]
  <2>1. row \in Endpoint BY <1>1 DEF Endpoint
  <2>2. endpoint' = [endpoint EXCEPT ![e] = row] BY <1>2 DEF InsertEndpoint
  <2> QED BY <2>1, <2>2, OneEndpoint
<1>3. CASE SaveEndpoint(e)
  <2> DEFINE row == [state |-> endpoint[e].state, active |-> ActiveSaved(e),
                     failures |-> FailuresSaved(e), events |-> endpoint[e].events]
  <2>1. ActiveSaved(e) \in BOOLEAN BY DEF ActiveSaved, Recorded, Endpoint
  <2>2. FailuresSaved(e) \in 0 .. DisableAfter
    BY <1>1 DEF FailuresSaved, Recorded, Endpoint
  <2>3. row \in Endpoint BY <2>1, <2>2 DEF Recorded, Endpoint
  <2>4. endpoint' = [endpoint EXCEPT ![e] = row] BY <1>3 DEF SaveEndpoint
  <2> QED BY <2>3, <2>4, OneEndpoint
<1>4. CASE DeleteEndpoint(e)
  <2>1. endpoint' = [endpoint EXCEPT ![e] = [endpoint[e] EXCEPT !.state = "deleted"]]
    BY <1>4 DEF DeleteEndpoint
  <2>2. [endpoint[e] EXCEPT !.state = "deleted"] \in Endpoint BY OtherFields DEF Recorded
  <2> QED BY <2>1, <2>2, OneEndpoint
<1> QED BY <1>2, <1>3, <1>4

\* What a tenant's request does to the rest.
LEMMA TenantRest ==
    ASSUME Recorded, Tenant
    PROVE  /\ creating' \subseteq Endpoints /\ update' \in Update
           /\ UNCHANGED <<queueVars, publishing, run, fate>>
<1>1. PICK e \in Endpoints :
        \/ CountEndpoints(e) \/ SaveEndpoint(e) \/ DeleteEndpoint(e)
        \/ \E list \in Lists : InsertEndpoint(e, list)
        \/ \E active \in Changes : ReadEndpoint(e, active)
  BY DEF Tenant
<1>2. creating' \subseteq Endpoints
  BY <1>1 DEF CountEndpoints, SaveEndpoint, DeleteEndpoint, InsertEndpoint, ReadEndpoint, Recorded
<1>3. UNCHANGED <<queueVars, publishing, run, fate>>
  BY <1>1 DEF CountEndpoints, SaveEndpoint, DeleteEndpoint, InsertEndpoint, ReadEndpoint
<1>4. NoUpdate \in Update BY DEF NoUpdate, Update
<1>5. ASSUME NEW active \in Changes, ReadEndpoint(e, active) PROVE update' \in Update
  <2>1. active \in {"on", "off", "as_is"} BY WebhookAssumption DEF WebhookAssumption
  <2>2. endpoint[e].active \in BOOLEAN /\ (endpoint[e].failures > 0) \in BOOLEAN
    BY DEF Recorded, Endpoint
  <2> QED BY <1>5, <2>1, <2>2 DEF ReadEndpoint, Update
<1>6. ASSUME ~(\E active \in Changes : ReadEndpoint(e, active)) PROVE update' \in {update, NoUpdate}
  BY <1>1, <1>6 DEF CountEndpoints, SaveEndpoint, DeleteEndpoint, InsertEndpoint
<1> QED BY <1>2, <1>3, <1>4, <1>5, <1>6 DEF Recorded


\* An upset is counted, or nothing is.
LEMMA UpsetsCounted ==
    ASSUME [Next]_vars
    PROVE  upsets' = upsets \/ Upset
<1>1. CASE UNCHANGED vars BY <1>1 DEF vars, queueVars
<1>2. CASE Tenant
  BY <1>2 DEF Tenant, CountEndpoints, InsertEndpoint, ReadEndpoint, SaveEndpoint, DeleteEndpoint,
              queueVars
<1>3. CASE Publisher
  BY <1>3 DEF Publisher, PublishSmsEvent, RaiseAlert, Publish, EnqueueDelivery, Enqueue, PublishErrs,
              queueVars
<1>4. ASSUME NEW j \in JobIds, RetryJob(j) \/ DestroyJob(j) \/ Elapse(j)
      PROVE  upsets' = upsets \/ Upset
  BY <1>4 DEF RetryJob, Retry, DestroyJob, Destroy, Elapse, LeaseElapses
<1>5. ASSUME NEW w \in Workers, Manage(w) \/ HaltWorker(w)
      PROVE  upsets' = upsets \/ Upset
  BY <1>5 DEF Manage, BeginPass, EndPass, Stop, Start, HaltWorker, Halt
<1>6. ASSUME NEW w \in Workers, NEW taken \in SUBSET JobIds, ClaimDeliveries(w, taken)
      PROVE  upsets' = upsets
  BY <1>6 DEF ClaimDeliveries, Claim
<1>7. ASSUME NEW w \in Workers, NEW j \in JobIds, Handle(w, j)
      PROVE  upsets' = upsets \/ Upset
  BY <1>7 DEF Handle, DropDelivery, StartPost, PostAccepted, PostUnanswered, PostRefused,
              RecordSuccess, RecordSuccessErrs, RecordFailure, DisableEndpoint, RecordFailureErrs,
              Return, Throw, queueVars
<1>8. ASSUME NEW w \in Workers, NEW j \in JobIds, Settle(w, j)
      PROVE  upsets' = upsets \/ Upset
  BY <1>8 DEF Settle, Complete, CompleteErrs, Fail, FailErrs
<1> QED BY <1>1, <1>2, <1>3, <1>4, <1>5, <1>6, <1>7, <1>8 DEF Next

LEMMA UpsetsBounded ==
    ASSUME Recorded, upsets' = upsets \/ Upset
    PROVE  upsets' \in 0 .. MaxUpsets /\ upsets \in Nat /\ upsets' \in Nat /\ upsets' >= upsets
<1>1. MaxUpsets \in Nat BY JobQueueAssumption DEF JobQueueAssumption
<1> QED BY <1>1 DEF Recorded, Upset

\* What is told of a delivery: it was received once more, dropped, destroyed,
\* or nothing new.
Told(i) ==
    \/ fate' = fate
    \/ fate' = [fate EXCEPT ![i].received = @ + 1]
    \/ fate' = [fate EXCEPT ![i].dropped = TRUE]
    \/ fate' = [fate EXCEPT ![i].destroyed = TRUE]

LEMMA OneTold ==
    ASSUME [Next]_vars
    PROVE  fate' = fate \/ \E i \in JobIds : Told(i)
<1>1. CASE UNCHANGED vars BY <1>1 DEF vars, deliveryVars
<1>2. CASE Tenant
  BY <1>2 DEF Tenant, CountEndpoints, InsertEndpoint, ReadEndpoint, SaveEndpoint, DeleteEndpoint
<1>3. CASE Publisher
  BY <1>3 DEF Publisher, PublishSmsEvent, RaiseAlert, Publish, EnqueueDelivery, PublishErrs
<1>4. ASSUME NEW j \in JobIds, RetryJob(j) \/ DestroyJob(j) \/ Elapse(j)
      PROVE  Told(j)
  BY <1>4 DEF RetryJob, DestroyJob, Elapse, deliveryVars, Told
<1>5. ASSUME NEW w \in Workers, \/ Manage(w) \/ HaltWorker(w)
                                \/ \E taken \in SUBSET JobIds : ClaimDeliveries(w, taken)
                                \/ \E j \in JobIds : Settle(w, j)
      PROVE  fate' = fate
  BY <1>5 DEF Manage, HaltWorker, ClaimDeliveries, Settle, deliveryVars
<1>6. ASSUME NEW w \in Workers, NEW j \in JobIds, Handle(w, j)
      PROVE  Told(j)
  BY <1>6 DEF Handle, DropDelivery, StartPost, PostAccepted, PostUnanswered, PostRefused,
              RecordSuccess, RecordSuccessErrs, RecordFailure, DisableEndpoint, RecordFailureErrs,
              Received, Told
<1>7. (\E j \in JobIds : RetryJob(j) \/ DestroyJob(j) \/ Elapse(j)) => \E i \in JobIds : Told(i)
  BY <1>4
<1>8. (\E w \in Workers, j \in JobIds : Handle(w, j)) => \E i \in JobIds : Told(i)
  BY <1>6
<1> QED BY <1>1, <1>2, <1>3, <1>5, <1>7, <1>8 DEF Next

\* Nothing is untold.
LEMMA FateKept ==
    ASSUME Recorded, [Next]_vars
    PROVE  /\ fate' \in [JobIds -> Fate]
           /\ \A j \in JobIds : /\ fate'[j].received >= fate[j].received
                                /\ fate[j].dropped => fate'[j].dropped
                                /\ fate[j].destroyed => fate'[j].destroyed
<1>1. fate \in [JobIds -> Fate] BY DEF Recorded
<1>2. \A j \in JobIds : fate[j] \in Fate /\ fate[j].received \in Nat BY <1>1 DEF Fate
<1>3. CASE fate' = fate BY <1>1, <1>2, <1>3
<1>4. ASSUME NEW i \in JobIds, NEW f \in Fate, fate' = [fate EXCEPT ![i] = f],
             f.received >= fate[i].received, fate[i].dropped => f.dropped,
             fate[i].destroyed => f.destroyed
      PROVE  /\ fate' \in [JobIds -> Fate]
             /\ \A j \in JobIds : /\ fate'[j].received >= fate[j].received
                                  /\ fate[j].dropped => fate'[j].dropped
                                  /\ fate[j].destroyed => fate'[j].destroyed
  BY <1>1, <1>2, <1>4
<1>5. ASSUME NEW i \in JobIds, fate' = [fate EXCEPT ![i].received = @ + 1]
      PROVE  /\ fate' \in [JobIds -> Fate]
             /\ \A j \in JobIds : /\ fate'[j].received >= fate[j].received
                                  /\ fate[j].dropped => fate'[j].dropped
                                  /\ fate[j].destroyed => fate'[j].destroyed
  <2> DEFINE f == [fate[i] EXCEPT !.received = @ + 1]
  <2>1. fate' = [fate EXCEPT ![i] = f] BY <1>5
  <2>2. f \in Fate BY <1>2 DEF Fate
  <2>3. f.received >= fate[i].received BY <1>2 DEF Fate
  <2>4. (fate[i].dropped => f.dropped) /\ (fate[i].destroyed => f.destroyed)
    BY <1>2 DEF Fate
  <2> HIDE DEF f
  <2> QED BY <1>4, <2>1, <2>2, <2>3, <2>4
<1>6. ASSUME NEW i \in JobIds, fate' = [fate EXCEPT ![i].dropped = TRUE]
      PROVE  /\ fate' \in [JobIds -> Fate]
             /\ \A j \in JobIds : /\ fate'[j].received >= fate[j].received
                                  /\ fate[j].dropped => fate'[j].dropped
                                  /\ fate[j].destroyed => fate'[j].destroyed
  <2> DEFINE f == [fate[i] EXCEPT !.dropped = TRUE]
  <2>1. fate' = [fate EXCEPT ![i] = f] BY <1>6
  <2>2. f \in Fate BY <1>2 DEF Fate
  <2>3. f.received >= fate[i].received BY <1>2 DEF Fate
  <2>4. (fate[i].dropped => f.dropped) /\ (fate[i].destroyed => f.destroyed)
    BY <1>2 DEF Fate
  <2> HIDE DEF f
  <2> QED BY <1>4, <2>1, <2>2, <2>3, <2>4
<1>7. ASSUME NEW i \in JobIds, fate' = [fate EXCEPT ![i].destroyed = TRUE]
      PROVE  /\ fate' \in [JobIds -> Fate]
             /\ \A j \in JobIds : /\ fate'[j].received >= fate[j].received
                                  /\ fate[j].dropped => fate'[j].dropped
                                  /\ fate[j].destroyed => fate'[j].destroyed
  <2> DEFINE f == [fate[i] EXCEPT !.destroyed = TRUE]
  <2>1. fate' = [fate EXCEPT ![i] = f] BY <1>7
  <2>2. f \in Fate BY <1>2 DEF Fate
  <2>3. f.received >= fate[i].received BY <1>2 DEF Fate
  <2>4. (fate[i].dropped => f.dropped) /\ (fate[i].destroyed => f.destroyed)
    BY <1>2 DEF Fate
  <2> HIDE DEF f
  <2> QED BY <1>4, <2>1, <2>2, <2>3, <2>4
<1> QED BY <1>3, <1>5, <1>6, <1>7, OneTold DEF Told

\* Only tenants and the handler write endpoints.
LEMMA RowsUntouched ==
    ASSUME [Next]_vars, ~Tenant, \A w \in Workers, j \in JobIds : ~Handle(w, j)
    PROVE  UNCHANGED <<endpoint, creating, update>>
<1>1. CASE Publisher
  BY <1>1 DEF Publisher, PublishSmsEvent, RaiseAlert, Publish, EnqueueDelivery, PublishErrs
<1>2. ASSUME NEW j \in JobIds, RetryJob(j) \/ DestroyJob(j) \/ Elapse(j)
      PROVE  UNCHANGED <<endpoint, creating, update>>
  BY <1>2 DEF RetryJob, DestroyJob, Elapse, deliveryVars, UnchangedRows
<1>3. ASSUME NEW w \in Workers, \/ Manage(w) \/ HaltWorker(w)
                                \/ \E taken \in SUBSET JobIds : ClaimDeliveries(w, taken)
                                \/ \E j \in JobIds : Settle(w, j)
      PROVE  UNCHANGED <<endpoint, creating, update>>
  BY <1>3 DEF Manage, HaltWorker, ClaimDeliveries, Settle, deliveryVars, UnchangedRows
<1>4. CASE UNCHANGED vars BY <1>4 DEF vars, deliveryVars
<1> QED BY <1>1, <1>2, <1>3, <1>4 DEF Next

LEMMA RecordedKept ==
    ASSUME Recorded, [Next]_vars
    PROVE  Recorded'
<1>1. fate' \in [JobIds -> Fate] BY FateKept
<1>2. upsets' \in 0 .. MaxUpsets BY UpsetsCounted, UpsetsBounded
<1>3. CASE Tenant
  <2>1. endpoint' \in [Endpoints -> Endpoint]
    BY <1>3, TenantEndpoint DEF Tenant, CountEndpoints, ReadEndpoint, Recorded
  <2> QED BY <1>1, <1>2, <1>3, <2>1, TenantRest DEF Recorded
<1>4. ASSUME NEW w \in Workers, NEW j \in JobIds, Handle(w, j)
      PROVE  Recorded'
  <2>1. UNCHANGED <<creating, update>>
    BY <1>4 DEF Handle, DropDelivery, StartPost, PostAccepted, PostUnanswered, PostRefused,
                RecordSuccess, RecordSuccessErrs, RecordFailure, DisableEndpoint,
                RecordFailureErrs, UnchangedRows
  <2> QED BY <1>1, <1>2, <1>4, <2>1, HandleEndpoint DEF Recorded
<1>5. ASSUME ~Tenant, \A w \in Workers, j \in JobIds : ~Handle(w, j)
      PROVE  Recorded'
  BY <1>1, <1>2, <1>5, RowsUntouched DEF Recorded
<1> QED BY <1>3, <1>4, <1>5

LEMMA RecordInvInit ==
    ASSUME Init
    PROVE  RecordInv
<1>1. MaxUpsets \in Nat /\ DisableAfter \in Nat
  BY JobQueueAssumption, WebhookAssumption DEF JobQueueAssumption, WebhookAssumption
<1>2. endpoint \in [Endpoints -> Endpoint] BY <1>1 DEF Init, Endpoint
<1>3. creating = {} /\ update \in Update BY DEF Init, NoUpdate, Update
<1>4. fate \in [JobIds -> Fate] BY DEF Init, Fate
<1>5. upsets \in 0 .. MaxUpsets BY <1>1 DEF Init, QueueInit
<1> QED BY <1>2, <1>3, <1>4, <1>5, DeliveryInvInit DEF RecordInv, Recorded

LEMMA RecordInvKept ==
    ASSUME RecordInv, [Next]_vars
    PROVE  RecordInv'
BY DeliveryInvKept, RecordedKept DEF RecordInv

\* Rows, requests, runs and fates are what they are meant to be: no count leaves
\* its range and nothing is handled or published that does not exist.
THEOREM DeliveriesTyped == Spec => []TypeOK
<1>1. Init => RecordInv BY RecordInvInit
<1>2. RecordInv /\ [Next]_vars => RecordInv' BY RecordInvKept
<1>3. RecordInv => TypeOK
  BY DEF RecordInv, DeliveryInv, QueueInv, Shape, Attached, Announced, Recorded, Fate, TypeOK,
         QueueTypeOK
<1> QED BY <1>1, <1>2, <1>3, PTL DEF Spec


-----------------------------------------------------------------------------
(* Nothing is lost: a job is deleted, by whoever is done with it, only when  *)
(* that was reached by a delivery, a drop or an administrator.               *)

Settled(j) == fate[j].received > 0 \/ fate[j].dropped \/ fate[j].destroyed

Answered(j) ==
    /\ job[j].status = "deleted" => Settled(j)
    /\ \A w \in Workers : hand[w][j].stage = "returned" => Settled(j)
    /\ \A w \in Workers : run[w][j] = "accepted" => Settled(j)

AllAnswered == \A j \in JobIds : Answered(j)

LEMMA StaysSettled ==
    ASSUME Recorded, [Next]_vars, NEW j \in JobIds, Settled(j)
    PROVE  Settled(j)'
<1>1. fate[j].received \in Nat /\ fate'[j].received \in Nat
  BY FateKept DEF Recorded, Fate
<1> QED BY <1>1, FateKept DEF Settled

LEMMA SameAnswers ==
    ASSUME Recorded, AllAnswered, [Next]_vars, NEW i \in JobIds,
           job'[i].status = "deleted" => job[i].status = "deleted",
           \A w \in Workers : hand'[w][i].stage = "returned" => hand[w][i].stage = "returned",
           \A w \in Workers : run'[w][i] = "accepted" => run[w][i] = "accepted"
    PROVE  Answered(i)'
<1>1. CASE Settled(i)
  <2>1. Settled(i)' BY <1>1, StaysSettled
  <2> QED BY <2>1 DEF Answered
<1>2. CASE ~Settled(i)
  BY <1>2 DEF AllAnswered, Answered
<1> QED BY <1>1, <1>2

\* What the steps of a delivery do to the others.
LEMMA OthersKept ==
    ASSUME RecordInv, NEW w \in Workers, NEW j \in JobIds, Handle(w, j)
    PROVE  /\ job' = job /\ runner' = runner
           /\ \A v \in Workers, i \in JobIds : (v # w \/ i # j) => /\ hand'[v][i] = hand[v][i]
                                                                  /\ run'[v][i] = run[v][i]
<1>1. Shape /\ run \in [Workers -> [JobIds -> Stage]]
  BY DEF RecordInv, DeliveryInv, QueueInv, Attached
<1>2. job' = job /\ runner' = runner
  BY DEF Handle, DropDelivery, StartPost, PostAccepted, PostUnanswered, PostRefused,
         RecordSuccess, RecordSuccessErrs, RecordFailure, DisableEndpoint,
         RecordFailureErrs, Return, Throw, queueVars
<1>3. \/ hand' = hand
      \/ hand' = [hand EXCEPT ![w][j].stage = "returned"]
      \/ hand' = [hand EXCEPT ![w][j].stage = "threw"]
  BY DEF Handle, DropDelivery, StartPost, PostAccepted, PostUnanswered, PostRefused,
         RecordSuccess, RecordSuccessErrs, RecordFailure, DisableEndpoint,
         RecordFailureErrs, Return, Throw, queueVars
<1>4. \E stage \in Stage : Goes(w, j, stage)
  BY DEF Handle, DropDelivery, StartPost, PostAccepted, PostUnanswered, PostRefused,
         RecordSuccess, RecordSuccessErrs, RecordFailure, DisableEndpoint,
         RecordFailureErrs, Stage
<1>5. ASSUME NEW v \in Workers, NEW i \in JobIds, v # w \/ i # j
      PROVE  hand'[v][i] = hand[v][i]
  BY <1>1, <1>3, <1>5 DEF Shape
<1>6. ASSUME NEW v \in Workers, NEW i \in JobIds, v # w \/ i # j
      PROVE  run'[v][i] = run[v][i]
  BY <1>1, <1>4, <1>6 DEF Goes
<1> QED BY <1>2, <1>5, <1>6

\* A step of a delivery ends its handling after an answer, a drop, or in failure.
LEMMA HandleAnswers ==
    ASSUME RecordInv, AllAnswered, [Next]_vars, NEW w \in Workers, NEW j \in JobIds, Handle(w, j)
    PROVE  AllAnswered'
<1> SUFFICES ASSUME NEW i \in JobIds PROVE Answered(i)' BY DEF AllAnswered
<1>1. Recorded /\ Shape /\ run \in [Workers -> [JobIds -> Stage]] /\ fate \in [JobIds -> Fate]
  BY DEF RecordInv, DeliveryInv, QueueInv, Attached, Recorded
<1>2. /\ job' = job
      /\ \A v \in Workers, k \in JobIds : (v # w \/ k # j) => /\ hand'[v][k] = hand[v][k]
                                                             /\ run'[v][k] = run[v][k]
  BY OthersKept
<1>3. CASE i # j
  BY <1>1, <1>2, <1>3, SameAnswers
<1>4. CASE Settled(i)
  BY <1>1, <1>4, StaysSettled DEF Answered
<1>5. CASE i = j /\ ~Settled(j)
  <2>1. CASE DropDelivery(w, j)
    <3>1. fate'[j].dropped BY <1>1, <2>1 DEF DropDelivery, Fate
    <3> QED BY <1>5, <3>1 DEF Answered, Settled
  <2>2. CASE PostAccepted(w, j) \/ PostUnanswered(w, j)
    <3>1. fate'[j].received = fate[j].received + 1 /\ fate[j].received \in Nat
      BY <1>1, <2>2 DEF PostAccepted, PostUnanswered, Received, Fate
    <3> QED BY <1>5, <3>1 DEF Answered, Settled
  <2>3. CASE StartPost(w, j) \/ PostRefused(w, j) \/ RecordSuccessErrs(w, j)
    <3>1. hand' = hand /\ run'[w][j] # "accepted"
      BY <1>1, <2>3 DEF StartPost, PostRefused, RecordSuccessErrs, Goes, queueVars
    <3> QED BY <1>1, <1>2, <1>5, <3>1, SameAnswers
  <2>4. CASE RecordSuccess(w, j)
    <3>1. run[w][j] = "accepted" BY <2>4 DEF RecordSuccess, At
    <3> QED BY <1>5, <3>1 DEF AllAnswered, Answered
  <2>5. CASE RecordFailure(w, j) \/ DisableEndpoint(w, j) \/ RecordFailureErrs(w, j)
    <3>1. run'[w][j] # "accepted"
      BY <1>1, <2>5 DEF RecordFailure, DisableEndpoint, RecordFailureErrs, Goes
    <3>2. hand' = hand \/ hand' = [hand EXCEPT ![w][j].stage = "threw"]
      BY <2>5 DEF RecordFailure, DisableEndpoint, RecordFailureErrs, Throw, queueVars
    <3>3. hand'[w][j].stage = "returned" => hand[w][j].stage = "returned"
      BY <1>1, <3>2 DEF Shape, Claimed
    <3> QED BY <1>1, <1>2, <1>5, <3>1, <3>3, SameAnswers
  <2> QED BY <2>1, <2>2, <2>3, <2>4, <2>5 DEF Handle
<1> QED BY <1>3, <1>4, <1>5

\* A claim is settled: the job is deleted only after its handler returned.
LEMMA SettleAnswers ==
    ASSUME RecordInv, AllAnswered, [Next]_vars, NEW w \in Workers, NEW j \in JobIds, Settle(w, j)
    PROVE  AllAnswered'
<1> SUFFICES ASSUME NEW i \in JobIds PROVE Answered(i)' BY DEF AllAnswered
<1>1. Recorded /\ Shape BY DEF RecordInv, DeliveryInv, QueueInv
<1>2. run' = run /\ fate' = fate BY DEF Settle, deliveryVars
<1>3. \A v \in Workers, k \in JobIds : (v # w \/ k # j) => hand'[v][k] = hand[v][k]
  BY <1>1, OneHand DEF Settle, Work
<1>4. hand'[w][j].stage \in {"none", "threw"}
  BY <1>1 DEF Shape, Claimed, Settle, Complete, CompleteErrs, Fail, FailErrs, NoClaim
<1>5. CASE Complete(w, j) /\ i = j
  <2>1. Settled(j) BY <1>5 DEF Complete, AllAnswered, Answered
  <2> QED BY <1>1, <1>5, <2>1, StaysSettled DEF Answered
<1>6. ASSUME ~(Complete(w, j) /\ i = j) PROVE job'[i].status = "deleted" => job[i].status = "deleted"
  <2>1. CASE job' = job BY <2>1
  <2>2. CASE i # j
    BY <1>1, <2>2 DEF Settle, Complete, CompleteErrs, Fail, FailErrs, Shape
  <2>3. CASE Fail(w, j) /\ i = j
    BY <1>1, <2>3 DEF Fail, Shape, Ended, Waiting
  <2> QED BY <1>6, <2>1, <2>2, <2>3 DEF Settle, CompleteErrs, FailErrs
<1>7. \A v \in Workers : hand'[v][i].stage = "returned" => hand[v][i].stage = "returned"
  BY <1>3, <1>4
<1> QED BY <1>1, <1>2, <1>5, <1>6, <1>7, SameAnswers

LEMMA AnswersKept ==
    ASSUME RecordInv, AllAnswered, [Next]_vars
    PROVE  AllAnswered'
<1>1. Recorded /\ Shape /\ run \in [Workers -> [JobIds -> Stage]] /\ fate \in [JobIds -> Fate]
  BY DEF RecordInv, DeliveryInv, QueueInv, Attached, Recorded
<1>2. CASE UNCHANGED <<job, hand, run>>
  BY <1>1, <1>2, SameAnswers DEF AllAnswered
<1>3. CASE UNCHANGED vars BY <1>2, <1>3 DEF vars, queueVars, deliveryVars
<1>4. CASE Tenant
  BY <1>1, <1>2, <1>4, TenantRest DEF queueVars
<1>5. ASSUME UNCHANGED <<hand, run>>,
             \A i \in JobIds : job'[i].status = "deleted" => job[i].status = "deleted"
      PROVE  AllAnswered'
  BY <1>1, <1>5, SameAnswers DEF AllAnswered
<1>6. CASE Publisher
  <2>1. ASSUME NEW e \in Endpoints, EnqueueDelivery(e)
        PROVE  UNCHANGED <<hand, run>> /\
               \A i \in JobIds : job'[i].status = "deleted" => job[i].status = "deleted"
    BY <1>1, <2>1 DEF EnqueueDelivery, Enqueue, queueVars, Shape
  <2> QED BY <1>2, <1>5, <1>6, <2>1 DEF Publisher, PublishSmsEvent, RaiseAlert, Publish, PublishErrs,
                                        queueVars
<1>7. ASSUME NEW j \in JobIds, RetryJob(j) \/ Elapse(j)
      PROVE  AllAnswered'
  <2>1. UNCHANGED <<hand, run>> BY <1>7 DEF RetryJob, Retry, Elapse, LeaseElapses, deliveryVars
  <2>2. \A i \in JobIds : job'[i].status = "deleted" => job[i].status = "deleted"
    <3>1. CASE RetryJob(j) BY <1>1, <3>1 DEF RetryJob, Retry, Shape, Waiting
    <3>2. CASE Elapse(j)
      <4>1. job' = [job EXCEPT ![j] = [job[j] EXCEPT !.leased = FALSE]]
        BY <3>2 DEF Elapse, LeaseElapses
      <4> QED BY <1>1, <4>1, Unleased DEF Shape
    <3> QED BY <1>7, <3>1, <3>2
  <2> QED BY <1>5, <2>1, <2>2
<1>8. ASSUME NEW j \in JobIds, DestroyJob(j)
      PROVE  AllAnswered'
  <2> SUFFICES ASSUME NEW i \in JobIds PROVE Answered(i)' BY DEF AllAnswered
  <2>1. UNCHANGED <<hand, run>> BY <1>8 DEF DestroyJob, Destroy, UnchangedRows
  <2>2. CASE i = j
    <3>1. fate'[j].destroyed BY <1>1, <1>8 DEF DestroyJob, Fate
    <3> QED BY <2>2, <3>1 DEF Answered, Settled
  <2>3. CASE i # j
    <3>1. job'[i] = job[i] BY <1>1, <1>8, <2>3 DEF DestroyJob, Destroy, Shape
    <3> QED BY <1>1, <2>1, <3>1, SameAnswers
  <2> QED BY <2>2, <2>3
<1>9. ASSUME NEW w \in Workers, Manage(w)
      PROVE  AllAnswered'
  <2>1. UNCHANGED <<hand, run>>
    BY <1>9 DEF Manage, BeginPass, EndPass, Stop, Start, deliveryVars
  <2>2. \A i \in JobIds : job'[i].status = "deleted" => job[i].status = "deleted"
    BY <1>9 DEF Manage, BeginPass, EndPass, Stop, Start, Waiting
  <2> QED BY <1>5, <2>1, <2>2
<1>10. ASSUME NEW w \in Workers, HaltWorker(w)
       PROVE  AllAnswered'
  <2>1. job' = job BY <1>10 DEF HaltWorker, Halt
  <2>2. \A v \in Workers, i \in JobIds :
          /\ hand'[v][i].stage = "returned" => hand[v][i].stage = "returned"
          /\ run'[v][i] = "accepted" => run[v][i] = "accepted"
    BY <1>1, <1>10 DEF HaltWorker, Halt, Shape, NoClaim
  <2> QED BY <1>1, <2>1, <2>2, SameAnswers DEF AllAnswered
<1>11. ASSUME NEW w \in Workers, NEW taken \in SUBSET JobIds, ClaimDeliveries(w, taken)
       PROVE  AllAnswered'
  <2>1. \A i \in JobIds : job'[i].status = "deleted" => job[i].status = "deleted"
    BY <1>11 DEF ClaimDeliveries, Claim
  <2>2. \A v \in Workers, i \in JobIds :
          /\ hand'[v][i].stage = "returned" => hand[v][i].stage = "returned"
          /\ run'[v][i] = "accepted" => run[v][i] = "accepted"
    BY <1>1, <1>11 DEF ClaimDeliveries, Claim, Shape
  <2> QED BY <1>1, <2>1, <2>2, SameAnswers DEF AllAnswered
<1> QED BY <1>3, <1>4, <1>6, <1>7, <1>8, <1>9, <1>10, <1>11, HandleAnswers, SettleAnswers DEF Next

\* A job leaves the table only with an answer to what became of its delivery,
\* for any number of workers that crash, stall, take each other for dead and
\* fail to write: none of them deletes what was not delivered (JobRunner.run).
THEOREM DeliveriesNeverLost == Spec => []NothingLost
<1>1. Init => AllAnswered
  BY DEF Init, QueueInit, NoJob, NoClaim, AllAnswered, Answered
<1>2. RecordInv /\ AllAnswered /\ [Next]_vars => (RecordInv /\ AllAnswered)'
  BY RecordInvKept, AnswersKept
<1>3. AllAnswered => NothingLost
  BY DEF AllAnswered, Answered, Settled, NothingLost
<1> QED BY <1>1, <1>2, <1>3, RecordInvInit, PTL DEF Spec


-----------------------------------------------------------------------------
(* An endpoint that is off. *)

\* An endpoint under creation is not there yet, so that inserting it switches
\* nothing on.
Unborn == \A e \in creating : endpoint[e].state = "absent"

LEMMA UnbornKept ==
    ASSUME RecordInv, Unborn, [Next]_vars
    PROVE  Unborn'
<1>1. endpoint \in [Endpoints -> Endpoint] /\ creating \subseteq Endpoints
  BY DEF RecordInv, Recorded
<1>2. CASE UNCHANGED <<endpoint, creating>> BY <1>2 DEF Unborn
<1>3. CASE Tenant
  BY <1>1, <1>3 DEF Tenant, CountEndpoints, InsertEndpoint, ReadEndpoint, SaveEndpoint, DeleteEndpoint,
                    Present, Unborn
<1>4. ASSUME NEW w \in Workers, NEW j \in JobIds, Handle(w, j)
      PROVE  Unborn'
  <2>1. creating' = creating
    BY <1>4 DEF Handle, DropDelivery, StartPost, PostAccepted, PostUnanswered, PostRefused,
                RecordSuccess, RecordSuccessErrs, RecordFailure, DisableEndpoint,
                RecordFailureErrs, UnchangedRows
  <2>2. \/ endpoint' = endpoint
        \/ \E e, n : endpoint' = [endpoint EXCEPT ![e].failures = n]
        \/ \E e : endpoint' = [endpoint EXCEPT ![e].active = FALSE]
    BY <1>4 DEF Handle, DropDelivery, StartPost, PostAccepted, PostUnanswered, PostRefused,
                RecordSuccess, RecordSuccessErrs, RecordFailure, DisableEndpoint,
                RecordFailureErrs, UnchangedRows, Counted
  <2>3. \A e \in Endpoints : endpoint'[e].state = endpoint[e].state
    BY <1>1, <2>2 DEF Endpoint
  <2> QED BY <1>1, <2>1, <2>3 DEF Unborn
<1>5. ASSUME ~Tenant, \A w \in Workers, j \in JobIds : ~Handle(w, j)
      PROVE  UNCHANGED <<endpoint, creating>>
  BY <1>5, RowsUntouched
<1> QED BY <1>2, <1>3, <1>4, <1>5

\* Nothing but a request that asks for it switches an endpoint on.
LEMMA SwitchedOn ==
    ASSUME RecordInv, Unborn, [Next]_vars, NEW e \in Endpoints,
           Present(e), ~endpoint[e].active, endpoint'[e].active
    PROVE  update.of = e /\ update.active = "on"
<1>1. endpoint \in [Endpoints -> Endpoint] /\ creating \subseteq Endpoints
  BY DEF RecordInv, Recorded
<1>2. CASE Tenant
  <2>1. PICK f \in Endpoints :
          \/ CountEndpoints(f) \/ SaveEndpoint(f) \/ DeleteEndpoint(f)
          \/ \E list \in Lists : InsertEndpoint(f, list)
          \/ \E active \in Changes : ReadEndpoint(f, active)
    BY <1>2 DEF Tenant
  <2>2. CASE UNCHANGED endpoint BY <2>2
  <2>3. CASE \E list \in Lists : InsertEndpoint(f, list)
    <3>1. e # f BY <2>3 DEF InsertEndpoint, Unborn, Present
    <3> QED BY <1>1, <2>3, <3>1 DEF InsertEndpoint
  <2>4. CASE SaveEndpoint(f)
    <3>1. e = f BY <1>1, <2>4 DEF SaveEndpoint
    <3>2. endpoint'[e].active = ActiveSaved(e) BY <1>1, <2>4, <3>1 DEF SaveEndpoint
    <3>3. ActiveSaved(e) BY <3>2
    <3>4. update.active = "on" BY <3>3 DEF ActiveSaved
    <3> QED BY <2>4, <3>1, <3>4 DEF SaveEndpoint
  <2>5. CASE DeleteEndpoint(f)
    <3>1. endpoint' = [endpoint EXCEPT ![f] = [endpoint[f] EXCEPT !.state = "deleted"]]
      BY <2>5 DEF DeleteEndpoint
    <3>2. [endpoint[f] EXCEPT !.state = "deleted"].active = endpoint[f].active
      BY <1>1 DEF Endpoint
    <3>3. endpoint'[e].active = endpoint[e].active BY <1>1, <3>1, <3>2
    <3> QED BY <3>3
  <2> QED BY <2>1, <2>2, <2>3, <2>4, <2>5 DEF CountEndpoints, ReadEndpoint
<1>3. ASSUME NEW w \in Workers, NEW j \in JobIds, Handle(w, j)
      PROVE  FALSE
  <2>1. \/ endpoint' = endpoint
        \/ \E f, n : endpoint' = [endpoint EXCEPT ![f].failures = n]
        \/ \E f : endpoint' = [endpoint EXCEPT ![f].active = FALSE]
    BY <1>3 DEF Handle, DropDelivery, StartPost, PostAccepted, PostUnanswered, PostRefused,
                RecordSuccess, RecordSuccessErrs, RecordFailure, DisableEndpoint,
                RecordFailureErrs, UnchangedRows, Counted
  <2>2. ASSUME NEW f, NEW n, endpoint' = [endpoint EXCEPT ![f].failures = n]
        PROVE  endpoint'[e].active = endpoint[e].active
    <3>1. endpoint' = [endpoint EXCEPT ![f] = [endpoint[f] EXCEPT !.failures = n]] BY <2>2
    <3>2. f = e => [endpoint[f] EXCEPT !.failures = n].active = endpoint[f].active
      BY <1>1 DEF Endpoint
    <3> QED BY <1>1, <3>1, <3>2
  <2>3. ASSUME NEW f, endpoint' = [endpoint EXCEPT ![f].active = FALSE]
        PROVE  endpoint'[e].active \in {FALSE, endpoint[e].active}
    <3>1. endpoint' = [endpoint EXCEPT ![f] = [endpoint[f] EXCEPT !.active = FALSE]] BY <2>3
    <3>2. f = e => [endpoint[f] EXCEPT !.active = FALSE].active = FALSE
      BY <1>1 DEF Endpoint
    <3> QED BY <1>1, <3>1, <3>2
  <2> QED BY <2>1, <2>2, <2>3
<1>4. ASSUME ~Tenant, \A w \in Workers, j \in JobIds : ~Handle(w, j)
      PROVE  FALSE
  BY <1>4, RowsUntouched
<1> QED BY <1>2, <1>3, <1>4

\* An endpoint that was switched off for its failures stays off through every
\* update that was under way and does not ask to switch it on, and through every
\* answer that comes late (WebhookEndpointService.update, WebhookSender).
THEOREM OffStaysOff == Spec => OffUntilAsked
<1>1. Init => Unborn BY DEF Init, Unborn
<1>2. RecordInv /\ Unborn /\ [Next]_vars => (RecordInv /\ Unborn)'
  BY RecordInvKept, UnbornKept
<1>3. RecordInv /\ Unborn /\ [Next]_vars =>
        \A e \in Endpoints :
          Present(e) /\ ~endpoint[e].active /\ endpoint'[e].active
            => update.of = e /\ update.active = "on"
  BY SwitchedOn
<1> QED BY <1>1, <1>2, <1>3, RecordInvInit, PTL DEF Spec, OffUntilAsked


-----------------------------------------------------------------------------
(* Duplicates.  Whoever may still post a delivery without anything further  *)
(* going wrong is counted: a worker that is at it, or that threw and will   *)
(* put the job back; a worker about to exit, whose job is then taken up     *)
(* again; and the job, when it waits, has failed, or is left to its lease.  *)
(* A post takes one of these away, and each upset adds at most one.         *)

Trying(j) ==
    {w \in Workers : \/ run[w][j] \in {"starting", "posting", "refused", "disabling"}
                     \/ hand[w][j].stage = "threw"}
Leaving(j) == {w \in Workers : runner[w].stopped /\ Holds(w, j)}

Exposed(j) ==
    \/ job[j].status \in {"none", "pending", "failed"}
    \/ job[j].status = "running" /\ (~job[j].leased \/ Forsaken(j))
Exposure(j) == IF Exposed(j) THEN 1 ELSE 0

Finite(j) == IsFiniteSet(Trying(j)) /\ IsFiniteSet(Leaving(j))
Load(j) == Cardinality(Trying(j)) + Cardinality(Leaving(j)) + Exposure(j)

Spared(j) == Finite(j) /\ fate[j].received + Load(j) <= 1 + upsets
AllSpared == \A j \in JobIds : Spared(j)

LEMMA Numbers ==
    ASSUME Recorded, [Next]_vars, NEW i \in JobIds, Spared(i)
    PROVE  /\ fate[i].received \in Nat /\ fate'[i].received \in Nat
           /\ upsets \in Nat /\ upsets' \in Nat /\ upsets' >= upsets
           /\ Cardinality(Trying(i)) \in Nat /\ Cardinality(Leaving(i)) \in Nat
           /\ Exposure(i) \in 0 .. 1 /\ Exposure(i)' \in 0 .. 1
<1>1. fate[i].received \in Nat /\ fate'[i].received \in Nat BY FateKept DEF Recorded, Fate
<1>2. upsets \in Nat /\ upsets' \in Nat /\ upsets' >= upsets BY UpsetsCounted, UpsetsBounded
<1>3. Cardinality(Trying(i)) \in Nat /\ Cardinality(Leaving(i)) \in Nat
  BY FS_CardinalityType DEF Spared, Finite
<1> QED BY <1>1, <1>2, <1>3 DEF Exposure

\* Nobody joins.
LEMMA NoneJoins ==
    ASSUME Recorded, [Next]_vars, NEW i \in JobIds, Spared(i),
           Trying(i)' \subseteq Trying(i), Leaving(i)' \subseteq Leaving(i)
    PROVE  /\ Finite(i)'
           /\ Cardinality(Trying(i)') \in Nat /\ Cardinality(Leaving(i)') \in Nat
           /\ Cardinality(Trying(i)') <= Cardinality(Trying(i))
           /\ Cardinality(Leaving(i)') <= Cardinality(Leaving(i))
BY Fewer DEF Spared, Finite

\* Nothing more is to be feared than before, or than an upset accounts for.
LEMMA SparedSame ==
    ASSUME Recorded, [Next]_vars, NEW i \in JobIds, Spared(i),
           Trying(i)' \subseteq Trying(i), Leaving(i)' \subseteq Leaving(i),
           fate'[i].received = fate[i].received,
           (Exposed(i)' => Exposed(i)) \/ upsets' = upsets + 1
    PROVE  Spared(i)'
<1>1. Exposure(i)' <= Exposure(i) \/ upsets' = upsets + 1 BY Numbers DEF Exposure
<1>2. Load(i)' = Cardinality(Trying(i)') + Cardinality(Leaving(i)') + Exposure(i)' BY DEF Load
<1>3. fate[i].received + (Cardinality(Trying(i)) + Cardinality(Leaving(i)) + Exposure(i))
        <= 1 + upsets
  BY DEF Spared, Load
<1>4. fate'[i].received + Load(i)' <= 1 + upsets'
  BY <1>1, <1>2, <1>3, Numbers, NoneJoins
<1> QED BY <1>4, NoneJoins DEF Spared

\* A worker is done with the job, or posts it, which it can do no more.
LEMMA SparedLeft ==
    ASSUME Recorded, [Next]_vars, NEW i \in JobIds, Spared(i), NEW w \in Workers,
           w \in Trying(i), Trying(i)' \subseteq Trying(i) \ {w}, Leaving(i)' \subseteq Leaving(i),
           \/ fate'[i].received = fate[i].received
           \/ fate'[i].received = fate[i].received + 1 /\ (Exposed(i)' => Exposed(i))
    PROVE  Spared(i)'
<1>1. /\ IsFiniteSet(Trying(i) \ {w})
      /\ Cardinality(Trying(i) \ {w}) = Cardinality(Trying(i)) - 1
  BY FS_RemoveElement DEF Spared, Finite
<1>2. /\ IsFiniteSet(Trying(i)')
      /\ Cardinality(Trying(i)') \in Nat
      /\ Cardinality(Trying(i)') <= Cardinality(Trying(i)) - 1
  BY <1>1, Fewer
<1>3. Load(i)' = Cardinality(Trying(i)') + Cardinality(Leaving(i)') + Exposure(i)' BY DEF Load
<1>4. fate[i].received + (Cardinality(Trying(i)) + Cardinality(Leaving(i)) + Exposure(i))
        <= 1 + upsets
  BY DEF Spared, Load
<1>5. \/ fate'[i].received = fate[i].received
      \/ fate'[i].received = fate[i].received + 1 /\ Exposure(i)' <= Exposure(i)
  BY Numbers DEF Exposure
<1>6. fate'[i].received + Load(i)' <= 1 + upsets'
  BY <1>2, <1>3, <1>4, <1>5, Numbers, NoneJoins
<1> QED BY <1>2, <1>6, NoneJoins DEF Spared

\* A worker exits.
LEMMA SparedExit ==
    ASSUME Recorded, [Next]_vars, NEW i \in JobIds, Spared(i), NEW w \in Workers,
           w \in Leaving(i), Leaving(i)' \subseteq Leaving(i) \ {w}, Trying(i)' \subseteq Trying(i),
           fate'[i].received = fate[i].received
    PROVE  Spared(i)'
<1>1. /\ IsFiniteSet(Leaving(i) \ {w})
      /\ Cardinality(Leaving(i) \ {w}) = Cardinality(Leaving(i)) - 1
  BY FS_RemoveElement DEF Spared, Finite
<1>2. /\ IsFiniteSet(Leaving(i)')
      /\ Cardinality(Leaving(i)') \in Nat
      /\ Cardinality(Leaving(i)') <= Cardinality(Leaving(i)) - 1
  BY <1>1, Fewer
<1>3. Load(i)' = Cardinality(Trying(i)') + Cardinality(Leaving(i)') + Exposure(i)' BY DEF Load
<1>4. fate[i].received + (Cardinality(Trying(i)) + Cardinality(Leaving(i)) + Exposure(i))
        <= 1 + upsets
  BY DEF Spared, Load
<1>5. fate'[i].received + Load(i)' <= 1 + upsets'
  BY <1>2, <1>3, <1>4, Numbers, NoneJoins
<1> QED BY <1>2, <1>5, NoneJoins DEF Spared

\* One joins, for an upset or with the claim of the job.
LEMMA SparedJoin ==
    ASSUME Recorded, [Next]_vars, NEW i \in JobIds, Spared(i), NEW w \in Workers,
           \/ Trying(i)' \subseteq Trying(i) \union {w} /\ Leaving(i)' \subseteq Leaving(i)
           \/ Trying(i)' \subseteq Trying(i) /\ Leaving(i)' \subseteq Leaving(i) \union {w},
           fate'[i].received = fate[i].received,
           \/ upsets' = upsets + 1 /\ (Exposed(i)' => Exposed(i))
           \/ Exposed(i) /\ ~Exposed(i)'
    PROVE  Spared(i)'
<1> DEFINE t == Cardinality(Trying(i))
           l == Cardinality(Leaving(i))
<1>1. IsFiniteSet(Trying(i)) /\ IsFiniteSet(Leaving(i)) BY DEF Spared, Finite
<1>2. \A S : IsFiniteSet(S) => /\ IsFiniteSet(S \union {w})
                               /\ Cardinality(S \union {w}) <= Cardinality(S) + 1
  BY OneMore
<1>3. /\ Finite(i)'
      /\ Cardinality(Trying(i)') \in Nat /\ Cardinality(Leaving(i)') \in Nat
      /\ Cardinality(Trying(i)') + Cardinality(Leaving(i)') <= t + l + 1
  <2>1. ASSUME NEW S, IsFiniteSet(S), NEW T, T \subseteq S \union {w}
        PROVE  /\ IsFiniteSet(T) /\ Cardinality(T) \in Nat /\ Cardinality(S) \in Nat
               /\ Cardinality(T) <= Cardinality(S) + 1
    <3>1. /\ IsFiniteSet(S \union {w}) /\ Cardinality(S \union {w}) <= Cardinality(S) + 1
      BY <1>2, <2>1
    <3>2. /\ IsFiniteSet(T) /\ Cardinality(T) <= Cardinality(S \union {w})
          /\ Cardinality(T) \in Nat /\ Cardinality(S \union {w}) \in Nat
      BY <2>1, <3>1, Fewer
    <3>3. Cardinality(S) \in Nat BY <2>1, FS_CardinalityType
    <3> QED BY <3>1, <3>2, <3>3
  <2>2. CASE Trying(i)' \subseteq Trying(i) \union {w} /\ Leaving(i)' \subseteq Leaving(i)
    <3>1. /\ IsFiniteSet(Trying(i)') /\ Cardinality(Trying(i)') \in Nat /\ t \in Nat
          /\ Cardinality(Trying(i)') <= t + 1
      BY <1>1, <2>1, <2>2
    <3>2. /\ IsFiniteSet(Leaving(i)') /\ Cardinality(Leaving(i)') \in Nat /\ l \in Nat
          /\ Cardinality(Leaving(i)') <= l
      BY <1>1, <2>2, Fewer
    <3> QED BY <3>1, <3>2 DEF Finite
  <2>3. CASE Trying(i)' \subseteq Trying(i) /\ Leaving(i)' \subseteq Leaving(i) \union {w}
    <3>1. /\ IsFiniteSet(Leaving(i)') /\ Cardinality(Leaving(i)') \in Nat /\ l \in Nat
          /\ Cardinality(Leaving(i)') <= l + 1
      BY <1>1, <2>1, <2>3
    <3>2. /\ IsFiniteSet(Trying(i)') /\ Cardinality(Trying(i)') \in Nat /\ t \in Nat
          /\ Cardinality(Trying(i)') <= t
      BY <1>1, <2>3, Fewer
    <3> QED BY <3>1, <3>2 DEF Finite
  <2> QED BY <2>2, <2>3
<1>4. Load(i)' = Cardinality(Trying(i)') + Cardinality(Leaving(i)') + Exposure(i)' BY DEF Load
<1>5. fate[i].received + (t + l + Exposure(i)) <= 1 + upsets BY DEF Spared, Load
<1>6. \/ upsets' = upsets + 1 /\ Exposure(i)' <= Exposure(i)
      \/ Exposure(i) = 1 /\ Exposure(i)' = 0
  BY Numbers DEF Exposure
<1> HIDE DEF t, l
<1>7. t \in Nat /\ l \in Nat BY Numbers DEF t, l
<1>8. fate'[i].received + Load(i)' <= 1 + upsets'
  BY <1>3, <1>4, <1>5, <1>6, <1>7, Numbers
<1> QED BY <1>3, <1>8 DEF Spared

\* The receiver has it, but the worker does not know.
LEMMA SparedUnanswered ==
    ASSUME Recorded, [Next]_vars, NEW i \in JobIds, Spared(i),
           Trying(i)' \subseteq Trying(i), Leaving(i)' \subseteq Leaving(i),
           Exposed(i)' => Exposed(i),
           fate'[i].received = fate[i].received + 1, upsets' = upsets + 1
    PROVE  Spared(i)'
<1>1. Exposure(i)' <= Exposure(i) BY Numbers DEF Exposure
<1>2. Load(i)' = Cardinality(Trying(i)') + Cardinality(Leaving(i)') + Exposure(i)' BY DEF Load
<1>3. fate[i].received + (Cardinality(Trying(i)) + Cardinality(Leaving(i)) + Exposure(i))
        <= 1 + upsets
  BY DEF Spared, Load
<1>4. fate'[i].received + Load(i)' <= 1 + upsets'
  BY <1>1, <1>2, <1>3, Numbers, NoneJoins
<1> QED BY <1>4, NoneJoins DEF Spared


\* Who works on a job, and whether it is waiting, by what the tables say of it.
LEMMA SameLoad ==
    ASSUME Shape, NEW i \in JobIds, job'[i] = job[i], runner' = runner,
           \A v \in Workers : hand'[v][i] = hand[v][i] /\ run'[v][i] = run[v][i]
    PROVE  /\ Trying(i)' \subseteq Trying(i) /\ Leaving(i)' \subseteq Leaving(i)
           /\ Exposed(i)' => Exposed(i)
<1>1. Trying(i)' \subseteq Trying(i) BY DEF Trying
<1>2. Leaving(i)' \subseteq Leaving(i) BY DEF Leaving, Holds
<1>3. job[i].lockedBy \in Workers \union {NoWorker} BY DEF Shape, Job
<1>4. Exposed(i)' => Exposed(i) BY <1>3 DEF Exposed, Forsaken, Holds
<1> QED BY <1>1, <1>2, <1>4

\* Nobody stops holding the job: it is not left to its lease.
LEMMA StillHeld ==
    ASSUME Shape, NEW i \in JobIds, job'[i] = job[i],
           \A v \in Workers : Holds(v, i) => hand'[v][i].stage # "none"
    PROVE  Exposed(i)' => Exposed(i)
<1>1. job[i].lockedBy \in Workers \union {NoWorker} BY DEF Shape, Job
<1> QED BY <1>1 DEF Exposed, Forsaken, Holds

LEMMA HandleSpared ==
    ASSUME RecordInv, AllSpared, [Next]_vars, NEW w \in Workers, NEW j \in JobIds, Handle(w, j)
    PROVE  AllSpared'
<1> SUFFICES ASSUME NEW i \in JobIds PROVE Spared(i)' BY DEF AllSpared
<1>1. /\ Recorded /\ Shape /\ run \in [Workers -> [JobIds -> Stage]]
      /\ fate \in [JobIds -> Fate] /\ \A k \in JobIds : fate[k].received \in Nat
  BY DEF RecordInv, DeliveryInv, QueueInv, Attached, Recorded, Fate
<1>2. Spared(i) BY DEF AllSpared
<1>3. /\ job' = job /\ runner' = runner
      /\ \A v \in Workers, k \in JobIds : (v # w \/ k # j) => /\ hand'[v][k] = hand[v][k]
                                                             /\ run'[v][k] = run[v][k]
  BY OthersKept
<1>4. fate' = fate \/ Told(j)
  BY DEF Handle, DropDelivery, StartPost, PostAccepted, PostUnanswered, PostRefused,
         RecordSuccess, RecordSuccessErrs, RecordFailure, DisableEndpoint, RecordFailureErrs,
         Received, Told
<1>5. CASE i # j
  <2>1. fate'[i] = fate[i] BY <1>1, <1>4, <1>5 DEF Told
  <2>2. /\ Trying(i)' \subseteq Trying(i) /\ Leaving(i)' \subseteq Leaving(i)
        /\ Exposed(i)' => Exposed(i)
    BY <1>1, <1>3, <1>5, SameLoad
  <2> QED BY <1>1, <1>2, <2>1, <2>2, SparedSame
<1>6. CASE i = j
  <2>1. /\ hand[w][j].stage = "handling"
        /\ run[w][j] # "none"
    BY DEF Handle, DropDelivery, StartPost, PostAccepted, PostUnanswered, PostRefused,
           RecordSuccess, RecordSuccessErrs, RecordFailure, DisableEndpoint,
           RecordFailureErrs, At, RecordInv, DeliveryInv, Attached
  <2>2. \/ hand' = hand
        \/ hand' = [hand EXCEPT ![w][j].stage = "returned"]
        \/ hand' = [hand EXCEPT ![w][j].stage = "threw"]
    BY DEF Handle, DropDelivery, StartPost, PostAccepted, PostUnanswered, PostRefused,
           RecordSuccess, RecordSuccessErrs, RecordFailure, DisableEndpoint,
           RecordFailureErrs, Return, Throw, queueVars
  <2>3. hand'[w][j].stage \in {"handling", "returned", "threw"}
    BY <1>1, <2>1, <2>2 DEF Shape, Claimed
  <2>4. \A v \in Workers : hand'[v][j].stage # "none" <=> hand[v][j].stage # "none"
    BY <1>3, <2>1, <2>3
  <2>5. Leaving(j)' \subseteq Leaving(j) BY <1>3, <2>4 DEF Leaving, Holds
  <2>6. Exposed(j)' => Exposed(j) BY <1>1, <1>3, <2>4, StillHeld DEF Holds
  <2>7. Trying(j)' \subseteq Trying(j) \union {w} BY <1>3 DEF Trying
  <2>8. CASE StartPost(w, j) \/ PostRefused(w, j) \/ DropDelivery(w, j) \/ RecordSuccess(w, j)
             \/ RecordFailure(w, j) \/ DisableEndpoint(w, j) \/ RecordFailureErrs(w, j)
    <3>1. w \in Trying(j)' => w \in Trying(j)
      <4>1. CASE RecordSuccess(w, j)
        <5>1. run'[w][j] = "none" /\ hand'[w][j].stage = "returned"
          BY <1>1, <4>1 DEF RecordSuccess, Goes, Return, Shape, Claimed
        <5> QED BY <5>1 DEF Trying
      <4>2. CASE ~RecordSuccess(w, j)
        BY <2>8, <4>2 DEF StartPost, PostRefused, DropDelivery, RecordFailure, DisableEndpoint,
                          RecordFailureErrs, At, Trying
      <4> QED BY <4>1, <4>2
    <3>2. Trying(j)' \subseteq Trying(j) BY <2>7, <3>1
    <3>3. fate'[j].received = fate[j].received
      <4>1. fate' = fate \/ fate' = [fate EXCEPT ![j].dropped = TRUE]
        BY <2>8 DEF StartPost, PostRefused, DropDelivery, RecordSuccess, RecordFailure,
                    DisableEndpoint, RecordFailureErrs
      <4> QED BY <1>1, <4>1 DEF Fate
    <3> QED BY <1>1, <1>2, <1>6, <2>5, <2>6, <3>2, <3>3, SparedSame
  <2>9. CASE PostAccepted(w, j)
    <3>1. w \in Trying(j) BY <2>9 DEF PostAccepted, At, Trying
    <3>2. run'[w][j] = "accepted" /\ hand' = hand
      BY <1>1, <2>9 DEF PostAccepted, Goes, queueVars
    <3>3. w \notin Trying(j)' BY <2>1, <3>2 DEF Trying
    <3>4. Trying(j)' \subseteq Trying(j) \ {w} BY <2>7, <3>3
    <3>5. fate'[j].received = fate[j].received + 1
      BY <1>1, <2>9 DEF PostAccepted, Received, Fate
    <3> QED BY <1>1, <1>2, <1>6, <2>5, <2>6, <3>1, <3>4, <3>5, SparedLeft
  <2>10. CASE PostUnanswered(w, j)
    <3>1. w \in Trying(j) BY <2>10 DEF PostUnanswered, At, Trying
    <3>2. Trying(j)' \subseteq Trying(j) BY <2>7, <3>1
    <3>3. fate'[j].received = fate[j].received + 1 /\ upsets' = upsets + 1
      BY <1>1, <2>10 DEF PostUnanswered, Received, Upset, Fate
    <3> QED BY <1>1, <1>2, <1>6, <2>5, <2>6, <3>2, <3>3, SparedUnanswered
  <2>11. CASE RecordSuccessErrs(w, j)
    <3>1. fate' = fate /\ upsets' = upsets + 1 BY <2>11 DEF RecordSuccessErrs, Upset
    <3> QED BY <1>1, <1>2, <1>6, <2>5, <2>6, <2>7, <3>1, SparedJoin
  <2> QED BY <2>8, <2>9, <2>10, <2>11 DEF Handle
<1> QED BY <1>5, <1>6

LEMMA SettleSpared ==
    ASSUME RecordInv, AllSpared, [Next]_vars, NEW w \in Workers, NEW j \in JobIds, Settle(w, j)
    PROVE  AllSpared'
<1> SUFFICES ASSUME NEW i \in JobIds PROVE Spared(i)' BY DEF AllSpared
<1>1. /\ Recorded /\ Shape /\ Shape'
  BY DeliveryInvKept DEF RecordInv, DeliveryInv, QueueInv
<1>2. Spared(i) BY DEF AllSpared
<1>3. run' = run /\ fate' = fate /\ runner' = runner
  BY DEF Settle, deliveryVars, Complete, CompleteErrs, Fail, FailErrs
<1>4. \A v \in Workers, k \in JobIds : (v # w \/ k # j) => hand'[v][k] = hand[v][k]
  BY <1>1, OneHand DEF Settle, Work
<1>5. hand[w][j].stage \in {"returned", "threw"} /\ run[w][j] = "none"
  BY DEF Settle, Complete, CompleteErrs, Fail, FailErrs, RecordInv, DeliveryInv, Attached
<1>6. CASE i # j
  <2>1. job'[i] = job[i]
    BY <1>1, <1>6 DEF Settle, Complete, CompleteErrs, Fail, FailErrs, Shape
  <2>2. /\ Trying(i)' \subseteq Trying(i) /\ Leaving(i)' \subseteq Leaving(i)
        /\ Exposed(i)' => Exposed(i)
    BY <1>1, <1>3, <1>4, <1>6, <2>1, SameLoad
  <2> QED BY <1>1, <1>2, <1>3, <2>2, SparedSame
<1>7. CASE i = j
  <2>1. Leaving(j)' \subseteq Leaving(j) BY <1>3, <1>4, <1>5 DEF Leaving, Holds
  <2>2. Trying(j)' \subseteq Trying(j) \union {w} BY <1>3, <1>4 DEF Trying
  <2>3. CASE Complete(w, j)
    <3>1. job'[j].status = "deleted" BY <1>1, <2>3 DEF Complete, Ended, Shape
    <3>2. ~Exposed(j)' BY <3>1 DEF Exposed
    <3>3. hand'[w][j] = NoClaim BY <1>1, <2>3 DEF Complete, Shape
    <3>4. w \notin Trying(j)' BY <1>3, <1>5, <3>3 DEF Trying, NoClaim
    <3> QED BY <1>1, <1>2, <1>3, <1>7, <2>1, <2>2, <3>2, <3>4, SparedSame
  <2>4. CASE CompleteErrs(w, j)
    <3>1. job' = job /\ upsets' = upsets + 1 BY <2>4 DEF CompleteErrs, Upset
    <3>2. hand'[w][j].stage = "threw" BY <1>1, <2>4 DEF CompleteErrs, Shape, Claimed
    <3>3. Exposed(j)' => Exposed(j) BY <1>1, <1>4, <3>1, <3>2, StillHeld DEF Holds
    <3> QED BY <1>1, <1>2, <1>3, <1>7, <2>1, <2>2, <3>1, <3>3, SparedJoin
  <2>5. CASE Fail(w, j) \/ FailErrs(w, j)
    <3>1. w \in Trying(j) BY <2>5 DEF Fail, FailErrs, Trying
    <3>2. hand'[w][j] = NoClaim BY <1>1, <2>5 DEF Fail, FailErrs, Shape
    <3>3. w \notin Trying(j)' BY <1>3, <1>5, <3>2 DEF Trying, NoClaim
    <3>4. Trying(j)' \subseteq Trying(j) \ {w} BY <2>2, <3>3
    <3> QED BY <1>1, <1>2, <1>3, <1>7, <2>1, <3>1, <3>4, SparedLeft
  <2> QED BY <2>3, <2>4, <2>5 DEF Settle
<1> QED BY <1>6, <1>7

\* A worker that claims a job takes it out of those that wait.
LEMMA ClaimSpared ==
    ASSUME RecordInv, AllSpared, [Next]_vars, NEW w \in Workers, NEW taken \in SUBSET JobIds,
           ClaimDeliveries(w, taken)
    PROVE  AllSpared'
<1> SUFFICES ASSUME NEW i \in JobIds PROVE Spared(i)' BY DEF AllSpared
<1>1. Recorded /\ Shape /\ run \in [Workers -> [JobIds -> Stage]]
  BY DEF RecordInv, DeliveryInv, QueueInv, Attached
<1>2. Spared(i) BY DEF AllSpared
<1>3. /\ fate' = fate /\ Claim(w, taken)
      /\ run' = [run EXCEPT ![w] = [k \in JobIds |-> IF k \in taken THEN "starting" ELSE run[w][k]]]
  BY DEF ClaimDeliveries
<1>4. \A v \in Workers : runner'[v].stopped = runner[v].stopped
  <2>1. runner' = [runner EXCEPT ![w].pass = "running"]
    BY <1>3 DEF Claim
  <2>2. runner'[w].stopped = runner[w].stopped BY <1>1, <2>1 DEF Shape, Runner
  <2>3. \A v \in Workers \ {w} : runner'[v] = runner[v] BY <1>1, <2>1 DEF Shape
  <2> QED BY <2>2, <2>3
<1>5. hand' = [hand EXCEPT ![w] = [k \in JobIds |->
                 IF k \in taken THEN [stage |-> "handling", attempts |-> job[k].attempts + 1]
                 ELSE hand[w][k]]]
  BY <1>3 DEF Claim
<1>6. \A v \in Workers \ {w} : hand'[v][i] = hand[v][i] /\ run'[v][i] = run[v][i]
  BY <1>1, <1>3, <1>5 DEF Shape
<1>7. CASE i \notin taken
  <2>1. job'[i] = job[i] BY <1>3, <1>7 DEF Claim
  <2>2. hand'[w][i] = hand[w][i] /\ run'[w][i] = run[w][i]
    BY <1>1, <1>3, <1>5, <1>7 DEF Shape
  <2>3. Trying(i)' \subseteq Trying(i) BY <1>6, <2>2 DEF Trying
  <2>4. Leaving(i)' \subseteq Leaving(i) BY <1>4, <1>6, <2>2 DEF Leaving, Holds
  <2>5. Exposed(i)' => Exposed(i) BY <1>1, <1>6, <2>1, <2>2, StillHeld DEF Holds
  <2> QED BY <1>1, <1>2, <1>3, <2>3, <2>4, <2>5, SparedSame
<1>8. CASE i \in taken
  <2>1. /\ job[i].status = "pending" /\ job'[i].status = "running"
        /\ job'[i].leased = TRUE /\ job'[i].lockedBy = w
    BY <1>3, <1>8 DEF Claim
  <2>2. hand'[w][i].stage = "handling" BY <1>1, <1>5, <1>8 DEF Shape
  <2>3. Exposed(i) /\ ~Exposed(i)'
    <3>1. w # NoWorker BY JobQueueAssumption DEF JobQueueAssumption
    <3>2. Exposed(i) BY <2>1 DEF Exposed
    <3>3. ~Forsaken(i)' BY <2>1, <2>2, <3>1 DEF Forsaken, Holds
    <3> QED BY <2>1, <3>2, <3>3 DEF Exposed
  <2>4. Trying(i)' \subseteq Trying(i) \union {w} BY <1>6 DEF Trying
  <2>5. ~runner[w].stopped BY <1>3 DEF Claim
  <2>6. Leaving(i)' \subseteq Leaving(i) BY <1>4, <1>6, <2>5 DEF Leaving, Holds
  <2> QED BY <1>1, <1>2, <1>3, <2>3, <2>4, <2>6, SparedJoin
<1> QED BY <1>7, <1>8


\* Processes: one that exits was stopped, for which it was counted, or dies.
LEMMA HaltSpared ==
    ASSUME RecordInv, AllSpared, [Next]_vars, NEW w \in Workers, HaltWorker(w)
    PROVE  AllSpared'
<1> SUFFICES ASSUME NEW i \in JobIds PROVE Spared(i)' BY DEF AllSpared
<1>1. Recorded /\ Shape /\ run \in [Workers -> [JobIds -> Stage]]
  BY DEF RecordInv, DeliveryInv, QueueInv, Attached
<1>2. Spared(i) BY DEF AllSpared
<1>3. /\ fate' = fate /\ job' = job
      /\ hand' = [hand EXCEPT ![w] = [k \in JobIds |-> NoClaim]]
      /\ run' = [run EXCEPT ![w] = [k \in JobIds |-> "none"]]
      /\ runner' = [runner EXCEPT ![w] = [pass |-> "down", stopped |-> FALSE]]
  BY DEF HaltWorker, Halt
<1>4. /\ hand'[w][i] = NoClaim /\ run'[w][i] = "none"
      /\ \A v \in Workers \ {w} : /\ hand'[v][i] = hand[v][i] /\ run'[v][i] = run[v][i]
                                  /\ runner'[v] = runner[v]
  BY <1>1, <1>3 DEF Shape
<1>5. Trying(i)' \subseteq Trying(i) BY <1>4 DEF Trying, NoClaim
<1>6. Leaving(i)' \subseteq Leaving(i) \ {w} BY <1>4 DEF Leaving, Holds, NoClaim
<1>7. CASE runner[w].stopped /\ Holds(w, i)
  <2>1. w \in Leaving(i) BY <1>7 DEF Leaving
  <2> QED BY <1>1, <1>2, <1>3, <1>5, <1>6, <2>1, SparedExit
<1>8. CASE ~Holds(w, i)
  <2>1. \A v \in Workers : Holds(v, i) => hand'[v][i].stage # "none" BY <1>4, <1>8 DEF Holds
  <2>2. Exposed(i)' => Exposed(i) BY <1>1, <1>3, <2>1, StillHeld
  <2> QED BY <1>1, <1>2, <1>3, <1>5, <1>6, <2>2, SparedSame
<1>9. CASE ~runner[w].stopped
  <2>1. upsets' = upsets + 1 BY <1>9 DEF HaltWorker, Halt, Upset
  <2> QED BY <1>1, <1>2, <1>3, <1>5, <1>6, <2>1, SparedSame
<1> QED BY <1>7, <1>8, <1>9

LEMMA ManageSpared ==
    ASSUME RecordInv, AllSpared, [Next]_vars, NEW w \in Workers, Manage(w)
    PROVE  AllSpared'
<1> SUFFICES ASSUME NEW i \in JobIds PROVE Spared(i)' BY DEF AllSpared
<1>1. Recorded /\ Shape BY DEF RecordInv, DeliveryInv, QueueInv
<1>2. Spared(i) BY DEF AllSpared
<1>3. fate' = fate /\ run' = run BY DEF Manage, deliveryVars
<1>4. hand' = hand BY DEF Manage, BeginPass, EndPass, Stop, Start
<1>5. Trying(i)' \subseteq Trying(i) BY <1>3, <1>4 DEF Trying
<1>6. CASE Stop(w)
  <2>1. job' = job /\ upsets' = upsets + 1 BY <1>6 DEF Stop, Upset
  <2>2. \A v \in Workers \ {w} : runner'[v] = runner[v] BY <1>1, <1>6 DEF Stop, Shape
  <2>3. Leaving(i)' \subseteq Leaving(i) \union {w} BY <1>4, <2>2 DEF Leaving, Holds
  <2>4. Exposed(i)' => Exposed(i) BY <1>1, <1>4, <2>1, StillHeld DEF Holds
  <2> QED BY <1>1, <1>2, <1>3, <1>5, <2>1, <2>3, <2>4, SparedJoin
<1>7. CASE BeginPass(w) \/ EndPass(w) \/ Start(w)
  <2>1. \A v \in Workers : runner'[v].stopped = runner[v].stopped
    <3>1. PICK pass \in {"claiming", "idle"} : runner' = [runner EXCEPT ![w].pass = pass]
      BY <1>7 DEF BeginPass, EndPass, Start
    <3>2. runner'[w].stopped = runner[w].stopped BY <1>1, <3>1 DEF Shape, Runner
    <3>3. \A v \in Workers \ {w} : runner'[v] = runner[v] BY <1>1, <3>1 DEF Shape
    <3> QED BY <3>2, <3>3
  <2>2. Leaving(i)' \subseteq Leaving(i) BY <1>4, <2>1 DEF Leaving, Holds
  <2>3. CASE job'[i] = job[i]
    <3>1. Exposed(i)' => Exposed(i) BY <1>1, <1>4, <2>3, StillHeld DEF Holds
    <3> QED BY <1>1, <1>2, <1>3, <1>5, <2>2, <3>1, SparedSame
  <2>4. CASE job'[i] # job[i]
    <3>1. Elapsed(i) BY <1>7, <2>4 DEF BeginPass, EndPass, Start
    <3>2. Exposed(i) BY <3>1 DEF Elapsed, Exposed
    <3> QED BY <1>1, <1>2, <1>3, <1>5, <2>2, <3>2, SparedSame
  <2> QED BY <2>3, <2>4
<1> QED BY <1>6, <1>7 DEF Manage

LEMMA RowSpared ==
    ASSUME RecordInv, AllSpared, [Next]_vars, NEW j \in JobIds,
           RetryJob(j) \/ DestroyJob(j) \/ Elapse(j)
    PROVE  AllSpared'
<1> SUFFICES ASSUME NEW i \in JobIds PROVE Spared(i)' BY DEF AllSpared
<1>1. Recorded /\ Shape /\ fate \in [JobIds -> Fate]
  BY DEF RecordInv, DeliveryInv, QueueInv, Recorded
<1>2. Spared(i) BY DEF AllSpared
<1>3. UNCHANGED <<hand, run, runner>>
  BY DEF RetryJob, Retry, DestroyJob, Destroy, Elapse, LeaseElapses, deliveryVars, UnchangedRows
<1>4. Trying(i)' \subseteq Trying(i) /\ Leaving(i)' \subseteq Leaving(i)
  BY <1>3 DEF Trying, Leaving, Holds
<1>5. fate'[i].received = fate[i].received
  <2>1. fate' = fate \/ fate' = [fate EXCEPT ![j].destroyed = TRUE]
    BY DEF RetryJob, DestroyJob, Elapse, deliveryVars
  <2> QED BY <1>1, <2>1 DEF Fate
<1>6. (Exposed(i)' => Exposed(i)) \/ upsets' = upsets + 1
  <2>1. CASE job'[i] = job[i]
    BY <1>1, <1>3, <2>1, StillHeld DEF Holds
  <2>2. CASE RetryJob(j) \/ DestroyJob(j)
    <3>1. CASE i = j BY <2>2, <3>1 DEF RetryJob, Retry, DestroyJob, Destroy, Exposed
    <3>2. CASE i # j
      <4>1. job'[i] = job[i]
        BY <1>1, <2>2, <3>2 DEF RetryJob, Retry, DestroyJob, Destroy, Shape
      <4> QED BY <2>1, <4>1
    <3> QED BY <3>1, <3>2
  <2>3. CASE Elapse(j)
    <3>1. CASE i = j BY <2>3, <3>1 DEF Elapse, LeaseElapses, Upset, Exposed
    <3>2. CASE i # j
      <4>1. job'[i] = job[i] BY <1>1, <2>3, <3>2 DEF Elapse, LeaseElapses, Shape
      <4> QED BY <2>1, <4>1
    <3> QED BY <3>1, <3>2
  <2> QED BY <2>2, <2>3
<1> QED BY <1>1, <1>2, <1>4, <1>5, <1>6, SparedSame

LEMMA PublisherSpared ==
    ASSUME RecordInv, AllSpared, [Next]_vars, Publisher
    PROVE  AllSpared'
<1> SUFFICES ASSUME NEW i \in JobIds PROVE Spared(i)' BY DEF AllSpared
<1>1. Recorded /\ Shape BY DEF RecordInv, DeliveryInv, QueueInv
<1>2. Spared(i) BY DEF AllSpared
<1>3. UNCHANGED <<hand, run, runner, fate>>
  BY DEF Publisher, PublishSmsEvent, RaiseAlert, Publish, EnqueueDelivery, Enqueue, PublishErrs,
         queueVars
<1>4. Trying(i)' \subseteq Trying(i) /\ Leaving(i)' \subseteq Leaving(i)
  BY <1>3 DEF Trying, Leaving, Holds
<1>5. job'[i] = job[i] \/ Exposed(i)
  BY <1>1 DEF Publisher, PublishSmsEvent, RaiseAlert, Publish, EnqueueDelivery, Enqueue, PublishErrs,
              queueVars, Shape, Exposed
<1>6. Exposed(i)' => Exposed(i) BY <1>1, <1>3, <1>5, StillHeld DEF Holds
<1> QED BY <1>1, <1>2, <1>3, <1>4, <1>6, SparedSame

LEMMA SparedKept ==
    ASSUME RecordInv, AllSpared, [Next]_vars
    PROVE  AllSpared'
<1>1. Recorded /\ Shape BY DEF RecordInv, DeliveryInv, QueueInv
<1>2. ASSUME UNCHANGED <<queueVars, run, fate>> PROVE AllSpared'
  <2> SUFFICES ASSUME NEW i \in JobIds PROVE Spared(i)' BY DEF AllSpared
  <2>1. /\ Trying(i)' \subseteq Trying(i) /\ Leaving(i)' \subseteq Leaving(i)
        /\ Exposed(i)' => Exposed(i)
    BY <1>1, <1>2, SameLoad DEF queueVars
  <2> QED BY <1>1, <1>2, <2>1, SparedSame DEF AllSpared
<1>3. CASE UNCHANGED vars BY <1>2, <1>3 DEF vars, deliveryVars
<1>4. CASE Tenant BY <1>1, <1>2, <1>4, TenantRest
<1> QED BY <1>3, <1>4, PublisherSpared, RowSpared, ManageSpared, HaltSpared, ClaimSpared, HandleSpared,
           SettleSpared DEF Next

LEMMA SparedInit ==
    ASSUME Init
    PROVE  AllSpared
<1> SUFFICES ASSUME NEW j \in JobIds PROVE Spared(j) BY DEF AllSpared
<1>1. Trying(j) = {} /\ Leaving(j) = {} BY DEF Init, QueueInit, NoClaim, Trying, Leaving
<1>2. IsFiniteSet({}) /\ Cardinality({}) = 0 BY FS_EmptySet
<1>3. Exposure(j) = 1 BY DEF Init, QueueInit, NoJob, Exposure, Exposed
<1>4. fate[j].received = 0 /\ upsets = 0 BY DEF Init, QueueInit
<1> QED BY <1>1, <1>2, <1>3, <1>4 DEF Spared, Finite, Load

\* A receiver sees one delivery once, and once more for each crash, stop, stall,
\* failed statement or lost answer at most, for any number of workers and jobs
\* and whatever overlaps: workers that no longer hold the job still post it, put
\* it back or fail it (JobRunner.run, WebhookSender.handle).
THEOREM DuplicatesAreBounded == Spec => []DuplicatesNeedUpset
<1>1. Init => RecordInv /\ AllSpared BY RecordInvInit, SparedInit
<1>2. RecordInv /\ AllSpared /\ [Next]_vars => (RecordInv /\ AllSpared)'
  BY RecordInvKept, SparedKept
<1>3. RecordInv /\ AllSpared => DuplicatesNeedUpset
  <2> SUFFICES ASSUME RecordInv, AllSpared, NEW j \in JobIds PROVE fate[j].received <= 1 + upsets
    BY DEF DuplicatesNeedUpset
  <2>1. Spared(j) BY DEF AllSpared
  <2>2. fate[j].received \in Nat /\ upsets \in Nat
    <3>1. MaxUpsets \in Nat BY JobQueueAssumption DEF JobQueueAssumption
    <3> QED BY <3>1 DEF RecordInv, Recorded, Fate
  <2>3. Cardinality(Trying(j)) \in Nat /\ Cardinality(Leaving(j)) \in Nat
    BY <2>1, FS_CardinalityType DEF Spared, Finite
  <2>4. Exposure(j) \in Nat BY DEF Exposure
  <2> QED BY <2>1, <2>2, <2>3, <2>4 DEF Spared, Load
<1> QED BY <1>1, <1>2, <1>3, PTL DEF Spec
=============================================================================
