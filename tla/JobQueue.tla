------------------------------ MODULE JobQueue ------------------------------
(***************************************************************************)
(* The jobs table and the runners that drain it, for any handler.  A job   *)
(* is claimed under a lease, handled, and then deleted, put back, or left  *)
(* as failed.  Completing and failing look at the id of the job alone, not *)
(* at who holds it, so a worker that was taken for dead still has its say. *)
(*                                                                         *)
(* Time is reduced to a lease that runs or has elapsed; the backoff of a   *)
(* job put back is part of the delay before the next claim.                *)
(***************************************************************************)
EXTENDS Naturals, FiniteSets

CONSTANTS
    Workers,       \* processes that run a JobRunner
    Keys,          \* dedupe keys; every caller passes one
    MaxJobs,       \* bound on the rows ever written
    MaxAttempts,   \* maxAttempts of every job
    BatchSize,     \* jobs claimed in one pass
    MaxUpsets,     \* bound on crashes, stalls, failed statements and lost answers
    MaxRetries,    \* bound on retries asked for by an administrator
    NoWorker, NoKey

ASSUME JobQueueAssumption ==
    /\ MaxJobs \in Nat /\ MaxUpsets \in Nat /\ MaxRetries \in Nat
    /\ MaxAttempts \in Nat \ {0} /\ BatchSize \in Nat \ {0}
    /\ NoWorker \notin Workers /\ NoKey \notin Keys

VARIABLES
    job,       \* the table, by id
    runner,    \* how far the pass of each process is
    hand,      \* what a process does with the jobs it claimed, by process and id
    past,      \* history: how often a job was claimed, reclaimed, outlived, retried
    upsets

queueVars == <<job, runner, hand, past, upsets>>

JobIds == 1 .. MaxJobs

-----------------------------------------------------------------------------
Job == [status : {"none", "pending", "running", "failed", "deleted"}, attempts : Nat,
        leased : BOOLEAN, lockedBy : Workers \union {NoWorker}, key : Keys \union {NoKey}]

NoJob == [status |-> "none", attempts |-> 0, leased |-> FALSE, lockedBy |-> NoWorker,
          key |-> NoKey]

Runner == [pass : {"down", "idle", "claiming", "running"}, stopped : BOOLEAN]

\* The copy of a claimed job: its attempts, and whether its handler still runs.
Claimed == [stage : {"none", "handling", "returned", "threw"}, attempts : Nat]
NoClaim == [stage |-> "none", attempts |-> 0]

Past == [claims : Nat, reclaims : Nat, stalls : Nat, retries : Nat]

QueueTypeOK ==
    /\ job \in [JobIds -> Job]
    /\ runner \in [Workers -> Runner]
    /\ hand \in [Workers -> [JobIds -> Claimed]]
    /\ past \in [JobIds -> Past]
    /\ upsets \in 0 .. MaxUpsets

QueueInit ==
    /\ job = [j \in JobIds |-> NoJob]
    /\ runner = [w \in Workers |-> [pass |-> "idle", stopped |-> FALSE]]
    /\ hand = [w \in Workers |-> [j \in JobIds |-> NoClaim]]
    /\ past = [j \in JobIds |-> [claims |-> 0, reclaims |-> 0, stalls |-> 0, retries |-> 0]]
    /\ upsets = 0

Holds(w, j) == hand[w][j].stage # "none"

\* The unique index on (queue, dedupe_key), which leaves failed rows out.
Live(j) == job[j].status \in {"pending", "running"}
Collides(k) == \E j \in JobIds : Live(j) /\ job[j].key = k

\* Mutant: an attempt that did not succeed is given back.
WaitingUncounted(j, attempts) ==
    [status |-> "pending", attempts |-> attempts - 1, leased |-> FALSE,
     lockedBy |-> NoWorker, key |-> job[j].key]

\* The row of a job that waits for the next claim.
Waiting(j, attempts) == [status |-> "pending", attempts |-> attempts, leased |-> FALSE,
                         lockedBy |-> NoWorker, key |-> job[j].key]

\* Mutant: what is over is deleted, failed or not.
EndedForGood(j, status) ==
    [status |-> "deleted", attempts |-> job[j].attempts, leased |-> FALSE,
     lockedBy |-> NoWorker, key |-> job[j].key]

Ended(j, status) == [status |-> status, attempts |-> job[j].attempts, leased |-> FALSE,
                     lockedBy |-> NoWorker, key |-> job[j].key]

Upset == upsets < MaxUpsets /\ upsets' = upsets + 1

-----------------------------------------------------------------------------
(* Producers and administrators. *)

\* A job whose key waits or runs already is dropped, and its caller not told.
Enqueue(k) ==
    \/ /\ Collides(k)
       /\ UNCHANGED queueVars
    \/ /\ ~Collides(k)
       /\ \E j \in JobIds :
            /\ job[j].status = "none"
            /\ \A i \in 1 .. (j - 1) : job[i].status # "none"
            /\ job' = [job EXCEPT ![j] =
                 [status |-> "pending", attempts |-> 0, leased |-> FALSE,
                  lockedBy |-> NoWorker, key |-> k]]
       /\ UNCHANGED <<runner, hand, past, upsets>>

\* A failed job is given all its attempts again, unless its key is taken.
Retry(j) ==
    /\ job[j].status = "failed" /\ ~Collides(job[j].key)
    /\ past[j].retries < MaxRetries
    /\ job' = [job EXCEPT ![j] = Waiting(j, 0)]
    /\ past' = [past EXCEPT ![j].retries = @ + 1]
    /\ UNCHANGED <<runner, hand, upsets>>

Destroy(j) ==
    /\ job[j].status = "failed"
    /\ job' = [job EXCEPT ![j] = Ended(j, "deleted")]
    /\ UNCHANGED <<runner, hand, past, upsets>>

-----------------------------------------------------------------------------
(* The pass of a runner.  Only one is under way in a process. *)

\* Mutant: whatever is running is freed.
ElapsedOrNot(j) == job[j].status = "running"

\* Mutant: a job without attempts left is not freed.
ElapsedRetriable(j) ==
    job[j].status = "running" /\ ~job[j].leased /\ job[j].attempts < MaxAttempts

Elapsed(j) == job[j].status = "running" /\ ~job[j].leased

\* A pass begins by freeing every job whose lease has elapsed.
BeginPass(w) ==
    /\ runner[w] = [pass |-> "idle", stopped |-> FALSE]
    /\ runner' = [runner EXCEPT ![w].pass = "claiming"]
    /\ job' = [j \in JobIds |-> IF Elapsed(j) THEN Waiting(j, job[j].attempts) ELSE job[j]]
    /\ past' = [j \in JobIds |->
                  IF Elapsed(j) THEN [past[j] EXCEPT !.reclaims = @ + 1] ELSE past[j]]
    /\ UNCHANGED <<hand, upsets>>

\* One statement takes some of the waiting jobs; nobody else can take them.
Claim(w, taken) ==
    /\ runner[w] = [pass |-> "claiming", stopped |-> FALSE]
    /\ taken # {} /\ Cardinality(taken) <= BatchSize
    /\ \A j \in taken : job[j].status = "pending"
    /\ runner' = [runner EXCEPT ![w].pass = "running"]
    /\ job' = [j \in JobIds |->
                 IF j \in taken
                 THEN [status |-> "running", attempts |-> job[j].attempts + 1,
                       leased |-> TRUE, lockedBy |-> w, key |-> job[j].key]
                 ELSE job[j]]
    /\ hand' = [hand EXCEPT ![w] = [j \in JobIds |->
                  IF j \in taken
                  THEN [stage |-> "handling", attempts |-> job[j].attempts + 1]
                  ELSE hand[w][j]]]
    /\ past' = [j \in JobIds |->
                  IF j \in taken THEN [past[j] EXCEPT !.claims = @ + 1] ELSE past[j]]
    /\ UNCHANGED upsets

\* Nothing is waiting, the runner was stopped, or all that was claimed is done.
EndPass(w) ==
    /\ \/ /\ runner[w].pass = "claiming"
          /\ runner[w].stopped \/ \A j \in JobIds : job[j].status # "pending"
       \/ /\ runner[w].pass = "running"
          /\ \A j \in JobIds : ~Holds(w, j)
    /\ runner' = [runner EXCEPT ![w].pass = "idle"]
    /\ UNCHANGED <<job, hand, past, upsets>>

-----------------------------------------------------------------------------
(* One claimed job. *)

Return(w, j) ==
    /\ hand[w][j].stage = "handling"
    /\ hand' = [hand EXCEPT ![w][j].stage = "returned"]
    /\ UNCHANGED <<job, runner, past, upsets>>

Throw(w, j) ==
    /\ hand[w][j].stage = "handling"
    /\ hand' = [hand EXCEPT ![w][j].stage = "threw"]
    /\ UNCHANGED <<job, runner, past, upsets>>

\* The job is deleted, whoever holds it by now.
Complete(w, j) ==
    /\ hand[w][j].stage = "returned"
    /\ job' = [job EXCEPT ![j] = Ended(j, "deleted")]
    /\ hand' = [hand EXCEPT ![w][j] = NoClaim]
    /\ UNCHANGED <<runner, past, upsets>>

\* The delete is inside the try: if it fails, the job is failed.
CompleteErrs(w, j) ==
    /\ hand[w][j].stage = "returned"
    /\ Upset
    /\ hand' = [hand EXCEPT ![w][j].stage = "threw"]
    /\ UNCHANGED <<job, runner, past>>

\* Mutant: one attempt too many.
GivesUpLate(w, j) == hand[w][j].attempts > MaxAttempts

GivesUp(w, j) == hand[w][j].attempts >= MaxAttempts

\* The job is put back or left as failed, whoever holds it by now.  Putting
\* back a row that has failed meanwhile is refused if its key is taken again.
Fail(w, j) ==
    /\ hand[w][j].stage = "threw"
    /\ hand' = [hand EXCEPT ![w][j] = NoClaim]
    /\ job' = [job EXCEPT ![j] =
         IF job[j].status = "deleted" THEN job[j]
         ELSE IF GivesUp(w, j) THEN Ended(j, "failed")
         ELSE IF job[j].status = "failed" /\ Collides(job[j].key) THEN job[j]
         ELSE Waiting(j, job[j].attempts)]
    /\ UNCHANGED <<runner, past, upsets>>

\* The failure could not be recorded; the job is left to its lease.
FailErrs(w, j) ==
    /\ hand[w][j].stage = "threw"
    /\ Upset
    /\ hand' = [hand EXCEPT ![w][j] = NoClaim]
    /\ UNCHANGED <<job, runner, past>>

-----------------------------------------------------------------------------
(* Time and processes. *)

Forsaken(j) == job[j].lockedBy = NoWorker \/ ~Holds(job[j].lockedBy, j)

\* Handlers are over well within a lease, so that one elapses when its holder
\* has gone, or when something held that up: a stall.
LeaseElapses(j) ==
    /\ job[j].status = "running" /\ job[j].leased
    /\ \/ Forsaken(j) /\ UNCHANGED <<past, upsets>>
       \/ ~Forsaken(j) /\ Upset /\ past' = [past EXCEPT ![j].stalls = @ + 1]
    /\ job' = [job EXCEPT ![j].leased = FALSE]
    /\ UNCHANGED <<runner, hand>>

\* No further pass; what was claimed goes on for as long as the process lives.
Stop(w) ==
    /\ runner[w].pass # "down" /\ ~runner[w].stopped
    /\ Upset
    /\ runner' = [runner EXCEPT ![w].stopped = TRUE]
    /\ UNCHANGED <<job, hand, past>>

\* A stopped process exits, or a process dies, with whatever it was doing.
Halt(w) ==
    /\ runner[w].pass # "down"
    /\ \/ runner[w].stopped /\ UNCHANGED upsets
       \/ ~runner[w].stopped /\ Upset
    /\ runner' = [runner EXCEPT ![w] = [pass |-> "down", stopped |-> FALSE]]
    /\ hand' = [hand EXCEPT ![w] = [j \in JobIds |-> NoClaim]]
    /\ UNCHANGED <<job, past>>

Start(w) ==
    /\ runner[w].pass = "down"
    /\ runner' = [runner EXCEPT ![w].pass = "idle"]
    /\ UNCHANGED <<job, hand, past, upsets>>

-----------------------------------------------------------------------------
Work(w, j) == \/ Return(w, j) \/ Throw(w, j) \/ Complete(w, j) \/ CompleteErrs(w, j)
              \/ Fail(w, j) \/ FailErrs(w, j)

Process(w) == \/ BeginPass(w) \/ EndPass(w) \/ Stop(w) \/ Halt(w) \/ Start(w)
              \/ \E taken \in SUBSET JobIds : Claim(w, taken)

QueueNext ==
    \/ \E k \in Keys : Enqueue(k)
    \/ \E j \in JobIds : Retry(j) \/ Destroy(j) \/ LeaseElapses(j)
    \/ \E w \in Workers : Process(w) \/ \E j \in JobIds : Work(w, j)

QueueSpec == QueueInit /\ [][QueueNext]_queueVars

-----------------------------------------------------------------------------
\* As long as no handler of a job outlives its lease, nobody but the holder of
\* the lease works on the job, through crashes, restarts and failed statements,
\* although neither complete nor fail asks who holds it.
RunAlone ==
    \A j \in JobIds : past[j].stalls = 0 =>
      \A w \in Workers : Holds(w, j) => job[j].status = "running" /\ job[j].lockedBy = w

\* A job is claimed no more often than its attempts allow, but for one claim per
\* lease that elapsed: the count survives a reclaim, also when the worker that
\* was taken for dead fails the job over its successor.
ClaimsWithinBudget ==
    \A j \in JobIds :
      past[j].claims <= MaxAttempts * (1 + past[j].retries) + past[j].reclaims
=============================================================================
