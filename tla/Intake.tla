------------------------------- MODULE Intake -------------------------------
(***************************************************************************)
(* How the messages of one API client are accepted: one at a time, in a    *)
(* batch (each entry on its own, one after the other) or in bulk (written  *)
(* together).  Requests run concurrently, against a rate limit counted off *)
(* the rows themselves, and may carry an idempotency key, under which a    *)
(* caller that got no answer asks again.                                   *)
(*                                                                         *)
(* Cut where a request awaits the database; a transaction is one step.     *)
(* Which of its checks refuses an entry (number, length, operator, device) *)
(* is left open: Reject and Sort may refuse any.                           *)
(***************************************************************************)
EXTENDS Naturals, Sequences, FiniteSets

CONSTANTS
    Callers,      \* requests that may be under way at once
    Keys,         \* idempotency keys, as the header gives them
    Contents,     \* a number together with a text
    Limit,        \* rate_limit_per_min of the client; 0 is no limit
    Bodies,       \* the entries a request may carry
    MaxEntries,   \* bound on the entries of a request
    MaxRequests,  \* bound on the requests made
    MaxUpsets,    \* bound on statements that fail and processes that die
    MaxSlides,    \* bound on rows that leave the window
    NoKey

ASSUME IntakeAssumption ==
    /\ Limit \in Nat /\ MaxEntries \in Nat \ {0}
    /\ \A body \in Bodies : body \in Seq(Contents) /\ Len(body) \in 1 .. MaxEntries
    /\ MaxRequests \in Nat /\ MaxUpsets \in Nat /\ MaxSlides \in Nat
    /\ NoKey \notin Keys \union (Keys \X (0 .. MaxEntries)) /\ IsFiniteSet(Callers)

VARIABLES
    rows,    \* sms_messages, in the order they were inserted
    call,    \* the request each caller has under way, or its answer
    asked, upsets, slides,
    crowd    \* history: what the others had still to write at the last admission

vars == <<rows, call, asked, upsets, slides, crowd>>

-----------------------------------------------------------------------------
Kinds == {"single", "batch", "bulk"}

\* weighing: before the rate limit.  looking, creating, tracing: send, for the
\* entry at hand.  sorting, resolving, inserting: sendBulk.  The last four are
\* the ends a request may come to.
Working == {"weighing", "looking", "creating", "tracing", "sorting", "resolving", "inserting"}
Ended == {"none", "limited", "answered", "failed"}

Outcomes == {"open", "accepted", "duplicate", "conflict", "rejected", "repeated"}
Result == [is : Outcomes, row : Nat]
Is(outcome, row) == [is |-> outcome, row |-> row]

Call == [step : Working \union Ended, id : 0 .. MaxRequests, kind : Kinds,
         key : Keys \union {NoKey}, entries : Seq(Contents), at : 1 .. MaxEntries,
         pass : {0, 1}, results : Seq(Result)]
NoCall == [step |-> "none", id |-> 0, kind |-> "single", key |-> NoKey, entries |-> <<>>,
           at |-> 1, pass |-> 0, results |-> <<>>]

\* traced: how many of a message's first two events are written.  fresh: created
\* within the last minute.
Row == [key : {NoKey} \union (Keys \X (0 .. MaxEntries)), content : Contents,
        by : 1 .. MaxRequests, traced : 0 .. 2, fresh : BOOLEAN]

TypeOK ==
    /\ rows \in Seq(Row)
    /\ call \in [Callers -> Call]
    /\ \A p \in Callers : Len(call[p].results) = Len(call[p].entries)
    /\ asked \in 0 .. MaxRequests /\ upsets \in 0 .. MaxUpsets
    /\ slides \in 0 .. MaxSlides /\ crowd \in Nat

Init ==
    /\ rows = <<>>
    /\ call = [p \in Callers |-> NoCall]
    /\ asked = 0 /\ upsets = 0 /\ slides = 0
    /\ crowd = 0

-----------------------------------------------------------------------------
Entries(p) == 1 .. Len(call[p].entries)

\* The key an entry is stored under: of a batch, the index is part of it.
KeyOf(p, i) ==
    IF call[p].key = NoKey THEN NoKey
    ELSE <<call[p].key, IF call[p].kind = "single" THEN 0 ELSE i>>

\* The rows stored under a key: at most one, which the unique index sees to.
Under(key) == {n \in DOMAIN rows : key # NoKey /\ rows[n].key = key}

\* assertSamePayload: a replayed key must describe the same message.
Replay(p, i, n) ==
    Is(IF rows[n].content = call[p].entries[i] THEN "duplicate" ELSE "conflict", n)

\* Mutant: the winner of a race is answered whatever it says.
WinnerUnread(p, i, n) == Is("duplicate", n)

\* The insert was refused: another request stored a message under the key since.
Winner(p, i, n) == Replay(p, i, n)

NewRow(p, i, traced) ==
    [key |-> KeyOf(p, i), content |-> call[p].entries[i], by |-> call[p].id,
     traced |-> traced, fresh |-> TRUE]

-----------------------------------------------------------------------------
(* The request, and the rate limit. *)

Ask(p, kind, key, entries) ==
    /\ call[p].step \in Ended
    /\ asked < MaxRequests
    /\ kind = "single" => Len(entries) = 1
    /\ asked' = asked + 1
    /\ call' = [call EXCEPT ![p] = [NoCall EXCEPT !.step = "weighing", !.id = asked + 1,
                  !.kind = kind, !.key = key, !.entries = entries,
                  !.results = [i \in 1 .. Len(entries) |-> Is("open", 0)]]]
    /\ UNCHANGED <<rows, upsets, slides, crowd>>

\* Mutant: a batch costs what a single message costs.
CostOfOne(p) == 1

\* Every entry counts, those later refused or found to be replays too.
Cost(p) == Len(call[p].entries)

\* RateLimiter.usage
Usage == Cardinality({n \in DOMAIN rows : rows[n].fresh})

\* What a request has been admitted for and may still write.
Outstanding(p) ==
    IF call[p].step \in Working \ {"weighing"}
    THEN Len(call[p].entries) - Cardinality({n \in DOMAIN rows : rows[n].by = call[p].id})
    ELSE 0

\* The same of all requests but one, counted entry by entry.
Crowd(p) == Cardinality({d \in (Callers \ {p}) \X (1 .. MaxEntries) : d[2] <= Outstanding(d[1])})

Admits(p) == Limit = 0 \/ Usage + Cost(p) <= Limit

Weigh(p) ==
    /\ call[p].step = "weighing"
    /\ IF Admits(p)
       THEN /\ call' = [call EXCEPT ![p].step =
                          IF call[p].kind = "bulk" THEN "sorting" ELSE "looking"]
            /\ crowd' = Crowd(p)
       ELSE /\ call' = [call EXCEPT ![p].step = "limited"]
            /\ UNCHANGED crowd
    /\ UNCHANGED <<rows, asked, upsets, slides>>

-----------------------------------------------------------------------------
(* send, and sendBatch around it. *)

\* The entry has its answer; the next one, or the response, follows.
Answered(p, result) ==
    LET last == call[p].at = Len(call[p].entries)
    IN  [call[p] EXCEPT !.results[call[p].at] = result,
                        !.step = IF last THEN "answered" ELSE "looking",
                        !.at = IF last THEN @ ELSE @ + 1]

\* Before the key is looked up, for its number or length; after it, for the
\* operator or the device it names.
Reject(p) ==
    /\ call[p].step \in {"looking", "creating"}
    /\ call' = [call EXCEPT ![p] = Answered(p, Is("rejected", 0))]
    /\ UNCHANGED <<rows, asked, upsets, slides, crowd>>

LookUp(p) ==
    LET i == call[p].at
        found == Under(KeyOf(p, i))
    IN  /\ call[p].step = "looking"
        /\ \/ /\ found = {}
              /\ call' = [call EXCEPT ![p].step = "creating"]
           \/ \E n \in found : call' = [call EXCEPT ![p] = Answered(p, Replay(p, i, n))]
        /\ UNCHANGED <<rows, asked, upsets, slides, crowd>>

\* Mutant: there is no unique index, and the lookup is relied on.
CreateAnyway(p) ==
    LET i == call[p].at
    IN  /\ call[p].step = "creating"
        /\ rows' = Append(rows, NewRow(p, i, 0))
        /\ call' = [call EXCEPT ![p].step = "tracing",
                                ![p].results[i] = Is("open", Len(rows) + 1)]
        /\ UNCHANGED <<asked, upsets, slides, crowd>>

\* Refused by the unique index, the request reads the row that is there.
Create(p) ==
    LET i == call[p].at
        found == Under(KeyOf(p, i))
    IN  /\ call[p].step = "creating"
        /\ \/ /\ found = {}
              /\ rows' = Append(rows, NewRow(p, i, 0))
              /\ call' = [call EXCEPT ![p].step = "tracing",
                                      ![p].results[i] = Is("open", Len(rows) + 1)]
           \/ \E n \in found :
                /\ call' = [call EXCEPT ![p] = Answered(p, Winner(p, i, n))]
                /\ UNCHANGED rows
        /\ UNCHANGED <<asked, upsets, slides, crowd>>

\* The events follow the message, each in a statement of its own.
Trace(p) ==
    LET n == call[p].results[call[p].at].row
    IN  /\ call[p].step = "tracing"
        /\ rows' = [rows EXCEPT ![n].traced = @ + 1]
        /\ call' = IF rows[n].traced = 0 THEN call
                   ELSE [call EXCEPT ![p] = Answered(p, Is("accepted", n))]
        /\ UNCHANGED <<asked, upsets, slides, crowd>>

-----------------------------------------------------------------------------
(* sendBulk. *)

\* An entry that repeats an earlier one is refused, unless the earlier one was
\* refused for another reason.
Repeated(p, i, bad) ==
    \E j \in 1 .. i - 1 : j \notin bad /\ call[p].entries[j] = call[p].entries[i]

Sort(p) ==
    /\ call[p].step = "sorting"
    /\ \E bad \in SUBSET Entries(p) :
         call' = [call EXCEPT ![p].step = "resolving",
                    ![p].results = [i \in Entries(p) |->
                       IF Repeated(p, i, bad) THEN Is("repeated", 0)
                       ELSE IF i \in bad THEN Is("rejected", 0)
                       ELSE Is("open", 0)]]
    /\ UNCHANGED <<rows, asked, upsets, slides, crowd>>

Remaining(p) == {i \in Entries(p) : call[p].results[i].is = "open"}

\* One query for all keys.
Resolve(p) ==
    /\ call[p].step = "resolving"
    /\ call' = [call EXCEPT ![p].step = "inserting",
                  ![p].results = [i \in Entries(p) |->
                     IF i \in Remaining(p) /\ Under(KeyOf(p, i)) # {}
                     THEN Replay(p, i, CHOOSE n \in Under(KeyOf(p, i)) : TRUE)
                     ELSE call[p].results[i]]]
    /\ UNCHANGED <<rows, asked, upsets, slides, crowd>>

\* Where an entry's row goes, when those that remain are written in order.
Place(p, i) == Len(rows) + Cardinality({j \in Remaining(p) : j <= i})

\* One more pass finds what a concurrent replay of the request stored.
AfterRefusal(p) ==
    IF call[p].pass = 0 THEN [call[p] EXCEPT !.step = "resolving", !.pass = 1]
    ELSE [call[p] EXCEPT !.step = "failed"]

\* Messages and events, in one transaction.
InsertBulk(p) ==
    LET refused == \E i \in Remaining(p) : Under(KeyOf(p, i)) # {}
        added == [k \in 1 .. Cardinality(Remaining(p)) |->
                    NewRow(p, CHOOSE i \in Remaining(p) : Place(p, i) = Len(rows) + k, 2)]
    IN  /\ call[p].step = "inserting"
        /\ IF refused
           THEN call' = [call EXCEPT ![p] = AfterRefusal(p)] /\ UNCHANGED rows
           ELSE /\ rows' = rows \o added
                /\ call' = [call EXCEPT ![p].step = "answered",
                     ![p].results = [i \in Entries(p) |->
                        IF i \in Remaining(p) THEN Is("accepted", Place(p, i))
                        ELSE call[p].results[i]]]
        /\ UNCHANGED <<asked, upsets, slides, crowd>>

-----------------------------------------------------------------------------
\* A statement fails, or the process dies: the caller gets no answer to act on.
\* What was committed stays.
Fail(p) ==
    /\ call[p].step \in Working
    /\ upsets < MaxUpsets
    /\ upsets' = upsets + 1
    /\ call' = [call EXCEPT ![p].step = "failed"]
    /\ UNCHANGED <<rows, asked, slides, crowd>>

\* A minute has passed.  Only the number of fresh rows counts: the first goes first.
WindowSlides ==
    /\ slides < MaxSlides
    /\ slides' = slides + 1
    /\ \E n \in DOMAIN rows :
         /\ rows[n].fresh /\ \A k \in 1 .. n - 1 : ~rows[k].fresh
         /\ rows' = [rows EXCEPT ![n].fresh = FALSE]
    /\ UNCHANGED <<call, asked, upsets, crowd>>

Next ==
    \/ \E p \in Callers :
         \/ \E kind \in Kinds, key \in Keys \union {NoKey}, entries \in Bodies :
              Ask(p, kind, key, entries)
         \/ Weigh(p)
         \/ Reject(p) \/ LookUp(p) \/ Create(p) \/ Trace(p)
         \/ Sort(p) \/ Resolve(p) \/ InsertBulk(p)
         \/ Fail(p)
    \/ WindowSlides

Spec == Init /\ [][Next]_vars

-----------------------------------------------------------------------------
Says(p, i, outcome) == call[p].results[i].is = outcome
Told(p, i) == rows[call[p].results[i].row]

\* What the table holds, whoever else asked under the same key or died
\* meanwhile.  An accepted entry is this request's own message, with its first
\* two events; a duplicate is a message with the same number and text, a conflict
\* one with another; and the request has written the messages it says it
\* accepted and no other.  A bulk request that failed has written none: "the
\* caller never ends up with half its list queued and no response saying which
\* half" (sms_service.ts).
AnswersTrue ==
    \A p \in Callers :
      LET written == {n \in DOMAIN rows : rows[n].by = call[p].id}
      IN  /\ call[p].step = "answered" =>
               /\ \A i \in Entries(p) :
                    /\ Says(p, i, "accepted") \/ Says(p, i, "duplicate")
                         => /\ Told(p, i).content = call[p].entries[i]
                            /\ Told(p, i).key = KeyOf(p, i)
                    /\ Says(p, i, "accepted") => Told(p, i).traced = 2
                    /\ Says(p, i, "conflict") => Told(p, i).content # call[p].entries[i]
                    /\ ~Says(p, i, "open")
               /\ written = {call[p].results[i].row :
                                i \in {j \in Entries(p) : Says(p, j, "accepted")}}
          /\ call[p].step = "failed" /\ call[p].kind = "bulk" => written = {}

\* Whoever asks under one key, at once or again, is told of one message, whoever
\* won the race to store it, whatever died in between, and although a lookup
\* and the insert that relies on it are two statements.
OneMessagePerKey ==
    LET Placed(p, i) == /\ call[p].step = "answered" /\ call[p].key # NoKey
                        /\ call[p].results[i].is \in {"accepted", "duplicate", "conflict"}
    IN  \A p, q \in Callers : \A i \in Entries(p), j \in Entries(q) :
          Placed(p, i) /\ Placed(q, j) /\ KeyOf(p, i) = KeyOf(q, j)
            => call[p].results[i].row = call[q].results[j].row

\* A client exceeds its rate only by what other requests of its own, admitted
\* before, had still to write when the last one was weighed; asking one request
\* at a time, however large, it never does.
RateBounded == Limit > 0 => Usage <= Limit + crowd
=============================================================================
