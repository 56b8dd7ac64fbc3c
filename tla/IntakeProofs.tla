---------------------------- MODULE IntakeProofs ----------------------------
(***************************************************************************)
(* Of the acceptance of messages, for any number of concurrent requests,   *)
(* keys and contents, requests of any length and any limits and faults:    *)
(* what callers are told is what the table holds, a key stands for one     *)
(* message, and the rate is kept up to what was admitted together.         *)
(***************************************************************************)
EXTENDS Intake, FiniteSetTheorems, SequenceTheorems, TLAPS

-----------------------------------------------------------------------------
(* The invariant: what a request has in hand, and what it has written.  *)

Written(p) == {n \in DOMAIN rows : rows[n].by = call[p].id}

\* Every request is known by its number, and so are the messages it has written.
Numbered ==
    /\ \A p \in Callers : IF call[p].step = "none" THEN call[p].id = 0
                                                   ELSE call[p].id \in 1 .. asked
    /\ \A p, q \in Callers :
         p # q /\ call[p].step # "none" /\ call[q].step # "none" => call[p].id # call[q].id
    /\ \A n \in DOMAIN rows : rows[n].by \in 1 .. asked

\* The unique index.
OneRowPerKey ==
    \A m, n \in DOMAIN rows : rows[m].key = rows[n].key /\ rows[m].key # NoKey => m = n

\* What an entry is answered is so.
Truthful(p, i) ==
    LET result == call[p].results[i]
        row == rows[result.row]
    IN  /\ result.is \in {"accepted", "duplicate", "conflict"} =>
             /\ result.row \in DOMAIN rows /\ row.key = KeyOf(p, i)
             /\ (row.content = call[p].entries[i]) = (result.is # "conflict")
        /\ result.is = "accepted" => row.by = call[p].id /\ row.traced = 2

Untouched(p, i) == call[p].results[i] = Is("open", 0)

Accepted(p) == {i \in Entries(p) : Says(p, i, "accepted")}
AcceptedRows(p) == {call[p].results[i].row : i \in Accepted(p)}

\* The message that has been stored, and whose events are being written.
BeingTraced(p) ==
    LET result == call[p].results[call[p].at]
    IN  /\ result.is = "open" /\ result.row \in Written(p)
        /\ rows[result.row].key = KeyOf(p, call[p].at)
        /\ rows[result.row].content = call[p].entries[call[p].at]
        /\ rows[result.row].traced \in {0, 1}

\* A single message or a batch has come to the entry it is at.
AtEntry(p) ==
    /\ call[p].kind # "bulk" /\ call[p].at \in Entries(p)
    /\ \A i \in Entries(p) : /\ i < call[p].at => ~Says(p, i, "open")
                             /\ i > call[p].at => Untouched(p, i)

\* What is known of a request at each of its steps.
Stage(p) ==
    /\ call[p].step = "weighing" =>
         /\ Written(p) = {} /\ call[p].at = 1
         /\ \A i \in Entries(p) : Untouched(p, i)
    /\ call[p].step \in {"looking", "creating"} =>
         /\ AtEntry(p) /\ Untouched(p, call[p].at)
         /\ Written(p) = AcceptedRows(p)
    /\ call[p].step = "tracing" =>
         /\ AtEntry(p) /\ BeingTraced(p)
         /\ Written(p) = AcceptedRows(p) \union {call[p].results[call[p].at].row}
    /\ call[p].step \in {"sorting", "resolving", "inserting"} =>
         /\ call[p].kind = "bulk" /\ Written(p) = {} /\ Accepted(p) = {}
         /\ \A i \in Entries(p) : Says(p, i, "open") => Untouched(p, i)
    /\ call[p].step = "answered" =>
         /\ \A i \in Entries(p) : ~Says(p, i, "open")
         /\ Written(p) = AcceptedRows(p)
    /\ call[p].step = "failed" /\ call[p].kind = "bulk" => Written(p) = {}

RequestInv(p) == Stage(p) /\ \A i \in Entries(p) : Truthful(p, i)

IntakeInv ==
    /\ TypeOK /\ Numbered /\ OneRowPerKey
    /\ \A p \in Callers : call[p].step # "none" => Len(call[p].entries) \in 1 .. MaxEntries
    /\ \A p \in Callers : RequestInv(p)

\* Everyone's outstanding entries, and those of all but one.
Debts == {d \in Callers \X (1 .. MaxEntries) : d[2] <= Outstanding(d[1])}
DebtsBut(p) == {d \in (Callers \ {p}) \X (1 .. MaxEntries) : d[2] <= Outstanding(d[1])}

RateInv == Limit > 0 => Usage + Cardinality(Debts) <= Limit + crowd

-----------------------------------------------------------------------------
(* What is written in order gets the numbers in order. *)

\* The numbers of a finite set up to one of them; Place is in terms of it.
UpTo(S, i) == {j \in S : j <= i}

LEMMA UpToGrows ==
  ASSUME NEW n \in Nat, NEW S \in SUBSET (1 .. n)
  PROVE  /\ IsFiniteSet(S) /\ Cardinality(S) \in Nat /\ Cardinality(S) <= n
         /\ \A i \in S : Cardinality(UpTo(S, i)) \in 1 .. Cardinality(S)
         /\ \A i, j \in S : i < j => Cardinality(UpTo(S, i)) < Cardinality(UpTo(S, j))
<1>1. IsFiniteSet(1 .. n) /\ Cardinality(1 .. n) = n
  BY FS_Interval
<1>2. IsFiniteSet(S) /\ Cardinality(S) \in Nat /\ Cardinality(S) <= n
  BY <1>1, FS_Subset, FS_CardinalityType
<1>3. ASSUME NEW i \in S
      PROVE  /\ IsFiniteSet(UpTo(S, i)) /\ Cardinality(UpTo(S, i)) \in Nat
             /\ Cardinality(UpTo(S, i)) \in 1 .. Cardinality(S)
  <2>1. UpTo(S, i) \in SUBSET S /\ i \in UpTo(S, i)
    BY DEF UpTo
  <2>2. IsFiniteSet(UpTo(S, i)) /\ Cardinality(UpTo(S, i)) <= Cardinality(S)
    BY <1>2, <2>1, FS_Subset
  <2>3. Cardinality(UpTo(S, i)) \in Nat /\ Cardinality(UpTo(S, i)) # 0
    BY <2>1, <2>2, FS_EmptySet, FS_CardinalityType
  <2>. QED BY <1>2, <2>2, <2>3
<1>4. ASSUME NEW i \in S, NEW j \in S, i < j
      PROVE  Cardinality(UpTo(S, i)) < Cardinality(UpTo(S, j))
  <2>0. \A x \in S : x \in Int
    OBVIOUS
  <2>1. ASSUME NEW x \in UpTo(S, i) PROVE x \in UpTo(S, j) /\ x # j
    BY <1>4, <2>0 DEF UpTo
  <2>2. j \in UpTo(S, j)
    BY <2>0 DEF UpTo
  <2>3. UpTo(S, i) \in SUBSET UpTo(S, j) /\ UpTo(S, i) # UpTo(S, j)
    BY <2>1, <2>2
  <2>4. Cardinality(UpTo(S, i)) <= Cardinality(UpTo(S, j))
        /\ Cardinality(UpTo(S, i)) # Cardinality(UpTo(S, j))
    BY <1>3, <2>3, FS_Subset
  <2>. QED BY <1>3, <2>4
<1>. QED BY <1>2, <1>3, <1>4

LEMMA EveryNumberTaken ==
  ASSUME NEW n \in Nat, NEW S \in SUBSET (1 .. n), NEW k \in 1 .. Cardinality(S)
  PROVE  \E i \in S : Cardinality(UpTo(S, i)) = k
<1> DEFINE c == Cardinality(S)
           f == [i \in S |-> Cardinality(UpTo(S, i))]
<1>1. /\ IsFiniteSet(S) /\ c \in Nat
      /\ \A i \in S : f[i] \in 1 .. c
      /\ \A i, j \in S : i < j => f[i] < f[j]
  BY UpToGrows
<1>2. SUFFICES ASSUME \A i \in S : f[i] # k PROVE FALSE
  OBVIOUS
<1>3. f \in [S -> (1 .. c) \ {k}]
  BY <1>1, <1>2
<1>4. IsFiniteSet((1 .. c) \ {k}) /\ Cardinality((1 .. c) \ {k}) < c
  <2>1. IsFiniteSet(1 .. c) /\ Cardinality(1 .. c) = c
    BY <1>1, FS_Interval
  <2>2. /\ IsFiniteSet((1 .. c) \ {k})
        /\ Cardinality((1 .. c) \ {k}) = IF k \in 1 .. c THEN c - 1 ELSE c
    BY <2>1, FS_RemoveElement
  <2>3. k \in 1 .. c
    OBVIOUS
  <2>. HIDE DEF c
  <2>. QED BY <1>1, <2>2, <2>3
<1> HIDE DEF f
<1>5. PICK x, y \in S : x # y /\ f[x] = f[y]
  BY <1>1, <1>3, <1>4, FS_PigeonHole
<1>6. x < y \/ y < x
  BY <1>5
<1>. QED BY <1>1, <1>3, <1>5, <1>6

-----------------------------------------------------------------------------
(* Requests and rows as they are typed. *)

LEMMA CallTyped ==
  ASSUME TypeOK, NEW p \in Callers
  PROVE  /\ call[p] \in Call
         /\ Len(call[p].entries) \in Nat /\ Len(call[p].results) = Len(call[p].entries)
         /\ DOMAIN call[p].entries = Entries(p) /\ DOMAIN call[p].results = Entries(p)
         /\ \A i \in Entries(p) : /\ call[p].entries[i] \in Contents
                                  /\ call[p].results[i] \in Result
<1>1. /\ call[p] \in Call /\ Len(call[p].results) = Len(call[p].entries)
      /\ call[p].entries \in Seq(Contents) /\ call[p].results \in Seq(Result)
  BY DEF TypeOK, Call
<1>. QED BY <1>1, LenProperties, ElementOfSeq DEF Entries

LEMMA RowsTyped ==
  ASSUME TypeOK
  PROVE  /\ Len(rows) \in Nat /\ DOMAIN rows = 1 .. Len(rows)
         /\ \A n \in DOMAIN rows : rows[n] \in Row
BY LenProperties, ElementOfSeq DEF TypeOK

LEMMA KeyTyped ==
  ASSUME TypeOK, NEW p \in Callers, NEW i \in Entries(p), Len(call[p].entries) <= MaxEntries
  PROVE  KeyOf(p, i) \in {NoKey} \union (Keys \X (0 .. MaxEntries))
BY CallTyped, IntakeAssumption DEF Entries, KeyOf, Call

LEMMA NewRowTyped ==
  ASSUME TypeOK, NEW p \in Callers, NEW i \in Entries(p), Len(call[p].entries) <= MaxEntries,
         call[p].id # 0, NEW traced \in 0 .. 2
  PROVE  NewRow(p, i, traced) \in Row
BY CallTyped, KeyTyped DEF NewRow, Row, Call

LEMMA SeqOfFunction ==
  ASSUME NEW S, NEW n \in Nat, NEW f \in [1 .. n -> S]
  PROVE  f \in Seq(S) /\ Len(f) = n
OBVIOUS

\* Results of a request, given entry by entry.
LEMMA ResultsTyped ==
  ASSUME TypeOK, NEW p \in Callers, NEW f, DOMAIN f = Entries(p),
         f = [i \in Entries(p) |-> f[i]], \A i \in Entries(p) : f[i] \in Result
  PROVE  f \in Seq(Result) /\ Len(f) = Len(call[p].entries)
<1>1. Len(call[p].entries) \in Nat
  BY CallTyped
<1>2. f \in [1 .. Len(call[p].entries) -> Result]
  BY DEF Entries
<1>. QED BY <1>1, <1>2

\* The entry a request is at is answered: that entry and no other.
LEMMA AnsweredTyped ==
  ASSUME TypeOK, NEW p \in Callers, call[p].at \in Entries(p), NEW result \in Result,
         Len(call[p].entries) <= MaxEntries
  PROVE  /\ Answered(p, result) \in Call
         /\ Answered(p, result).id = call[p].id
         /\ Answered(p, result).kind = call[p].kind
         /\ Answered(p, result).key = call[p].key
         /\ Answered(p, result).entries = call[p].entries
         /\ Len(Answered(p, result).results) = Len(call[p].entries)
         /\ Answered(p, result).results[call[p].at] = result
         /\ \A i \in Entries(p) \ {call[p].at} :
               Answered(p, result).results[i] = call[p].results[i]
         /\ \/ /\ call[p].at = Len(call[p].entries)
               /\ Answered(p, result).step = "answered"
               /\ Answered(p, result).at = call[p].at
            \/ /\ call[p].at < Len(call[p].entries)
               /\ Answered(p, result).step = "looking"
               /\ Answered(p, result).at = call[p].at + 1
<1> DEFINE c == call[p]
           after == [c.results EXCEPT ![c.at] = result]
<1>1. c \in Call /\ Len(c.entries) \in Nat /\ DOMAIN c.results = Entries(p)
      /\ Len(c.results) = Len(c.entries) /\ c.results \in Seq(Result)
  BY CallTyped DEF Call
<1>2. after \in Seq(Result) /\ Len(after) = Len(c.entries)
  BY <1>1, ExceptSeq DEF Entries
<1>3. after[c.at] = result /\ \A i \in Entries(p) \ {c.at} : after[i] = c.results[i]
  BY <1>1
<1>4. \E step \in {"answered", "looking"}, at \in 1 .. MaxEntries :
         /\ Answered(p, result) = [c EXCEPT !.results = after, !.step = step, !.at = at]
         /\ \/ c.at = Len(c.entries) /\ step = "answered" /\ at = c.at
            \/ c.at < Len(c.entries) /\ step = "looking" /\ at = c.at + 1
  <2>1. CASE c.at = Len(c.entries)
    BY <1>1, <2>1 DEF Answered, Call, Entries
  <2>2. CASE c.at # Len(c.entries)
    <3>1. c.at < Len(c.entries) /\ c.at + 1 \in 1 .. MaxEntries
      BY <1>1, <2>2, IntakeAssumption DEF Entries
    <3>. QED BY <1>1, <2>2, <3>1 DEF Answered, Call
  <2>. QED BY <2>1, <2>2
<1> HIDE DEF after
<1>. QED BY <1>1, <1>2, <1>3, <1>4 DEF Call, Working, Ended

-----------------------------------------------------------------------------
(* What a request does to the others. *)

\* Messages stay as they are, but that one request goes on with its own.
RowsKeptBut(id) ==
    /\ \A n \in DOMAIN rows :
         /\ n \in DOMAIN rows'
         /\ rows'[n].key = rows[n].key /\ rows'[n].content = rows[n].content
         /\ rows'[n].by = rows[n].by
         /\ rows[n].by # id => rows'[n].traced = rows[n].traced
    /\ \A n \in DOMAIN rows' \ DOMAIN rows : rows'[n].by = id

\* Whatever another request is told and has written stays so.
LEMMA OthersKept ==
  ASSUME NEW q \in Callers, call'[q] = call[q], RequestInv(q), TypeOK,
         NEW id, id # call[q].id, RowsKeptBut(id)
  PROVE  RequestInv(q)'
<1>1. Entries(q)' = Entries(q) /\ Accepted(q)' = Accepted(q)
      /\ \A i : KeyOf(q, i)' = KeyOf(q, i)
  BY DEF Entries, Accepted, Says, KeyOf
<1>2. AcceptedRows(q)' = AcceptedRows(q)
  BY <1>1 DEF AcceptedRows
<1>3. Written(q)' = Written(q)
  BY DEF Written, RowsKeptBut
<1>4. ASSUME NEW i \in Entries(q), Truthful(q, i) PROVE Truthful(q, i)'
  BY <1>1, <1>4 DEF Truthful, RowsKeptBut
<1>5. (\A i : Says(q, i, "open")' = Says(q, i, "open") /\ Untouched(q, i)' = Untouched(q, i))
      /\ AtEntry(q)' = AtEntry(q)
  BY <1>1 DEF AtEntry, Says, Untouched
<1>6. BeingTraced(q) => BeingTraced(q)'
  BY <1>1, <1>3 DEF BeingTraced, Written, RowsKeptBut
<1>7. Stage(q) => Stage(q)'
  BY <1>1, <1>2, <1>3, <1>5, <1>6 DEF Stage
<1>. QED BY <1>1, <1>4, <1>7 DEF RequestInv

\* A step of one request keeps the invariant if it does for that request, and
\* the unique index stands.
LEMMA OwnStep ==
  ASSUME IntakeInv, NEW p \in Callers, call[p].step # "none",
         NEW c \in Call, call' = [call EXCEPT ![p] = c], c.step # "none",
         c.id = call[p].id, c.entries = call[p].entries,
         Len(c.results) = Len(c.entries),
         rows' \in Seq(Row), RowsKeptBut(call[p].id), OneRowPerKey',
         asked' = asked, slides' = slides, upsets' \in 0 .. MaxUpsets, crowd' \in Nat,
         RequestInv(p)'
  PROVE  IntakeInv'
<1>1. TypeOK'
  BY DEF IntakeInv, TypeOK
<1>2. call'[p] = c /\ \A q \in Callers \ {p} : call'[q] = call[q]
  BY DEF IntakeInv, TypeOK
<1>3. Numbered'
  <2>1. \A n \in DOMAIN rows' : rows'[n].by \in 1 .. asked
    BY DEF IntakeInv, Numbered, RowsKeptBut
  <2>2. \A q \in Callers : call'[q].id = call[q].id /\ (call'[q].step = "none" <=> call[q].step = "none")
    BY <1>2
  <2>. QED BY <2>1, <2>2 DEF IntakeInv, Numbered
<1>4. \A q \in Callers : call'[q].step # "none" => Len(call'[q].entries) \in 1 .. MaxEntries
  BY <1>2 DEF IntakeInv
<1>5. ASSUME NEW q \in Callers PROVE RequestInv(q)'
  <2>1. CASE q # p
    <3>1. call[q].id # call[p].id
      BY <2>1 DEF IntakeInv, Numbered
    <3>. QED BY <1>2, <2>1, <3>1, OthersKept DEF IntakeInv
  <2>. QED BY <2>1
<1>. QED BY <1>1, <1>3, <1>4, <1>5 DEF IntakeInv

\* Most steps leave the messages alone.
LEMMA OwnStepOnly ==
  ASSUME IntakeInv, NEW p \in Callers, call[p].step # "none",
         NEW c \in Call, call' = [call EXCEPT ![p] = c], c.step # "none",
         c.id = call[p].id, c.entries = call[p].entries,
         Len(c.results) = Len(c.entries), rows' = rows,
         asked' = asked, slides' = slides, upsets' \in 0 .. MaxUpsets, crowd' \in Nat,
         RequestInv(p)'
  PROVE  IntakeInv'
<1>1. rows' \in Seq(Row) /\ OneRowPerKey'
  BY DEF IntakeInv, TypeOK, OneRowPerKey
<1>2. RowsKeptBut(call[p].id)
  BY DEF RowsKeptBut
<1>. QED BY <1>1, <1>2, OwnStep

-----------------------------------------------------------------------------
(* Asking, and the rate limit. *)

LEMMA DebtsFinite ==
  ASSUME NEW p \in Callers
  PROVE  /\ IsFiniteSet(Debts) /\ Cardinality(Debts) \in Nat
         /\ IsFiniteSet(DebtsBut(p)) /\ Cardinality(DebtsBut(p)) \in Nat
         /\ Crowd(p) = Cardinality(DebtsBut(p))
<1>1. IsFiniteSet(Callers) /\ IsFiniteSet(1 .. MaxEntries)
  <2>1. IsFiniteSet(Callers) /\ MaxEntries \in Nat
    BY IntakeAssumption
  <2>. QED BY <2>1, FS_Interval
<1>2. IsFiniteSet(Callers \X (1 .. MaxEntries))
  BY <1>1, FS_Product
<1>3. Debts \in SUBSET (Callers \X (1 .. MaxEntries))
      /\ DebtsBut(p) \in SUBSET (Callers \X (1 .. MaxEntries))
  BY DEF Debts, DebtsBut
<1>. QED BY <1>2, <1>3, FS_Subset, FS_CardinalityType DEF Crowd, DebtsBut

\* A request that has been asked owns no message yet.
LEMMA AskKept ==
  ASSUME IntakeInv, NEW p \in Callers, NEW kind \in Kinds, NEW key \in Keys \union {NoKey},
         NEW entries \in Bodies, Ask(p, kind, key, entries)
  PROVE  IntakeInv'
<1> DEFINE results == [i \in 1 .. Len(entries) |-> Is("open", 0)]
           c == [NoCall EXCEPT !.step = "weighing", !.id = asked + 1, !.kind = kind,
                               !.key = key, !.entries = entries, !.results = results]
<1>1. entries \in Seq(Contents) /\ Len(entries) \in 1 .. MaxEntries
  BY IntakeAssumption
<1>2. results \in Seq(Result) /\ Len(results) = Len(entries)
  <2>1. Is("open", 0) \in Result
    BY DEF Is, Result, Outcomes
  <2>2. results \in [1 .. Len(entries) -> Result]
    BY <2>1
  <2>. HIDE DEF results
  <2>. QED BY <1>1, <2>2, SeqOfFunction
<1>3. asked + 1 \in 1 .. MaxRequests /\ asked' = asked + 1
  <2>1. asked < MaxRequests /\ asked' = asked + 1
    BY DEF Ask
  <2>2. asked \in 0 .. MaxRequests
    BY DEF IntakeInv, TypeOK
  <2>. QED BY <2>1, <2>2, IntakeAssumption
<1> HIDE DEF results
<1>4. /\ c \in Call /\ c.step = "weighing" /\ c.id = asked + 1 /\ c.entries = entries
      /\ c.results = results /\ c.at = 1
  <2>. HIDE DEF results
  <2>1. NoCall \in Call
    BY IntakeAssumption, EmptySeq DEF NoCall, Call, Working, Ended, Kinds
  <2>2. asked + 1 \in 0 .. MaxRequests /\ 1 \in 1 .. MaxEntries /\ "weighing" \in Working
    BY <1>3, IntakeAssumption DEF Working
  <2>3. c \in Call
    BY <1>1, <1>2, <2>1, <2>2 DEF Call
  <2>. QED BY <2>1, <2>3 DEF NoCall
<1>5. call' = [call EXCEPT ![p] = c] /\ rows' = rows
      /\ upsets' = upsets /\ slides' = slides /\ crowd' = crowd
  BY DEF Ask, results
<1> HIDE DEF c
<1>6. call'[p] = c /\ \A q \in Callers \ {p} : call'[q] = call[q]
  BY <1>5 DEF IntakeInv, TypeOK
<1>7. TypeOK'
  BY <1>2, <1>3, <1>4, <1>5, <1>6 DEF IntakeInv, TypeOK
<1>8. asked \in Nat /\ \A q \in Callers : call[q].id \in 0 .. asked
  BY DEF IntakeInv, TypeOK, Numbered
<1>9. Numbered'
  <2>1. \A n \in DOMAIN rows' : rows'[n].by \in 1 .. asked'
    BY <1>3, <1>5, <1>8 DEF IntakeInv, Numbered
  <2>2. \A q \in Callers : IF call'[q].step = "none" THEN call'[q].id = 0
                                                     ELSE call'[q].id \in 1 .. asked'
    BY <1>3, <1>4, <1>6, <1>8 DEF IntakeInv, Numbered
  <2>3. \A q \in Callers \ {p} : call'[q].id # call'[p].id
    BY <1>4, <1>6, <1>8
  <2>. QED BY <1>6, <2>1, <2>2, <2>3 DEF IntakeInv, Numbered
<1>10. OneRowPerKey'
  BY <1>5 DEF IntakeInv, OneRowPerKey
<1>11. \A q \in Callers : call'[q].step # "none" => Len(call'[q].entries) \in 1 .. MaxEntries
  BY <1>1, <1>4, <1>6 DEF IntakeInv
<1>12. RequestInv(p)'
  <2>1. \A i \in Entries(p)' : call'[p].results[i] = Is("open", 0)
    BY <1>4, <1>6 DEF Entries, results
  <2>2. Written(p)' = {}
    BY <1>4, <1>5, <1>6, <1>8 DEF Written, IntakeInv, Numbered
  <2>3. Stage(p)'
    BY <1>4, <1>6, <2>1, <2>2 DEF Stage, Untouched
  <2>4. \A i \in Entries(p)' : Truthful(p, i)'
    BY <2>1 DEF Truthful, Is
  <2>. QED BY <2>3, <2>4 DEF RequestInv
<1>13. ASSUME NEW q \in Callers \ {p} PROVE RequestInv(q)'
  <2>1. RowsKeptBut(asked + 1) /\ asked + 1 # call[q].id
    BY <1>5, <1>8 DEF RowsKeptBut
  <2>. QED BY <1>6, <2>1, OthersKept DEF IntakeInv
<1>. QED BY <1>7, <1>9, <1>10, <1>11, <1>12, <1>13 DEF IntakeInv

\* Only the step of a request changes.
LEMMA StepTyped ==
  ASSUME TypeOK, NEW p \in Callers, NEW step \in Working \union Ended
  PROVE  /\ [call[p] EXCEPT !.step = step] \in Call
         /\ [call EXCEPT ![p].step = step] = [call EXCEPT ![p] = [call[p] EXCEPT !.step = step]]
         /\ [call EXCEPT ![p].step = step][p] = [call[p] EXCEPT !.step = step]
BY CallTyped DEF TypeOK, Call

\* What is said of the entries depends on them, the results and the rows.
LEMMA SameEntries ==
  ASSUME TypeOK, NEW p \in Callers, NEW step, rows' = rows,
         call'[p] = [call[p] EXCEPT !.step = step]
  PROVE  /\ call'[p].step = step
         /\ call'[p].kind = call[p].kind /\ call'[p].at = call[p].at
         /\ Entries(p)' = Entries(p) /\ Written(p)' = Written(p)
         /\ Accepted(p)' = Accepted(p) /\ AcceptedRows(p)' = AcceptedRows(p)
         /\ \A i : /\ Truthful(p, i)' = Truthful(p, i) /\ Untouched(p, i)' = Untouched(p, i)
                   /\ Says(p, i, "open")' = Says(p, i, "open")
         /\ AtEntry(p)' = AtEntry(p)
<1>2. /\ call'[p].id = call[p].id /\ call'[p].kind = call[p].kind /\ call'[p].key = call[p].key
      /\ call'[p].entries = call[p].entries /\ call'[p].at = call[p].at
      /\ call'[p].results = call[p].results /\ call'[p].step = step
  BY CallTyped DEF Call
<1>3. Entries(p)' = Entries(p) /\ \A i, o : Says(p, i, o)' = Says(p, i, o)
      /\ KeyOf(p, i)' = KeyOf(p, i) /\ Untouched(p, i)' = Untouched(p, i)
  BY <1>2 DEF Entries, Says, KeyOf, Untouched
<1>4. Written(p)' = Written(p) /\ Accepted(p)' = Accepted(p)
  BY <1>2, <1>3 DEF Written, Accepted
<1>. QED BY <1>2, <1>3, <1>4 DEF AcceptedRows, Truthful, AtEntry

-----------------------------------------------------------------------------
(* An entry of a single message or a batch is answered. *)

LEMMA AtItsEntry ==
  ASSUME IntakeInv, NEW p \in Callers, call[p].step \in {"looking", "creating", "tracing"}
  PROVE  /\ AtEntry(p) /\ call[p].at \in Entries(p) /\ Says(p, call[p].at, "open")
         /\ Len(call[p].entries) <= MaxEntries /\ Len(call[p].entries) \in Nat
         /\ call[p].id \in 1 .. asked
<1>1. Stage(p)
  BY DEF IntakeInv, RequestInv
<1>2. AtEntry(p) /\ Says(p, call[p].at, "open")
  BY <1>1 DEF Stage, BeingTraced, Untouched, Says, Is
<1>3. Len(call[p].entries) \in 1 .. MaxEntries /\ call[p].id \in 1 .. asked
  BY DEF IntakeInv, Numbered
<1>. QED BY <1>2, <1>3, IntakeAssumption DEF AtEntry

\* Given a truthful answer, and the messages it accounts for, the request goes
\* on to its next entry as it came to this one, or ends.
LEMMA EntryAnswered ==
  ASSUME IntakeInv, NEW p \in Callers, call[p].step \in {"looking", "creating", "tracing"},
         NEW result \in Result, result.is # "open",
         call' = [call EXCEPT ![p] = Answered(p, result)],
         RowsKeptBut(call[p].id),
         \A n \in DOMAIN rows : rows[n].traced = 2 => rows'[n].traced = 2,
         result.is \in {"accepted", "duplicate", "conflict"} =>
           /\ result.row \in DOMAIN rows' /\ rows'[result.row].key = KeyOf(p, call[p].at)
           /\ (rows'[result.row].content = call[p].entries[call[p].at])
                = (result.is # "conflict"),
         result.is = "accepted" => /\ rows'[result.row].by = call[p].id
                                   /\ rows'[result.row].traced = 2,
         Written(p)' = AcceptedRows(p)
                         \union (IF result.is = "accepted" THEN {result.row} ELSE {})
  PROVE  RequestInv(p)'
<1> DEFINE at == call[p].at
<1>1. AtEntry(p) /\ at \in Entries(p) /\ Says(p, at, "open") /\ TypeOK
      /\ Len(call[p].entries) <= MaxEntries /\ Len(call[p].entries) \in Nat
  BY AtItsEntry DEF IntakeInv
<1>2. call'[p] = Answered(p, result)
  BY <1>1 DEF TypeOK
<1>3. /\ call'[p].id = call[p].id /\ call'[p].kind = call[p].kind
      /\ call'[p].key = call[p].key /\ call'[p].entries = call[p].entries
      /\ call'[p].results[at] = result
      /\ \A i \in Entries(p) \ {at} : call'[p].results[i] = call[p].results[i]
      /\ \/ at = Len(call[p].entries) /\ call'[p].step = "answered" /\ call'[p].at = at
         \/ at < Len(call[p].entries) /\ call'[p].step = "looking" /\ call'[p].at = at + 1
  BY <1>1, <1>2, AnsweredTyped
<1>4. Entries(p)' = Entries(p) /\ \A i : KeyOf(p, i)' = KeyOf(p, i)
  BY <1>3 DEF Entries, KeyOf
<1>5. ASSUME NEW i \in Entries(p) PROVE Truthful(p, i)'
  <2>1. CASE i = at
    BY <1>3, <1>4, <2>1 DEF Truthful
  <2>2. CASE i # at
    <3>1. Truthful(p, i)
      BY DEF IntakeInv, RequestInv
    <3>2. call'[p].results[i] = call[p].results[i]
      BY <1>3, <2>2
    <3>. QED BY <1>3, <1>4, <3>1, <3>2 DEF Truthful, RowsKeptBut
  <2>. QED BY <2>1, <2>2
<1>6. Accepted(p)' = Accepted(p) \union (IF result.is = "accepted" THEN {at} ELSE {})
      /\ at \notin Accepted(p)
  BY <1>1, <1>3, <1>4 DEF Accepted, Says
<1>7. Written(p)' = AcceptedRows(p)'
  <2>1. \A i \in Accepted(p) : call'[p].results[i] = call[p].results[i]
    BY <1>3, <1>6 DEF Accepted
  <2>. QED BY <1>3, <1>6, <2>1 DEF AcceptedRows
<1>8. \A i \in Entries(p) : i < at \/ i = at \/ i > at
  BY <1>1 DEF Entries
<1>9. \A i \in Entries(p) : i <= at => ~Says(p, i, "open")'
  <2>1. ASSUME NEW i \in Entries(p), i < at PROVE ~Says(p, i, "open")'
    <3>1. ~Says(p, i, "open") /\ i # at
      BY <1>1, <2>1 DEF AtEntry, Entries
    <3>. QED BY <1>3, <3>1 DEF Says
  <2>2. \A i \in Entries(p) : i = at => ~Says(p, i, "open")'
    BY <1>3 DEF Says
  <2>3. \A i \in Entries(p) : i <= at => i < at \/ i = at
    BY <1>1 DEF Entries
  <2>. QED BY <2>1, <2>2, <2>3
<1>10. \A i \in Entries(p) : i > at => Untouched(p, i)'
  BY <1>1, <1>3, <1>8 DEF AtEntry, Untouched, Entries
<1>11. Stage(p)'
  <2>1. CASE at = Len(call[p].entries)
    <3>1. call'[p].step = "answered"
      BY <1>1, <1>3, <2>1
    <3>2. \A i \in Entries(p) : i <= at
      BY <2>1 DEF Entries
    <3>. QED BY <1>4, <1>7, <1>9, <3>1, <3>2 DEF Stage
  <2>2. CASE at < Len(call[p].entries)
    <3>1. call'[p].step = "looking" /\ call'[p].at = at + 1
      BY <1>1, <1>3, <2>2
    <3>2. at + 1 \in Entries(p) /\ at + 1 > at
      BY <1>1, <2>2 DEF Entries
    <3>3. \A i \in Entries(p) : /\ i < at + 1 => i <= at
                                /\ i > at + 1 => i > at
      BY <1>1 DEF Entries
    <3>4. AtEntry(p)' /\ Untouched(p, call[p].at)'
      <4>1. call'[p].kind # "bulk"
        BY <1>1, <1>3 DEF AtEntry
      <4>2. \A i \in Entries(p) : i = at + 1 => Untouched(p, i)'
        BY <1>10, <3>2
      <4>3. \A i \in Entries(p) : /\ i < at + 1 => ~Says(p, i, "open")'
                                  /\ i > at + 1 => Untouched(p, i)'
        BY <1>9, <1>10, <3>3
      <4>. HIDE DEF at
      <4>. QED BY <1>4, <3>1, <3>2, <4>1, <4>2, <4>3 DEF AtEntry
    <3>. QED BY <1>7, <3>1, <3>4 DEF Stage
  <2>. QED BY <1>1, <1>3, <2>1, <2>2
<1>. QED BY <1>4, <1>5, <1>11 DEF RequestInv

LEMMA WeighKept ==
  ASSUME IntakeInv, NEW p \in Callers, Weigh(p)
  PROVE  IntakeInv'
<1>1. TypeOK /\ call[p].step = "weighing" /\ Len(call[p].entries) \in 1 .. MaxEntries
      /\ Stage(p) /\ \A i \in Entries(p) : Truthful(p, i)
  BY DEF Weigh, IntakeInv, RequestInv
<1>2. Written(p) = {} /\ call[p].at = 1 /\ \A i \in Entries(p) : Untouched(p, i)
  BY <1>1 DEF Stage
<1>3. Accepted(p) = {} /\ AcceptedRows(p) = {}
  BY <1>2 DEF Accepted, AcceptedRows, Says, Untouched, Is
<1>4. rows' = rows /\ asked' = asked /\ slides' = slides
      /\ upsets' \in 0 .. MaxUpsets /\ crowd' \in Nat
  <2>1. rows' = rows /\ asked' = asked /\ slides' = slides /\ upsets' = upsets
        /\ crowd' \in {crowd, Crowd(p)}
    BY DEF Weigh
  <2>2. Crowd(p) \in Nat
    BY DebtsFinite
  <2>. QED BY <1>1, <2>1, <2>2 DEF TypeOK
<1>5. ASSUME NEW step \in {"looking", "sorting", "limited"},
             call' = [call EXCEPT ![p].step = step],
             step = "looking" => call[p].kind # "bulk",
             step = "sorting" => call[p].kind = "bulk"
      PROVE  IntakeInv'
  <2>1. step \in Working \union Ended
    BY DEF Working, Ended
  <2>2. /\ [call[p] EXCEPT !.step = step] \in Call
        /\ call' = [call EXCEPT ![p] = [call[p] EXCEPT !.step = step]]
        /\ call'[p] = [call[p] EXCEPT !.step = step]
    BY <1>1, <1>5, <2>1, StepTyped
  <2>3. call'[p].step = step /\ call'[p].kind = call[p].kind
    BY <1>1, <1>4, <2>2, SameEntries
  <2>4. Entries(p)' = Entries(p) /\ \A i : Truthful(p, i)' = Truthful(p, i)
    BY <1>1, <1>4, <2>2, SameEntries
  <2>5. Written(p)' = {} /\ Accepted(p)' = {} /\ AcceptedRows(p)' = {}
    BY <1>1, <1>2, <1>3, <1>4, <2>2, SameEntries
  <2>6. call'[p].at = 1 /\ \A i \in Entries(p)' : Untouched(p, i)'
    BY <1>1, <1>2, <1>4, <2>2, SameEntries
  <2>7. step = "looking" => AtEntry(p)' /\ Untouched(p, call[p].at)'
    <3>1. 1 \in Entries(p)' /\ \A i \in Entries(p)' : ~(i < 1)
      BY <1>1, <2>4 DEF Entries
    <3>. QED BY <1>5, <2>3, <2>6, <3>1 DEF AtEntry
  <2>8. Stage(p)'
    BY <1>5, <2>3, <2>5, <2>6, <2>7 DEF Stage
  <2>9. RequestInv(p)'
    BY <1>1, <2>4, <2>8 DEF RequestInv
  <2>10. LET c == [call[p] EXCEPT !.step = step]
         IN  c.step # "none" /\ c.id = call[p].id /\ c.entries = call[p].entries
             /\ Len(c.results) = Len(c.entries)
    BY <1>1, CallTyped DEF Call
  <2>. QED BY <1>1, <1>4, <2>2, <2>9, <2>10, OwnStepOnly
<1>6. CASE Admits(p)
  BY <1>5, <1>6 DEF Weigh
<1>7. CASE ~Admits(p)
  BY <1>5, <1>7 DEF Weigh
<1>. QED BY <1>6, <1>7

LEMMA FailKept ==
  ASSUME IntakeInv, NEW p \in Callers, Fail(p)
  PROVE  IntakeInv'
<1> DEFINE c == [call[p] EXCEPT !.step = "failed"]
<1>1. TypeOK /\ call[p].step \in Working /\ Stage(p)
      /\ \A i \in Entries(p) : Truthful(p, i)
  BY DEF Fail, IntakeInv, RequestInv
<1>2. c \in Call /\ call' = [call EXCEPT ![p] = c] /\ call'[p] = c
  BY <1>1, StepTyped DEF Fail, Ended
<1>3. rows' = rows /\ asked' = asked /\ slides' = slides /\ crowd' = crowd
      /\ upsets' \in 0 .. MaxUpsets
  BY <1>1, IntakeAssumption DEF Fail, TypeOK
<1>4. /\ call'[p].step = "failed" /\ call'[p].kind = call[p].kind
      /\ Written(p)' = Written(p) /\ Entries(p)' = Entries(p)
      /\ \A i : Truthful(p, i)' = Truthful(p, i)
  BY <1>1, <1>2, <1>3, SameEntries
<1>5. call[p].kind = "bulk" => Written(p) = {}
  BY <1>1 DEF Working, Stage, AtEntry
<1>6. RequestInv(p)'
  BY <1>1, <1>4, <1>5 DEF RequestInv, Stage
<1>7. c.step = "failed" /\ c.id = call[p].id /\ c.entries = call[p].entries
      /\ Len(c.results) = Len(c.entries) /\ call[p].step # "none"
  BY <1>1, CallTyped DEF Call, Working
<1>. HIDE DEF c
<1>. QED BY <1>1, <1>2, <1>3, <1>6, <1>7, OwnStepOnly DEF TypeOK

\* An entry refused, or found to be stored already: the messages stay.
LEMMA AnswerKept ==
  ASSUME IntakeInv, NEW p \in Callers, call[p].step \in {"looking", "creating"},
         NEW result \in Result, result.is \in {"rejected", "duplicate", "conflict"},
         result.is # "rejected" =>
           /\ result.row \in DOMAIN rows /\ rows[result.row].key = KeyOf(p, call[p].at)
           /\ (rows[result.row].content = call[p].entries[call[p].at])
                = (result.is # "conflict"),
         call' = [call EXCEPT ![p] = Answered(p, result)],
         UNCHANGED <<rows, asked, upsets, slides, crowd>>
  PROVE  IntakeInv'
<1>1. TypeOK /\ Stage(p) /\ AtEntry(p) /\ call[p].at \in Entries(p)
      /\ Len(call[p].entries) <= MaxEntries
  BY AtItsEntry DEF IntakeInv, RequestInv
<1>2. RowsKeptBut(call[p].id)
  BY DEF RowsKeptBut
<1>3. call'[p].id = call[p].id
  BY <1>1, AnsweredTyped DEF TypeOK
<1>4. Written(p)' = AcceptedRows(p)
  BY <1>1, <1>3 DEF Stage, Written
<1>5. RequestInv(p)'
  BY <1>2, <1>4, EntryAnswered
<1>6. /\ Answered(p, result) \in Call /\ Answered(p, result).step # "none"
      /\ Answered(p, result).id = call[p].id /\ Answered(p, result).entries = call[p].entries
      /\ Len(Answered(p, result).results) = Len(Answered(p, result).entries)
  BY <1>1, AnsweredTyped
<1>. QED BY <1>1, <1>5, <1>6, OwnStepOnly DEF TypeOK

LEMMA ReplayTruthful ==
  ASSUME IntakeInv, NEW p \in Callers, NEW i \in Entries(p), NEW n \in Under(KeyOf(p, i))
  PROVE  /\ Replay(p, i, n) \in Result /\ Replay(p, i, n).row = n
         /\ Replay(p, i, n).is \in {"duplicate", "conflict"}
         /\ n \in DOMAIN rows /\ rows[n].key = KeyOf(p, i)
         /\ (rows[n].content = call[p].entries[i]) = (Replay(p, i, n).is # "conflict")
<1>1. n \in DOMAIN rows /\ rows[n].key = KeyOf(p, i) /\ n \in Nat
  BY RowsTyped DEF IntakeInv, Under
<1>. QED BY <1>1 DEF Replay, Is, Result, Outcomes

LEMMA FoundKept ==
  ASSUME IntakeInv, NEW p \in Callers, call[p].step \in {"looking", "creating"},
         NEW n \in Under(KeyOf(p, call[p].at)),
         call' = [call EXCEPT ![p] = Answered(p, Replay(p, call[p].at, n))],
         UNCHANGED <<rows, asked, upsets, slides, crowd>>
  PROVE  IntakeInv'
<1> DEFINE result == Replay(p, call[p].at, n)
<1>1. call[p].at \in Entries(p)
  BY AtItsEntry
<1>2. /\ result \in Result /\ result.row = n /\ result.is \in {"duplicate", "conflict"}
      /\ n \in DOMAIN rows /\ rows[n].key = KeyOf(p, call[p].at)
      /\ (rows[n].content = call[p].entries[call[p].at]) = (result.is # "conflict")
  BY <1>1, ReplayTruthful
<1>3. call' = [call EXCEPT ![p] = Answered(p, result)]
  OBVIOUS
<1> HIDE DEF result
<1>. QED BY <1>2, <1>3, AnswerKept

LEMMA RejectKept ==
  ASSUME IntakeInv, NEW p \in Callers, Reject(p)
  PROVE  IntakeInv'
<1>1. Is("rejected", 0) \in Result /\ Is("rejected", 0).is = "rejected"
  BY DEF Is, Result, Outcomes
<1>. QED BY <1>1, AnswerKept DEF Reject

LEMMA LookUpKept ==
  ASSUME IntakeInv, NEW p \in Callers, LookUp(p)
  PROVE  IntakeInv'
<1>1. call[p].step = "looking" /\ call[p].at \in Entries(p)
      /\ UNCHANGED <<rows, asked, upsets, slides, crowd>>
  BY AtItsEntry DEF LookUp
<1>2. CASE call' = [call EXCEPT ![p].step = "creating"]
  <2> DEFINE c == [call[p] EXCEPT !.step = "creating"]
  <2>1. TypeOK /\ Stage(p) /\ \A i \in Entries(p) : Truthful(p, i)
    BY DEF IntakeInv, RequestInv
  <2>2. c \in Call /\ call' = [call EXCEPT ![p] = c] /\ call'[p] = c
    BY <1>2, <2>1, StepTyped DEF Working
  <2>3. /\ call'[p].step = "creating" /\ call'[p].at = call[p].at
        /\ Written(p)' = Written(p) /\ AcceptedRows(p)' = AcceptedRows(p)
        /\ AtEntry(p)' = AtEntry(p) /\ Entries(p)' = Entries(p)
        /\ \A i : Truthful(p, i)' = Truthful(p, i) /\ Untouched(p, i)' = Untouched(p, i)
    BY <1>1, <2>1, <2>2, SameEntries
  <2>4. RequestInv(p)'
    BY <1>1, <2>1, <2>3 DEF RequestInv, Stage
  <2>5. c.step = "creating" /\ c.id = call[p].id /\ c.entries = call[p].entries
        /\ Len(c.results) = Len(c.entries)
    BY <2>1, CallTyped DEF Call
  <2>. HIDE DEF c
  <2>. QED BY <1>1, <2>1, <2>2, <2>4, <2>5, OwnStepOnly DEF TypeOK
<1>3. CASE \E n \in Under(KeyOf(p, call[p].at)) :
             call' = [call EXCEPT ![p] = Answered(p, Replay(p, call[p].at, n))]
  <2>1. PICK n \in Under(KeyOf(p, call[p].at)) :
               call' = [call EXCEPT ![p] = Answered(p, Replay(p, call[p].at, n))]
    BY <1>3
  <2>. QED BY <1>1, <2>1, FoundKept
<1>. QED BY <1>1, <1>2, <1>3 DEF LookUp

\* The message is stored: it stands alone under its key, and its events follow.
LEMMA CreateKept ==
  ASSUME IntakeInv, NEW p \in Callers, Create(p)
  PROVE  IntakeInv'
<1> DEFINE i == call[p].at
           new == NewRow(p, i, 0)
           c == [call[p] EXCEPT !.step = "tracing", !.results[i] = Is("open", Len(rows) + 1)]
<1>1. /\ call[p].step = "creating" /\ call[p].at \in Entries(p) /\ TypeOK /\ AtEntry(p)
      /\ Len(call[p].entries) <= MaxEntries /\ Stage(p) /\ call[p].id \in 1 .. asked
      /\ UNCHANGED <<asked, upsets, slides, crowd>>
  BY AtItsEntry DEF Create, IntakeInv, RequestInv
<1>2. CASE /\ Under(KeyOf(p, i)) = {} /\ rows' = Append(rows, new)
           /\ call' = [call EXCEPT ![p].step = "tracing",
                                   ![p].results[i] = Is("open", Len(rows) + 1)]
  <2>1. /\ Len(rows) \in Nat /\ rows \in Seq(Row) /\ DOMAIN rows = 1 .. Len(rows)
        /\ \A n \in DOMAIN rows : rows[n] \in Row
    BY <1>1, RowsTyped DEF TypeOK
  <2>2. new \in Row /\ new.by = call[p].id /\ new.key = KeyOf(p, i)
        /\ new.content = call[p].entries[i] /\ new.traced = 0
    <3>1. call[p].id # 0
      BY <1>1 DEF TypeOK
    <3>2. new \in Row
      BY <1>1, <3>1, NewRowTyped
    <3>. QED BY <3>2 DEF NewRow
  <2>3. /\ call[p] \in Call /\ call[p].results \in Seq(Result)
        /\ DOMAIN call[p].results = Entries(p)
    BY <1>1, CallTyped DEF Call
  <2>4. /\ [call[p].results EXCEPT ![i] = Is("open", Len(rows) + 1)] \in Seq(Result)
        /\ Len([call[p].results EXCEPT ![i] = Is("open", Len(rows) + 1)])
             = Len(call[p].results)
    <3>1. Is("open", Len(rows) + 1) \in Result
      BY <2>1 DEF Is, Result, Outcomes
    <3>. QED BY <1>1, <2>3, <3>1, ExceptSeq DEF Entries
  <2>5. /\ c \in Call /\ c.step = "tracing" /\ c.id = call[p].id
        /\ c.entries = call[p].entries /\ c.key = call[p].key /\ c.kind = call[p].kind
        /\ c.at = i /\ Len(c.results) = Len(c.entries)
        /\ c.results = [call[p].results EXCEPT ![i] = Is("open", Len(rows) + 1)]
    BY <1>1, <2>3, <2>4, CallTyped DEF Call, Working
  <2>6. call' = [call EXCEPT ![p] = c] /\ call'[p] = c
    BY <1>1, <1>2, <2>3 DEF TypeOK, Call
  <2> HIDE DEF c, new
  <2>7. /\ rows' \in Seq(Row) /\ DOMAIN rows' = 1 .. Len(rows) + 1
        /\ rows'[Len(rows) + 1] = new /\ \A n \in DOMAIN rows : rows'[n] = rows[n]
    BY <1>2, <2>1, <2>2, AppendProperties
  <2>8. RowsKeptBut(call[p].id)
    <3>1. DOMAIN rows' \ DOMAIN rows = {Len(rows) + 1}
          /\ \A n \in DOMAIN rows : n \in DOMAIN rows'
      BY <2>1, <2>7
    <3>. QED BY <2>2, <2>7, <3>1 DEF RowsKeptBut
  <2>9. OneRowPerKey'
    <3>1. \A n \in DOMAIN rows : KeyOf(p, i) # NoKey => rows[n].key # KeyOf(p, i)
      BY <1>2 DEF Under
    <3>2. ASSUME NEW m \in DOMAIN rows', NEW n \in DOMAIN rows',
                 rows'[m].key = rows'[n].key, rows'[m].key # NoKey
          PROVE  m = n
      <4>1. \A k \in DOMAIN rows' : k \in DOMAIN rows \/ k = Len(rows) + 1
        BY <2>1, <2>7
      <4>. QED BY <2>2, <2>7, <3>1, <3>2, <4>1 DEF IntakeInv, OneRowPerKey
    <3>. QED BY <3>2 DEF OneRowPerKey
  <2>10. /\ Entries(p)' = Entries(p) /\ \A j : KeyOf(p, j)' = KeyOf(p, j)
         /\ call'[p].results[i] = Is("open", Len(rows) + 1)
         /\ \A j \in Entries(p) \ {i} : call'[p].results[j] = call[p].results[j]
    BY <1>1, <2>3, <2>5, <2>6 DEF Entries, KeyOf
  <2>11. Accepted(p)' = Accepted(p) /\ i \notin Accepted(p)
    BY <1>1, <2>10 DEF Accepted, Says, Is, Stage, Untouched
  <2>12. AcceptedRows(p)' = AcceptedRows(p)
    BY <2>10, <2>11 DEF AcceptedRows, Accepted
  <2>13. Written(p)' = Written(p) \union {Len(rows) + 1}
    <3>1. \A n : n \in DOMAIN rows' <=> n \in DOMAIN rows \/ n = Len(rows) + 1
      BY <2>1, <2>7
    <3>. QED BY <2>2, <2>5, <2>6, <2>7, <3>1 DEF Written
  <2>14. BeingTraced(p)'
    <3>1. Len(rows) + 1 \in Written(p)' /\ call'[p].at = i /\ call'[p].entries = call[p].entries
      BY <2>5, <2>6, <2>13
    <3>2. call'[p].results[call'[p].at] = Is("open", Len(rows) + 1)
      BY <2>10, <3>1
    <3>3. KeyOf(p, call[p].at)' = KeyOf(p, i)
      BY <2>10, <3>1
    <3>. QED BY <2>2, <2>7, <3>1, <3>2, <3>3 DEF BeingTraced, Is
  <2>15. AtEntry(p)'
    <3>1. call'[p].kind # "bulk" /\ call'[p].at = i
      BY <1>1, <2>5, <2>6 DEF AtEntry
    <3>2. \A j \in Entries(p) : j < i \/ j > i => j # i
      BY <1>1 DEF Entries
    <3>3. \A j \in Entries(p) : /\ j < i => ~Says(p, j, "open")'
                                /\ j > i => Untouched(p, j)'
      BY <1>1, <2>10, <3>2 DEF AtEntry, Says, Untouched
    <3>. QED BY <1>1, <2>10, <3>1, <3>3 DEF AtEntry
  <2>16. Stage(p)'
    <3>1. call'[p].step = "tracing" /\ call'[p].results[call'[p].at].row = Len(rows) + 1
      BY <2>5, <2>6, <2>10 DEF Is
    <3>2. Written(p)' = AcceptedRows(p)' \union {call'[p].results[call'[p].at].row}
      BY <1>1, <2>12, <2>13, <3>1 DEF Stage
    <3>. QED BY <2>14, <2>15, <3>1, <3>2 DEF Stage
  <2>17. ASSUME NEW j \in Entries(p) PROVE Truthful(p, j)'
    <3>1. CASE j = i
      BY <2>10, <3>1 DEF Truthful, Is
    <3>2. CASE j # i
      <4>1. Truthful(p, j) /\ call'[p].results[j] = call[p].results[j]
        BY <2>10, <3>2 DEF IntakeInv, RequestInv
      <4>2. \A n \in DOMAIN rows : n \in DOMAIN rows' /\ rows'[n] = rows[n]
        BY <2>7, <2>8 DEF RowsKeptBut
      <4>. QED BY <2>5, <2>6, <2>10, <4>1, <4>2 DEF Truthful
    <3>. QED BY <3>1, <3>2
  <2>18. RequestInv(p)'
    BY <2>10, <2>16, <2>17 DEF RequestInv
  <2>. QED BY <1>1, <2>5, <2>6, <2>7, <2>8, <2>9, <2>18, OwnStep DEF TypeOK
<1>3. CASE \E n \in Under(KeyOf(p, i)) :
             /\ call' = [call EXCEPT ![p] = Answered(p, Replay(p, i, n))]
             /\ UNCHANGED rows
  <2>1. PICK n \in Under(KeyOf(p, i)) :
               /\ call' = [call EXCEPT ![p] = Answered(p, Replay(p, i, n))]
               /\ UNCHANGED rows
    BY <1>3
  <2>. QED BY <1>1, <2>1, FoundKept
<1>. QED BY <1>2, <1>3 DEF Create, Winner

\* The first event keeps the request where it is, the second answers the entry.
LEMMA TraceKept ==
  ASSUME IntakeInv, NEW p \in Callers, Trace(p)
  PROVE  IntakeInv'
<1> DEFINE n == call[p].results[call[p].at].row
<1>1. /\ call[p].step = "tracing" /\ call[p].at \in Entries(p) /\ TypeOK /\ AtEntry(p)
      /\ Len(call[p].entries) <= MaxEntries /\ Stage(p)
      /\ rows' = [rows EXCEPT ![n].traced = @ + 1]
      /\ asked' = asked /\ upsets' = upsets /\ slides' = slides /\ crowd' = crowd
  BY AtItsEntry DEF Trace, IntakeInv, RequestInv
<1>2. /\ n \in DOMAIN rows /\ rows[n].by = call[p].id
      /\ rows[n].key = KeyOf(p, call[p].at)
      /\ rows[n].content = call[p].entries[call[p].at] /\ rows[n].traced \in {0, 1}
      /\ Written(p) = AcceptedRows(p) \union {n}
  BY <1>1 DEF Stage, BeingTraced, Written
<1> HIDE DEF n
<1>3. /\ rows \in Seq(Row) /\ DOMAIN rows = 1 .. Len(rows) /\ Len(rows) \in Nat
      /\ \A k \in DOMAIN rows : rows[k] \in Row
  BY <1>1, RowsTyped DEF TypeOK
<1>4. [rows[n] EXCEPT !.traced = @ + 1] \in Row
  BY <1>2, <1>3 DEF Row
<1>5. rows' = [rows EXCEPT ![n] = [rows[n] EXCEPT !.traced = @ + 1]]
  BY <1>1, <1>2, <1>3 DEF Row
<1>6. /\ rows' \in Seq(Row) /\ DOMAIN rows' = DOMAIN rows
      /\ rows'[n] = [rows[n] EXCEPT !.traced = @ + 1]
      /\ \A k \in DOMAIN rows \ {n} : rows'[k] = rows[k]
  BY <1>2, <1>3, <1>4, <1>5, ExceptSeq
<1>7. /\ \A k \in DOMAIN rows : /\ rows'[k].key = rows[k].key
                                /\ rows'[k].content = rows[k].content
                                /\ rows'[k].by = rows[k].by
                                /\ rows[k].traced = 2 => rows'[k].traced = 2
      /\ rows'[n].traced = rows[n].traced + 1
  <2>1. /\ rows'[n].key = rows[n].key /\ rows'[n].content = rows[n].content
        /\ rows'[n].by = rows[n].by /\ rows'[n].traced = rows[n].traced + 1
    BY <1>2, <1>3, <1>6 DEF Row
  <2>2. rows[n].traced # 2
    BY <1>2
  <2>. QED BY <1>6, <2>1, <2>2
<1>8. RowsKeptBut(call[p].id)
  BY <1>2, <1>6, <1>7 DEF RowsKeptBut
<1>9. OneRowPerKey'
  BY <1>6, <1>7 DEF IntakeInv, OneRowPerKey
<1>10. CASE rows[n].traced = 0
  <2>1. call' = call
    BY <1>10 DEF Trace, n
  <2>2. call[p] \in Call /\ call' = [call EXCEPT ![p] = call[p]]
    BY <1>1, <2>1, CallTyped DEF TypeOK
  <2>3. Written(p)' = Written(p) /\ AcceptedRows(p)' = AcceptedRows(p)
        /\ AtEntry(p)' = AtEntry(p) /\ Entries(p)' = Entries(p)
        /\ \A i : KeyOf(p, i)' = KeyOf(p, i)
    BY <1>6, <1>7, <2>1
       DEF Written, AcceptedRows, AtEntry, Entries, Accepted, Says, Untouched, KeyOf
  <2>4. BeingTraced(p)'
    <3>1. BeingTraced(p) /\ call'[p].results[call'[p].at].row = n
      BY <1>1, <2>1 DEF Stage, n
    <3>2. rows'[n].traced = 1
      BY <1>7, <1>10
    <3>. QED BY <1>2, <1>7, <2>1, <2>3, <3>1, <3>2 DEF BeingTraced
  <2>5. Stage(p)'
    BY <1>1, <2>1, <2>3, <2>4 DEF Stage
  <2>6. \A i \in Entries(p) : Truthful(p, i)'
    <3>1. \A i \in Entries(p) : Truthful(p, i)
      BY DEF IntakeInv, RequestInv
    <3>. QED BY <1>6, <1>7, <2>1, <2>3, <3>1 DEF Truthful
  <2>7. RequestInv(p)'
    BY <2>3, <2>5, <2>6 DEF RequestInv
  <2>8. Len(call[p].results) = Len(call[p].entries)
    BY <1>1, CallTyped
  <2>. QED BY <1>1, <1>6, <1>8, <1>9, <2>2, <2>7, <2>8, OwnStep DEF TypeOK
<1>11. CASE rows[n].traced # 0
  <2> DEFINE result == Is("accepted", n)
  <2>1. result \in Result /\ result.is = "accepted" /\ result.row = n
    BY <1>2, <1>3 DEF Is, Result, Outcomes
  <2>2. call' = [call EXCEPT ![p] = Answered(p, result)]
    BY <1>11 DEF Trace, n
  <2> HIDE DEF result
  <2>3. call'[p] = Answered(p, result) /\ Answered(p, result).id = call[p].id
    BY <1>1, <2>1, <2>2, AnsweredTyped DEF TypeOK
  <2>4. Written(p)' = AcceptedRows(p) \union {n}
    BY <1>2, <1>6, <1>7, <2>3 DEF Written
  <2>5. rows'[n].traced = 2 /\ rows'[n].by = call[p].id
        /\ rows'[n].key = KeyOf(p, call[p].at)
        /\ rows'[n].content = call[p].entries[call[p].at] /\ n \in DOMAIN rows'
    BY <1>2, <1>6, <1>7, <1>11
  <2>6. RequestInv(p)'
    BY <1>1, <1>7, <1>8, <2>1, <2>2, <2>4, <2>5, EntryAnswered
  <2>7. /\ Answered(p, result) \in Call /\ Answered(p, result).step # "none"
        /\ Answered(p, result).entries = call[p].entries
        /\ Len(Answered(p, result).results) = Len(Answered(p, result).entries)
    BY <1>1, <2>1, AnsweredTyped
  <2>. QED BY <1>1, <1>6, <1>8, <1>9, <2>2, <2>3, <2>6, <2>7, OwnStep DEF TypeOK
<1>. QED BY <1>10, <1>11

-----------------------------------------------------------------------------
(* A bulk request. *)

\* It sorts and resolves its entries before it writes anything.
LEMMA ResultsKept ==
  ASSUME IntakeInv, NEW p \in Callers, call[p].step \in {"sorting", "resolving"},
         NEW step \in {"resolving", "inserting"}, NEW f,
         f = [i \in Entries(p) |-> f[i]],
         \A i \in Entries(p) :
           /\ f[i] \in Result
           /\ \/ f[i] = Is("open", 0)
              \/ f[i].is \in {"rejected", "repeated"}
              \/ /\ f[i].is \in {"duplicate", "conflict"}
                 /\ f[i].row \in DOMAIN rows /\ rows[f[i].row].key = KeyOf(p, i)
                 /\ (rows[f[i].row].content = call[p].entries[i]) = (f[i].is # "conflict"),
         call' = [call EXCEPT ![p].step = step, ![p].results = f],
         UNCHANGED <<rows, asked, upsets, slides, crowd>>
  PROVE  IntakeInv'
<1> DEFINE c == [call[p] EXCEPT !.step = step, !.results = f]
<1>1. TypeOK /\ Stage(p) /\ call[p].kind = "bulk" /\ Written(p) = {}
  BY DEF IntakeInv, RequestInv, Stage
<1>2. call[p] \in Call /\ Len(call[p].entries) \in Nat
  BY <1>1, CallTyped
<1>3. f \in Seq(Result) /\ Len(f) = Len(call[p].entries)
  <2>1. f \in [1 .. Len(call[p].entries) -> Result]
    BY DEF Entries
  <2>. QED BY <1>2, <2>1, SeqOfFunction
<1>4. /\ c \in Call /\ c.step = step /\ c.id = call[p].id /\ c.kind = call[p].kind
      /\ c.key = call[p].key /\ c.entries = call[p].entries /\ c.results = f
      /\ Len(c.results) = Len(c.entries)
  BY <1>2, <1>3 DEF Call, Working
<1>5. call' = [call EXCEPT ![p] = c] /\ call'[p] = c
  BY <1>1, <1>2 DEF TypeOK, Call
<1> HIDE DEF c
<1>6. Entries(p)' = Entries(p) /\ Written(p)' = {} /\ \A i : KeyOf(p, i)' = KeyOf(p, i)
  <2>1. /\ call'[p].entries = call[p].entries /\ call'[p].id = call[p].id
        /\ call'[p].kind = call[p].kind /\ call'[p].key = call[p].key /\ rows' = rows
    BY <1>4, <1>5
  <2>2. Entries(p)' = Entries(p)
    BY <2>1 DEF Entries
  <2>3. Written(p)' = {}
    BY <1>1, <2>1 DEF Written
  <2>4. \A i : KeyOf(p, i)' = KeyOf(p, i)
    BY <2>1 DEF KeyOf
  <2>. QED BY <2>2, <2>3, <2>4
<1>7. Accepted(p)' = {}
  <2>1. \A i \in Entries(p) : f[i].is # "accepted"
    BY DEF Is
  <2>2. call'[p].results = f
    BY <1>4, <1>5
  <2>. QED BY <1>6, <2>1, <2>2 DEF Accepted, Says
<1>8. \A i \in Entries(p)' : Says(p, i, "open")' => Untouched(p, i)'
  BY <1>4, <1>5, <1>6 DEF Says, Untouched
<1>9. Stage(p)'
  BY <1>1, <1>4, <1>5, <1>6, <1>7, <1>8 DEF Stage
<1>10. \A i \in Entries(p)' : Truthful(p, i)'
  BY <1>4, <1>5, <1>6 DEF Truthful, Is
<1>11. RequestInv(p)'
  BY <1>9, <1>10 DEF RequestInv
<1>12. c.step # "none" /\ call[p].step # "none" /\ upsets' \in 0 .. MaxUpsets /\ crowd' \in Nat
  BY <1>1, <1>4 DEF TypeOK
<1>. QED BY <1>4, <1>5, <1>11, <1>12, OwnStepOnly

LEMMA SortKept ==
  ASSUME IntakeInv, NEW p \in Callers, Sort(p)
  PROVE  IntakeInv'
<1>1. PICK bad \in SUBSET Entries(p) :
         call' = [call EXCEPT ![p].step = "resolving",
                    ![p].results = [i \in Entries(p) |->
                       IF Repeated(p, i, bad) THEN Is("repeated", 0)
                       ELSE IF i \in bad THEN Is("rejected", 0)
                       ELSE Is("open", 0)]]
  BY DEF Sort
<1> DEFINE f == [i \in Entries(p) |-> IF Repeated(p, i, bad) THEN Is("repeated", 0)
                                      ELSE IF i \in bad THEN Is("rejected", 0)
                                      ELSE Is("open", 0)]
<1>2. call' = [call EXCEPT ![p].step = "resolving", ![p].results = f]
  BY <1>1
<1>3. f = [i \in Entries(p) |-> f[i]]
      /\ \A i \in Entries(p) : f[i] \in {Is("repeated", 0), Is("rejected", 0), Is("open", 0)}
  OBVIOUS
<1> HIDE DEF f
<1>4. \A i \in Entries(p) : /\ f[i] \in Result
                            /\ f[i] = Is("open", 0) \/ f[i].is \in {"rejected", "repeated"}
  BY <1>3 DEF Is, Result, Outcomes
<1>5. call[p].step = "sorting" /\ UNCHANGED <<rows, asked, upsets, slides, crowd>>
  BY DEF Sort
<1>. QED BY <1>2, <1>3, <1>4, <1>5, ResultsKept

LEMMA ResolveKept ==
  ASSUME IntakeInv, NEW p \in Callers, Resolve(p)
  PROVE  IntakeInv'
<1> DEFINE Chosen(i) == CHOOSE n \in Under(KeyOf(p, i)) : TRUE
           f == [i \in Entries(p) |-> IF i \in Remaining(p) /\ Under(KeyOf(p, i)) # {}
                                      THEN Replay(p, i, Chosen(i))
                                      ELSE call[p].results[i]]
<1>1. /\ call[p].step = "resolving" /\ UNCHANGED <<rows, asked, upsets, slides, crowd>>
      /\ call' = [call EXCEPT ![p].step = "inserting", ![p].results = f]
  BY DEF Resolve
<1>2. ASSUME NEW i \in Entries(p)
      PROVE  /\ f[i] \in Result
             /\ \/ f[i] = Is("open", 0)
                \/ f[i].is \in {"rejected", "repeated"}
                \/ /\ f[i].is \in {"duplicate", "conflict"}
                   /\ f[i].row \in DOMAIN rows /\ rows[f[i].row].key = KeyOf(p, i)
                   /\ (rows[f[i].row].content = call[p].entries[i]) = (f[i].is # "conflict")
  <2>1. CASE i \in Remaining(p) /\ Under(KeyOf(p, i)) # {}
    <3>1. Chosen(i) \in Under(KeyOf(p, i)) /\ f[i] = Replay(p, i, Chosen(i))
      BY <2>1
    <3>. HIDE DEF f, Chosen
    <3>. QED BY <3>1, ReplayTruthful
  <2>2. CASE ~(i \in Remaining(p) /\ Under(KeyOf(p, i)) # {})
    <3>1. f[i] = call[p].results[i]
      BY <2>2
    <3>2. call[p].results[i] \in Result /\ Stage(p) /\ Truthful(p, i)
      BY CallTyped DEF IntakeInv, RequestInv
    <3>3. i \notin Accepted(p) /\ (Says(p, i, "open") => Untouched(p, i))
      BY <1>1, <3>2 DEF Stage
    <3>. HIDE DEF f
    <3>. QED BY <3>1, <3>2, <3>3
             DEF Result, Outcomes, Accepted, Says, Untouched, Truthful
  <2>. QED BY <2>1, <2>2
<1>3. f = [i \in Entries(p) |-> f[i]]
  OBVIOUS
<1> HIDE DEF f
<1>. QED BY <1>1, <1>2, <1>3, ResultsKept

\* The entries that remain have the places after the messages there are, each
\* its own and none left out.
LEMMA Places ==
  ASSUME TypeOK, NEW p \in Callers
  PROVE  /\ Cardinality(Remaining(p)) \in Nat
         /\ Cardinality(Remaining(p)) <= Len(call[p].entries)
         /\ \A i \in Remaining(p) :
              Place(p, i) \in Len(rows) + 1 .. Len(rows) + Cardinality(Remaining(p))
         /\ \A i, j \in Remaining(p) : Place(p, i) = Place(p, j) => i = j
         /\ \A k \in 1 .. Cardinality(Remaining(p)) :
              \E i \in Remaining(p) : Place(p, i) = Len(rows) + k
<1> DEFINE rem == Remaining(p)
           m == Cardinality(rem)
           rank(i) == Cardinality(UpTo(rem, i))
<1>1. rem \in SUBSET (1 .. Len(call[p].entries)) /\ Len(call[p].entries) \in Nat
      /\ Len(rows) \in Nat
  BY CallTyped, RowsTyped DEF Remaining, Entries
<1>2. \A i : Place(p, i) = Len(rows) + rank(i)
  BY DEF Place, UpTo
<1> HIDE DEF rem
<1>3. /\ m \in Nat /\ m <= Len(call[p].entries)
      /\ \A i \in rem : rank(i) \in 1 .. m
      /\ \A i, j \in rem : i < j => rank(i) < rank(j)
  BY <1>1, UpToGrows
<1>4. \A k \in 1 .. m : \E i \in rem : rank(i) = k
  BY <1>1, EveryNumberTaken
<1> HIDE DEF m, rank
<1>5. \A i, j \in rem : rank(i) = rank(j) => i = j
  <2>1. \A i, j \in rem : i < j \/ j < i \/ i = j
    BY <1>1
  <2>. QED BY <1>3, <2>1
<1>6. \A i \in rem : Place(p, i) \in Len(rows) + 1 .. Len(rows) + m
  BY <1>1, <1>2, <1>3
<1>7. \A i, j \in rem : Place(p, i) = Place(p, j) => i = j
  BY <1>1, <1>2, <1>3, <1>5
<1>8. \A k \in 1 .. m : \E i \in rem : Place(p, i) = Len(rows) + k
  BY <1>2, <1>4
<1>. QED BY <1>3, <1>6, <1>7, <1>8 DEF rem, m

\* The rows a bulk insert adds.
Added(p) == [k \in 1 .. Cardinality(Remaining(p)) |->
               NewRow(p, CHOOSE i \in Remaining(p) : Place(p, i) = Len(rows) + k, 2)]

LEMMA AddedRows ==
  ASSUME IntakeInv, NEW p \in Callers, call[p].step # "none"
  PROVE  /\ rows \o Added(p) \in Seq(Row)
         /\ \A n : n \in DOMAIN (rows \o Added(p)) <=>
                     n \in DOMAIN rows \/ \E i \in Remaining(p) : n = Place(p, i)
         /\ \A n \in DOMAIN rows : (rows \o Added(p))[n] = rows[n]
         /\ \A i \in Remaining(p) : /\ (rows \o Added(p))[Place(p, i)] = NewRow(p, i, 2)
                                    /\ Place(p, i) \notin DOMAIN rows /\ Place(p, i) \in Nat
         /\ Len(rows \o Added(p)) = Len(rows) + Cardinality(Remaining(p))
<1> DEFINE rem == Remaining(p)
           m == Cardinality(rem)
           At(k) == CHOOSE i \in rem : Place(p, i) = Len(rows) + k
           all == rows \o Added(p)
<1>1. /\ rows \in Seq(Row) /\ Len(rows) \in Nat /\ DOMAIN rows = 1 .. Len(rows)
      /\ rem \in SUBSET Entries(p)
      /\ Len(call[p].entries) <= MaxEntries /\ call[p].id # 0 /\ TypeOK
  <2>1. rem \in SUBSET Entries(p)
    BY DEF Remaining
  <2>2. rows \in Seq(Row) /\ Len(call[p].entries) \in 1 .. MaxEntries /\ TypeOK
    BY DEF IntakeInv, TypeOK
  <2>3. call[p].id # 0
    BY DEF IntakeInv, TypeOK, Numbered
  <2>. QED BY <2>1, <2>2, <2>3, RowsTyped, IntakeAssumption
<1>2. /\ m \in Nat
      /\ \A i \in rem : Place(p, i) \in Len(rows) + 1 .. Len(rows) + m
      /\ \A i, j \in rem : Place(p, i) = Place(p, j) => i = j
      /\ \A k \in 1 .. m : \E i \in rem : Place(p, i) = Len(rows) + k
  BY <1>1, Places
<1>3. \A k \in 1 .. m : At(k) \in rem /\ Place(p, At(k)) = Len(rows) + k
  BY <1>2
<1>4. \A k \in 1 .. m : Added(p)[k] = NewRow(p, At(k), 2)
  BY DEF Added
<1>5. Added(p) \in [1 .. m -> Row]
  <2>1. \A k \in 1 .. m : NewRow(p, At(k), 2) \in Row
    BY <1>1, <1>3, NewRowTyped
  <2>2. Added(p) = [k \in 1 .. m |-> NewRow(p, At(k), 2)]
    BY DEF Added
  <2>. HIDE DEF m, At
  <2>. QED BY <2>1, <2>2
<1> HIDE DEF At, m, rem
<1>6. Added(p) \in Seq(Row) /\ Len(Added(p)) = m
  BY <1>2, <1>5, SeqOfFunction
<1>7. /\ all \in Seq(Row) /\ Len(all) = Len(rows) + m
      /\ \A n \in 1 .. Len(rows) : all[n] = rows[n]
      /\ \A k \in 1 .. m : all[Len(rows) + k] = Added(p)[k]
  <2>1. /\ all \in Seq(Row) /\ Len(all) = Len(rows) + Len(Added(p))
        /\ \A n \in 1 .. Len(rows) + Len(Added(p)) :
             all[n] = IF n <= Len(rows) THEN rows[n] ELSE Added(p)[n - Len(rows)]
    BY <1>1, <1>6, ConcatProperties
  <2>. HIDE DEF all
  <2>2. ASSUME NEW n \in 1 .. Len(rows) PROVE all[n] = rows[n]
    BY <1>1, <1>2, <1>6, <2>1
  <2>3. ASSUME NEW k \in 1 .. m PROVE all[Len(rows) + k] = Added(p)[k]
    <3>1. Len(rows) + k \in 1 .. Len(rows) + m /\ ~(Len(rows) + k <= Len(rows))
          /\ (Len(rows) + k) - Len(rows) = k
      BY <1>1, <1>2
    <3>. QED BY <1>6, <2>1, <3>1
  <2>. QED BY <1>6, <2>1, <2>2, <2>3
<1> HIDE DEF all
<1>8. DOMAIN all = 1 .. Len(rows) + m
  BY <1>7, LenProperties
<1>9. ASSUME NEW i \in rem
      PROVE  /\ all[Place(p, i)] = NewRow(p, i, 2)
             /\ Place(p, i) \notin DOMAIN rows /\ Place(p, i) \in Nat
  <2>1. PICK k \in 1 .. m : Place(p, i) = Len(rows) + k
    <3>1. Place(p, i) - Len(rows) \in 1 .. m
          /\ Place(p, i) = Len(rows) + (Place(p, i) - Len(rows))
      BY <1>1, <1>2
    <3>. QED BY <3>1
  <2>2. At(k) = i
    BY <1>2, <1>3, <2>1
  <2>3. all[Place(p, i)] = NewRow(p, i, 2)
    BY <1>4, <1>7, <2>1, <2>2
  <2>4. Place(p, i) \notin DOMAIN rows /\ Place(p, i) \in Nat
    BY <1>1, <1>2, <2>1
  <2>. QED BY <2>3, <2>4
<1>10. ASSUME NEW n
       PROVE  n \in DOMAIN all <=> n \in DOMAIN rows \/ \E i \in rem : n = Place(p, i)
  <2>1. ASSUME n \in DOMAIN all, n \notin DOMAIN rows PROVE \E i \in rem : n = Place(p, i)
    <3>1. n - Len(rows) \in 1 .. m /\ n = Len(rows) + (n - Len(rows))
      BY <1>1, <1>2, <1>8, <2>1
    <3>2. PICK k \in 1 .. m : n = Len(rows) + k
      BY <3>1
    <3>. QED BY <1>2, <3>2
  <2>2. n \in DOMAIN rows => n \in DOMAIN all
    BY <1>1, <1>2, <1>8
  <2>3. \A i \in rem : Place(p, i) \in DOMAIN all
    BY <1>1, <1>2, <1>8
  <2>. QED BY <2>1, <2>2, <2>3
<1>. QED BY <1>1, <1>7, <1>9, <1>10 DEF all, rem, m

LEMMA RefusedKept ==
  ASSUME IntakeInv, NEW p \in Callers, call[p].step = "inserting",
         call' = [call EXCEPT ![p] = AfterRefusal(p)],
         UNCHANGED <<rows, asked, upsets, slides, crowd>>
  PROVE  IntakeInv'
<1> DEFINE c == AfterRefusal(p)
<1>1. /\ TypeOK /\ Stage(p) /\ call[p] \in Call
      /\ Len(call[p].results) = Len(call[p].entries)
      /\ \A i \in Entries(p) : Truthful(p, i)
  BY CallTyped DEF IntakeInv, RequestInv
<1>2. /\ c \in Call /\ c.step \in {"resolving", "failed"} /\ c.id = call[p].id
      /\ c.kind = call[p].kind /\ c.key = call[p].key /\ c.entries = call[p].entries
      /\ c.results = call[p].results
  BY <1>1 DEF AfterRefusal, Call, Working, Ended
<1>3. call'[p] = c
  BY <1>1 DEF TypeOK
<1> HIDE DEF c
<1>4. /\ call'[p].entries = call[p].entries /\ call'[p].id = call[p].id
      /\ call'[p].kind = call[p].kind /\ call'[p].key = call[p].key
      /\ call'[p].results = call[p].results /\ rows' = rows
  BY <1>2, <1>3
<1>5. Entries(p)' = Entries(p) /\ Written(p)' = Written(p) /\ Accepted(p)' = Accepted(p)
  BY <1>4 DEF Entries, Written, Accepted, Says
<1>6. \A i : /\ Says(p, i, "open")' = Says(p, i, "open")
             /\ Untouched(p, i)' = Untouched(p, i) /\ KeyOf(p, i)' = KeyOf(p, i)
  BY <1>4 DEF Says, Untouched, KeyOf
<1>7. \A i \in Entries(p)' : Truthful(p, i)'
  BY <1>1, <1>4, <1>5, <1>6 DEF Truthful
<1>8. Stage(p)'
  BY <1>1, <1>2, <1>3, <1>4, <1>5, <1>6 DEF Stage
<1>9. RequestInv(p)'
  BY <1>7, <1>8 DEF RequestInv
<1>10. c.step # "none" /\ upsets' \in 0 .. MaxUpsets /\ crowd' \in Nat
       /\ call' = [call EXCEPT ![p] = c] /\ Len(c.results) = Len(c.entries)
  BY <1>1, <1>2 DEF TypeOK, c
<1>. QED BY <1>2, <1>4, <1>9, <1>10, OwnStepOnly

\* The entries that remain are written, each under its own key, which nobody has
\* taken.
LEMMA WrittenKept ==
  ASSUME IntakeInv, NEW p \in Callers, call[p].step = "inserting",
         \A i \in Remaining(p) : Under(KeyOf(p, i)) = {},
         rows' = rows \o Added(p),
         call' = [call EXCEPT ![p].step = "answered",
                    ![p].results = [i \in Entries(p) |->
                       IF i \in Remaining(p) THEN Is("accepted", Place(p, i))
                       ELSE call[p].results[i]]],
         UNCHANGED <<asked, upsets, slides, crowd>>
  PROVE  IntakeInv'
<1> DEFINE rem == Remaining(p)
           f == [i \in Entries(p) |-> IF i \in rem THEN Is("accepted", Place(p, i))
                                      ELSE call[p].results[i]]
           c == [call[p] EXCEPT !.step = "answered", !.results = f]
<1>1. /\ TypeOK /\ Stage(p) /\ call[p] \in Call /\ rem \in SUBSET Entries(p)
      /\ Len(call[p].results) = Len(call[p].entries) /\ Len(call[p].entries) \in Nat
      /\ \A i \in Entries(p) : call[p].results[i] \in Result
      /\ \A i \in Entries(p) : Truthful(p, i)
  BY CallTyped DEF IntakeInv, RequestInv, Remaining
<1>2. /\ rows' \in Seq(Row)
      /\ \A n : n \in DOMAIN rows' <=> n \in DOMAIN rows \/ \E i \in rem : n = Place(p, i)
      /\ \A n \in DOMAIN rows : rows'[n] = rows[n]
      /\ \A i \in rem : /\ rows'[Place(p, i)] = NewRow(p, i, 2)
                        /\ Place(p, i) \notin DOMAIN rows /\ Place(p, i) \in Nat
  BY AddedRows
<1>3. /\ call[p].kind = "bulk" /\ Written(p) = {} /\ Accepted(p) = {}
  BY <1>1 DEF Stage
<1>4. \A i \in Entries(p) : f[i] = IF i \in rem THEN Is("accepted", Place(p, i))
                                   ELSE call[p].results[i]
  OBVIOUS
<1>0. \A i \in rem : i \in Entries(p) /\ f[i].is = "accepted" /\ f[i].row = Place(p, i)
  <2>1. \A i \in rem : i \in Entries(p) /\ f[i] = Is("accepted", Place(p, i))
    BY <1>1, <1>4
  <2>2. \A n : Is("accepted", n).is = "accepted" /\ Is("accepted", n).row = n
    BY DEF Is
  <2>. HIDE DEF f, rem
  <2>. QED BY <2>1, <2>2
<1>5. f \in Seq(Result) /\ Len(f) = Len(call[p].entries)
  <2>1. \A i \in Entries(p) : f[i] \in Result
    BY <1>1, <1>2, <1>4 DEF Is, Result, Outcomes
  <2>2. f \in [1 .. Len(call[p].entries) -> Result]
    BY <2>1 DEF Entries
  <2>. HIDE DEF f
  <2>. QED BY <1>1, <2>2, SeqOfFunction
<1>6. call' = [call EXCEPT ![p] = c] /\ call'[p] = c
  BY <1>1 DEF TypeOK, Call
<1> HIDE DEF f
<1>7. /\ c \in Call /\ c.step = "answered" /\ c.id = call[p].id /\ c.kind = call[p].kind
      /\ c.key = call[p].key /\ c.entries = call[p].entries /\ c.results = f
      /\ Len(c.results) = Len(c.entries)
  BY <1>1, <1>5 DEF Call, Ended
<1> HIDE DEF c
<1>8. /\ call'[p].entries = call[p].entries /\ call'[p].id = call[p].id
      /\ call'[p].kind = call[p].kind /\ call'[p].key = call[p].key
      /\ call'[p].results = f /\ call'[p].step = "answered"
  BY <1>6, <1>7
<1>9. Entries(p)' = Entries(p)
  BY <1>8 DEF Entries
<1>10. \A i : KeyOf(p, i)' = KeyOf(p, i)
  BY <1>8 DEF KeyOf
<1>11. \A i \in rem : /\ NewRow(p, i, 2).by = call[p].id
                      /\ NewRow(p, i, 2).key = KeyOf(p, i)
                      /\ NewRow(p, i, 2).content = call[p].entries[i]
                      /\ NewRow(p, i, 2).traced = 2
  BY DEF NewRow
<1> HIDE DEF rem
<1>12. RowsKeptBut(call[p].id)
  <2>1. ASSUME NEW n \in DOMAIN rows' \ DOMAIN rows PROVE rows'[n].by = call[p].id
    BY <1>2, <1>11, <2>1
  <2>. QED BY <1>2, <2>1 DEF RowsKeptBut
<1>13. OneRowPerKey'
  <2>1. \A i, j \in rem : KeyOf(p, i) = KeyOf(p, j) /\ KeyOf(p, i) # NoKey => i = j
    BY <1>3 DEF KeyOf
  <2>2. \A i \in rem, n \in DOMAIN rows : KeyOf(p, i) # NoKey => rows[n].key # KeyOf(p, i)
    BY DEF Under, rem
  <2>3. ASSUME NEW m \in DOMAIN rows', NEW n \in DOMAIN rows',
               rows'[m].key = rows'[n].key, rows'[m].key # NoKey
        PROVE  m = n
    <3>1. CASE m \in DOMAIN rows /\ n \in DOMAIN rows
      BY <1>2, <2>3, <3>1 DEF IntakeInv, OneRowPerKey
    <3>2. CASE m \in DOMAIN rows /\ n \notin DOMAIN rows
      BY <1>2, <1>11, <2>2, <2>3, <3>2
    <3>3. CASE m \notin DOMAIN rows /\ n \in DOMAIN rows
      BY <1>2, <1>11, <2>2, <2>3, <3>3
    <3>4. CASE m \notin DOMAIN rows /\ n \notin DOMAIN rows
      BY <1>2, <1>11, <2>1, <2>3, <3>4
    <3>. QED BY <3>1, <3>2, <3>3, <3>4
  <2>. QED BY <2>3 DEF OneRowPerKey
<1>14. Accepted(p)' = rem
  <2>1. \A i \in Entries(p) \ rem : f[i].is # "accepted"
    BY <1>3, <1>4 DEF Accepted, Says
  <2>. QED BY <1>0, <1>8, <1>9, <2>1 DEF Accepted, Says
<1>15. Written(p)' = AcceptedRows(p)'
  <2>1. AcceptedRows(p)' = {f[i].row : i \in rem}
    BY <1>8, <1>14 DEF AcceptedRows
  <2>2. {f[i].row : i \in rem} = {Place(p, i) : i \in rem}
    BY <1>0
  <2>3. \A n \in DOMAIN rows : rows[n].by # call[p].id
    BY <1>3 DEF Written
  <2>4. \A n : n \in Written(p)' <=> \E i \in rem : n = Place(p, i)
    <3>1. \A n : n \in Written(p)' <=> n \in DOMAIN rows' /\ rows'[n].by = call[p].id
      BY <1>8 DEF Written
    <3>2. \A n \in DOMAIN rows : rows'[n].by # call[p].id
      BY <1>2, <2>3
    <3>3. \A i \in rem : Place(p, i) \in DOMAIN rows' /\ rows'[Place(p, i)].by = call[p].id
      BY <1>2, <1>11
    <3>. QED BY <1>2, <3>1, <3>2, <3>3
  <2>. QED BY <2>1, <2>2, <2>4
<1>16. \A i \in Entries(p) : f[i].is # "open"
  <2>1. \A i \in Entries(p) \ rem : f[i] = call[p].results[i] /\ call[p].results[i].is # "open"
    BY <1>4 DEF rem, Remaining
  <2>. QED BY <1>0, <2>1
<1>17. Stage(p)'
  BY <1>8, <1>9, <1>15, <1>16 DEF Stage, Says
<1>18. ASSUME NEW i \in Entries(p) PROVE Truthful(p, i)'
  <2>1. CASE i \in rem
    <3>1. f[i].is = "accepted" /\ f[i].row = Place(p, i)
      BY <1>0, <2>1
    <3>2. Place(p, i) \in DOMAIN rows' /\ rows'[Place(p, i)] = NewRow(p, i, 2)
      BY <1>2, <2>1
    <3>. QED BY <1>8, <1>10, <1>11, <2>1, <3>1, <3>2 DEF Truthful
  <2>2. CASE i \notin rem
    <3>1. f[i] = call[p].results[i] /\ Truthful(p, i)
      BY <1>1, <1>4, <2>2
    <3>. QED BY <1>2, <1>8, <1>10, <3>1 DEF Truthful
  <2>. QED BY <2>1, <2>2
<1>19. RequestInv(p)'
  BY <1>9, <1>17, <1>18 DEF RequestInv
<1>20. c.step # "none" /\ call[p].step # "none" /\ upsets' \in 0 .. MaxUpsets /\ crowd' \in Nat
  BY <1>1, <1>7 DEF TypeOK
<1>. QED BY <1>2, <1>6, <1>7, <1>12, <1>13, <1>19, <1>20, OwnStep

LEMMA InsertBulkKept ==
  ASSUME IntakeInv, NEW p \in Callers, InsertBulk(p)
  PROVE  IntakeInv'
<1>1. CASE \E i \in Remaining(p) : Under(KeyOf(p, i)) # {}
  BY <1>1, RefusedKept DEF InsertBulk
<1>2. CASE \A i \in Remaining(p) : Under(KeyOf(p, i)) = {}
  BY <1>2, WrittenKept DEF InsertBulk, Added
<1>. QED BY <1>1, <1>2

-----------------------------------------------------------------------------
(* The window, and what a run begins with. *)

LEMMA WindowSlidesKept ==
  ASSUME IntakeInv, WindowSlides
  PROVE  IntakeInv'
<1>1. PICK n \in DOMAIN rows : rows' = [rows EXCEPT ![n].fresh = FALSE]
  BY DEF WindowSlides
<1>2. /\ call' = call /\ asked' = asked /\ upsets' = upsets /\ crowd' = crowd
      /\ slides' \in 0 .. MaxSlides /\ TypeOK
  BY IntakeAssumption DEF WindowSlides, IntakeInv, TypeOK
<1>3. /\ rows \in Seq(Row) /\ DOMAIN rows = 1 .. Len(rows) /\ Len(rows) \in Nat
      /\ \A k \in DOMAIN rows : rows[k] \in Row
  BY <1>2, RowsTyped DEF TypeOK
<1>4. [rows[n] EXCEPT !.fresh = FALSE] \in Row
  BY <1>3 DEF Row
<1>5. rows' = [rows EXCEPT ![n] = [rows[n] EXCEPT !.fresh = FALSE]]
  BY <1>1, <1>3 DEF Row
<1>6. /\ rows' \in Seq(Row) /\ DOMAIN rows' = DOMAIN rows
      /\ rows'[n] = [rows[n] EXCEPT !.fresh = FALSE]
      /\ \A k \in DOMAIN rows \ {n} : rows'[k] = rows[k]
  BY <1>3, <1>4, <1>5, ExceptSeq
<1>7. \A k \in DOMAIN rows : /\ rows'[k].key = rows[k].key
                             /\ rows'[k].content = rows[k].content
                             /\ rows'[k].by = rows[k].by
                             /\ rows'[k].traced = rows[k].traced
  <2>1. /\ rows'[n].key = rows[n].key /\ rows'[n].content = rows[n].content
        /\ rows'[n].by = rows[n].by /\ rows'[n].traced = rows[n].traced
    BY <1>3, <1>6 DEF Row
  <2>. QED BY <1>6, <2>1
<1>8. RowsKeptBut(asked + 1)
  BY <1>6, <1>7 DEF RowsKeptBut
<1>9. \A q \in Callers : asked + 1 # call[q].id
  BY DEF IntakeInv, TypeOK, Numbered
<1>10. \A q \in Callers : RequestInv(q)'
  BY <1>2, <1>8, <1>9, OthersKept DEF IntakeInv
<1>11. OneRowPerKey'
  BY <1>6, <1>7 DEF IntakeInv, OneRowPerKey
<1>12. Numbered'
  BY <1>2, <1>6, <1>7 DEF IntakeInv, Numbered
<1>13. TypeOK'
  BY <1>2, <1>6 DEF TypeOK
<1>. QED BY <1>2, <1>10, <1>11, <1>12, <1>13 DEF IntakeInv

LEMMA InitInv == Init => IntakeInv
<1> SUFFICES ASSUME Init PROVE IntakeInv
  OBVIOUS
<1>1. NoCall \in Call /\ Len(NoCall.results) = 0 /\ Len(NoCall.entries) = 0
      /\ NoCall.step = "none" /\ NoCall.id = 0
  BY IntakeAssumption, EmptySeq DEF NoCall, Call, Working, Ended, Kinds
<1>2. \A p \in Callers : call[p] = NoCall
  BY DEF Init
<1>3. rows \in Seq(Row) /\ DOMAIN rows = {}
  BY EmptySeq DEF Init
<1>4. TypeOK
  BY <1>1, <1>2, <1>3, IntakeAssumption DEF Init, TypeOK
<1>5. Numbered /\ OneRowPerKey
  BY <1>1, <1>2, <1>3 DEF Numbered, OneRowPerKey
<1>6. ASSUME NEW p \in Callers PROVE RequestInv(p)
  <2>1. Entries(p) = {}
    BY <1>1, <1>2 DEF Entries
  <2>. QED BY <1>1, <1>2, <2>1 DEF RequestInv, Stage
<1>. QED BY <1>1, <1>2, <1>4, <1>5, <1>6 DEF IntakeInv

LEMMA NextInv == IntakeInv /\ [Next]_vars => IntakeInv'
<1> SUFFICES ASSUME IntakeInv, [Next]_vars PROVE IntakeInv'
  OBVIOUS
<1>1. ASSUME NEW p \in Callers, NEW kind \in Kinds, NEW key \in Keys \union {NoKey},
             NEW entries \in Bodies, Ask(p, kind, key, entries)
      PROVE  IntakeInv'
  BY <1>1, AskKept
<1>2. ASSUME NEW p \in Callers,
             Weigh(p) \/ Reject(p) \/ LookUp(p) \/ Create(p) \/ Trace(p)
      PROVE  IntakeInv'
  BY <1>2, WeighKept, RejectKept, LookUpKept, CreateKept, TraceKept
<1>3. ASSUME NEW p \in Callers, Sort(p) \/ Resolve(p) \/ InsertBulk(p) \/ Fail(p)
      PROVE  IntakeInv'
  BY <1>3, SortKept, ResolveKept, InsertBulkKept, FailKept
<1>4. CASE WindowSlides
  BY <1>4, WindowSlidesKept
<1>5. CASE UNCHANGED vars
  <2>1. rows' = rows /\ call' = call /\ asked' = asked
        /\ upsets' = upsets /\ slides' = slides /\ crowd' = crowd
    BY <1>5 DEF vars
  <2>2. RowsKeptBut(asked + 1)
    BY <2>1 DEF RowsKeptBut
  <2>3. \A q \in Callers : asked + 1 # call[q].id
    BY DEF IntakeInv, TypeOK, Numbered
  <2>4. \A q \in Callers : RequestInv(q)'
    BY <2>1, <2>2, <2>3, OthersKept DEF IntakeInv
  <2>5. TypeOK' /\ Numbered' /\ OneRowPerKey'
    BY <2>1 DEF IntakeInv, TypeOK, Numbered, OneRowPerKey
  <2>. QED BY <2>1, <2>4, <2>5 DEF IntakeInv
<1>. QED BY <1>1, <1>2, <1>3, <1>4, <1>5 DEF Next

LEMMA InvHolds == Spec => []IntakeInv
<1>. QED BY InitInv, NextInv, PTL DEF Spec

\* The rows of messages and the requests under way are well typed, whatever is
\* asked, refused, stored, repeated and given up (sms_service.ts).
THEOREM AlwaysTyped == Spec => []TypeOK
<1>1. IntakeInv => TypeOK
  BY DEF IntakeInv
<1>. QED BY <1>1, InvHolds, PTL

\* For any number of requests at once, under the same key or not, what each is
\* told of its entries is what the table holds, and it has written what it says
\* it accepted and nothing else; of a bulk request that failed nothing is there
\* (SmsService.send, sendBulk).
THEOREM AnswersAreTrue == Spec => []AnswersTrue
<1>1. ASSUME IntakeInv PROVE AnswersTrue
  <2> SUFFICES ASSUME NEW p \in Callers
               PROVE  LET written == {n \in DOMAIN rows : rows[n].by = call[p].id}
                      IN  /\ call[p].step = "answered" =>
                               /\ \A i \in Entries(p) :
                                    /\ Says(p, i, "accepted") \/ Says(p, i, "duplicate")
                                         => /\ Told(p, i).content = call[p].entries[i]
                                            /\ Told(p, i).key = KeyOf(p, i)
                                    /\ Says(p, i, "accepted") => Told(p, i).traced = 2
                                    /\ Says(p, i, "conflict") =>
                                         Told(p, i).content # call[p].entries[i]
                                    /\ ~Says(p, i, "open")
                               /\ written = {call[p].results[i].row :
                                               i \in {j \in Entries(p) : Says(p, j, "accepted")}}
                          /\ call[p].step = "failed" /\ call[p].kind = "bulk" => written = {}
    BY DEF AnswersTrue
  <2>1. Stage(p) /\ \A i \in Entries(p) : Truthful(p, i)
    BY <1>1 DEF IntakeInv, RequestInv
  <2>2. ASSUME call[p].step = "answered", NEW i \in Entries(p)
        PROVE  /\ Says(p, i, "accepted") \/ Says(p, i, "duplicate")
                    => /\ Told(p, i).content = call[p].entries[i]
                       /\ Told(p, i).key = KeyOf(p, i)
               /\ Says(p, i, "accepted") => Told(p, i).traced = 2
               /\ Says(p, i, "conflict") => Told(p, i).content # call[p].entries[i]
               /\ ~Says(p, i, "open")
    BY <2>1, <2>2 DEF Stage, Truthful, Says, Told
  <2>3. call[p].step = "answered" => Written(p) = AcceptedRows(p)
    BY <2>1 DEF Stage
  <2>4. call[p].step = "failed" /\ call[p].kind = "bulk" => Written(p) = {}
    BY <2>1 DEF Stage
  <2>. QED BY <2>2, <2>3, <2>4 DEF Written, AcceptedRows, Accepted
<1>. QED BY <1>1, InvHolds, PTL

\* A key stands for one message, for any number of requests that carry it, at
\* once or again, after faults or without: the unique index decides, not the
\* lookup (SmsService.send, sendBulk, findByIdempotencyKey).
THEOREM KeysStayUnique == Spec => []OneMessagePerKey
<1> DEFINE Placed(p, i) == /\ call[p].step = "answered" /\ call[p].key # NoKey
                           /\ call[p].results[i].is \in {"accepted", "duplicate", "conflict"}
<1>1. ASSUME IntakeInv PROVE OneMessagePerKey
  <2>1. ASSUME NEW p \in Callers, NEW i \in Entries(p), Placed(p, i)
        PROVE  /\ call[p].results[i].row \in DOMAIN rows
               /\ rows[call[p].results[i].row].key = KeyOf(p, i)
               /\ KeyOf(p, i) # NoKey
    <3>1. Truthful(p, i)
      BY <1>1 DEF IntakeInv, RequestInv
    <3>2. KeyOf(p, i) \in Keys \X (0 .. MaxEntries)
      <4>1. call[p].key \in Keys /\ Len(call[p].entries) \in 1 .. MaxEntries
        BY <1>1, <2>1, CallTyped DEF IntakeInv, Call
      <4>. QED BY <2>1, <4>1, IntakeAssumption DEF KeyOf, Entries
    <3>. QED BY <2>1, <3>1, <3>2, IntakeAssumption DEF Truthful
  <2>2. ASSUME NEW p \in Callers, NEW q \in Callers, NEW i \in Entries(p), NEW j \in Entries(q),
               Placed(p, i), Placed(q, j), KeyOf(p, i) = KeyOf(q, j)
        PROVE  call[p].results[i].row = call[q].results[j].row
    <3>1. OneRowPerKey
      BY <1>1 DEF IntakeInv
    <3>. QED BY <2>1, <2>2, <3>1 DEF OneRowPerKey
  <2>. QED BY <2>2 DEF OneMessagePerKey
<1>. QED BY <1>1, InvHolds, PTL

-----------------------------------------------------------------------------
(* The rate limit: what is written and what may still be written. *)

Fresh == {n \in DOMAIN rows : rows[n].fresh}

LEMMA CountsTyped ==
  ASSUME TypeOK, NEW p \in Callers
  PROVE  /\ IsFiniteSet(Fresh) /\ Usage = Cardinality(Fresh) /\ Usage \in Nat
         /\ IsFiniteSet(Written(p)) /\ Cardinality(Written(p)) \in Nat
<1>1. IsFiniteSet(DOMAIN rows)
  <2>1. Len(rows) \in Nat /\ DOMAIN rows = 1 .. Len(rows)
    BY RowsTyped
  <2>. QED BY <2>1, FS_Interval
<1>2. Fresh \in SUBSET DOMAIN rows /\ Written(p) \in SUBSET DOMAIN rows
      /\ Usage = Cardinality(Fresh)
  BY DEF Fresh, Written, Usage
<1>. QED BY <1>1, <1>2, FS_Subset, FS_CardinalityType

\* No request has written more than it was admitted for.
LEMMA OutstandingBounded ==
  ASSUME IntakeInv, NEW p \in Callers
  PROVE  Outstanding(p) \in Nat /\ Outstanding(p) <= MaxEntries
<1>1. /\ TypeOK /\ Stage(p) /\ Len(call[p].entries) \in Nat
      /\ IsFiniteSet(Written(p)) /\ Cardinality(Written(p)) \in Nat
      /\ call[p].step # "none" => Len(call[p].entries) <= MaxEntries
  BY CallTyped, CountsTyped, IntakeAssumption DEF IntakeInv, RequestInv
<1>2. MaxEntries \in Nat
  BY IntakeAssumption
<1>3. CASE call[p].step \in Ended \union {"weighing"}
  BY <1>2, <1>3 DEF Outstanding, Ended, Working
<1>4. CASE call[p].step \in Working \ {"weighing"}
  <2>1. Outstanding(p) = Len(call[p].entries) - Cardinality(Written(p))
    BY <1>4 DEF Outstanding, Written
  <2>2. Cardinality(Written(p)) <= Len(call[p].entries)
    <3>1. IsFiniteSet(Entries(p)) /\ Cardinality(Entries(p)) = Len(call[p].entries)
      <4>1. \A n \in Nat : IsFiniteSet(1 .. n) /\ Cardinality(1 .. n) = n
        BY FS_Interval
      <4>. QED BY <1>1, <4>1 DEF Entries
    <3>2. CASE call[p].step \in {"sorting", "resolving", "inserting"}
      BY <1>1, <3>2, FS_EmptySet DEF Stage
    <3>3. CASE call[p].step \in {"looking", "creating", "tracing"}
      <4> DEFINE f == [i \in Entries(p) |-> call[p].results[i].row]
                 S == {i \in Entries(p) : f[i] \in Written(p)}
                 g == [i \in S |-> f[i]]
      <4>1. \A n \in Written(p) : \E i \in Entries(p) : f[i] = n
        BY <1>1, <3>3 DEF Stage, AcceptedRows, Accepted, AtEntry
      <4>2. S \in SUBSET Entries(p)
        OBVIOUS
      <4>3. IsFiniteSet(S) /\ Cardinality(S) <= Len(call[p].entries)
            /\ Cardinality(S) \in Nat
        BY <3>1, <4>2, FS_Subset, FS_CardinalityType
      <4>4. \A n \in Written(p) : \E i \in S : g[i] = n
        BY <4>1
      <4>5. g \in Surjection(S, Written(p))
        BY <4>4 DEF Surjection
      <4>. HIDE DEF S, g, f
      <4>. QED BY <1>1, <4>3, <4>5, FS_Surjection
    <3>. QED BY <1>4, <3>2, <3>3 DEF Working
  <2>3. call[p].step # "none"
    BY <1>4 DEF Working
  <2>. QED BY <1>1, <1>2, <2>1, <2>2, <2>3
<1>. QED BY <1>1, <1>3, <1>4 DEF TypeOK, Call

\* What one request owes, apart from what the others do.
LEMMA DebtsSplit ==
  ASSUME IntakeInv, NEW p \in Callers
  PROVE  Cardinality(Debts) = Cardinality(DebtsBut(p)) + Outstanding(p)
<1> DEFINE own == {p} \X (1 .. Outstanding(p))
<1>1. Outstanding(p) \in Nat /\ Outstanding(p) <= MaxEntries /\ MaxEntries \in Nat
  BY OutstandingBounded, IntakeAssumption
<1>2. Debts = DebtsBut(p) \union own /\ DebtsBut(p) \intersect own = {}
  BY <1>1 DEF Debts, DebtsBut
<1>3. IsFiniteSet(own) /\ Cardinality(own) = Outstanding(p)
  <2>1. IsFiniteSet({p}) /\ Cardinality({p}) = 1
    BY FS_Singleton
  <2>2. /\ IsFiniteSet(1 .. Outstanding(p))
        /\ Cardinality(1 .. Outstanding(p)) = Outstanding(p)
    BY <1>1, FS_Interval
  <2>3. /\ IsFiniteSet(own)
        /\ Cardinality(own) = Cardinality({p}) * Cardinality(1 .. Outstanding(p))
    BY <2>1, <2>2, FS_Product
  <2>. QED BY <1>1, <2>1, <2>2, <2>3
<1> HIDE DEF own
<1>4. /\ IsFiniteSet(DebtsBut(p)) /\ Cardinality(DebtsBut(p)) \in Nat
  BY DebtsFinite
<1>5. Cardinality(DebtsBut(p) \union own)
        = Cardinality(DebtsBut(p)) + Cardinality(own) - Cardinality(DebtsBut(p) \intersect own)
  BY <1>3, <1>4, FS_Union
<1>6. Cardinality(DebtsBut(p) \intersect own) = 0
  BY <1>2, FS_EmptySet
<1>. QED BY <1>1, <1>2, <1>3, <1>4, <1>5, <1>6

\* A request's step changes nobody else's debts.
LEMMA OthersDebtsKept ==
  ASSUME IntakeInv, NEW p \in Callers, NEW id, RowsKeptBut(id),
         \A q \in Callers \ {p} : call'[q] = call[q] /\ id # call[q].id
  PROVE  DebtsBut(p)' = DebtsBut(p)
<1>1. ASSUME NEW q \in Callers \ {p} PROVE Outstanding(q)' = Outstanding(q)
  <2>1. call'[q] = call[q]
    OBVIOUS
  <2>2. Written(q)' = Written(q)
    BY DEF Written, RowsKeptBut
  <2>. QED BY <2>1, <2>2 DEF Outstanding, Written
<1>. QED BY <1>1 DEF DebtsBut

\* The sums as they stand in a state: a step is reasoned about with these alone.
Balanced ==
    /\ Usage \in Nat /\ Cardinality(Debts) \in Nat
    /\ \A p \in Callers :
         /\ Outstanding(p) \in Nat /\ Cardinality(DebtsBut(p)) \in Nat
         /\ Crowd(p) = Cardinality(DebtsBut(p))
         /\ Cardinality(Debts) = Cardinality(DebtsBut(p)) + Outstanding(p)

LEMMA InvBalanced == IntakeInv => Balanced
<1> SUFFICES ASSUME IntakeInv PROVE Balanced
  OBVIOUS
<1>1. Usage \in Nat
  <2>1. IsFiniteSet(DOMAIN rows)
    <3>1. Len(rows) \in Nat /\ DOMAIN rows = 1 .. Len(rows)
      BY RowsTyped DEF IntakeInv
    <3>. QED BY <3>1, FS_Interval
  <2>2. Fresh \in SUBSET DOMAIN rows /\ Usage = Cardinality(Fresh)
    BY DEF Fresh, Usage
  <2>. QED BY <2>1, <2>2, FS_Subset, FS_CardinalityType
<1>2. Cardinality(Debts) \in Nat
  <2>1. IsFiniteSet(Callers \X (1 .. MaxEntries))
    <3>1. IsFiniteSet(Callers) /\ MaxEntries \in Nat
      BY IntakeAssumption
    <3>2. IsFiniteSet(1 .. MaxEntries)
      BY <3>1, FS_Interval
    <3>. QED BY <3>1, <3>2, FS_Product
  <2>2. Debts \in SUBSET (Callers \X (1 .. MaxEntries))
    BY DEF Debts
  <2>. QED BY <2>1, <2>2, FS_Subset, FS_CardinalityType
<1>. QED BY <1>1, <1>2, OutstandingBounded, DebtsFinite, DebtsSplit DEF Balanced

\* A step pays for what it writes out of its own debts.
LEMMA PaidFromOwnDebts ==
  ASSUME Balanced, Balanced', RateInv, NEW p \in Callers,
         DebtsBut(p)' = DebtsBut(p), crowd' = crowd, crowd \in Nat,
         Usage' + Outstanding(p)' <= Usage + Outstanding(p)
  PROVE  RateInv'
<1>1. /\ Usage \in Nat /\ Usage' \in Nat /\ Outstanding(p) \in Nat /\ Outstanding(p)' \in Nat
      /\ Cardinality(DebtsBut(p)) \in Nat
      /\ Cardinality(Debts) = Cardinality(DebtsBut(p)) + Outstanding(p)
      /\ Cardinality(Debts)' = Cardinality(DebtsBut(p)) + Outstanding(p)'
  BY DEF Balanced
<1>. QED BY <1>1, IntakeAssumption DEF RateInv

\* While no message is added none is paid for, and a request's debt stays or ends.
LEMMA NothingAdded ==
  ASSUME IntakeInv, Balanced, Balanced', RateInv, NEW p \in Callers,
         \A q \in Callers \ {p} : call'[q] = call[q],
         NEW id, RowsKeptBut(id), \A q \in Callers \ {p} : id # call[q].id,
         DOMAIN rows' = DOMAIN rows, \A n \in DOMAIN rows : rows'[n].fresh = rows[n].fresh,
         call'[p].step \in Working \ {"weighing"} =>
           /\ call[p].step \in Working \ {"weighing"}
           /\ call'[p].id = call[p].id /\ call'[p].entries = call[p].entries,
         crowd' = crowd
  PROVE  RateInv'
<1>1. DebtsBut(p)' = DebtsBut(p)
  BY OthersDebtsKept
<1>2. Fresh' = Fresh
  BY DEF Fresh
<1>3. Usage' = Usage
  BY <1>2 DEF Usage, Fresh
<1>4. Outstanding(p)' <= Outstanding(p)
  <2>1. CASE call'[p].step \in Working \ {"weighing"}
    <3>1. Written(p)' = Written(p)
      BY <2>1 DEF Written, RowsKeptBut
    <3>2. Outstanding(p)' = Outstanding(p)
      BY <2>1, <3>1 DEF Outstanding, Written
    <3>. QED BY <3>2 DEF Balanced
  <2>2. CASE call'[p].step \notin Working \ {"weighing"}
    BY <2>2 DEF Outstanding, Balanced
  <2>. QED BY <2>1, <2>2
<1>5. Usage' + Outstanding(p)' <= Usage + Outstanding(p)
  BY <1>3, <1>4 DEF Balanced
<1>6. crowd \in Nat
  BY DEF IntakeInv, TypeOK
<1>. QED BY <1>1, <1>5, <1>6, PaidFromOwnDebts

LEMMA RowsUnchanged ==
  ASSUME IntakeInv, Balanced, Balanced', RateInv, NEW p \in Callers,
         rows' = rows, crowd' = crowd, NEW c, call' = [call EXCEPT ![p] = c],
         c.step \in Working \ {"weighing"} =>
           /\ call[p].step \in Working \ {"weighing"}
           /\ c.id = call[p].id /\ c.entries = call[p].entries
  PROVE  RateInv'
<1>1. call'[p] = c /\ \A q \in Callers \ {p} : call'[q] = call[q]
  BY DEF IntakeInv, TypeOK
<1>2. RowsKeptBut(asked + 1)
  BY DEF RowsKeptBut
<1>3. \A q \in Callers \ {p} : asked + 1 # call[q].id
  BY DEF IntakeInv, TypeOK, Numbered
<1>. QED BY <1>1, <1>2, <1>3, NothingAdded

\* An entry answered without a message of its own.
LEMMA AnswerRated ==
  ASSUME IntakeInv, Balanced, Balanced', RateInv, NEW p \in Callers,
         call[p].step \in {"looking", "creating"}, NEW result \in Result,
         call' = [call EXCEPT ![p] = Answered(p, result)], rows' = rows, crowd' = crowd
  PROVE  RateInv'
<1>1. call[p].at \in Entries(p) /\ Len(call[p].entries) <= MaxEntries /\ TypeOK
  BY AtItsEntry DEF IntakeInv
<1>2. /\ Answered(p, result).id = call[p].id
      /\ Answered(p, result).entries = call[p].entries
  BY <1>1, AnsweredTyped
<1>3. call[p].step \in Working \ {"weighing"}
  BY DEF Working
<1>. QED BY <1>2, <1>3, RowsUnchanged

LEMMA WeighRated ==
  ASSUME IntakeInv, Balanced, Balanced', RateInv, NEW p \in Callers, Weigh(p)
  PROVE  RateInv'
<1>1. /\ TypeOK /\ call[p].step = "weighing" /\ Written(p) = {} /\ rows' = rows
      /\ Len(call[p].entries) \in Nat
  BY CallTyped DEF Weigh, IntakeInv, RequestInv, Stage
<1>2. CASE ~Admits(p)
  <2> DEFINE c == [call[p] EXCEPT !.step = "limited"]
  <2>1. call' = [call EXCEPT ![p] = c] /\ c.step = "limited" /\ crowd' = crowd
    BY <1>1, <1>2, CallTyped DEF Weigh, TypeOK, Call
  <2>2. "limited" \notin Working
    BY DEF Working
  <2>. HIDE DEF c
  <2>. QED BY <1>1, <2>1, <2>2, RowsUnchanged
<1>3. CASE Admits(p)
  <2>1. PICK step \in {"looking", "sorting"} : call' = [call EXCEPT ![p].step = step]
    BY <1>3 DEF Weigh
  <2>2. /\ call'[p] = [call[p] EXCEPT !.step = step]
        /\ \A q \in Callers \ {p} : call'[q] = call[q]
    BY <1>1, <2>1 DEF TypeOK
  <2>3. call'[p].step = step /\ call'[p].id = call[p].id /\ call'[p].entries = call[p].entries
    BY <1>1, <2>2, CallTyped DEF Call
  <2>4. Outstanding(p)' = Cost(p)
    <3>1. step \in Working \ {"weighing"}
      BY DEF Working
    <3>2. Written(p)' = {}
      BY <1>1, <2>3 DEF Written
    <3>3. Cardinality({}) = 0
      BY FS_EmptySet
    <3>4. Outstanding(p)' = Len(call'[p].entries) - Cardinality(Written(p)')
      BY <2>3, <3>1 DEF Outstanding, Written
    <3>. QED BY <1>1, <2>3, <3>2, <3>3, <3>4 DEF Cost
  <2>5. DebtsBut(p)' = DebtsBut(p)
    <3>1. RowsKeptBut(asked + 1)
      BY <1>1 DEF RowsKeptBut
    <3>2. \A q \in Callers \ {p} : asked + 1 # call[q].id
      BY DEF IntakeInv, TypeOK, Numbered
    <3>. QED BY <2>2, <3>1, <3>2, OthersDebtsKept
  <2>6. crowd' = Cardinality(DebtsBut(p)) /\ crowd' \in Nat
    BY <1>3 DEF Weigh, Balanced
  <2>7. Usage' = Usage /\ Usage \in Nat
    BY <1>1 DEF Usage, Balanced
  <2>8. Cardinality(Debts)' = crowd' + Cost(p)
    BY <2>4, <2>5, <2>6 DEF Balanced
  <2>9. Limit > 0 => Usage + Cost(p) <= Limit
    BY <1>3, IntakeAssumption DEF Admits
  <2>10. Cost(p) \in Nat
    BY <1>1 DEF Cost
  <2>. QED BY <2>6, <2>7, <2>8, <2>9, <2>10, IntakeAssumption DEF RateInv
<1>. QED BY <1>2, <1>3

LEMMA AskRated ==
  ASSUME IntakeInv, Balanced, Balanced', RateInv, NEW p \in Callers, NEW kind, NEW key,
         NEW entries, Ask(p, kind, key, entries)
  PROVE  RateInv'
<1> DEFINE c == [NoCall EXCEPT !.step = "weighing", !.id = asked + 1,
                  !.kind = kind, !.key = key, !.entries = entries,
                  !.results = [i \in 1 .. Len(entries) |-> Is("open", 0)]]
<1>1. call' = [call EXCEPT ![p] = c] /\ rows' = rows /\ crowd' = crowd
  BY DEF Ask
<1>2. c.step = "weighing"
  BY DEF NoCall
<1> HIDE DEF c
<1>. QED BY <1>1, <1>2, RowsUnchanged

\* Messages are added after those there are, with the window open on them.
LEMMA UsageGrows ==
  ASSUME TypeOK, Balanced, Balanced', NEW m \in Nat, DOMAIN rows' = 1 .. Len(rows) + m,
         \A n \in DOMAIN rows : rows'[n].fresh = rows[n].fresh
  PROVE  Usage' <= Usage + m
<1> DEFINE new == Len(rows) + 1 .. Len(rows) + m
<1>1. Len(rows) \in Nat /\ DOMAIN rows = 1 .. Len(rows)
  BY RowsTyped
<1>2. IsFiniteSet(new) /\ Cardinality(new) = m
  BY <1>1, FS_Interval
<1>3. IsFiniteSet(Fresh) /\ Cardinality(Fresh) = Usage
  <2>1. IsFiniteSet(DOMAIN rows)
    <3>1. \A n \in Nat : IsFiniteSet(1 .. n)
      BY FS_Interval
    <3>. QED BY <1>1, <3>1
  <2>2. Fresh \in SUBSET DOMAIN rows /\ Cardinality(Fresh) = Usage
    BY DEF Fresh, Usage
  <2>. QED BY <2>1, <2>2, FS_Subset
<1>4. Fresh' \in SUBSET (Fresh \union new)
  <2>1. ASSUME NEW n \in Fresh', n \notin new PROVE n \in Fresh
    BY <1>1, <2>1 DEF Fresh
  <2>. QED BY <2>1
<1> HIDE DEF new
<1>5. /\ IsFiniteSet(Fresh \union new)
      /\ Cardinality(Fresh \union new)
           = Cardinality(Fresh) + Cardinality(new) - Cardinality(Fresh \intersect new)
  BY <1>2, <1>3, FS_Union
<1>6. Cardinality(Fresh \intersect new) \in Nat
  <2>1. (Fresh \intersect new) \in SUBSET Fresh
    OBVIOUS
  <2>. QED BY <1>3, <2>1, FS_Subset, FS_CardinalityType
<1>7. Cardinality(Fresh') <= Cardinality(Fresh \union new)
  BY <1>4, <1>5, FS_Subset
<1>8. Usage' = Cardinality(Fresh')
  BY DEF Usage, Fresh
<1>. QED BY <1>2, <1>3, <1>5, <1>6, <1>7, <1>8 DEF Balanced

\* The message stored was owed.
LEMMA CreateRated ==
  ASSUME IntakeInv, Balanced, Balanced', RateInv, NEW p \in Callers, Create(p)
  PROVE  RateInv'
<1> DEFINE i == call[p].at
           c == [call[p] EXCEPT !.step = "tracing", !.results[i] = Is("open", Len(rows) + 1)]
<1>1. /\ call[p].step = "creating" /\ i \in Entries(p) /\ TypeOK /\ crowd' = crowd
      /\ call[p] \in Call /\ IsFiniteSet(Written(p)) /\ Cardinality(Written(p)) \in Nat
      /\ Len(call[p].entries) \in Nat
  BY AtItsEntry, CallTyped, CountsTyped DEF Create, IntakeInv
<1>2. CASE /\ rows' = Append(rows, NewRow(p, i, 0))
           /\ call' = [call EXCEPT ![p].step = "tracing",
                                   ![p].results[i] = Is("open", Len(rows) + 1)]
  <2>1. /\ c.step = "tracing" /\ c.id = call[p].id /\ c.entries = call[p].entries
        /\ call' = [call EXCEPT ![p] = c] /\ call'[p] = c
        /\ \A q \in Callers \ {p} : call'[q] = call[q]
    BY <1>1, <1>2 DEF TypeOK, Call
  <2> HIDE DEF c
  <2>2. /\ Len(rows) \in Nat /\ DOMAIN rows = 1 .. Len(rows)
        /\ DOMAIN rows' = 1 .. Len(rows) + 1
        /\ rows'[Len(rows) + 1].by = call[p].id
        /\ \A n \in DOMAIN rows : rows'[n] = rows[n]
    <3>1. Len(rows) \in Nat /\ DOMAIN rows = 1 .. Len(rows) /\ rows \in Seq(Row)
      BY <1>1, RowsTyped DEF TypeOK
    <3>2. NewRow(p, i, 0).by = call[p].id
      BY DEF NewRow
    <3>3. /\ DOMAIN rows' = 1 .. Len(rows) + 1 /\ rows'[Len(rows) + 1] = NewRow(p, i, 0)
          /\ \A n \in 1 .. Len(rows) : rows'[n] = rows[n]
      BY <1>2, <3>1
    <3>. QED BY <3>1, <3>2, <3>3
  <2>3. RowsKeptBut(call[p].id)
    <3>1. DOMAIN rows' \ DOMAIN rows = {Len(rows) + 1}
          /\ \A n \in DOMAIN rows : n \in DOMAIN rows'
      BY <2>2
    <3>. QED BY <2>2, <3>1 DEF RowsKeptBut
  <2>4. DebtsBut(p)' = DebtsBut(p)
    <3>1. \A q \in Callers \ {p} : call[p].id # call[q].id
      BY <1>1 DEF IntakeInv, Numbered, TypeOK
    <3>. QED BY <2>1, <2>3, <3>1, OthersDebtsKept
  <2>5. Written(p)' = Written(p) \union {Len(rows) + 1} /\ Len(rows) + 1 \notin Written(p)
    <3>1. \A n : n \in DOMAIN rows' <=> n \in DOMAIN rows \/ n = Len(rows) + 1
      BY <2>2
    <3>. QED BY <2>1, <2>2, <3>1 DEF Written
  <2>6. Cardinality(Written(p)') = Cardinality(Written(p)) + 1
    BY <1>1, <2>5, FS_AddElement
  <2>7. Outstanding(p)' = Outstanding(p) - 1
    <3>1. Outstanding(p) = Len(call[p].entries) - Cardinality(Written(p))
      BY <1>1 DEF Outstanding, Written, Working
    <3>2. Outstanding(p)' = Len(call[p].entries) - Cardinality(Written(p)')
      BY <2>1 DEF Outstanding, Written, Working
    <3>. QED BY <1>1, <2>6, <3>1, <3>2
  <2>8. Usage' <= Usage + 1
    BY <1>1, <2>2, UsageGrows
  <2>9. Usage' + Outstanding(p)' <= Usage + Outstanding(p)
    BY <2>7, <2>8 DEF Balanced
  <2>. QED BY <1>1, <2>4, <2>9, PaidFromOwnDebts DEF TypeOK
<1>3. CASE \E n \in Under(KeyOf(p, i)) :
             /\ call' = [call EXCEPT ![p] = Answered(p, Replay(p, i, n))]
             /\ UNCHANGED rows
  <2>1. PICK n \in Under(KeyOf(p, i)) :
               /\ call' = [call EXCEPT ![p] = Answered(p, Replay(p, i, n))]
               /\ UNCHANGED rows
    BY <1>3
  <2>2. Replay(p, i, n) \in Result
    BY <1>1, ReplayTruthful
  <2>. QED BY <1>1, <2>1, <2>2, AnswerRated
<1>. QED BY <1>2, <1>3 DEF Create, Winner

LEMMA LookUpRated ==
  ASSUME IntakeInv, Balanced, Balanced', RateInv, NEW p \in Callers,
         LookUp(p) \/ Reject(p)
  PROVE  RateInv'
<1>1. /\ call[p].step \in {"looking", "creating"} /\ call[p].at \in Entries(p) /\ TypeOK
      /\ rows' = rows /\ crowd' = crowd
  BY AtItsEntry DEF LookUp, Reject, IntakeInv
<1>2. CASE call' = [call EXCEPT ![p].step = "creating"]
  <2> DEFINE c == [call[p] EXCEPT !.step = "creating"]
  <2>1. /\ call' = [call EXCEPT ![p] = c] /\ c.id = call[p].id
        /\ c.entries = call[p].entries
    BY <1>1, <1>2, CallTyped DEF TypeOK, Call
  <2>2. call[p].step \in Working \ {"weighing"}
    BY <1>1 DEF Working
  <2>. HIDE DEF c
  <2>. QED BY <1>1, <2>1, <2>2, RowsUnchanged
<1>3. ASSUME NEW result \in Result, call' = [call EXCEPT ![p] = Answered(p, result)]
      PROVE  RateInv'
  BY <1>1, <1>3, AnswerRated
<1>4. Is("rejected", 0) \in Result
  BY DEF Is, Result, Outcomes
<1>5. \A n \in Under(KeyOf(p, call[p].at)) : Replay(p, call[p].at, n) \in Result
  BY <1>1, ReplayTruthful
<1>. QED BY <1>2, <1>3, <1>4, <1>5 DEF LookUp, Reject

LEMMA TraceRated ==
  ASSUME IntakeInv, Balanced, Balanced', RateInv, NEW p \in Callers, Trace(p)
  PROVE  RateInv'
<1> DEFINE n == call[p].results[call[p].at].row
<1>1. /\ call[p].step = "tracing" /\ call[p].at \in Entries(p) /\ TypeOK
      /\ Len(call[p].entries) <= MaxEntries /\ Stage(p) /\ crowd' = crowd
      /\ rows' = [rows EXCEPT ![n].traced = @ + 1]
  BY AtItsEntry DEF Trace, IntakeInv, RequestInv
<1>2. n \in DOMAIN rows /\ rows[n].by = call[p].id /\ n \in Nat
  <2>1. n \in Written(p)
    BY <1>1 DEF Stage, BeingTraced
  <2>2. n \in DOMAIN rows /\ rows[n].by = call[p].id
    BY <2>1 DEF Written
  <2>. HIDE DEF n
  <2>. QED BY <1>1, <2>2, RowsTyped
<1>3. /\ DOMAIN rows' = DOMAIN rows
      /\ \A k \in DOMAIN rows \ {n} : rows'[k] = rows[k]
      /\ rows'[n].key = rows[n].key /\ rows'[n].content = rows[n].content
      /\ rows'[n].by = rows[n].by /\ rows'[n].fresh = rows[n].fresh
  BY <1>1, <1>2, RowsTyped DEF Row
<1>4. \/ call' = call
      \/ call' = [call EXCEPT ![p] = Answered(p, Is("accepted", n))]
  BY DEF Trace
<1> HIDE DEF n
<1>5. RowsKeptBut(call[p].id)
  BY <1>2, <1>3 DEF RowsKeptBut
<1>6. \A q \in Callers \ {p} : call[p].id # call[q].id
  BY <1>1 DEF IntakeInv, Numbered, TypeOK
<1>7. /\ call'[p].id = call[p].id /\ call'[p].entries = call[p].entries
      /\ \A q \in Callers \ {p} : call'[q] = call[q]
  <2>1. CASE call' = call
    BY <2>1
  <2>2. CASE call' = [call EXCEPT ![p] = Answered(p, Is("accepted", n))]
    <3>1. Is("accepted", n) \in Result
      BY <1>2 DEF Is, Result, Outcomes
    <3>2. /\ Answered(p, Is("accepted", n)).id = call[p].id
          /\ Answered(p, Is("accepted", n)).entries = call[p].entries
      BY <1>1, <3>1, AnsweredTyped
    <3>. QED BY <1>1, <2>2, <3>2 DEF TypeOK
  <2>. QED BY <1>4, <2>1, <2>2
<1>8. call[p].step \in Working \ {"weighing"}
  BY <1>1 DEF Working
<1>9. \A k \in DOMAIN rows : rows'[k].fresh = rows[k].fresh
  BY <1>3
<1>. QED BY <1>1, <1>3, <1>5, <1>6, <1>7, <1>8, <1>9, NothingAdded

\* The messages of a bulk request were owed, all of them, and it owes no more.
LEMMA InsertBulkRated ==
  ASSUME IntakeInv, Balanced, Balanced', RateInv, NEW p \in Callers, InsertBulk(p)
  PROVE  RateInv'
<1>1. /\ call[p].step = "inserting" /\ TypeOK /\ call[p] \in Call /\ crowd' = crowd
      /\ Written(p) = {} /\ Len(call[p].entries) \in Nat /\ crowd \in Nat
  BY CallTyped DEF InsertBulk, IntakeInv, RequestInv, Stage, TypeOK
<1>2. CASE \E i \in Remaining(p) : Under(KeyOf(p, i)) # {}
  <2>1. rows' = rows /\ call' = [call EXCEPT ![p] = AfterRefusal(p)]
    BY <1>2 DEF InsertBulk
  <2>2. AfterRefusal(p).id = call[p].id /\ AfterRefusal(p).entries = call[p].entries
    BY <1>1 DEF AfterRefusal, Call
  <2>3. call[p].step \in Working \ {"weighing"}
    BY <1>1 DEF Working
  <2>. QED BY <1>1, <2>1, <2>2, <2>3, RowsUnchanged
<1>3. CASE \A i \in Remaining(p) : Under(KeyOf(p, i)) = {}
  <2> DEFINE f == [i \in Entries(p) |-> IF i \in Remaining(p) THEN Is("accepted", Place(p, i))
                                        ELSE call[p].results[i]]
             m == Cardinality(Remaining(p))
  <2>1. rows' = rows \o Added(p)
        /\ call' = [call EXCEPT ![p].step = "answered", ![p].results = f]
    BY <1>3 DEF InsertBulk, Added
  <2> HIDE DEF f
  <2>2. call'[p].step = "answered" /\ \A q \in Callers \ {p} : call'[q] = call[q]
    BY <1>1, <2>1 DEF TypeOK, Call
  <2>3. /\ rows' \in Seq(Row) /\ Len(rows') = Len(rows) + m
        /\ \A n \in DOMAIN rows : rows'[n] = rows[n]
        /\ \A n : n \in DOMAIN rows' <=>
                    n \in DOMAIN rows \/ \E i \in Remaining(p) : n = Place(p, i)
        /\ \A i \in Remaining(p) : rows'[Place(p, i)] = NewRow(p, i, 2)
    BY <1>1, <2>1, AddedRows
  <2>4. m \in Nat /\ m <= Len(call[p].entries)
    BY <1>1, Places
  <2> HIDE DEF m
  <2>5. DOMAIN rows' = 1 .. Len(rows) + m
    BY <2>3, LenProperties
  <2>6. RowsKeptBut(call[p].id)
    <3>1. \A i : NewRow(p, i, 2).by = call[p].id
      BY DEF NewRow
    <3>2. ASSUME NEW n \in DOMAIN rows' \ DOMAIN rows PROVE rows'[n].by = call[p].id
      BY <2>3, <3>1, <3>2
    <3>. QED BY <2>3, <3>2 DEF RowsKeptBut
  <2>7. DebtsBut(p)' = DebtsBut(p)
    <3>1. \A q \in Callers \ {p} : call[p].id # call[q].id
      BY <1>1 DEF IntakeInv, Numbered, TypeOK
    <3>. QED BY <2>2, <2>6, <3>1, OthersDebtsKept
  <2>8. Outstanding(p)' = 0
    BY <2>2 DEF Outstanding, Working
  <2>9. Outstanding(p) = Len(call[p].entries)
    <3>1. Outstanding(p) = Len(call[p].entries) - Cardinality(Written(p))
      BY <1>1 DEF Outstanding, Written, Working
    <3>. QED BY <1>1, <3>1, FS_EmptySet
  <2>10. Usage' <= Usage + m
    BY <1>1, <2>3, <2>4, <2>5, UsageGrows
  <2>11. Usage' + Outstanding(p)' <= Usage + Outstanding(p)
    BY <1>1, <2>4, <2>8, <2>9, <2>10 DEF Balanced
  <2>. QED BY <1>1, <2>7, <2>11, PaidFromOwnDebts
<1>. QED BY <1>2, <1>3

LEMMA OtherStepsRated ==
  ASSUME IntakeInv, Balanced, Balanced', RateInv, NEW p \in Callers,
         Sort(p) \/ Resolve(p) \/ Fail(p)
  PROVE  RateInv'
<1>1. /\ TypeOK /\ call[p] \in Call /\ rows' = rows /\ crowd' = crowd
  BY CallTyped DEF Sort, Resolve, Fail, IntakeInv
<1>2. CASE Sort(p) \/ Resolve(p)
  <2>1. ASSUME NEW step, NEW f, call' = [call EXCEPT ![p].step = step, ![p].results = f]
        PROVE  RateInv'
    <3> DEFINE c == [call[p] EXCEPT !.step = step, !.results = f]
    <3>1. /\ call' = [call EXCEPT ![p] = c]
          /\ c.id = call[p].id /\ c.entries = call[p].entries
      BY <1>1, <2>1 DEF TypeOK, Call
    <3>2. call[p].step \in Working \ {"weighing"}
      BY <1>2 DEF Working, Sort, Resolve
    <3>. HIDE DEF c
    <3>. QED BY <1>1, <3>1, <3>2, RowsUnchanged
  <2>. QED BY <1>2, <2>1 DEF Sort, Resolve
<1>3. CASE Fail(p)
  <2> DEFINE c == [call[p] EXCEPT !.step = "failed"]
  <2>1. call' = [call EXCEPT ![p] = c] /\ c.step = "failed"
    BY <1>1, <1>3 DEF Fail, TypeOK, Call
  <2>2. "failed" \notin Working
    BY DEF Working
  <2>. HIDE DEF c
  <2>. QED BY <1>1, <2>1, <2>2, RowsUnchanged
<1>. QED BY <1>2, <1>3

LEMMA WindowSlidesRated ==
  ASSUME IntakeInv, Balanced, Balanced', RateInv, WindowSlides
  PROVE  RateInv'
<1>1. PICK n \in DOMAIN rows : rows' = [rows EXCEPT ![n].fresh = FALSE]
  BY DEF WindowSlides
<1>2. call' = call /\ crowd' = crowd /\ TypeOK /\ crowd \in Nat
  BY DEF WindowSlides, IntakeInv, TypeOK
<1>3. /\ DOMAIN rows' = DOMAIN rows
      /\ \A k \in DOMAIN rows : /\ rows'[k].by = rows[k].by
                                /\ rows'[k].fresh => rows[k].fresh
  BY <1>1, <1>2, RowsTyped DEF Row
<1>4. Usage' <= Usage
  <2>1. IsFiniteSet(Fresh)
    <3>1. \A m \in Nat : IsFiniteSet(1 .. m)
      BY FS_Interval
    <3>2. IsFiniteSet(DOMAIN rows)
      BY <1>2, <3>1, RowsTyped
    <3>3. Fresh \in SUBSET DOMAIN rows
      BY DEF Fresh
    <3>. QED BY <3>2, <3>3, FS_Subset
  <2>2. Fresh' \in SUBSET Fresh
    BY <1>3 DEF Fresh
  <2>3. Cardinality(Fresh') <= Cardinality(Fresh)
    BY <2>1, <2>2, FS_Subset
  <2>. QED BY <2>3 DEF Usage, Fresh
<1>5. \A q \in Callers : Outstanding(q)' = Outstanding(q)
  <2>1. ASSUME NEW q \in Callers PROVE Outstanding(q)' = Outstanding(q)
    <3>1. Written(q)' = Written(q)
      BY <1>2, <1>3 DEF Written
    <3>. QED BY <1>2, <3>1 DEF Outstanding, Written
  <2>. QED BY <2>1
<1>6. Debts' = Debts
  BY <1>5 DEF Debts
<1>7. Usage \in Nat /\ Usage' \in Nat /\ Cardinality(Debts) \in Nat
  BY DEF Balanced
<1>. QED BY <1>2, <1>4, <1>6, <1>7, IntakeAssumption DEF RateInv

LEMMA RateStep == IntakeInv /\ Balanced /\ Balanced' /\ RateInv /\ [Next]_vars => RateInv'
<1> SUFFICES ASSUME IntakeInv, Balanced, Balanced', RateInv, [Next]_vars PROVE RateInv'
  OBVIOUS
<1>1. ASSUME NEW p \in Callers, NEW kind \in Kinds, NEW key \in Keys \union {NoKey},
             NEW entries \in Bodies, Ask(p, kind, key, entries)
      PROVE  RateInv'
  BY <1>1, AskRated
<1>2. ASSUME NEW p \in Callers,
             Weigh(p) \/ Reject(p) \/ LookUp(p) \/ Create(p) \/ Trace(p)
      PROVE  RateInv'
  BY <1>2, WeighRated, LookUpRated, CreateRated, TraceRated
<1>3. ASSUME NEW p \in Callers, Sort(p) \/ Resolve(p) \/ InsertBulk(p) \/ Fail(p)
      PROVE  RateInv'
  BY <1>3, InsertBulkRated, OtherStepsRated
<1>4. CASE WindowSlides
  BY <1>4, WindowSlidesRated
<1>5. CASE UNCHANGED vars
  BY <1>5 DEF vars, RateInv, Usage, Debts, Outstanding
<1>. QED BY <1>1, <1>2, <1>3, <1>4, <1>5 DEF Next

LEMMA RateInit == Init => RateInv
<1> SUFFICES ASSUME Init, Limit > 0 PROVE Usage + Cardinality(Debts) <= Limit + crowd
  BY DEF RateInv
<1>1. Fresh = {}
  BY DEF Init, Fresh
<1>2. \A q \in Callers : Outstanding(q) = 0
  BY DEF Init, NoCall, Outstanding, Working
<1>3. Debts = {}
  BY <1>2 DEF Debts
<1>4. Usage = 0 /\ Cardinality(Debts) = 0 /\ crowd = 0
  BY <1>1, <1>3, FS_EmptySet DEF Usage, Fresh, Init
<1>. QED BY <1>4, IntakeAssumption

\* However many requests are weighed at once, of whatever size, the client stays
\* within its rate but for what others, admitted before, had still to write when
\* the last one was weighed: the count is taken off the rows, before anything is
\* written (RateLimiter.usage, SmsService).
THEOREM RateStaysBounded == Spec => []RateBounded
<1>1. IntakeInv /\ Balanced /\ RateInv => RateBounded
  <2> SUFFICES ASSUME IntakeInv, Balanced, RateInv, Limit > 0 PROVE Usage <= Limit + crowd
    BY DEF RateBounded
  <2>1. Usage \in Nat /\ Cardinality(Debts) \in Nat /\ crowd \in Nat
    BY DEF IntakeInv, Balanced, TypeOK
  <2>2. Usage + Cardinality(Debts) <= Limit + crowd
    BY DEF RateInv
  <2>. QED BY <2>1, <2>2, IntakeAssumption
<1>. QED BY <1>1, InvHolds, InvBalanced, RateInit, RateStep, PTL DEF Spec
=============================================================================
