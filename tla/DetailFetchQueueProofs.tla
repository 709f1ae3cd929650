----------------------- MODULE DetailFetchQueueProofs -----------------------
(***************************************************************************)
(* Theorems about DetailFetchQueue, for every set of processes and jobs,   *)
(* every assignment of worker names, every max_attempts, every precision   *)
(* of the clock and every lease duration.                                  *)
(***************************************************************************)
EXTENDS DetailFetchQueue, TLAPS

-----------------------------------------------------------------------------
(* Timestamps. *)

(* Adding whole seconds to an instant gives an instant: lease_next's       *)
(* expiry.                                                                 *)
LEMMA PlusSecondsType ==
    ASSUME NEW a \in Instant, NEW n \in Nat
    PROVE  PlusSeconds(a, n) \in Instant
BY LastMicroAssumption DEF PlusSeconds, Instant

(* Time is an order. *)
LEMMA NotLaterTransitive ==
    ASSUME NEW a \in Instant, NEW b \in Instant, NEW c \in Instant,
           NotLater(a, b), NotLater(b, c)
    PROVE  NotLater(a, c)
BY LastMicroAssumption DEF NotLater, Earlier, Instant

(* What SQLite compares is an order as well: of two stored times exactly   *)
(* one sorts first, unless they are the same, and sorting is transitive.   *)
(* So ORDER BY and the two comparisons of the queue agree with each other. *)
THEOREM StoredTextIsAnOrder ==
    ASSUME NEW a \in Instant, NEW b \in Instant, NEW c \in Instant
    PROVE  /\ ~TextLess(a, a)
           /\ a = b \/ TextLess(a, b) \/ TextLess(b, a)
           /\ TextLess(a, b) => ~TextLess(b, a)
           /\ TextLess(a, b) /\ TextLess(b, c) => TextLess(a, c)
BY LastMicroAssumption DEF TextLess, FractionTextLess, Instant

(* Text that sorts first is at most in the same second. *)
LEMMA TextLessSeconds ==
    ASSUME NEW a \in Instant, NEW b \in Instant, TextLess(a, b)
    PROVE  a.sec <= b.sec
BY DEF TextLess, Instant

(* But it is not the order of time.  The two agree except inside one       *)
(* second and against the whole second itself, whose text has no fraction; *)
(* there they are opposite, each time.                                     *)
THEOREM StoredTextAgainstTime ==
    ASSUME NEW a \in Instant, NEW b \in Instant, a # b
    PROVE  IF a.sec = b.sec /\ 0 \in {a.us, b.us}
           THEN TextLess(a, b) <=> Earlier(b, a)
           ELSE TextLess(a, b) <=> Earlier(a, b)
BY LastMicroAssumption DEF TextLess, FractionTextLess, Earlier, Instant

-----------------------------------------------------------------------------
(* The helpers that build rows return rows. *)

(* create_idempotent inserts a row of the right type or keeps the old one. *)
LEMMA CreatedRowType ==
    ASSUME NEW row \in JobRow \cup {Null}, NEW at \in Instant
    PROVE  CreatedRow(row, at) \in JobRow
BY DEF CreatedRow, JobRow

(* The update of lease_next. *)
LEMMA LeasedRowType ==
    ASSUME NEW row \in JobRow, NEW worker \in WorkerName, NEW expires \in Instant
    PROVE  LeasedRow(row, worker, expires) \in JobRow
<1>1. row.attempt_count + 1 \in Nat
    BY DEF JobRow
<1> QED BY <1>1 DEF LeasedRow, JobRow

(* The update of _finish and recover_abandoned. *)
LEMMA ReleasedRowType ==
    ASSUME NEW row \in JobRow, NEW now \in Instant,
           NEW state \in {"pending", "succeeded", "failed_exhausted"}
    PROVE  ReleasedRow(row, state, now) \in JobRow
BY DEF ReleasedRow, JobRow

(* The row lease_next inserts, and the update that closes it. *)
LEMMA OpenAttemptType ==
    ASSUME NEW worker \in WorkerName, NEW now \in Instant
    PROVE  OpenAttempt(worker, now) \in AttemptRow
BY DEF OpenAttempt, AttemptRow

(* The update that closes an attempt returns a row, or leaves it missing. *)
LEMMA ClosedAttemptType ==
    ASSUME NEW attempt \in AttemptRow \cup {Null}, NEW outcome \in Outcome,
           NEW now \in Instant
    PROVE  ClosedAttempt(attempt, outcome, now) \in AttemptRow \cup {Null}
BY DEF ClosedAttempt, AttemptRow

(* A failure leaves one of two states, with one of two outcomes. *)
LEMMA FailTypes ==
    ASSUME NEW j
    PROVE  /\ FailState(j) \in {"pending", "succeeded", "failed_exhausted"}
           /\ FailOutcome(j) \in Outcome
BY DEF FailState, FailOutcome, Outcome, WorkerOutcome

-----------------------------------------------------------------------------
(* Type correctness. *)

(* The empty database has the right types. *)
LEMMA TypeInit == Init => TypeOK
BY QueueAssumption, LastMicroAssumption DEF Init, TypeOK, Instant, AttemptNumber

(* An attempt number that lease_next hands out is within the limit. *)
LEMMA LeaseNumber ==
    ASSUME TypeOK, NEW p \in Process, NEW j \in Jobs, NextJob(j, current[p])
    PROVE  /\ jobs[j] \in JobRow
           /\ jobs[j].state = "pending"
           /\ jobs[j].attempt_count \in Nat
           /\ jobs[j].attempt_count < MaxAttempts[j]
           /\ jobs[j].attempt_count + 1 \in AttemptNumber
<1>1. jobs[j] \in JobRow /\ jobs[j].attempt_count < MaxAttempts[j] /\ jobs[j].state = "pending"
    BY DEF TypeOK, NextJob, Eligible, Exists
<1>2. jobs[j].attempt_count \in Nat
    BY <1>1 DEF JobRow
<1>3. MaxAttempts[j] \in 1 .. AttemptLimit /\ AttemptLimit \in Nat
    BY QueueAssumption
<1> QED BY <1>1, <1>2, <1>3 DEF AttemptNumber

(* Leasing keeps the types. *)
LEMMA TypeLease ==
    ASSUME TypeOK, NEW p \in Process, NEW j \in Jobs, NEW s \in LeaseSeconds,
           LeaseNext(p, j, s)
    PROVE  TypeOK'
<1> DEFINE number == jobs[j].attempt_count + 1
<1>1. NextJob(j, current[p])
    BY DEF LeaseNext
<1>2. jobs[j] \in JobRow /\ number \in AttemptNumber
    BY <1>1, LeaseNumber
<1>3. current[p] \in Instant /\ WorkerId[p] \in WorkerName /\ s \in Nat
    BY QueueAssumption DEF TypeOK
<1>4. LeasedRow(jobs[j], WorkerId[p], PlusSeconds(current[p], s)) \in JobRow
    BY <1>2, <1>3, PlusSecondsType, LeasedRowType
<1>5. OpenAttempt(WorkerId[p], current[p]) \in AttemptRow
    BY <1>3, OpenAttemptType
<1>6. jobs' \in [Jobs -> JobRow \cup {Null}]
    BY <1>4 DEF LeaseNext, TypeOK
<1>7. attempts' \in [Jobs -> [AttemptNumber -> AttemptRow \cup {Null}]]
    BY <1>5 DEF LeaseNext, TypeOK
<1>8. held' \in [Process -> JobLease \cup {Null}]
    BY <1>2 DEF LeaseNext, TypeOK, JobLease
<1> QED BY <1>6, <1>7, <1>8 DEF LeaseNext, TypeOK

(* Finishing a lease keeps the types, whatever the result. *)
LEMMA TypeFinish ==
    ASSUME TypeOK, NEW p \in Process,
           NEW state \in {"pending", "succeeded", "failed_exhausted"},
           NEW outcome \in Outcome,
           held[p] # Null, OwnsLease(p, held[p].job_id),
           Finish(p, state, outcome)
    PROVE  TypeOK'
<1> DEFINE j == held[p].job_id
<1> DEFINE number == jobs[j].attempt_count
<1>1. j \in Jobs /\ current[p] \in Instant
    BY DEF TypeOK, JobLease
<1>2. jobs[j] \in JobRow
    BY <1>1 DEF TypeOK, OwnsLease, IsProcessing, Exists
<1>3. ReleasedRow(jobs[j], state, current[p]) \in JobRow
    BY <1>1, <1>2, ReleasedRowType
<1>4. jobs' \in [Jobs -> JobRow \cup {Null}]
    BY <1>3 DEF Finish, TypeOK
<1>5. ASSUME number \in AttemptNumber
      PROVE  ClosedAttempt(attempts[j][number], outcome, current[p])
                \in AttemptRow \cup {Null}
    BY <1>1, <1>5, ClosedAttemptType DEF TypeOK
<1>6. attempts' \in [Jobs -> [AttemptNumber -> AttemptRow \cup {Null}]]
    BY <1>1, <1>5 DEF Finish, TypeOK
<1> QED BY <1>4, <1>6 DEF Finish, TypeOK

(* Recovery keeps the types. *)
LEMMA TypeRecover ==
    ASSUME TypeOK, NEW p \in Process, RecoverAbandoned(p)
    PROVE  TypeOK'
<1> DEFINE now == current[p]
<1>1. now \in Instant
    BY DEF TypeOK
<1>2. ASSUME NEW j \in Jobs, Abandoned(j, now)
      PROVE  ReleasedRow(jobs[j], FailState(j), now) \in JobRow
    <2>1. jobs[j] \in JobRow
        BY <1>2 DEF TypeOK, Abandoned, IsProcessing, Exists
    <2> QED BY <1>1, <2>1, ReleasedRowType, FailTypes
<1>3. jobs' \in [Jobs -> JobRow \cup {Null}]
    BY <1>2 DEF RecoverAbandoned, TypeOK
<1>4. ASSUME NEW j \in Jobs, NEW n \in AttemptNumber
      PROVE  ClosedAttempt(attempts[j][n], "abandoned", now) \in AttemptRow \cup {Null}
    <2>1. attempts[j][n] \in AttemptRow \cup {Null}
        BY DEF TypeOK
    <2>2. "abandoned" \in Outcome
        BY DEF Outcome
    <2> QED BY <1>1, <2>1, <2>2, ClosedAttemptType
<1>5. attempts' \in [Jobs -> [AttemptNumber -> AttemptRow \cup {Null}]]
    BY <1>4 DEF RecoverAbandoned, TypeOK
<1> QED BY <1>3, <1>5 DEF RecoverAbandoned, TypeOK

(* Every step keeps the types. *)
LEMMA TypeNext == TypeOK /\ [Next]_vars => TypeOK'
<1> SUFFICES ASSUME TypeOK, [Next]_vars PROVE TypeOK'
    OBVIOUS
<1>1. CASE Tick
    <2>1. clock' \in Instant
        BY <1>1, LastMicroAssumption DEF Tick, TypeOK, Instant
    <2> QED BY <1>1, <2>1 DEF Tick, TypeOK
<1>2. ASSUME NEW j \in Jobs, NEW at \in ScheduleTimes, CreateIdempotent(j, at)
      PROVE  TypeOK'
    <2>1. CreatedRow(jobs[j], at) \in JobRow
        BY QueueAssumption, CreatedRowType DEF TypeOK
    <2> QED BY <1>2, <2>1 DEF CreateIdempotent, TypeOK
<1>3. ASSUME NEW p \in Process, CaptureNow(p)
      PROVE  TypeOK'
    BY <1>3 DEF CaptureNow, TypeOK
<1>4. ASSUME NEW p \in Process, NEW j \in Jobs, NEW s \in LeaseSeconds,
             LeaseNext(p, j, s)
      PROVE  TypeOK'
    BY <1>4, TypeLease
<1>5. ASSUME NEW p \in Process, Succeed(p)
      PROVE  TypeOK'
    BY <1>5, TypeFinish DEF Succeed, Outcome, WorkerOutcome
<1>6. ASSUME NEW p \in Process, Fail(p)
      PROVE  TypeOK'
    BY <1>6, TypeFinish, FailTypes DEF Fail
<1>7. ASSUME NEW p \in Process, FinishRejected(p)
      PROVE  TypeOK'
    BY <1>7 DEF FinishRejected, TypeOK
<1>8. ASSUME NEW p \in Process, RecoverAbandoned(p)
      PROVE  TypeOK'
    BY <1>8, TypeRecover
<1>9. ASSUME NEW p \in Process, Crash(p)
      PROVE  TypeOK'
    BY <1>9 DEF Crash, TypeOK
<1>10. CASE UNCHANGED vars
    BY <1>10 DEF vars, TypeOK
<1> QED BY <1>1, <1>2, <1>3, <1>4, <1>5, <1>6, <1>7, <1>8, <1>9, <1>10 DEF Next

(* Every reachable state has the right types. *)
THEOREM TypeCorrect == Spec => []TypeOK
BY TypeInit, TypeNext, PTL DEF Spec

-----------------------------------------------------------------------------
(* The inductive invariant about the two tables.  RowInv speaks of one row *)
(* and its ledger of attempts, so that an action need only be examined for *)
(* the rows it writes; it adds to the properties that a job given back is  *)
(* due from the moment its last attempt finished.                          *)

GivenBack == {"failed_retryable", "abandoned"}

Counted(row, ledger) ==
    \A n \in AttemptNumber : ledger[n] # Null <=> n <= row.attempt_count

Explained(row, ledger) ==
    \A n \in AttemptNumber : ledger[n] # Null =>
        /\ ledger[n].outcome = Null <=> ledger[n].finished_at = Null
        /\ n = row.attempt_count => ledger[n].outcome \in LastOutcome(row.state)
        /\ n # row.attempt_count => ledger[n].outcome \in GivenBack

Owned(row, ledger) ==
    /\ row.lease_owner # Null <=> row.state = "processing"
    /\ row.lease_expires_at # Null <=> row.state = "processing"
    /\ row.state = "processing" =>
        row.lease_owner = ledger[row.attempt_count].worker_id

Bounded(row, max) ==
    /\ row.attempt_count <= max
    /\ row.state # "pending" => row.attempt_count >= 1
    /\ row.state = "pending" => row.attempt_count < max
    /\ row.state = "failed_exhausted" => row.attempt_count = max

InOrder(row, ledger) ==
    /\ \A n \in AttemptNumber :
        (n + 1 \in AttemptNumber /\ ledger[n + 1] # Null)
            => TextLeq(ledger[n].finished_at, ledger[n + 1].started_at)
    /\ (row.state = "pending" /\ row.attempt_count \in AttemptNumber)
        => ledger[row.attempt_count].finished_at = row.scheduled_at

RowInv(row, ledger, max) ==
    IF row = Null
    THEN \A n \in AttemptNumber : ledger[n] = Null
    ELSE /\ Counted(row, ledger)
         /\ Explained(row, ledger)
         /\ Owned(row, ledger)
         /\ Bounded(row, max)
         /\ InOrder(row, ledger)

TablesInv == \A j \in Jobs : RowInv(jobs[j], attempts[j], MaxAttempts[j])

Ledger == [AttemptNumber -> AttemptRow \cup {Null}]

(* No row of a table is Null, and an outcome or a time is not Null.        *)
LEMMA NotNull ==
    /\ Null \notin WorkerName /\ Null \notin Instant /\ Null \notin Outcome
    /\ Null \notin JobRow /\ Null \notin AttemptRow /\ Null \notin JobLease
BY NullAssumption

(* create_idempotent establishes the row's invariant, or leaves the row.   *)
LEMMA CreatedRowInv ==
    ASSUME NEW row \in JobRow \cup {Null}, NEW ledger \in Ledger,
           NEW at \in Instant, NEW max \in 1 .. AttemptLimit,
           RowInv(row, ledger, max)
    PROVE  RowInv(CreatedRow(row, at), ledger, max)
<1>1. CASE row # Null
    BY <1>1 DEF CreatedRow
<1>2. CASE row = Null
    <2> DEFINE new == CreatedRow(row, at)
    <2>1. new.state = "pending" /\ new.attempt_count = 0
          /\ new.lease_owner = Null /\ new.lease_expires_at = Null
        BY <1>2 DEF CreatedRow
    <2>2. new # Null
        BY CreatedRowType, NotNull
    <2>3. \A n \in AttemptNumber : ledger[n] = Null /\ ~(n <= 0)
        BY <1>2, QueueAssumption DEF RowInv, AttemptNumber
    <2>4. Counted(new, ledger) /\ Explained(new, ledger)
        BY <2>1, <2>3 DEF Counted, Explained
    <2>5. Owned(new, ledger)
        BY <2>1 DEF Owned
    <2>6. Bounded(new, max)
        BY <2>1, QueueAssumption DEF Bounded
    <2>7. InOrder(new, ledger)
        BY <2>1, <2>3, QueueAssumption DEF InOrder, AttemptNumber
    <2> HIDE DEF new
    <2>8. RowInv(new, ledger, max)
        BY <2>2, <2>4, <2>5, <2>6, <2>7 DEF RowInv
    <2> QED BY <2>8 DEF new
<1> QED BY <1>1, <1>2

(* lease_next keeps the row's invariant. *)
LEMMA LeasedRowInv ==
    ASSUME NEW row \in JobRow, NEW ledger \in Ledger, NEW max \in 1 .. AttemptLimit,
           NEW worker \in WorkerName, NEW now \in Instant, NEW expires \in Instant,
           RowInv(row, ledger, max), row.state = "pending",
           row.attempt_count < max, TextLeq(row.scheduled_at, now)
    PROVE  RowInv(LeasedRow(row, worker, expires),
                  [ledger EXCEPT ![row.attempt_count + 1] = OpenAttempt(worker, now)],
                  max)
<1> DEFINE number == row.attempt_count + 1
<1> DEFINE open == OpenAttempt(worker, now)
<1> DEFINE new == LeasedRow(row, worker, expires)
<1> DEFINE book == [ledger EXCEPT ![number] = open]
<1>0. row # Null
    BY NotNull
<1>1. /\ Counted(row, ledger) /\ Explained(row, ledger) /\ InOrder(row, ledger)
    BY <1>0 DEF RowInv
<1>2. row.attempt_count \in Nat /\ number \in AttemptNumber /\ number <= max
    BY QueueAssumption DEF JobRow, AttemptNumber
<1>3. /\ new.state = "processing" /\ new.attempt_count = number
      /\ new.lease_owner = worker /\ new.lease_expires_at = expires
    BY DEF LeasedRow, JobRow
<1>4. /\ open.outcome = Null /\ open.finished_at = Null
      /\ open.worker_id = worker /\ open.started_at = now /\ open # Null
    BY OpenAttemptType, NotNull DEF OpenAttempt
<1>5. /\ book[number] = open
      /\ \A n \in AttemptNumber : n # number => book[n] = ledger[n]
    BY <1>2 DEF Ledger
<1>6. \A n \in AttemptNumber : ledger[n] # Null <=> n <= row.attempt_count
    BY <1>1 DEF Counted
<1>7. \A n \in AttemptNumber : n \in Nat
    BY DEF AttemptNumber
<1> HIDE DEF number, open, new, book
<1>8. Counted(new, book)
    BY <1>2, <1>3, <1>4, <1>5, <1>6, <1>7 DEF Counted, number
<1>9. Explained(new, book)
    <2>1. ASSUME NEW n \in AttemptNumber, n # number, ledger[n] # Null
          PROVE  /\ ledger[n].outcome = Null <=> ledger[n].finished_at = Null
                 /\ ledger[n].outcome \in GivenBack
        BY <1>1, <2>1 DEF Explained, LastOutcome, GivenBack
    <2>2. Null \in LastOutcome("processing")
        BY DEF LastOutcome
    <2> QED BY <1>3, <1>4, <1>5, <2>1, <2>2 DEF Explained
<1>10. Owned(new, book)
    BY <1>3, <1>4, <1>5, NotNull DEF Owned
<1>11. Bounded(new, max)
    BY <1>2, <1>3 DEF Bounded, number
<1>12. InOrder(new, book)
    <2> SUFFICES ASSUME NEW n \in AttemptNumber, n + 1 \in AttemptNumber,
                        book[n + 1] # Null
                 PROVE  TextLeq(book[n].finished_at, book[n + 1].started_at)
        BY <1>3 DEF InOrder
    <2>1. CASE n + 1 = number
        <3>1. n = row.attempt_count /\ n # number
            BY <1>2, <1>7, <2>1 DEF number
        <3>2. ledger[n].finished_at = row.scheduled_at
            BY <1>1, <3>1 DEF InOrder
        <3> QED BY <1>4, <1>5, <2>1, <3>1, <3>2
    <2>2. CASE n + 1 # number
        <3>1. ledger[n + 1] # Null
            BY <1>5, <2>2
        <3>2. n # number
            BY <1>2, <1>6, <1>7, <3>1 DEF number
        <3> QED BY <1>1, <1>5, <2>2, <3>1, <3>2 DEF InOrder
    <2> QED BY <2>1, <2>2
<1>13. new # Null
    BY LeasedRowType, NotNull DEF new
<1>14. RowInv(new, book, max)
    BY <1>8, <1>9, <1>10, <1>11, <1>12, <1>13 DEF RowInv
<1> QED BY <1>14 DEF new, book, number, open

(* The results a lease can end with: succeed, fail and recover_abandoned.  *)
EndsWith(row, max, state, outcome) ==
    \/ state = "succeeded" /\ outcome = "succeeded"
    \/ /\ row.attempt_count >= max
       /\ state = "failed_exhausted"
       /\ outcome \in {"failed_exhausted", "abandoned"}
    \/ /\ ~(row.attempt_count >= max)
       /\ state = "pending"
       /\ outcome \in GivenBack

(* What failing or abandoning the job j leads to is one of these results.  *)
LEMMA FailEndsWith ==
    ASSUME NEW j
    PROVE  /\ EndsWith(jobs[j], MaxAttempts[j], FailState(j), FailOutcome(j))
           /\ EndsWith(jobs[j], MaxAttempts[j], FailState(j), "abandoned")
BY DEF EndsWith, FailState, FailOutcome, Exhausted, GivenBack

(* A processing job has an open attempt under its current number.          *)
LEMMA ProcessingAttempt ==
    ASSUME NEW row \in JobRow, NEW ledger \in Ledger, NEW max \in 1 .. AttemptLimit,
           RowInv(row, ledger, max), row.state = "processing"
    PROVE  /\ row.attempt_count \in AttemptNumber
           /\ ledger[row.attempt_count] \in AttemptRow
           /\ ledger[row.attempt_count].outcome = Null
<1>1. Counted(row, ledger) /\ Explained(row, ledger) /\ Bounded(row, max)
    BY NotNull DEF RowInv
<1>2. row.attempt_count \in AttemptNumber
    BY <1>1, QueueAssumption DEF Bounded, JobRow, AttemptNumber
<1>3. row.attempt_count \in Nat
    BY DEF JobRow
<1>4. ledger[row.attempt_count] # Null
    BY <1>1, <1>2, <1>3 DEF Counted
<1>5. ledger[row.attempt_count] \in AttemptRow
    BY <1>2, <1>4 DEF Ledger
<1>6. ledger[row.attempt_count].outcome = Null
    BY <1>1, <1>2, <1>4 DEF Explained, LastOutcome
<1> QED BY <1>2, <1>5, <1>6

(* _finish and recover_abandoned keep the row's invariant. *)
LEMMA ReleasedRowInv ==
    ASSUME NEW row \in JobRow, NEW ledger \in Ledger, NEW max \in 1 .. AttemptLimit,
           NEW now \in Instant, NEW outcome \in Outcome,
           NEW state \in {"pending", "succeeded", "failed_exhausted"},
           RowInv(row, ledger, max), row.state = "processing",
           EndsWith(row, max, state, outcome)
    PROVE  RowInv(ReleasedRow(row, state, now),
                  [ledger EXCEPT ![row.attempt_count] =
                        ClosedAttempt(ledger[row.attempt_count], outcome, now)],
                  max)
<1> DEFINE number == row.attempt_count
<1> DEFINE closed == ClosedAttempt(ledger[number], outcome, now)
<1> DEFINE new == ReleasedRow(row, state, now)
<1> DEFINE book == [ledger EXCEPT ![number] = closed]
<1>1. /\ Counted(row, ledger) /\ Explained(row, ledger)
      /\ Bounded(row, max) /\ InOrder(row, ledger)
    BY NotNull DEF RowInv
<1>2. /\ number \in AttemptNumber /\ number \in Nat
      /\ ledger[number] \in AttemptRow /\ ledger[number] # Null
    BY ProcessingAttempt, NotNull DEF JobRow
<1>3. /\ new.state = state /\ new.attempt_count = number
      /\ new.lease_owner = Null /\ new.lease_expires_at = Null
      /\ new.scheduled_at = now
    BY DEF ReleasedRow, JobRow
<1>4. /\ closed.outcome = outcome /\ closed.finished_at = now
      /\ closed.started_at = ledger[number].started_at
    BY <1>2 DEF ClosedAttempt, AttemptRow
<1>5. closed # Null
    <2>1. closed = [ledger[number] EXCEPT !.finished_at = now, !.outcome = outcome]
        BY <1>2 DEF ClosedAttempt
    <2>2. closed \in AttemptRow
        BY <1>2, <2>1 DEF AttemptRow
    <2> QED BY <2>2, NotNull
<1>6. /\ book[number] = closed
      /\ \A n \in AttemptNumber : n # number => book[n] = ledger[n]
    BY <1>2 DEF Ledger
<1>7. number >= 1 /\ number <= max
    BY <1>1 DEF Bounded
<1> HIDE DEF number, closed, new, book
<1>8. Counted(new, book)
    BY <1>1, <1>2, <1>3, <1>5, <1>6 DEF Counted, number
<1>9. Explained(new, book)
    <2>1. outcome \in LastOutcome(state)
        BY DEF EndsWith, LastOutcome, GivenBack
    <2>2. outcome # Null /\ now # Null
        BY NotNull
    <2>3. \A n \in AttemptNumber : (n # number /\ ledger[n] # Null) =>
            /\ ledger[n].outcome = Null <=> ledger[n].finished_at = Null
            /\ ledger[n].outcome \in GivenBack
        BY <1>1 DEF Explained, number
    <2> QED BY <1>3, <1>4, <1>6, <2>1, <2>2, <2>3 DEF Explained
<1>10. Owned(new, book)
    BY <1>3 DEF Owned
<1>11. Bounded(new, max)
    <2>1. state = "pending" => number < max
        BY <1>2, <1>7 DEF EndsWith, number
    <2>2. state = "failed_exhausted" => number = max
        BY <1>2, <1>7 DEF EndsWith, number
    <2> QED BY <1>3, <1>7, <2>1, <2>2 DEF Bounded
<1>12. InOrder(new, book)
    <2>1. ASSUME NEW n \in AttemptNumber, n + 1 \in AttemptNumber,
                 book[n + 1] # Null
          PROVE  TextLeq(book[n].finished_at, book[n + 1].started_at)
        <3>1. n + 1 <= number /\ n # number
            <4>1. ledger[n + 1] # Null
                BY <1>2, <1>6, <2>1
            <4>2. n + 1 <= number
                BY <1>1, <2>1, <4>1 DEF Counted, number
            <4> QED BY <1>2, <4>2 DEF AttemptNumber
        <3>2. ledger[n + 1] # Null
            BY <1>2, <1>6, <2>1
        <3>3. TextLeq(ledger[n].finished_at, ledger[n + 1].started_at)
            BY <1>1, <2>1, <3>2 DEF InOrder
        <3>4. book[n + 1].started_at = ledger[n + 1].started_at
            BY <1>4, <1>6, <2>1
        <3> QED BY <1>6, <3>1, <3>3, <3>4
    <2>2. book[new.attempt_count].finished_at = new.scheduled_at
        BY <1>3, <1>4, <1>6
    <2> QED BY <2>1, <2>2 DEF InOrder
<1>13. new # Null
    BY ReleasedRowType, NotNull DEF new
<1>14. RowInv(new, book, max)
    BY <1>8, <1>9, <1>10, <1>11, <1>12, <1>13 DEF RowInv
<1> QED BY <1>14 DEF new, book, closed, number

-----------------------------------------------------------------------------
(* What each action does to one job's row and ledger.                      *)

(* The tables hold, for each job, a row or Null and a ledger.              *)
LEMMA TableTypes ==
    ASSUME TypeOK, NEW j \in Jobs
    PROVE  /\ jobs[j] \in JobRow \cup {Null}
           /\ attempts[j] \in Ledger
           /\ MaxAttempts[j] \in 1 .. AttemptLimit
           /\ IsProcessing(j) => jobs[j] \in JobRow /\ jobs[j].state = "processing"
BY QueueAssumption DEF TypeOK, Ledger, IsProcessing, Exists

(* An accepted finish closes the open attempt of the caller's job. *)
LEMMA FinishEffect ==
    ASSUME TypeOK, NEW p \in Process, NEW state, NEW outcome,
           held[p] # Null, Finish(p, state, outcome)
    PROVE  LET j == held[p].job_id
               number == jobs[j].attempt_count
           IN  /\ j \in Jobs
               /\ jobs'[j] = ReleasedRow(jobs[j], state, current[p])
               /\ attempts'[j] = [attempts[j] EXCEPT ![number] =
                        ClosedAttempt(attempts[j][number], outcome, current[p])]
               /\ \A i \in Jobs : i # j =>
                    jobs'[i] = jobs[i] /\ attempts'[i] = attempts[i]
<1>1. held[p].job_id \in Jobs
    BY DEF TypeOK, JobLease
<1> QED BY <1>1 DEF Finish, TypeOK

(* Recovery closes the open attempt of every abandoned job. *)
LEMMA RecoverEffect ==
    ASSUME TypeOK, TablesInv, NEW p \in Process, RecoverAbandoned(p), NEW j \in Jobs
    PROVE  LET number == jobs[j].attempt_count
           IN  IF Abandoned(j, current[p])
               THEN /\ jobs'[j] = ReleasedRow(jobs[j], FailState(j), current[p])
                    /\ attempts'[j] = [attempts[j] EXCEPT ![number] =
                         ClosedAttempt(attempts[j][number], "abandoned", current[p])]
               ELSE jobs'[j] = jobs[j] /\ attempts'[j] = attempts[j]
<1>1. attempts[j] \in Ledger
    BY TableTypes
<1>2. CASE Abandoned(j, current[p])
    <2>1. jobs'[j] = ReleasedRow(jobs[j], FailState(j), current[p])
        BY <1>2 DEF RecoverAbandoned
    <2>2. attempts'[j] = [n \in AttemptNumber |->
                IF n = jobs[j].attempt_count
                THEN ClosedAttempt(attempts[j][n], "abandoned", current[p])
                ELSE attempts[j][n]]
        BY <1>2 DEF RecoverAbandoned
    <2> QED BY <1>1, <1>2, <2>1, <2>2 DEF Ledger
<1>3. CASE ~Abandoned(j, current[p])
    <2>1. attempts'[j] = [n \in AttemptNumber |-> attempts[j][n]]
        BY <1>3 DEF RecoverAbandoned
    <2> QED BY <1>1, <1>3, <2>1 DEF RecoverAbandoned, Ledger
<1> QED BY <1>2, <1>3

-----------------------------------------------------------------------------
(* The tables' invariant is inductive. *)

LEMMA TablesInit == Init => TablesInv
BY DEF Init, TablesInv, RowInv, AttemptNumber

(* lease_next, on the whole tables. *)
LEMMA TablesLease ==
    ASSUME TypeOK, TablesInv, NEW p \in Process, NEW j \in Jobs,
           NEW s \in LeaseSeconds, LeaseNext(p, j, s)
    PROVE  TablesInv'
<1> DEFINE number == jobs[j].attempt_count + 1
<1> DEFINE expires == PlusSeconds(current[p], s)
<1>1. NextJob(j, current[p])
    BY DEF LeaseNext
<1>2. /\ jobs[j] \in JobRow /\ jobs[j].state = "pending"
      /\ jobs[j].attempt_count < MaxAttempts[j]
    BY <1>1, LeaseNumber
<1>3. TextLeq(jobs[j].scheduled_at, current[p])
    BY <1>1 DEF NextJob, Eligible
<1>4. /\ current[p] \in Instant /\ WorkerId[p] \in WorkerName
      /\ expires \in Instant
    BY QueueAssumption, PlusSecondsType DEF TypeOK
<1>5. /\ jobs'[j] = LeasedRow(jobs[j], WorkerId[p], expires)
      /\ attempts'[j] = [attempts[j] EXCEPT ![number] = OpenAttempt(WorkerId[p], current[p])]
      /\ \A i \in Jobs : i # j => jobs'[i] = jobs[i] /\ attempts'[i] = attempts[i]
    BY DEF LeaseNext, TypeOK
<1>6. RowInv(jobs[j], attempts[j], MaxAttempts[j])
    BY DEF TablesInv
<1>7. RowInv(jobs'[j], attempts'[j], MaxAttempts[j])
    BY <1>2, <1>3, <1>4, <1>5, <1>6, TableTypes, LeasedRowInv
<1>8. ASSUME NEW i \in Jobs, i # j
      PROVE  RowInv(jobs'[i], attempts'[i], MaxAttempts[i])
    BY <1>5, <1>8 DEF TablesInv
<1> QED BY <1>7, <1>8 DEF TablesInv

(* succeed and fail, on the whole tables. *)
LEMMA TablesFinish ==
    ASSUME TypeOK, TablesInv, NEW p \in Process,
           NEW state \in {"pending", "succeeded", "failed_exhausted"},
           NEW outcome \in Outcome,
           held[p] # Null, OwnsLease(p, held[p].job_id),
           EndsWith(jobs[held[p].job_id], MaxAttempts[held[p].job_id], state, outcome),
           Finish(p, state, outcome)
    PROVE  TablesInv'
<1> DEFINE j == held[p].job_id
<1>1. /\ j \in Jobs /\ current[p] \in Instant
      /\ jobs[j] \in JobRow /\ jobs[j].state = "processing"
    BY FinishEffect, TableTypes DEF OwnsLease, TypeOK
<1>2. RowInv(jobs[j], attempts[j], MaxAttempts[j])
    BY <1>1 DEF TablesInv
<1>3. RowInv(jobs'[j], attempts'[j], MaxAttempts[j])
    <2>1. RowInv(ReleasedRow(jobs[j], state, current[p]),
                 [attempts[j] EXCEPT ![jobs[j].attempt_count] =
                    ClosedAttempt(attempts[j][jobs[j].attempt_count], outcome, current[p])],
                 MaxAttempts[j])
        <3>1. attempts[j] \in Ledger /\ MaxAttempts[j] \in 1 .. AttemptLimit
            BY <1>1, TableTypes
        <3> HIDE DEF j
        <3> QED BY <1>1, <1>2, <3>1, ReleasedRowInv DEF j
    <2> QED BY <2>1, FinishEffect
<1>4. ASSUME NEW i \in Jobs, i # j
      PROVE  RowInv(jobs'[i], attempts'[i], MaxAttempts[i])
    BY <1>4, FinishEffect DEF TablesInv
<1> QED BY <1>3, <1>4 DEF TablesInv

(* recover_abandoned, on the whole tables. *)
LEMMA TablesRecover ==
    ASSUME TypeOK, TablesInv, NEW p \in Process, RecoverAbandoned(p)
    PROVE  TablesInv'
<1> SUFFICES ASSUME NEW j \in Jobs
             PROVE  RowInv(jobs'[j], attempts'[j], MaxAttempts[j])
    BY DEF TablesInv
<1>1. RowInv(jobs[j], attempts[j], MaxAttempts[j])
    BY DEF TablesInv
<1>2. CASE Abandoned(j, current[p])
    <2>1. jobs[j] \in JobRow /\ jobs[j].state = "processing" /\ current[p] \in Instant
        BY <1>2, TableTypes DEF Abandoned, TypeOK
    <2>2. "abandoned" \in Outcome
        BY DEF Outcome
    <2>3. EndsWith(jobs[j], MaxAttempts[j], FailState(j), "abandoned")
        BY FailEndsWith
    <2>4. FailState(j) \in {"pending", "succeeded", "failed_exhausted"}
        BY FailTypes
    <2>5. attempts[j] \in Ledger /\ MaxAttempts[j] \in 1 .. AttemptLimit
        BY TableTypes
    <2>6. RowInv(ReleasedRow(jobs[j], FailState(j), current[p]),
                 [attempts[j] EXCEPT ![jobs[j].attempt_count] =
                    ClosedAttempt(attempts[j][jobs[j].attempt_count], "abandoned", current[p])],
                 MaxAttempts[j])
        BY <1>1, <2>1, <2>2, <2>3, <2>4, <2>5, ReleasedRowInv
    <2> QED BY <1>2, <2>6, RecoverEffect
<1>3. CASE ~Abandoned(j, current[p])
    BY <1>1, <1>3, RecoverEffect
<1> QED BY <1>2, <1>3

(* Every step of the queue keeps the tables in agreement. *)
LEMMA TablesNext == TypeOK /\ TablesInv /\ [Next]_vars => TablesInv'
<1> SUFFICES ASSUME TypeOK, TablesInv, [Next]_vars PROVE TablesInv'
    OBVIOUS
<1>1. CASE UNCHANGED <<jobs, attempts>>
    BY <1>1 DEF TablesInv
<1>2. ASSUME NEW j \in Jobs, NEW at \in ScheduleTimes, CreateIdempotent(j, at)
      PROVE  TablesInv'
    <2>1. RowInv(CreatedRow(jobs[j], at), attempts[j], MaxAttempts[j])
        BY QueueAssumption, TableTypes, CreatedRowInv DEF TablesInv
    <2> QED BY <1>2, <2>1 DEF CreateIdempotent, TablesInv, TypeOK
<1>3. ASSUME NEW p \in Process, NEW j \in Jobs, NEW s \in LeaseSeconds,
             LeaseNext(p, j, s)
      PROVE  TablesInv'
    BY <1>3, TablesLease
<1>4. ASSUME NEW p \in Process, Succeed(p)
      PROVE  TablesInv'
    BY <1>4, TablesFinish DEF Succeed, Outcome, WorkerOutcome, EndsWith
<1>5. ASSUME NEW p \in Process, Fail(p)
      PROVE  TablesInv'
    BY <1>5, TablesFinish, FailTypes, FailEndsWith DEF Fail
<1>6. ASSUME NEW p \in Process, RecoverAbandoned(p)
      PROVE  TablesInv'
    BY <1>6, TablesRecover
<1>7. ASSUME NEW p \in Process, CaptureNow(p) \/ FinishRejected(p) \/ Crash(p)
      PROVE  TablesInv'
    BY <1>1, <1>7 DEF CaptureNow, FinishRejected, Crash
<1>8. CASE Tick \/ UNCHANGED vars
    BY <1>1, <1>8 DEF Tick, vars
<1> QED BY <1>2, <1>3, <1>4, <1>5, <1>6, <1>7, <1>8 DEF Next

(* The invariant gives the properties of the tables. *)
LEMMA TablesProperties ==
    ASSUME TypeOK, TablesInv
    PROVE  LedgerAgrees /\ LeaseFieldsAgree /\ RetryBound /\ AttemptsInTextOrder
<1>1. ASSUME NEW j \in Jobs, Exists(j)
      PROVE  /\ Counted(jobs[j], attempts[j]) /\ Explained(jobs[j], attempts[j])
             /\ Owned(jobs[j], attempts[j]) /\ Bounded(jobs[j], MaxAttempts[j])
             /\ InOrder(jobs[j], attempts[j])
    BY <1>1 DEF TablesInv, RowInv, Exists
<1>2. ASSUME NEW j \in Jobs, ~Exists(j)
      PROVE  \A n \in AttemptNumber : attempts[j][n] = Null
    BY <1>2 DEF TablesInv, RowInv, Exists
<1>3. LedgerAgrees
    BY <1>1, <1>2 DEF LedgerAgrees, Counted, Explained, GivenBack
<1>4. LeaseFieldsAgree
    BY <1>1 DEF LeaseFieldsAgree, Owned
<1>5. RetryBound
    BY <1>1 DEF RetryBound, Bounded
<1>6. AttemptsInTextOrder
    BY <1>1, <1>2 DEF AttemptsInTextOrder, InOrder
<1> QED BY <1>3, <1>4, <1>5, <1>6

(* So the tables agree in every reachable state. *)
LEMMA TablesAlways == Spec => [](TypeOK /\ TablesInv)
<1>1. Init => TypeOK /\ TablesInv
    BY TypeInit, TablesInit
<1>2. TypeOK /\ TablesInv /\ [Next]_vars => TypeOK' /\ TablesInv'
    BY TypeNext, TablesNext
<1> QED BY <1>1, <1>2, PTL DEF Spec

(* In every reachable state the two tables agree, lease columns and state  *)
(* agree, retries are bounded and attempts follow each other.              *)
THEOREM TablesCorrect ==
    Spec => [](LedgerAgrees /\ LeaseFieldsAgree /\ RetryBound /\ AttemptsInTextOrder)
<1>1. TypeOK /\ TablesInv =>
        LedgerAgrees /\ LeaseFieldsAgree /\ RetryBound /\ AttemptsInTextOrder
    BY TablesProperties
<1> QED BY <1>1, TablesAlways, PTL

(* A job is leased exactly while its owner and its expiry are set, and the *)
(* owner is the worker of its last attempt, however leases are lost.       *)
THEOREM LeaseColumnsAgree == Spec => []LeaseFieldsAgree
<1> QED BY TablesCorrect, PTL

(* No interleaving of leases, finishes and recoveries uses an attempt more *)
(* than the job has, or leaves it pending with none left.                  *)
THEOREM RetriesAreBounded == Spec => []RetryBound
<1> QED BY TablesCorrect, PTL

(* The recorded attempts of a job follow each other, in the order in which *)
(* the database compares their times.                                      *)
THEOREM AttemptsFollowEachOther == Spec => []AttemptsInTextOrder
<1> QED BY TablesCorrect, PTL

=============================================================================
