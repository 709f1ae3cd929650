------------------------ MODULE QueueOwnershipProofs ------------------------
(***************************************************************************)
(* What DetailFetchQueue guarantees when every process has a worker name   *)
(* of its own: leases in hand can be trusted, attempts are closed by the   *)
(* process they were given to, and they end after they start.              *)
(***************************************************************************)
EXTENDS QueueHistoryProofs

-----------------------------------------------------------------------------
(* Leases in hand. *)

(* The attempt a process holds: its own open one, or an abandoned one. *)
HeldOK(p) ==
    LET j == held[p].job_id
        n == held[p].attempt_number
    IN  /\ attempts[j][n] # Null
        /\ IF OwnsLease(p, j)
           THEN jobs[j].attempt_count = n
           ELSE attempts[j][n].outcome = "abandoned"

(* The parts of a lease in hand have their types. *)
LEMMA HeldTypes ==
    ASSUME TypeOK, NEW p \in Process, held[p] # Null
    PROVE  held[p].job_id \in Jobs /\ held[p].attempt_number \in AttemptNumber
BY DEF TypeOK, JobLease

(* A step that leaves the held job's row and ledger alone. *)
LEMMA HeldUntouched ==
    ASSUME NEW p \in Process, HeldOK(p), held'[p] = held[p],
           jobs'[held[p].job_id] = jobs[held[p].job_id],
           attempts'[held[p].job_id] = attempts[held[p].job_id]
    PROVE  HeldOK(p)'
BY DEF HeldOK, OwnsLease, IsProcessing, Exists

(* create_idempotent never touches a job that somebody holds. *)
LEMMA HeldCreate ==
    ASSUME TypeOK, TablesInv, HeldLeaseIsOpenOrAbandoned,
           NEW i \in Jobs, NEW at \in ScheduleTimes, CreateIdempotent(i, at),
           NEW p \in Process, held[p] # Null
    PROVE  HeldOK(p)'
<1> DEFINE j == held[p].job_id
<1>1. j \in Jobs /\ held[p].attempt_number \in AttemptNumber /\ HeldOK(p)
    BY HeldTypes DEF HeldLeaseIsOpenOrAbandoned, HeldOK
<1>2. jobs[j] # Null
    BY <1>1 DEF HeldOK, TablesInv, RowInv
<1>3. jobs'[j] = jobs[j]
    BY <1>1, <1>2 DEF CreateIdempotent, CreatedRow, TypeOK
<1> QED BY <1>1, <1>3, HeldUntouched DEF CreateIdempotent

(* A new lease is good, and spoils no other one. *)
LEMMA HeldLease ==
    ASSUME TypeOK, TablesInv, HeldLeaseIsOpenOrAbandoned, UniqueNames,
           NEW q \in Process, NEW i \in Jobs, NEW s \in LeaseSeconds,
           LeaseNext(q, i, s), NEW p \in Process, held'[p] # Null
    PROVE  HeldOK(p)'
<1> DEFINE number == jobs[i].attempt_count + 1
<1>1. /\ jobs[i] \in JobRow /\ jobs[i].state = "pending" /\ number \in AttemptNumber
    BY LeaseNumber DEF LeaseNext
<1>2. /\ jobs'[i] = LeasedRow(jobs[i], WorkerId[q], PlusSeconds(current[q], s))
      /\ attempts'[i] = [attempts[i] EXCEPT ![number] = OpenAttempt(WorkerId[q], current[q])]
      /\ attempts[i] \in Ledger /\ attempts[i][number] = Null
      /\ \A k \in Jobs : k # i => jobs'[k] = jobs[k] /\ attempts'[k] = attempts[k]
    BY TableTypes DEF LeaseNext, TypeOK
<1>3. /\ jobs'[i].state = "processing" /\ jobs'[i].attempt_count = number
      /\ jobs'[i].lease_owner = WorkerId[q]
    BY <1>1, <1>2 DEF LeasedRow, JobRow
<1>4. jobs'[i] # Null
    <2>1. jobs'[i] \in JobRow
        BY <1>1, <1>2, LeasedRowType, PlusSecondsType, QueueAssumption DEF TypeOK
    <2> QED BY <2>1, NotNull
<1>5. CASE p = q
    <2>1. held'[p] = [job_id |-> i, attempt_number |-> number]
        BY <1>5 DEF LeaseNext, TypeOK
    <2>2. attempts'[i][number] # Null
        <3>1. OpenAttempt(WorkerId[q], current[q]) \in AttemptRow
            BY OpenAttemptType, QueueAssumption DEF TypeOK
        <3> QED BY <1>1, <1>2, <3>1, NotNull DEF Ledger
    <2>3. OwnsLease(p, i)'
        BY <1>3, <1>4, <1>5 DEF OwnsLease, IsProcessing, Exists
    <2> QED BY <1>3, <2>1, <2>2, <2>3 DEF HeldOK
<1>6. CASE p # q
    <2> DEFINE j == held[p].job_id
    <2> DEFINE n == held[p].attempt_number
    <2>1. held'[p] = held[p] /\ held[p] # Null
        BY <1>6 DEF LeaseNext, TypeOK
    <2>2. j \in Jobs /\ n \in AttemptNumber /\ HeldOK(p)
        BY <2>1, HeldTypes DEF HeldLeaseIsOpenOrAbandoned, HeldOK
    <2>3. CASE j # i
        BY <1>2, <2>1, <2>2, <2>3, HeldUntouched
    <2>4. CASE j = i
        <3>1. ~OwnsLease(p, i)
            BY <1>1 DEF OwnsLease, IsProcessing
        <3>2. attempts[i][n] # Null /\ attempts[i][n].outcome = "abandoned"
            BY <2>2, <2>4, <3>1 DEF HeldOK
        <3>3. attempts'[i][n] = attempts[i][n]
            BY <1>2, <2>2, <3>2 DEF Ledger
        <3>4. ~OwnsLease(p, i)'
            BY <1>3, <1>6 DEF OwnsLease, UniqueNames
        <3> QED BY <2>1, <2>4, <3>2, <3>3, <3>4 DEF HeldOK
    <2> QED BY <2>3, <2>4
<1> QED BY <1>5, <1>6

(* Another process's accepted finish does not disturb what p holds: if the *)
(* job is the same, p had lost it already.                                 *)
LEMMA HeldFinish ==
    ASSUME TypeOK, TablesInv, HeldLeaseIsOpenOrAbandoned, UniqueNames,
           NEW q \in Process, NEW state, NEW outcome,
           held[q] # Null, OwnsLease(q, held[q].job_id), Finish(q, state, outcome),
           state \in {"pending", "succeeded", "failed_exhausted"},
           NEW p \in Process, held'[p] # Null
    PROVE  HeldOK(p)'
<1> DEFINE i == held[q].job_id
<1> DEFINE number == jobs[i].attempt_count
<1>1. /\ i \in Jobs /\ IsProcessing(i) /\ jobs[i].lease_owner = WorkerId[q]
      /\ jobs'[i] = ReleasedRow(jobs[i], state, current[q])
      /\ attempts'[i] = [attempts[i] EXCEPT ![number] =
            ClosedAttempt(attempts[i][number], outcome, current[q])]
      /\ \A k \in Jobs : k # i => jobs'[k] = jobs[k] /\ attempts'[k] = attempts[k]
    BY FinishEffect DEF OwnsLease
<1>2. p # q /\ held'[p] = held[p] /\ held[p] # Null
    BY DEF Finish, TypeOK
<1> DEFINE j == held[p].job_id
<1> DEFINE n == held[p].attempt_number
<1>3. j \in Jobs /\ n \in AttemptNumber /\ HeldOK(p)
    BY <1>2, HeldTypes DEF HeldLeaseIsOpenOrAbandoned, HeldOK
<1>4. CASE j # i
    BY <1>1, <1>2, <1>3, <1>4, HeldUntouched
<1>5. CASE j = i
    <2>1. ~OwnsLease(p, i)
        BY <1>1, <1>2 DEF OwnsLease, UniqueNames
    <2>2. attempts[i][n] # Null /\ attempts[i][n].outcome = "abandoned"
        BY <1>3, <1>5, <2>1 DEF HeldOK
    <2>3. /\ attempts[i] \in Ledger /\ number \in AttemptNumber
          /\ attempts[i][number].outcome = Null
        <3>1. /\ jobs[i] \in JobRow /\ jobs[i].state = "processing"
              /\ attempts[i] \in Ledger /\ MaxAttempts[i] \in 1 .. AttemptLimit
              /\ RowInv(jobs[i], attempts[i], MaxAttempts[i])
            BY <1>1, TableTypes DEF TablesInv
        <3> HIDE DEF i
        <3> QED BY <3>1, ProcessingAttempt
    <2>4. n # number
        BY <2>2, <2>3, NotNull DEF Outcome
    <2>5. attempts'[i][n] = attempts[i][n]
        BY <1>1, <1>3, <2>3, <2>4 DEF Ledger
    <2>6. jobs'[j].state # "processing"
        <3>1. jobs[i] \in JobRow
            BY <1>1, TableTypes
        <3>2. jobs'[i].state = state
            BY <1>1, <3>1 DEF ReleasedRow, JobRow
        <3> QED BY <1>5, <3>2
    <2>7. attempts'[j][n] # Null /\ attempts'[j][n].outcome = "abandoned"
        BY <1>5, <2>2, <2>5
    <2> QED BY <1>2, <2>6, <2>7 DEF HeldOK, OwnsLease, IsProcessing
<1> QED BY <1>4, <1>5

(* Recovery turns an open lease in hand into an abandoned one. *)
LEMMA HeldRecover ==
    ASSUME TypeOK, TablesInv, HeldLeaseIsOpenOrAbandoned,
           NEW q \in Process, RecoverAbandoned(q), NEW p \in Process, held[p] # Null
    PROVE  HeldOK(p)'
<1> DEFINE j == held[p].job_id
<1> DEFINE n == held[p].attempt_number
<1> DEFINE number == jobs[j].attempt_count
<1>1. j \in Jobs /\ n \in AttemptNumber /\ HeldOK(p) /\ held'[p] = held[p]
    BY HeldTypes DEF HeldLeaseIsOpenOrAbandoned, HeldOK, RecoverAbandoned
<1>2. CASE ~Abandoned(j, current[q])
    BY <1>1, <1>2, RecoverEffect, HeldUntouched
<1>3. CASE Abandoned(j, current[q])
    <2>1. /\ jobs'[j] = ReleasedRow(jobs[j], FailState(j), current[q])
          /\ attempts'[j] = [attempts[j] EXCEPT ![number] =
                ClosedAttempt(attempts[j][number], "abandoned", current[q])]
        BY <1>1, <1>3, RecoverEffect
    <2>2. jobs[j] \in JobRow /\ attempts[j] \in Ledger /\ current[q] \in Instant
        BY <1>1, <1>3, TableTypes DEF Abandoned, TypeOK
    <2>3. jobs'[j].state # "processing"
        BY <2>1, <2>2 DEF ReleasedRow, JobRow, FailState
    <2>4. attempts[j][n] # Null /\ (n = number \/ attempts[j][n].outcome = "abandoned")
        BY <1>1 DEF HeldOK
    <2>5. attempts[j][n] \in AttemptRow
        BY <1>1, <2>2, <2>4 DEF Ledger
    <2>6. attempts'[j][n] # Null /\ attempts'[j][n].outcome = "abandoned"
        <3>1. CASE n # number
            BY <1>1, <2>1, <2>2, <2>4, <3>1 DEF Ledger
        <3>2. CASE n = number
            <4>1. attempts'[j][n] = [attempts[j][n] EXCEPT !.finished_at = current[q],
                                                          !.outcome = "abandoned"]
                BY <1>1, <2>1, <2>2, <2>4, <3>2 DEF Ledger, ClosedAttempt
            <4>2. attempts'[j][n] \in AttemptRow /\ attempts'[j][n].outcome = "abandoned"
                BY <2>2, <2>5, <4>1 DEF AttemptRow, Outcome
            <4> QED BY <4>2, NotNull
        <3> QED BY <3>1, <3>2
    <2> QED BY <1>1, <2>3, <2>6 DEF HeldOK, OwnsLease, IsProcessing
<1> QED BY <1>2, <1>3

(* Every step of the queue keeps the leases in hand sound. *)
LEMMA HeldNext ==
    ASSUME UniqueNames
    PROVE  TypeOK /\ TablesInv /\ HeldLeaseIsOpenOrAbandoned /\ [Next]_vars
            => HeldLeaseIsOpenOrAbandoned'
<1> SUFFICES ASSUME TypeOK, TablesInv, HeldLeaseIsOpenOrAbandoned, [Next]_vars,
                    NEW p \in Process, held'[p] # Null
             PROVE  HeldOK(p)'
    BY DEF HeldLeaseIsOpenOrAbandoned, HeldOK
<1>1. CASE UNCHANGED <<jobs, attempts>> /\ held'[p] = held[p]
    BY <1>1, HeldUntouched DEF HeldLeaseIsOpenOrAbandoned, HeldOK
<1>2. CASE Tick \/ UNCHANGED vars
    BY <1>1, <1>2 DEF Tick, vars
<1>3. ASSUME NEW i \in Jobs, NEW at \in ScheduleTimes, CreateIdempotent(i, at)
      PROVE  HeldOK(p)'
    BY <1>3, HeldCreate DEF CreateIdempotent
<1>4. ASSUME NEW q \in Process, NEW i \in Jobs, NEW s \in LeaseSeconds,
             LeaseNext(q, i, s)
      PROVE  HeldOK(p)'
    BY <1>4, HeldLease
<1>5. ASSUME NEW q \in Process, Succeed(q)
      PROVE  HeldOK(p)'
    BY <1>5, HeldFinish DEF Succeed
<1>6. ASSUME NEW q \in Process, Fail(q)
      PROVE  HeldOK(p)'
    BY <1>6, HeldFinish, FailTypes DEF Fail
<1>7. ASSUME NEW q \in Process, RecoverAbandoned(q)
      PROVE  HeldOK(p)'
    BY <1>7, HeldRecover DEF RecoverAbandoned
<1>8. ASSUME NEW q \in Process, CaptureNow(q) \/ FinishRejected(q) \/ Crash(q)
      PROVE  HeldOK(p)'
    <2>1. UNCHANGED <<jobs, attempts>> /\ held'[p] = held[p]
        BY <1>8 DEF CaptureNow, FinishRejected, Crash, TypeOK
    <2> QED BY <1>1, <2>1
<1> QED BY <1>2, <1>3, <1>4, <1>5, <1>6, <1>7, <1>8 DEF Next

(* With unique worker names, a lease in hand is the open attempt of its    *)
(* job or was classified as abandoned.                                     *)
THEOREM HeldLeasesAreSound ==
    ASSUME UniqueNames
    PROVE  Spec => []HeldLeaseIsOpenOrAbandoned
<1>1. Init => HeldLeaseIsOpenOrAbandoned
    BY DEF Init, HeldLeaseIsOpenOrAbandoned
<1>2. TypeOK /\ TablesInv /\ HeldLeaseIsOpenOrAbandoned /\ [Next]_vars
        => HeldLeaseIsOpenOrAbandoned'
    BY HeldNext
<1> QED BY <1>1, <1>2, TablesAlways, PTL DEF Spec

-----------------------------------------------------------------------------
(* Who closes an attempt. *)

(* An accepted finish closes the attempt that the caller holds. *)
LEMMA FinishClosesHeld ==
    ASSUME TypeOK, TablesInv, HeldLeaseIsOpenOrAbandoned,
           NEW p \in Process, NEW state, NEW outcome,
           held[p] # Null, OwnsLease(p, held[p].job_id), Finish(p, state, outcome),
           NEW j \in Jobs, NEW n \in AttemptNumber, attempts'[j][n] # attempts[j][n]
    PROVE  /\ held[p] = [job_id |-> j, attempt_number |-> n]
           /\ held'[p] = Null
<1> DEFINE i == held[p].job_id
<1>1. /\ i \in Jobs
      /\ attempts'[i] = [attempts[i] EXCEPT ![jobs[i].attempt_count] =
            ClosedAttempt(attempts[i][jobs[i].attempt_count], outcome, current[p])]
      /\ attempts[i] \in Ledger
      /\ \A k \in Jobs : k # i => attempts'[k] = attempts[k]
    BY FinishEffect, TableTypes
<1>2. jobs[i].attempt_count = held[p].attempt_number
    BY DEF HeldLeaseIsOpenOrAbandoned
<1>3. j = i
    BY <1>1
<1>4. n = jobs[i].attempt_count
    BY <1>1, <1>3 DEF Ledger
<1>5. held[p] \in JobLease
    BY DEF TypeOK
<1>6. held[p] = [job_id |-> j, attempt_number |-> n]
    BY <1>2, <1>3, <1>4, <1>5 DEF JobLease
<1>7. held'[p] = Null
    BY DEF Finish, TypeOK
<1> QED BY <1>6, <1>7

(* With unique worker names, succeed and fail close the caller's attempt.  *)
THEOREM AttemptsAreClosedByTheirHolder ==
    ASSUME UniqueNames
    PROVE  Spec => FinishesOwnAttempt
<1>1. ASSUME TypeOK, TablesInv, HeldLeaseIsOpenOrAbandoned, [Next]_vars,
             NEW j \in Jobs, NEW n \in AttemptNumber,
             attempts[j][n] # attempts'[j][n],
             attempts'[j][n].outcome \in WorkerOutcome
      PROVE  \E p \in Process :
                /\ held[p] = [job_id |-> j, attempt_number |-> n]
                /\ held'[p] = Null
    <2>1. ASSUME NEW p \in Process, Succeed(p) \/ Fail(p)
          PROVE  /\ held[p] = [job_id |-> j, attempt_number |-> n]
                 /\ held'[p] = Null
        BY <1>1, <2>1, FinishClosesHeld DEF Succeed, Fail
    <2>2. ASSUME NEW p \in Process, NEW i \in Jobs, NEW s \in LeaseSeconds,
                 LeaseNext(p, i, s)
          PROVE  FALSE
        <3>1. attempts'[j][n] = OpenAttempt(WorkerId[p], current[p])
            BY <1>1, <2>2 DEF LeaseNext, TypeOK
        <3> QED BY <1>1, <3>1, NotNull DEF OpenAttempt, Outcome
    <2>3. ASSUME NEW p \in Process, RecoverAbandoned(p)
          PROVE  FALSE
        <3>1. Abandoned(j, current[p]) /\ n = jobs[j].attempt_count
            BY <1>1, <2>3 DEF RecoverAbandoned, TypeOK
        <3>2. attempts[j][n] \in AttemptRow
            BY <1>1, <3>1, TableTypes, ProcessingAttempt DEF Abandoned, TablesInv
        <3>3. attempts'[j][n] = ClosedAttempt(attempts[j][n], "abandoned", current[p])
            BY <2>3, <3>1 DEF RecoverAbandoned
        <3>4. attempts'[j][n].outcome = "abandoned"
            BY <3>2, <3>3, NotNull DEF ClosedAttempt, AttemptRow
        <3> QED BY <1>1, <3>4 DEF WorkerOutcome
    <2>4. attempts' # attempts
        BY <1>1
    <2>5. CASE \E p \in Process : Succeed(p) \/ Fail(p)
        BY <2>1, <2>5
    <2> QED BY <1>1, <2>2, <2>3, <2>4, <2>5 DEF Next, Tick, CreateIdempotent,
            CaptureNow, FinishRejected, Crash, vars
<1>2. TypeOK /\ TablesInv /\ HeldLeaseIsOpenOrAbandoned /\ [Next]_vars =>
        [\A j \in Jobs, n \in AttemptNumber :
            (/\ attempts[j][n] # attempts'[j][n]
             /\ attempts'[j][n].outcome \in WorkerOutcome)
                => \E p \in Process :
                    /\ held[p] = [job_id |-> j, attempt_number |-> n]
                    /\ held'[p] = Null]_vars
    BY <1>1
<1>3. Spec => []HeldLeaseIsOpenOrAbandoned
    BY HeldLeasesAreSound
<1> QED BY <1>2, <1>3, TablesAlways, PTL DEF Spec, FinishesOwnAttempt
-----------------------------------------------------------------------------
(* Attempts end after they start.  A worker finishes with a time it read   *)
(* no earlier than the one it leased with, and recovery with one after the *)
(* expiry, which lies in a later second than the start.                    *)

TimesOK(j) ==
    /\ IsProcessing(j) =>
        attempts[j][jobs[j].attempt_count].started_at.sec < jobs[j].lease_expires_at.sec
    /\ \A n \in AttemptNumber :
        (attempts[j][n] # Null /\ attempts[j][n].finished_at # Null)
            => NotLater(attempts[j][n].started_at, attempts[j][n].finished_at)

(* The time a process goes by is not before the start of what it holds. *)
HeldStartOK(p) ==
    held[p] # Null =>
        NotLater(attempts[held[p].job_id][held[p].attempt_number].started_at, current[p])

TimesInv ==
    /\ CapturedInThePast
    /\ \A p \in Process : HeldStartOK(p)
    /\ \A j \in Jobs : TimesOK(j)

(* The start of an attempt is never rewritten. *)
LEMMA StartIsKept ==
    ASSUME TypeOK, TablesInv, [Next]_vars,
           NEW j \in Jobs, NEW n \in AttemptNumber, attempts[j][n] # Null
    PROVE  attempts'[j][n].started_at = attempts[j][n].started_at
<1> DEFINE number == jobs[j].attempt_count
<1>1. /\ attempts[j] \in Ledger /\ attempts[j][n] \in AttemptRow
      /\ RowInv(jobs[j], attempts[j], MaxAttempts[j])
    BY TableTypes DEF Ledger, TablesInv
<1>2. CASE attempts'[j] = attempts[j]
    BY <1>2
<1>3. ASSUME NEW p \in Process, Exists(j),
             attempts'[j] = [attempts[j] EXCEPT ![number + 1] =
                                OpenAttempt(WorkerId[p], current[p])]
      PROVE  attempts'[j][n].started_at = attempts[j][n].started_at
    <2>1. jobs[j] \in JobRow /\ number \in Nat /\ n <= number /\ n \in Nat
        BY <1>1, <1>3, TableTypes, QueueAssumption
        DEF Exists, RowInv, Counted, JobRow, AttemptNumber
    <2> QED BY <1>1, <1>3, <2>1 DEF Ledger
<1>4. ASSUME NEW p \in Process, NEW outcome,
             attempts'[j] = [attempts[j] EXCEPT ![number] =
                                ClosedAttempt(attempts[j][number], outcome, current[p])]
      PROVE  attempts'[j][n].started_at = attempts[j][n].started_at
    <2>1. CASE n # number
        BY <1>1, <1>4, <2>1 DEF Ledger
    <2>2. CASE n = number
        <3>1. attempts'[j][n] = [attempts[j][n] EXCEPT !.finished_at = current[p],
                                                      !.outcome = outcome]
            BY <1>1, <1>4, <2>2 DEF Ledger, ClosedAttempt
        <3> QED BY <1>1, <3>1 DEF AttemptRow
    <2> QED BY <2>1, <2>2
<1> QED BY <1>2, <1>3, <1>4, StepEffect

(* So the time a process goes by stays after the start of what it holds.   *)
LEMMA HeldStartNext ==
    ASSUME TypeOK, TypeOK', TablesInv, HeldLeaseIsOpenOrAbandoned, TimesInv,
           [Next]_vars, NEW p \in Process
    PROVE  HeldStartOK(p)'
<1> SUFFICES ASSUME held'[p] # Null PROVE HeldStartOK(p)'
    BY DEF HeldStartOK
<1>1. CASE held'[p] = held[p]
    <2> DEFINE j == held[p].job_id
    <2> DEFINE n == held[p].attempt_number
    <2>1. j \in Jobs /\ n \in AttemptNumber /\ attempts[j][n] # Null
        BY <1>1, HeldTypes DEF HeldLeaseIsOpenOrAbandoned
    <2>2. attempts'[j][n].started_at = attempts[j][n].started_at
        BY <2>1, StartIsKept
    <2>3. NotLater(attempts[j][n].started_at, current[p])
        BY <1>1 DEF TimesInv, HeldStartOK
    <2>4. attempts[j][n].started_at \in Instant
        BY <2>1 DEF TypeOK, AttemptRow
    <2>5. NotLater(current[p], current'[p]) /\ current[p] \in Instant /\ current'[p] \in Instant
        BY ClockNext DEF TypeOK, TimesInv
    <2>6. NotLater(attempts[j][n].started_at, current'[p])
        BY <2>3, <2>4, <2>5, NotLaterTransitive
    <2> QED BY <1>1, <2>2, <2>6 DEF HeldStartOK
<1>2. ASSUME NEW i \in Jobs, NEW s \in LeaseSeconds, LeaseNext(p, i, s)
      PROVE  HeldStartOK(p)'
    <2> DEFINE number == jobs[i].attempt_count + 1
    <2>1. number \in AttemptNumber
        BY <1>2, LeaseNumber DEF LeaseNext
    <2>2. held'[p] = [job_id |-> i, attempt_number |-> number] /\ current'[p] = current[p]
        BY <1>2 DEF LeaseNext, TypeOK
    <2>3. attempts'[i][number] = OpenAttempt(WorkerId[p], current[p])
        BY <1>2, <2>1 DEF LeaseNext, TypeOK
    <2>4. attempts'[i][number].started_at = current[p]
        BY <2>3 DEF OpenAttempt
    <2> QED BY <2>2, <2>4 DEF HeldStartOK, NotLater
<1> QED BY <1>1, <1>2, HeldStep

(* Who closes an attempt does so no earlier than it started. *)
LEMMA ClosedAfterStart ==
    ASSUME TypeOK, TablesInv, HeldLeaseIsOpenOrAbandoned, TimesInv, [Next]_vars,
           NEW j \in Jobs, IsProcessing(j), attempts'[j] # attempts[j]
    PROVE  \E now \in Instant, outcome \in Outcome :
              /\ NotLater(attempts[j][jobs[j].attempt_count].started_at, now)
              /\ attempts'[j] = [attempts[j] EXCEPT ![jobs[j].attempt_count] =
                    ClosedAttempt(attempts[j][jobs[j].attempt_count], outcome, now)]
<1> DEFINE number == jobs[j].attempt_count
<1> DEFINE start == attempts[j][number].started_at
<1> DEFINE Goal == \E now \in Instant, outcome \in Outcome :
              /\ NotLater(start, now)
              /\ attempts'[j] = [attempts[j] EXCEPT ![number] =
                    ClosedAttempt(attempts[j][number], outcome, now)]
<1>1. ASSUME NEW p \in Process, held[p] # Null, OwnsLease(p, held[p].job_id),
             NEW state, NEW outcome \in Outcome, Finish(p, state, outcome)
      PROVE  Goal
    <2>1. j = held[p].job_id /\ attempts'[j] = [attempts[j] EXCEPT ![number] =
                ClosedAttempt(attempts[j][number], outcome, current[p])]
        <3> DEFINE i == held[p].job_id
        <3>1. /\ attempts'[i] = [attempts[i] EXCEPT ![jobs[i].attempt_count] =
                    ClosedAttempt(attempts[i][jobs[i].attempt_count], outcome, current[p])]
              /\ \A k \in Jobs : k # i => attempts'[k] = attempts[k]
            BY <1>1, FinishEffect
        <3>2. j = i
            BY <3>1
        <3> QED BY <3>1, <3>2
    <2>2. number = held[p].attempt_number
        BY <1>1, <2>1 DEF HeldLeaseIsOpenOrAbandoned
    <2>3. NotLater(start, current[p]) /\ current[p] \in Instant
        BY <1>1, <2>1, <2>2 DEF TimesInv, HeldStartOK, TypeOK
    <2> QED BY <2>1, <2>3
<1>2. ASSUME NEW p \in Process, Succeed(p) \/ Fail(p)
      PROVE  Goal
    BY <1>1, <1>2, FailTypes DEF Succeed, Fail, Outcome, WorkerOutcome
<1>3. ASSUME NEW p \in Process, RecoverAbandoned(p)
      PROVE  Goal
    <2>1. /\ Abandoned(j, current[p])
          /\ attempts'[j] = [attempts[j] EXCEPT ![number] =
                ClosedAttempt(attempts[j][number], "abandoned", current[p])]
        BY <1>3, RecoverEffect
    <2>2. /\ jobs[j] \in JobRow /\ jobs[j].state = "processing"
          /\ attempts[j] \in Ledger /\ MaxAttempts[j] \in 1 .. AttemptLimit
          /\ RowInv(jobs[j], attempts[j], MaxAttempts[j])
        BY TableTypes DEF TablesInv
    <2>3. attempts[j][number] \in AttemptRow
        BY <2>2, ProcessingAttempt
    <2>4. /\ start \in Instant /\ current[p] \in Instant
          /\ jobs[j].lease_expires_at \in Instant
          /\ TextLess(jobs[j].lease_expires_at, current[p])
        BY <2>1, <2>2, <2>3 DEF Abandoned, JobRow, AttemptRow, TypeOK
    <2>5. start.sec < jobs[j].lease_expires_at.sec
        BY DEF TimesInv, TimesOK
    <2>6. jobs[j].lease_expires_at.sec <= current[p].sec
        BY <2>4, TextLessSeconds
    <2>7. NotLater(start, current[p])
        <3> HIDE DEF start
        <3> QED BY <2>4, <2>5, <2>6 DEF NotLater, Earlier, Instant
    <2> QED BY <2>1, <2>4, <2>7 DEF Outcome
<1>4. ASSUME NEW p \in Process, NEW i \in Jobs, NEW s \in LeaseSeconds,
             LeaseNext(p, i, s)
      PROVE  FALSE
    <2>1. i # j
        BY <1>4, LeaseNumber DEF LeaseNext, IsProcessing
    <2> QED BY <1>4, <2>1 DEF LeaseNext, TypeOK
<1>5. attempts' # attempts
    OBVIOUS
<1> QED BY <1>2, <1>3, <1>4, <1>5 DEF Next, Tick, CreateIdempotent, CaptureNow,
            FinishRejected, Crash, vars

(* The recorded times of a job stay in order through every step. *)
LEMMA TimesNext ==
    ASSUME TypeOK, TablesInv, HeldLeaseIsOpenOrAbandoned, TimesInv, [Next]_vars,
           NEW j \in Jobs
    PROVE  TimesOK(j)'
<1> DEFINE number == jobs[j].attempt_count
<1>1. TimesOK(j) /\ attempts[j] \in Ledger
    BY TableTypes DEF TimesInv
<1>2. CASE jobs'[j] = jobs[j] /\ attempts'[j] = attempts[j]
    BY <1>1, <1>2 DEF TimesOK, IsProcessing, Exists
<1>3. ASSUME NEW at \in ScheduleTimes, jobs'[j] = CreatedRow(Null, at),
             attempts'[j] = attempts[j]
      PROVE  TimesOK(j)'
    <2>1. jobs'[j].state = "pending"
        BY <1>3 DEF CreatedRow
    <2> QED BY <1>1, <1>3, <2>1 DEF TimesOK, IsProcessing
<1>4. ASSUME Exists(j), jobs[j].state = "pending",
             jobs[j].attempt_count < MaxAttempts[j],
             NEW p \in Process, NEW s \in LeaseSeconds,
             jobs'[j] = LeasedRow(jobs[j], WorkerId[p], PlusSeconds(current[p], s)),
             attempts'[j] = [attempts[j] EXCEPT ![number + 1] =
                                OpenAttempt(WorkerId[p], current[p])]
      PROVE  TimesOK(j)'
    <2>1. /\ jobs[j] \in JobRow /\ number \in Nat /\ number + 1 \in AttemptNumber
          /\ MaxAttempts[j] \in 1 .. AttemptLimit
        <3>1. jobs[j] \in JobRow /\ MaxAttempts[j] \in 1 .. AttemptLimit
            BY <1>4, TableTypes DEF Exists
        <3>2. number \in Nat
            BY <3>1 DEF JobRow
        <3> QED BY <1>4, <3>1, <3>2, QueueAssumption DEF AttemptNumber
    <2>2. /\ jobs'[j].attempt_count = number + 1
          /\ jobs'[j].lease_expires_at = PlusSeconds(current[p], s)
        BY <1>4, <2>1 DEF LeasedRow, JobRow
    <2>3. attempts'[j][number + 1].started_at = current[p]
          /\ attempts'[j][number + 1].finished_at = Null
        BY <1>1, <1>4, <2>1 DEF OpenAttempt, Ledger
    <2>4. current[p].sec < PlusSeconds(current[p], s).sec
        BY QueueAssumption DEF PlusSeconds, TypeOK, Instant
    <2>5. \A n \in AttemptNumber : n # number + 1 => attempts'[j][n] = attempts[j][n]
        BY <1>1, <1>4 DEF Ledger
    <2> QED BY <1>1, <2>2, <2>3, <2>4, <2>5 DEF TimesOK
<1>5. ASSUME IsProcessing(j), NEW p \in Process,
             NEW state \in {"pending", "succeeded", "failed_exhausted"},
             jobs'[j] = ReleasedRow(jobs[j], state, current[p])
      PROVE  TimesOK(j)'
    <2>1. jobs[j] \in JobRow
        BY <1>5, TableTypes
    <2>2. jobs'[j].state # "processing"
        BY <1>5, <2>1 DEF ReleasedRow, JobRow
    <2>3. CASE attempts'[j] = attempts[j]
        BY <1>1, <2>2, <2>3 DEF TimesOK, IsProcessing
    <2>4. CASE attempts'[j] # attempts[j]
        <3>1. PICK now \in Instant, outcome \in Outcome :
                /\ NotLater(attempts[j][number].started_at, now)
                /\ attempts'[j] = [attempts[j] EXCEPT ![number] =
                        ClosedAttempt(attempts[j][number], outcome, now)]
            BY <1>5, <2>4, ClosedAfterStart
        <3>2. number \in AttemptNumber /\ attempts[j][number] \in AttemptRow
            BY <1>5, TableTypes, ProcessingAttempt DEF TablesInv
        <3>3. attempts'[j][number] = [attempts[j][number] EXCEPT
                                        !.finished_at = now, !.outcome = outcome]
            BY <1>1, <3>1, <3>2, NotNull DEF Ledger, ClosedAttempt
        <3>4. /\ attempts'[j][number].started_at = attempts[j][number].started_at
              /\ attempts'[j][number].finished_at = now
            BY <3>2, <3>3 DEF AttemptRow
        <3>5. \A n \in AttemptNumber : n # number => attempts'[j][n] = attempts[j][n]
            BY <1>1, <3>1 DEF Ledger
        <3> QED BY <1>1, <2>2, <3>1, <3>4, <3>5 DEF TimesOK, IsProcessing
    <2> QED BY <2>3, <2>4
<1> QED BY <1>2, <1>3, <1>4, <1>5, StepEffect

(* With unique worker names an attempt never finishes before it started,   *)
(* although both times are read before the transactions that write them.   *)
THEOREM AttemptsEndInTime ==
    ASSUME UniqueNames
    PROVE  Spec => []AttemptsEndAfterTheyStart
<1>1. Init => TimesInv
    BY DEF Init, CapturedInThePast, TimesInv, TimesOK, HeldStartOK, IsProcessing, Exists, NotLater
<1>2. TypeOK /\ TypeOK' /\ TablesInv /\ HeldLeaseIsOpenOrAbandoned /\ TimesInv /\ [Next]_vars
        => TimesInv'
    <2> SUFFICES ASSUME TypeOK, TypeOK', TablesInv, HeldLeaseIsOpenOrAbandoned,
                        TimesInv, [Next]_vars
                 PROVE  TimesInv'
        OBVIOUS
    <2>1. \A p \in Process : NotLater(current'[p], clock') /\ HeldStartOK(p)'
        BY ClockNext, HeldStartNext DEF TimesInv
    <2>2. \A j \in Jobs : TimesOK(j)'
        BY TimesNext
    <2> QED BY <2>1, <2>2 DEF TimesInv, CapturedInThePast
<1>3. TimesInv => AttemptsEndAfterTheyStart
    BY DEF TimesInv, TimesOK, AttemptsEndAfterTheyStart
<1>4. Spec => []HeldLeaseIsOpenOrAbandoned
    BY HeldLeasesAreSound
<1> QED BY <1>1, <1>2, <1>3, <1>4, TablesAlways, PTL DEF Spec

=============================================================================
