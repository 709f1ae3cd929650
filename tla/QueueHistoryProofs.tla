------------------------- MODULE QueueHistoryProofs -------------------------
(***************************************************************************)
(* Action properties of DetailFetchQueue, that it never gives an attempt   *)
(* out twice, and that it implements the job lifecycle of                  *)
(* docs/runtime-state.md.                                                  *)
(***************************************************************************)
EXTENDS DetailFetchQueueProofs

-----------------------------------------------------------------------------
(* What is final stays final. *)

(* A step writes a job's row or ledger only by leasing a pending job,      *)
(* closing a processing one, or creating one that does not exist.          *)
LEMMA StepEffect ==
    ASSUME TypeOK, TablesInv, [Next]_vars, NEW j \in Jobs
    PROVE  \/ jobs'[j] = jobs[j] /\ attempts'[j] = attempts[j]
           \/ /\ jobs[j] = Null
              /\ \E at \in ScheduleTimes : jobs'[j] = CreatedRow(Null, at)
              /\ attempts'[j] = attempts[j]
           \/ /\ Exists(j) /\ jobs[j].state = "pending"
              /\ jobs[j].attempt_count < MaxAttempts[j]
              /\ \E p \in Process, s \in LeaseSeconds :
                    /\ jobs'[j] = LeasedRow(jobs[j], WorkerId[p],
                                            PlusSeconds(current[p], s))
                    /\ attempts'[j] = [attempts[j] EXCEPT ![jobs[j].attempt_count + 1] =
                                            OpenAttempt(WorkerId[p], current[p])]
           \/ /\ IsProcessing(j)
              /\ \E p \in Process, state \in {"pending", "succeeded", "failed_exhausted"},
                    outcome \in Outcome :
                    /\ EndsWith(jobs[j], MaxAttempts[j], state, outcome)
                    /\ outcome = "abandoned" => Abandoned(j, current[p])
                    /\ jobs'[j] = ReleasedRow(jobs[j], state, current[p])
                    /\ attempts'[j] = [attempts[j] EXCEPT ![jobs[j].attempt_count] =
                        ClosedAttempt(attempts[j][jobs[j].attempt_count], outcome, current[p])]
<1>1. ASSUME UNCHANGED <<jobs, attempts>>
      PROVE  jobs'[j] = jobs[j] /\ attempts'[j] = attempts[j]
    BY <1>1
<1>2. ASSUME NEW i \in Jobs, NEW at \in ScheduleTimes, CreateIdempotent(i, at)
      PROVE  /\ attempts'[j] = attempts[j]
             /\ \/ jobs'[j] = jobs[j]
                \/ jobs[j] = Null /\ jobs'[j] = CreatedRow(Null, at)
    <2>1. attempts' = attempts /\ (i # j => jobs'[j] = jobs[j])
        BY <1>2 DEF CreateIdempotent, TypeOK
    <2>2. i = j => jobs'[j] = CreatedRow(jobs[j], at)
        BY <1>2 DEF CreateIdempotent, TypeOK
    <2>3. jobs[j] # Null => CreatedRow(jobs[j], at) = jobs[j]
        BY DEF CreatedRow
    <2> QED BY <2>1, <2>2, <2>3
<1>3. ASSUME NEW p \in Process, NEW i \in Jobs, NEW s \in LeaseSeconds,
             LeaseNext(p, i, s)
      PROVE  \/ jobs'[j] = jobs[j] /\ attempts'[j] = attempts[j]
             \/ /\ Exists(j) /\ jobs[j].state = "pending"
                /\ jobs[j].attempt_count < MaxAttempts[j]
                /\ jobs'[j] = LeasedRow(jobs[j], WorkerId[p], PlusSeconds(current[p], s))
                /\ attempts'[j] = [attempts[j] EXCEPT ![jobs[j].attempt_count + 1] =
                                        OpenAttempt(WorkerId[p], current[p])]
    <2>1. CASE i # j
        BY <1>3, <2>1 DEF LeaseNext, TypeOK
    <2>2. CASE i = j
        BY <1>3, <2>2 DEF LeaseNext, NextJob, Eligible, TypeOK
    <2> QED BY <2>1, <2>2
<1>4. ASSUME NEW p \in Process, NEW state, NEW outcome,
             held[p] # Null, OwnsLease(p, held[p].job_id), Finish(p, state, outcome)
      PROVE  \/ jobs'[j] = jobs[j] /\ attempts'[j] = attempts[j]
             \/ /\ j = held[p].job_id /\ IsProcessing(j)
                /\ jobs'[j] = ReleasedRow(jobs[j], state, current[p])
                /\ attempts'[j] = [attempts[j] EXCEPT ![jobs[j].attempt_count] =
                        ClosedAttempt(attempts[j][jobs[j].attempt_count], outcome, current[p])]
    <2> DEFINE i == held[p].job_id
    <2>1. /\ i \in Jobs /\ IsProcessing(i)
          /\ jobs'[i] = ReleasedRow(jobs[i], state, current[p])
          /\ attempts'[i] = [attempts[i] EXCEPT ![jobs[i].attempt_count] =
                ClosedAttempt(attempts[i][jobs[i].attempt_count], outcome, current[p])]
          /\ \A k \in Jobs : k # i => jobs'[k] = jobs[k] /\ attempts'[k] = attempts[k]
        BY <1>4, FinishEffect DEF OwnsLease
    <2> HIDE DEF i
    <2>2. CASE j = i
        BY <2>1, <2>2 DEF i
    <2>3. CASE j # i
        BY <2>1, <2>3
    <2> QED BY <2>2, <2>3
<1>5. ASSUME NEW p \in Process, RecoverAbandoned(p)
      PROVE  \/ jobs'[j] = jobs[j] /\ attempts'[j] = attempts[j]
             \/ /\ IsProcessing(j) /\ Abandoned(j, current[p])
                /\ jobs'[j] = ReleasedRow(jobs[j], FailState(j), current[p])
                /\ attempts'[j] = [attempts[j] EXCEPT ![jobs[j].attempt_count] =
                     ClosedAttempt(attempts[j][jobs[j].attempt_count], "abandoned", current[p])]
    BY <1>5, RecoverEffect DEF Abandoned
<1>6. CASE Tick \/ UNCHANGED vars
    BY <1>1, <1>6 DEF Tick, vars
<1>7. ASSUME NEW p \in Process, CaptureNow(p) \/ FinishRejected(p) \/ Crash(p)
      PROVE  jobs'[j] = jobs[j] /\ attempts'[j] = attempts[j]
    BY <1>1, <1>7 DEF CaptureNow, FinishRejected, Crash
<1>8. "abandoned" \in Outcome /\ "succeeded" \in Outcome
    BY DEF Outcome, WorkerOutcome
<1>9. \A i \in Jobs : FailOutcome(i) # "abandoned"
    BY DEF FailOutcome
<1> QED
    <2>1. CASE Tick \/ UNCHANGED vars
        BY <1>6, <2>1
    <2>2. ASSUME NEW i \in Jobs, NEW at \in ScheduleTimes, CreateIdempotent(i, at)
          PROVE  \/ jobs'[j] = jobs[j] /\ attempts'[j] = attempts[j]
                 \/ /\ jobs[j] = Null
                    /\ jobs'[j] = CreatedRow(Null, at)
                    /\ attempts'[j] = attempts[j]
        BY <1>2, <2>2
    <2>3. ASSUME NEW p \in Process, Succeed(p)
          PROVE  \/ jobs'[j] = jobs[j] /\ attempts'[j] = attempts[j]
                 \/ /\ IsProcessing(j)
                    /\ EndsWith(jobs[j], MaxAttempts[j], "succeeded", "succeeded")
                    /\ jobs'[j] = ReleasedRow(jobs[j], "succeeded", current[p])
                    /\ attempts'[j] = [attempts[j] EXCEPT ![jobs[j].attempt_count] =
                         ClosedAttempt(attempts[j][jobs[j].attempt_count], "succeeded", current[p])]
        BY <1>4, <2>3 DEF Succeed, EndsWith
    <2>4. ASSUME NEW p \in Process, Fail(p)
          PROVE  \/ jobs'[j] = jobs[j] /\ attempts'[j] = attempts[j]
                 \/ /\ IsProcessing(j)
                    /\ EndsWith(jobs[j], MaxAttempts[j], FailState(j), FailOutcome(j))
                    /\ jobs'[j] = ReleasedRow(jobs[j], FailState(j), current[p])
                    /\ attempts'[j] = [attempts[j] EXCEPT ![jobs[j].attempt_count] =
                         ClosedAttempt(attempts[j][jobs[j].attempt_count], FailOutcome(j), current[p])]
        <3>1. EndsWith(jobs[j], MaxAttempts[j], FailState(j), FailOutcome(j))
            BY FailEndsWith
        <3> QED BY <1>4, <2>4, <3>1 DEF Fail
    <2>5. ASSUME NEW p \in Process, RecoverAbandoned(p)
          PROVE  \/ jobs'[j] = jobs[j] /\ attempts'[j] = attempts[j]
                 \/ /\ IsProcessing(j) /\ Abandoned(j, current[p])
                    /\ EndsWith(jobs[j], MaxAttempts[j], FailState(j), "abandoned")
                    /\ jobs'[j] = ReleasedRow(jobs[j], FailState(j), current[p])
                    /\ attempts'[j] = [attempts[j] EXCEPT ![jobs[j].attempt_count] =
                         ClosedAttempt(attempts[j][jobs[j].attempt_count], "abandoned", current[p])]
        <3>1. EndsWith(jobs[j], MaxAttempts[j], FailState(j), "abandoned")
            BY FailEndsWith
        <3> QED BY <1>5, <2>5, <3>1
    <2>6. FailState(j) \in {"pending", "succeeded", "failed_exhausted"}
          /\ FailOutcome(j) \in Outcome
        BY FailTypes
    <2>7. CASE \E i \in Jobs, at \in ScheduleTimes : CreateIdempotent(i, at)
        BY <2>2, <2>7
    <2>8. CASE \E p \in Process, i \in Jobs, s \in LeaseSeconds : LeaseNext(p, i, s)
        BY <1>3, <2>8
    <2>9. CASE \E p \in Process : Succeed(p)
        BY <1>8, <2>3, <2>9
    <2>10. CASE \E p \in Process : Fail(p)
        BY <1>9, <2>4, <2>6, <2>10
    <2>11. CASE \E p \in Process : RecoverAbandoned(p)
        BY <1>8, <2>5, <2>6, <2>11
    <2>12. CASE \E p \in Process : CaptureNow(p) \/ FinishRejected(p) \/ Crash(p)
        BY <1>7, <2>12
    <2> QED BY <2>1, <2>7, <2>8, <2>9, <2>10, <2>11, <2>12 DEF Next

(* A job that succeeded or was exhausted never changes again. *)
THEOREM TerminalStaysFinal == Spec => TerminalIsFinal
<1>1. ASSUME TypeOK, TablesInv, [Next]_vars, NEW j \in Jobs,
             Exists(j), jobs[j].state \in Terminal
      PROVE  jobs'[j] = jobs[j]
    BY <1>1, StepEffect DEF Exists, IsProcessing, Terminal
<1>2. TypeOK /\ TablesInv /\ [Next]_vars =>
        [\A j \in Jobs :
            (Exists(j) /\ jobs[j].state \in Terminal) => jobs'[j] = jobs[j]]_vars
    BY <1>1
<1> QED BY <1>2, TablesAlways, PTL DEF Spec, TerminalIsFinal

(* The record of a closed attempt is never rewritten. *)
THEOREM HistoryIsKept == Spec => ClosedAttemptsAreHistory
<1>1. ASSUME TypeOK, TablesInv, [Next]_vars, NEW j \in Jobs, NEW n \in AttemptNumber,
             attempts[j][n] # Null, attempts[j][n].outcome # Null
      PROVE  attempts'[j][n] = attempts[j][n]
    <2>1. RowInv(jobs[j], attempts[j], MaxAttempts[j]) /\ attempts[j] \in Ledger
          /\ jobs[j] \in JobRow \cup {Null}
        BY <1>1, TableTypes DEF TablesInv
    <2>2. jobs[j] # Null
        BY <1>1, <2>1 DEF RowInv
    <2>3. n <= jobs[j].attempt_count /\ jobs[j].attempt_count \in Nat
        BY <1>1, <2>1, <2>2 DEF RowInv, Counted, JobRow
    <2>4. n # jobs[j].attempt_count + 1
        BY <2>3 DEF AttemptNumber
    <2>5. IsProcessing(j) => n # jobs[j].attempt_count
        <3> SUFFICES ASSUME IsProcessing(j) PROVE n # jobs[j].attempt_count
            OBVIOUS
        <3>1. jobs[j] \in JobRow /\ jobs[j].state = "processing"
            BY <1>1, TableTypes
        <3>2. attempts[j][jobs[j].attempt_count].outcome = Null
            BY <1>1, <2>1, <3>1, ProcessingAttempt, TableTypes
        <3> QED BY <1>1, <3>2
    <2>6. \A x : \A m \in Nat : m # n => [attempts[j] EXCEPT ![m] = x][n] = attempts[j][n]
        BY <2>1 DEF Ledger
    <2>7. \A x : [attempts[j] EXCEPT ![jobs[j].attempt_count + 1] = x][n] = attempts[j][n]
        BY <2>3, <2>4, <2>6
    <2>8. IsProcessing(j) =>
            \A x : [attempts[j] EXCEPT ![jobs[j].attempt_count] = x][n] = attempts[j][n]
        BY <2>3, <2>5, <2>6
    <2> QED BY <1>1, <2>7, <2>8, StepEffect
<1>2. TypeOK /\ TablesInv /\ [Next]_vars =>
        [\A j \in Jobs, n \in AttemptNumber :
            (attempts[j][n] # Null /\ attempts[j][n].outcome # Null)
                => attempts'[j][n] = attempts[j][n]]_vars
    BY <1>1
<1> QED BY <1>2, TablesAlways, PTL DEF Spec, ClosedAttemptsAreHistory

-----------------------------------------------------------------------------
(* What recovery may take.  The `now` a process captured is never ahead of *)
(* the clock, and the text order does respect the seconds.                 *)

CapturedInThePast == \A p \in Process : NotLater(current[p], clock)

(* At the start no process has a time that lies ahead of the clock. *)
LEMMA CapturedInit == Init => CapturedInThePast
BY DEF Init, CapturedInThePast, NotLater

(* Time does not go back, and a process that reads it gets the present.    *)
LEMMA ClockNext ==
    ASSUME TypeOK, CapturedInThePast, [Next]_vars, NEW p \in Process
    PROVE  /\ NotLater(current[p], current'[p])
           /\ NotLater(current'[p], clock')
<1>1. /\ current[p] \in Instant /\ clock \in Instant /\ NotLater(current[p], clock)
      /\ \A i \in Instant : NotLater(i, i)
    BY DEF TypeOK, CapturedInThePast, NotLater
<1>2. CASE UNCHANGED <<clock, current>>
    BY <1>1, <1>2
<1>3. CASE Tick
    <2>1. clock' \in Instant /\ NotLater(clock, clock') /\ current' = current
        BY <1>1, <1>3, LastMicroAssumption DEF Tick, NotLater, Earlier, Instant
    <2> QED BY <1>1, <2>1, NotLaterTransitive
<1>4. ASSUME NEW q \in Process, CaptureNow(q) \/ Crash(q)
      PROVE  /\ NotLater(current[p], current'[p])
             /\ NotLater(current'[p], clock')
    <2>1. clock' = clock /\ current' = [current EXCEPT ![q] = clock]
        BY <1>4 DEF CaptureNow, Crash
    <2>2. current'[p] = clock \/ current'[p] = current[p]
        BY <2>1 DEF TypeOK
    <2> QED BY <1>1, <2>1, <2>2
<1> QED BY <1>2, <1>3, <1>4 DEF Next, CreateIdempotent, LeaseNext, Succeed, Fail,
            Finish, FinishRejected, RecoverAbandoned, vars

(* No step lets a process get ahead of the clock: it can only read it. *)
LEMMA CapturedAlways == Spec => []CapturedInThePast
<1>1. TypeOK /\ CapturedInThePast /\ [Next]_vars => CapturedInThePast'
    BY ClockNext DEF CapturedInThePast
<1> QED BY <1>1, CapturedInit, TypeCorrect, PTL DEF Spec

(* An attempt is classified as abandoned only by a process whose time the  *)
(* text of its expiry sorts before.                                        *)
LEMMA AbandonedByRecovery ==
    ASSUME TypeOK, TablesInv, [Next]_vars, NEW j \in Jobs, NEW n \in AttemptNumber,
           IsProcessing(j), n = jobs[j].attempt_count,
           attempts'[j][n].outcome = "abandoned"
    PROVE  /\ jobs[j].lease_expires_at \in Instant
           /\ \E p \in Process :
                /\ TextLess(jobs[j].lease_expires_at, current[p])
                /\ attempts'[j][n].finished_at = current[p]
<1>1. /\ jobs[j] \in JobRow /\ jobs[j].state = "processing" /\ jobs[j] # Null
      /\ attempts[j] \in Ledger /\ MaxAttempts[j] \in 1 .. AttemptLimit
      /\ RowInv(jobs[j], attempts[j], MaxAttempts[j])
    BY TableTypes, NotNull DEF TablesInv
<1>2. attempts[j][n] \in AttemptRow /\ attempts[j][n].outcome = Null
    BY <1>1, ProcessingAttempt
<1>3. attempts'[j] # attempts[j]
    BY <1>2, NotNull DEF Outcome
<1>4. PICK p \in Process, outcome \in Outcome :
           /\ outcome = "abandoned" => Abandoned(j, current[p])
           /\ attempts'[j] = [attempts[j] EXCEPT ![n] =
                    ClosedAttempt(attempts[j][n], outcome, current[p])]
    BY <1>1, <1>3, StepEffect
<1>5. attempts'[j][n] = ClosedAttempt(attempts[j][n], outcome, current[p])
    BY <1>1, <1>4 DEF Ledger
<1>6. /\ attempts'[j][n].outcome = outcome
      /\ attempts'[j][n].finished_at = current[p]
    BY <1>2, <1>5, NotNull DEF ClosedAttempt, AttemptRow
<1> QED BY <1>1, <1>4, <1>6 DEF Abandoned, JobRow

(* No lease is recovered in a second before the one it expires in. *)
THEOREM LeasesAreHonoured == Spec => LeaseKeptUntilItsLastSecond
<1>1. ASSUME TypeOK, TablesInv, CapturedInThePast, [Next]_vars,
             NEW j \in Jobs, NEW n \in AttemptNumber,
             IsProcessing(j), n = jobs[j].attempt_count,
             attempts'[j][n].outcome = "abandoned"
      PROVE  jobs[j].lease_expires_at.sec <= clock.sec
    BY <1>1, AbandonedByRecovery, TextLessSeconds
        DEF CapturedInThePast, NotLater, Earlier, TypeOK, Instant
<1>2. TypeOK /\ TablesInv /\ CapturedInThePast /\ [Next]_vars =>
        [\A j \in Jobs, n \in AttemptNumber :
            (/\ IsProcessing(j) /\ n = jobs[j].attempt_count
             /\ attempts'[j][n].outcome = "abandoned")
                => jobs[j].lease_expires_at.sec <= clock.sec]_vars
    BY <1>1
<1> QED BY <1>2, CapturedAlways, TablesAlways, PTL DEF Spec, LeaseKeptUntilItsLastSecond

(* How early it can be: a lease that is recovered before it has expired    *)
(* expires later in the second that has just begun, and the process that   *)
(* recovers it goes by that whole second, which is then recorded as the    *)
(* end of the attempt.                                                     *)
EarlyRecoveryIsOfThisSecond ==
    [][\A j \in Jobs, n \in AttemptNumber :
        (/\ IsProcessing(j) /\ n = jobs[j].attempt_count
         /\ attempts'[j][n].outcome = "abandoned"
         /\ ~Earlier(jobs[j].lease_expires_at, clock))
            => /\ jobs[j].lease_expires_at.sec = clock.sec
               /\ jobs[j].lease_expires_at.us # 0
               /\ attempts'[j][n].finished_at = [sec |-> clock.sec, us |-> 0]]_vars

(* The exact circumstances of an early recovery. *)
THEOREM EarlyRecoveryIsBounded == Spec => EarlyRecoveryIsOfThisSecond
<1>1. ASSUME TypeOK, TablesInv, CapturedInThePast, [Next]_vars,
             NEW j \in Jobs, NEW n \in AttemptNumber,
             IsProcessing(j), n = jobs[j].attempt_count,
             attempts'[j][n].outcome = "abandoned",
             ~Earlier(jobs[j].lease_expires_at, clock)
      PROVE  /\ jobs[j].lease_expires_at.sec = clock.sec
             /\ jobs[j].lease_expires_at.us # 0
             /\ attempts'[j][n].finished_at = [sec |-> clock.sec, us |-> 0]
    <2> DEFINE e == jobs[j].lease_expires_at
    <2>1. PICK p \in Process :
               /\ TextLess(e, current[p]) /\ attempts'[j][n].finished_at = current[p]
        BY <1>1, AbandonedByRecovery
    <2>2. e \in Instant /\ current[p] \in Instant /\ clock \in Instant
          /\ NotLater(current[p], clock)
        BY <1>1, AbandonedByRecovery DEF CapturedInThePast, TypeOK
    <2> HIDE DEF e
    <2>3. e.sec = clock.sec /\ e.us # 0 /\ current[p].sec = clock.sec /\ current[p].us = 0
        BY <1>1, <2>1, <2>2, LastMicroAssumption
            DEF e, NotLater, Earlier, TextLess, FractionTextLess, Instant
    <2>4. current[p] = [sec |-> clock.sec, us |-> 0]
        BY <2>2, <2>3 DEF Instant
    <2> QED BY <2>1, <2>3, <2>4 DEF e
<1>2. TypeOK /\ TablesInv /\ CapturedInThePast /\ [Next]_vars =>
        [\A j \in Jobs, n \in AttemptNumber :
            (/\ IsProcessing(j) /\ n = jobs[j].attempt_count
             /\ attempts'[j][n].outcome = "abandoned"
             /\ ~Earlier(jobs[j].lease_expires_at, clock))
                => /\ jobs[j].lease_expires_at.sec = clock.sec
                   /\ jobs[j].lease_expires_at.us # 0
                   /\ attempts'[j][n].finished_at = [sec |-> clock.sec, us |-> 0]]_vars
    BY <1>1
<1> QED BY <1>2, CapturedAlways, TablesAlways, PTL DEF Spec, EarlyRecoveryIsOfThisSecond

(* The zero fraction that the text leaves out is the only cause, whatever  *)
(* fractions times have: a recovery abandons exactly the leases that have  *)
(* expired by its own time, but for those where one of the two times is a  *)
(* whole second and the other a fraction of it.  There it does the         *)
(* opposite: it takes the lease that still runs, and leaves the one that   *)
(* has expired.                                                            *)
RecoveryErrsAtWholeSeconds ==
    [][\A p \in Process, j \in Jobs : RecoverAbandoned(p) /\ IsProcessing(j) =>
        LET expiry == jobs[j].lease_expires_at
            now == current[p]
            taken == attempts'[j][jobs[j].attempt_count].outcome = "abandoned"
        IN  \/ taken <=> Earlier(expiry, now)
            \/ /\ expiry.sec = now.sec
               /\ (expiry.us = 0) # (now.us = 0)
               /\ taken <=> ~Earlier(expiry, now)]_vars

(* A recovery judges every lease by the order of time, except where the    *)
(* dropped zero fraction turns that order round.                           *)
THEOREM RecoveryIsExactOtherwise == Spec => RecoveryErrsAtWholeSeconds
<1>1. ASSUME TypeOK, TablesInv, NEW p \in Process, NEW j \in Jobs,
             RecoverAbandoned(p), IsProcessing(j)
      PROVE  LET expiry == jobs[j].lease_expires_at
                 now == current[p]
                 taken == attempts'[j][jobs[j].attempt_count].outcome = "abandoned"
             IN  \/ taken <=> Earlier(expiry, now)
                 \/ /\ expiry.sec = now.sec
                    /\ (expiry.us = 0) # (now.us = 0)
                    /\ taken <=> ~Earlier(expiry, now)
    <2> DEFINE number == jobs[j].attempt_count
               expiry == jobs[j].lease_expires_at
               now == current[p]
               taken == attempts'[j][number].outcome = "abandoned"
    <2>1. /\ jobs[j] \in JobRow /\ jobs[j].state = "processing" /\ jobs[j] # Null
          /\ attempts[j] \in Ledger /\ MaxAttempts[j] \in 1 .. AttemptLimit
          /\ RowInv(jobs[j], attempts[j], MaxAttempts[j])
        BY <1>1, TableTypes, NotNull DEF TablesInv
    <2>2. /\ number \in AttemptNumber /\ attempts[j][number] \in AttemptRow
          /\ attempts[j][number].outcome = Null
        BY <2>1, ProcessingAttempt
    <2>3. expiry \in Instant /\ expiry # Null
        BY <2>1, NotNull DEF RowInv, Owned, JobRow
    <2>4. now \in Instant
        BY <1>1 DEF TypeOK
    <2>5. taken <=> Abandoned(j, now)
        <3>1. CASE Abandoned(j, now)
            <4>1. attempts'[j][number] = ClosedAttempt(attempts[j][number], "abandoned", now)
                BY <1>1, <2>1, <2>2, <3>1, RecoverEffect DEF Ledger
            <4> QED BY <2>2, <3>1, <4>1, NotNull DEF ClosedAttempt, AttemptRow
        <3>2. CASE ~Abandoned(j, now)
            <4>1. attempts'[j] = attempts[j]
                BY <1>1, <3>2, RecoverEffect
            <4> QED BY <2>2, <3>2, <4>1, NotNull DEF Outcome
        <3> QED BY <3>1, <3>2
    <2>6. Abandoned(j, now) <=> TextLess(expiry, now)
        BY <1>1, <2>3 DEF Abandoned
    <2> HIDE DEF number, expiry, now, taken
    <2>7. \/ taken <=> Earlier(expiry, now)
          \/ /\ expiry.sec = now.sec
             /\ (expiry.us = 0) # (now.us = 0)
             /\ taken <=> ~Earlier(expiry, now)
        BY <2>3, <2>4, <2>5, <2>6, LastMicroAssumption
            DEF TextLess, FractionTextLess, Earlier, Instant
    <2> QED BY <2>7 DEF number, expiry, now, taken
<1>2. TypeOK /\ TablesInv =>
        [\A p \in Process, j \in Jobs : RecoverAbandoned(p) /\ IsProcessing(j) =>
            LET expiry == jobs[j].lease_expires_at
                now == current[p]
                taken == attempts'[j][jobs[j].attempt_count].outcome = "abandoned"
            IN  \/ taken <=> Earlier(expiry, now)
                \/ /\ expiry.sec = now.sec
                   /\ (expiry.us = 0) # (now.us = 0)
                   /\ taken <=> ~Earlier(expiry, now)]_vars
    BY <1>1
<1> QED BY <1>2, TablesAlways, PTL DEF RecoveryErrsAtWholeSeconds

-----------------------------------------------------------------------------
(* Attempt numbers are given out once, whatever the workers are called.    *)

(* A process holds what it held, or nothing, or a lease it just took. *)
LEMMA HeldStep ==
    ASSUME TypeOK, [Next]_vars, NEW p \in Process, held'[p] # Null
    PROVE  \/ held'[p] = held[p]
           \/ \E i \in Jobs, s \in LeaseSeconds : LeaseNext(p, i, s)
<1>1. ASSUME NEW q \in Process, NEW i \in Jobs, NEW s \in LeaseSeconds,
             LeaseNext(q, i, s), q # p
      PROVE  held'[p] = held[p]
    BY <1>1 DEF LeaseNext, TypeOK
<1>2. ASSUME NEW q \in Process, Succeed(q) \/ Fail(q) \/ FinishRejected(q) \/ Crash(q)
      PROVE  held'[p] = held[p]
    BY <1>2 DEF Succeed, Fail, Finish, FinishRejected, Crash, TypeOK
<1> QED BY <1>1, <1>2 DEF Next, Tick, CreateIdempotent, CaptureNow, RecoverAbandoned, vars

(* A job that exists stays, and the count of its attempts only grows.      *)
LEMMA CountGrows ==
    ASSUME TypeOK, TypeOK', TablesInv, [Next]_vars, NEW j \in Jobs, Exists(j)
    PROVE  Exists(j)' /\ jobs[j].attempt_count <= jobs'[j].attempt_count
<1>1. jobs[j] \in JobRow /\ jobs[j].attempt_count \in Nat
    BY TableTypes DEF Exists, JobRow
<1>2. CASE jobs'[j] = jobs[j]
    BY <1>1, <1>2 DEF Exists
<1>3. ASSUME NEW p \in Process, NEW s \in LeaseSeconds,
             jobs'[j] = LeasedRow(jobs[j], WorkerId[p], PlusSeconds(current[p], s))
      PROVE  Exists(j)' /\ jobs[j].attempt_count <= jobs'[j].attempt_count
    <2>1. LeasedRow(jobs[j], WorkerId[p], PlusSeconds(current[p], s)) \in JobRow
        BY <1>1, LeasedRowType, PlusSecondsType, QueueAssumption DEF TypeOK
    <2>2. jobs'[j].attempt_count = jobs[j].attempt_count + 1
        BY <1>1, <1>3 DEF LeasedRow, JobRow
    <2> QED BY <1>1, <1>3, <2>1, <2>2, NullAssumption DEF Exists
<1>4. ASSUME NEW p \in Process, NEW state \in {"pending", "succeeded", "failed_exhausted"},
             jobs'[j] = ReleasedRow(jobs[j], state, current[p])
      PROVE  Exists(j)' /\ jobs[j].attempt_count <= jobs'[j].attempt_count
    <2>1. ReleasedRow(jobs[j], state, current[p]) \in JobRow
        BY <1>1, ReleasedRowType DEF TypeOK
    <2>2. jobs'[j].attempt_count = jobs[j].attempt_count
        BY <1>1, <1>4 DEF ReleasedRow, JobRow
    <2> QED BY <1>1, <1>4, <2>1, <2>2, NullAssumption DEF Exists
<1> QED BY <1>2, <1>3, <1>4, StepEffect DEF Exists

(* A number that a process has in hand was counted when it was given out.  *)
HeldIsCounted ==
    \A p \in Process : held[p] # Null =>
        /\ Exists(held[p].job_id)
        /\ held[p].attempt_number <= jobs[held[p].job_id].attempt_count

(* The next number is above all that are in hand. *)
LEMMA NextNumberIsNew ==
    ASSUME TypeOK, HeldIsCounted, NEW p \in Process, NEW i \in Jobs, NEW s \in LeaseSeconds,
           LeaseNext(p, i, s)
    PROVE  /\ held'[p] = [job_id |-> i, attempt_number |-> jobs[i].attempt_count + 1]
           /\ Exists(i)' /\ jobs'[i].attempt_count = jobs[i].attempt_count + 1
           /\ \A q \in Process \ {p} : held'[q] = held[q] /\ held'[q] # held'[p]
<1>1. /\ jobs[i] \in JobRow /\ jobs[i].attempt_count \in Nat
      /\ jobs[i].attempt_count + 1 \in AttemptNumber
    <2>1. Exists(i)
        BY DEF LeaseNext, NextJob, Eligible
    <2> QED BY <2>1, TableTypes, LeaseNumber DEF LeaseNext, Exists, JobRow
<1>2. /\ held'[p] = [job_id |-> i, attempt_number |-> jobs[i].attempt_count + 1]
      /\ \A q \in Process \ {p} : held'[q] = held[q]
      /\ jobs'[i] = LeasedRow(jobs[i], WorkerId[p], PlusSeconds(current[p], s))
    BY DEF LeaseNext, TypeOK
<1>3. Exists(i)' /\ jobs'[i].attempt_count = jobs[i].attempt_count + 1
    <2>1. LeasedRow(jobs[i], WorkerId[p], PlusSeconds(current[p], s)) \in JobRow
        BY <1>1, LeasedRowType, PlusSecondsType, QueueAssumption DEF TypeOK
    <2> QED BY <1>1, <1>2, <2>1, NullAssumption DEF Exists, LeasedRow, JobRow
<1>4. ASSUME NEW q \in Process \ {p}
      PROVE  held[q] # held'[p]
    <2>1. SUFFICES ASSUME held[q] = held'[p] PROVE FALSE
        OBVIOUS
    <2>2. held'[p] \in JobLease
        BY <1>1, <1>2 DEF JobLease
    <2>3. held[q] # Null /\ held[q].job_id = i
          /\ held[q].attempt_number = jobs[i].attempt_count + 1
        BY <1>2, <2>1, <2>2, NullAssumption
    <2>4. jobs[i].attempt_count + 1 <= jobs[i].attempt_count
        BY <2>3 DEF HeldIsCounted
    <2> QED BY <1>1, <2>4
<1> QED BY <1>2, <1>3, <1>4

LEMMA HeldIsCountedNext ==
    ASSUME TypeOK, TypeOK', TablesInv, HeldIsCounted, [Next]_vars
    PROVE  HeldIsCounted'
<1> SUFFICES ASSUME NEW p \in Process, held'[p] # Null
             PROVE  /\ Exists(held[p].job_id)'
                    /\ held'[p].attempt_number <= jobs'[held'[p].job_id].attempt_count
    BY DEF HeldIsCounted
<1>1. CASE held'[p] = held[p]
    <2>1. /\ held[p].job_id \in Jobs /\ held[p].attempt_number \in Nat
          /\ Exists(held[p].job_id)
          /\ held[p].attempt_number <= jobs[held[p].job_id].attempt_count
        BY <1>1 DEF HeldIsCounted, TypeOK, JobLease, AttemptNumber
    <2>2. PICK j \in Jobs : j = held[p].job_id
        BY <2>1
    <2>3. /\ Exists(j)' /\ jobs[j].attempt_count <= jobs'[j].attempt_count
        BY <2>1, <2>2, CountGrows
    <2>4. jobs[j].attempt_count \in Nat /\ jobs'[j].attempt_count \in Nat
        BY <2>1, <2>2, <2>3, NullAssumption DEF TypeOK, Exists, JobRow
    <2> QED BY <1>1, <2>1, <2>2, <2>3, <2>4 DEF Exists
<1>2. ASSUME NEW i \in Jobs, NEW s \in LeaseSeconds, LeaseNext(p, i, s)
      PROVE  /\ Exists(held[p].job_id)'
             /\ held'[p].attempt_number <= jobs'[held'[p].job_id].attempt_count
    <2>1. /\ held'[p].job_id = i /\ held'[p].attempt_number = jobs[i].attempt_count + 1
          /\ Exists(i)' /\ jobs'[i].attempt_count = jobs[i].attempt_count + 1
        <3>1. /\ held'[p] = [job_id |-> i, attempt_number |-> jobs[i].attempt_count + 1]
              /\ Exists(i)' /\ jobs'[i].attempt_count = jobs[i].attempt_count + 1
            BY <1>2, NextNumberIsNew
        <3>2. held'[p].job_id = i /\ held'[p].attempt_number = jobs[i].attempt_count + 1
            BY <3>1
        <3> QED BY <3>1, <3>2
    <2>2. jobs[i].attempt_count + 1 \in AttemptNumber
        BY <1>2, LeaseNumber DEF LeaseNext
    <2> QED BY <2>1, <2>2 DEF Exists, AttemptNumber
<1> QED BY <1>1, <1>2, HeldStep

(* No attempt is given out twice: two processes never hold leases of one   *)
(* job with the same number, even under a shared worker name.              *)
THEOREM LeasesAreExclusive == Spec => []LeaseIsExclusive
<1>1. Init => HeldIsCounted /\ LeaseIsExclusive
    BY DEF Init, HeldIsCounted, LeaseIsExclusive
<1>2. TypeOK /\ TypeOK' /\ TablesInv /\ HeldIsCounted /\ LeaseIsExclusive /\ [Next]_vars
        => HeldIsCounted' /\ LeaseIsExclusive'
    <2> SUFFICES ASSUME TypeOK, TypeOK', TablesInv, HeldIsCounted, LeaseIsExclusive,
                        [Next]_vars
                 PROVE  HeldIsCounted' /\ LeaseIsExclusive'
        OBVIOUS
    <2>1. ASSUME NEW p \in Process, NEW q \in Process, held'[p] # Null, held'[p] = held'[q]
          PROVE  p = q
        <3>1. CASE held'[p] = held[p] /\ held'[q] = held[q]
            BY <2>1, <3>1 DEF LeaseIsExclusive
        <3>2. CASE \E i \in Jobs, s \in LeaseSeconds : LeaseNext(p, i, s) \/ LeaseNext(q, i, s)
            BY <2>1, <3>2, NextNumberIsNew
        <3> QED BY <2>1, <3>1, <3>2, HeldStep
    <2> QED BY <2>1, HeldIsCountedNext DEF LeaseIsExclusive
<1> QED BY <1>1, <1>2, TablesAlways, PTL DEF Spec

-----------------------------------------------------------------------------
(* Refinement. *)

(* One job's row moves only along the documented diagram. *)
LEMMA PhaseEffect ==
    ASSUME TypeOK, TablesInv, [Next]_vars, NEW j \in Jobs
    PROVE  \/ PhaseOf'[j] = PhaseOf[j] /\ UsedOf'[j] = UsedOf[j]
           \/ /\ PhaseOf[j] = "absent" /\ PhaseOf'[j] = "pending"
              /\ UsedOf'[j] = UsedOf[j]
           \/ /\ PhaseOf[j] = "pending" /\ PhaseOf'[j] = "processing"
              /\ UsedOf[j] < MaxAttempts[j] /\ UsedOf'[j] = UsedOf[j] + 1
           \/ /\ PhaseOf[j] = "processing" /\ UsedOf'[j] = UsedOf[j]
              /\ \/ PhaseOf'[j] = "succeeded"
                 \/ PhaseOf'[j] = IF UsedOf[j] < MaxAttempts[j]
                                  THEN "pending" ELSE "failed_exhausted"
<1> DEFINE Phase(row) == IF row # Null THEN row.state ELSE "absent"
<1> DEFINE Used(row) == IF row # Null THEN row.attempt_count ELSE 0
<1>1. /\ PhaseOf[j] = Phase(jobs[j]) /\ PhaseOf'[j] = Phase(jobs'[j])
      /\ UsedOf[j] = Used(jobs[j]) /\ UsedOf'[j] = Used(jobs'[j])
    BY DEF PhaseOf, UsedOf, Exists
<1>2. CASE jobs'[j] = jobs[j]
    BY <1>1, <1>2
<1>3. ASSUME jobs[j] = Null, NEW at \in ScheduleTimes, jobs'[j] = CreatedRow(Null, at)
      PROVE  /\ PhaseOf[j] = "absent" /\ PhaseOf'[j] = "pending"
             /\ UsedOf'[j] = UsedOf[j]
    <2>1. jobs'[j] \in JobRow
        <3>1. at \in Instant /\ Null \in JobRow \cup {Null}
            BY QueueAssumption
        <3>2. CreatedRow(Null, at) \in JobRow
            BY <3>1, CreatedRowType
        <3> QED BY <1>3, <3>2
    <2>2. jobs'[j] # Null
        BY <2>1, NotNull
    <2> QED BY <1>1, <1>3, <2>2 DEF CreatedRow
<1>4. ASSUME Exists(j), jobs[j].state = "pending",
             jobs[j].attempt_count < MaxAttempts[j],
             NEW p \in Process, NEW s \in LeaseSeconds,
             jobs'[j] = LeasedRow(jobs[j], WorkerId[p], PlusSeconds(current[p], s))
      PROVE  /\ PhaseOf[j] = "pending" /\ PhaseOf'[j] = "processing"
             /\ UsedOf[j] < MaxAttempts[j] /\ UsedOf'[j] = UsedOf[j] + 1
    <2>1. jobs[j] \in JobRow /\ jobs[j] # Null
        BY <1>4, TableTypes DEF Exists
    <2>2. jobs'[j].state = "processing" /\ jobs'[j].attempt_count = jobs[j].attempt_count + 1
        BY <1>4, <2>1 DEF LeasedRow, JobRow
    <2>3. jobs'[j] # Null
        BY <1>4, TypeNext, NotNull, <2>1, LeasedRowType, PlusSecondsType, QueueAssumption
            DEF TypeOK
    <2> QED BY <1>1, <1>4, <2>1, <2>2, <2>3
<1>5. ASSUME IsProcessing(j), NEW p \in Process,
             NEW state \in {"pending", "succeeded", "failed_exhausted"},
             NEW outcome \in Outcome,
             EndsWith(jobs[j], MaxAttempts[j], state, outcome),
             jobs'[j] = ReleasedRow(jobs[j], state, current[p])
      PROVE  /\ PhaseOf[j] = "processing" /\ UsedOf'[j] = UsedOf[j]
             /\ \/ PhaseOf'[j] = "succeeded"
                \/ PhaseOf'[j] = IF UsedOf[j] < MaxAttempts[j]
                                 THEN "pending" ELSE "failed_exhausted"
    <2>1. /\ jobs[j] \in JobRow /\ jobs[j] # Null /\ jobs[j].state = "processing"
          /\ current[p] \in Instant /\ MaxAttempts[j] \in 1 .. AttemptLimit
        BY <1>5, TableTypes, NotNull DEF TypeOK
    <2>2. /\ jobs'[j].state = state /\ jobs'[j].attempt_count = jobs[j].attempt_count
        BY <1>5, <2>1 DEF ReleasedRow, JobRow
    <2>3. jobs'[j] # Null
        BY <1>5, <2>1, ReleasedRowType, NotNull
    <2>4. jobs[j].attempt_count \in Nat /\ MaxAttempts[j] \in Int
        BY <2>1 DEF JobRow
    <2>5. \/ state = "succeeded"
          \/ state = IF jobs[j].attempt_count < MaxAttempts[j]
                     THEN "pending" ELSE "failed_exhausted"
        BY <1>5, <2>4 DEF EndsWith
    <2> QED BY <1>1, <2>1, <2>2, <2>3, <2>5
<1> HIDE DEF Phase, Used
<1> QED BY <1>2, <1>3, <1>4, <1>5, StepEffect

(* A step that writes the row of one job only is a step of the diagram. *)
LEMMA SingleJobStep ==
    ASSUME TypeOK, TablesInv, [Next]_vars, NEW j \in Jobs,
           \A i \in Jobs : i # j => jobs'[i] = jobs[i]
    PROVE  [Lifecycle!LifecycleNext]_<<PhaseOf, UsedOf>>
<1>1. \A i \in Jobs : i # j => PhaseOf'[i] = PhaseOf[i] /\ UsedOf'[i] = UsedOf[i]
    BY DEF PhaseOf, UsedOf, Exists
<1>2. /\ PhaseOf = [i \in Jobs |-> PhaseOf[i]] /\ PhaseOf' = [i \in Jobs |-> PhaseOf'[i]]
      /\ UsedOf = [i \in Jobs |-> UsedOf[i]] /\ UsedOf' = [i \in Jobs |-> UsedOf'[i]]
    BY DEF PhaseOf, UsedOf
<1>3. CASE PhaseOf'[j] = PhaseOf[j] /\ UsedOf'[j] = UsedOf[j]
    <2>1. \A i \in Jobs : PhaseOf'[i] = PhaseOf[i] /\ UsedOf'[i] = UsedOf[i]
        BY <1>1, <1>3
    <2>2. PhaseOf' = PhaseOf /\ UsedOf' = UsedOf
        BY <1>2, <2>1, Zenon
    <2> QED BY <2>2
<1>4. ASSUME UsedOf'[j] = UsedOf[j]
      PROVE  UsedOf' = UsedOf
    <2>1. \A i \in Jobs : UsedOf'[i] = UsedOf[i]
        BY <1>1, <1>4
    <2> QED BY <1>2, <2>1, Zenon
<1>5. ASSUME NEW x, PhaseOf'[j] = x
      PROVE  PhaseOf' = [PhaseOf EXCEPT ![j] = x]
    BY <1>1, <1>2, <1>5
<1>6. CASE PhaseOf[j] = "absent" /\ PhaseOf'[j] = "pending" /\ UsedOf'[j] = UsedOf[j]
    <2>1. UsedOf' = UsedOf /\ PhaseOf' = [PhaseOf EXCEPT ![j] = "pending"]
        BY <1>4, <1>5, <1>6
    <2>2. Lifecycle!Create(j)
        BY <1>6, <2>1 DEF Lifecycle!Create
    <2> QED BY <2>2 DEF Lifecycle!LifecycleNext
<1>7. CASE /\ PhaseOf[j] = "pending" /\ PhaseOf'[j] = "processing"
           /\ UsedOf[j] < MaxAttempts[j] /\ UsedOf'[j] = UsedOf[j] + 1
    <2>1. PhaseOf' = [PhaseOf EXCEPT ![j] = "processing"]
        BY <1>5, <1>7
    <2>2. UsedOf' = [UsedOf EXCEPT ![j] = UsedOf[j] + 1]
        BY <1>1, <1>2, <1>7
    <2>3. Lifecycle!Lease(j)
        BY <1>7, <2>1, <2>2 DEF Lifecycle!Lease
    <2> QED BY <2>3 DEF Lifecycle!LifecycleNext
<1>8. CASE PhaseOf[j] = "processing" /\ PhaseOf'[j] = "succeeded" /\ UsedOf'[j] = UsedOf[j]
    <2>1. UsedOf' = UsedOf /\ PhaseOf' = [PhaseOf EXCEPT ![j] = "succeeded"]
        BY <1>4, <1>5, <1>8
    <2>2. Lifecycle!Success(j)
        BY <1>8, <2>1 DEF Lifecycle!Success
    <2> QED BY <2>2 DEF Lifecycle!LifecycleNext
<1>9. CASE /\ PhaseOf[j] = "processing" /\ UsedOf'[j] = UsedOf[j]
           /\ PhaseOf'[j] = IF UsedOf[j] < MaxAttempts[j]
                            THEN "pending" ELSE "failed_exhausted"
    <2>1. UsedOf' = UsedOf
        BY <1>4, <1>9
    <2>2. \A i \in Jobs : PhaseOf'[i] =
            IF i \in {j} THEN Lifecycle!AfterFailure(i) ELSE PhaseOf[i]
        BY <1>1, <1>9 DEF Lifecycle!AfterFailure
    <2>3. PhaseOf' = [i \in Jobs |->
            IF i \in {j} THEN Lifecycle!AfterFailure(i) ELSE PhaseOf[i]]
        BY <1>2, <2>2
    <2>4. Lifecycle!GiveUp({j})
        BY <1>9, <2>1, <2>3 DEF Lifecycle!GiveUp
    <2> QED BY <2>4 DEF Lifecycle!LifecycleNext
<1> QED BY <1>3, <1>6, <1>7, <1>8, <1>9, PhaseEffect

(* Recovery gives up a whole set of jobs at once. *)
LEMMA RecoverStep ==
    ASSUME TypeOK, TablesInv, NEW p \in Process, RecoverAbandoned(p)
    PROVE  Lifecycle!LifecycleNext
<1> DEFINE J == {j \in Jobs : Abandoned(j, current[p])}
<1>1. ASSUME NEW j \in Jobs
      PROVE  /\ UsedOf'[j] = UsedOf[j]
             /\ PhaseOf'[j] = IF j \in J THEN Lifecycle!AfterFailure(j) ELSE PhaseOf[j]
             /\ j \in J => PhaseOf[j] = "processing"
    <2>1. CASE ~Abandoned(j, current[p])
        BY <2>1, RecoverEffect DEF PhaseOf, UsedOf, Exists
    <2>2. CASE Abandoned(j, current[p])
        <3>1. /\ jobs[j] \in JobRow /\ jobs[j] # Null /\ jobs[j].state = "processing"
              /\ current[p] \in Instant /\ MaxAttempts[j] \in 1 .. AttemptLimit
            BY <2>2, TableTypes, NotNull DEF Abandoned, TypeOK
        <3>2. jobs'[j] = ReleasedRow(jobs[j], FailState(j), current[p])
            BY <2>2, RecoverEffect
        <3>3. /\ jobs'[j].state = FailState(j)
              /\ jobs'[j].attempt_count = jobs[j].attempt_count
            BY <3>1, <3>2 DEF ReleasedRow, JobRow
        <3>4. jobs'[j] # Null
            BY <3>1, <3>2, FailTypes, ReleasedRowType, NotNull
        <3>5. /\ PhaseOf[j] = "processing" /\ PhaseOf'[j] = FailState(j)
              /\ UsedOf'[j] = jobs[j].attempt_count /\ UsedOf[j] = jobs[j].attempt_count
            BY <3>1, <3>3, <3>4 DEF PhaseOf, UsedOf, Exists
        <3>6. jobs[j].attempt_count \in Nat /\ MaxAttempts[j] \in Int
            BY <3>1 DEF JobRow
        <3>7. FailState(j) = Lifecycle!AfterFailure(j)
            BY <3>5, <3>6 DEF FailState, Exhausted, Lifecycle!AfterFailure
        <3> QED BY <2>2, <3>5, <3>7
    <2> QED BY <2>1, <2>2
<1>2. J \in SUBSET Jobs /\ J # {}
    BY DEF RecoverAbandoned
<1>3. /\ PhaseOf' = [j \in Jobs |-> PhaseOf'[j]]
      /\ UsedOf' = [j \in Jobs |-> UsedOf'[j]] /\ UsedOf = [j \in Jobs |-> UsedOf[j]]
    BY DEF PhaseOf, UsedOf
<1>4. UsedOf' = UsedOf
    BY <1>1, <1>3, Zenon
<1> HIDE DEF J
<1>5. PhaseOf' = [j \in Jobs |->
        IF j \in J THEN Lifecycle!AfterFailure(j) ELSE PhaseOf[j]]
    BY <1>1, <1>3
<1>6. Lifecycle!GiveUp(J)
    BY <1>1, <1>2, <1>4, <1>5 DEF Lifecycle!GiveUp
<1> QED BY <1>2, <1>6 DEF Lifecycle!LifecycleNext

(* A step of the queue is a step of the diagram, or none. *)
LEMMA StepOnLifecycle ==
    ASSUME TypeOK, TablesInv, [Next]_vars
    PROVE  [Lifecycle!LifecycleNext]_<<PhaseOf, UsedOf>>
<1>1. CASE jobs' = jobs
    BY <1>1 DEF PhaseOf, UsedOf, Exists
<1>2. ASSUME NEW p \in Process, RecoverAbandoned(p)
      PROVE  [Lifecycle!LifecycleNext]_<<PhaseOf, UsedOf>>
    BY <1>2, RecoverStep
<1>3. ASSUME NEW j \in Jobs, \A i \in Jobs : i # j => jobs'[i] = jobs[i]
      PROVE  [Lifecycle!LifecycleNext]_<<PhaseOf, UsedOf>>
    BY <1>3, SingleJobStep
<1>4. ASSUME NEW j \in Jobs, NEW at \in ScheduleTimes, CreateIdempotent(j, at)
      PROVE  \A i \in Jobs : i # j => jobs'[i] = jobs[i]
    BY <1>4 DEF CreateIdempotent, TypeOK
<1>5. ASSUME NEW p \in Process, NEW j \in Jobs, NEW s \in LeaseSeconds,
             LeaseNext(p, j, s)
      PROVE  \A i \in Jobs : i # j => jobs'[i] = jobs[i]
    BY <1>5 DEF LeaseNext, TypeOK
<1>6. ASSUME NEW p \in Process, Succeed(p) \/ Fail(p)
      PROVE  /\ held[p].job_id \in Jobs
             /\ \A i \in Jobs : i # held[p].job_id => jobs'[i] = jobs[i]
    BY <1>6, FinishEffect DEF Succeed, Fail
<1>7. CASE Tick \/ UNCHANGED vars
    BY <1>1, <1>7 DEF Tick, vars
<1>8. ASSUME NEW p \in Process, CaptureNow(p) \/ FinishRejected(p) \/ Crash(p)
      PROVE  [Lifecycle!LifecycleNext]_<<PhaseOf, UsedOf>>
    BY <1>1, <1>8 DEF CaptureNow, FinishRejected, Crash
<1>9. CASE \E j \in Jobs, at \in ScheduleTimes : CreateIdempotent(j, at)
    BY <1>3, <1>4, <1>9
<1>10. CASE \E p \in Process, j \in Jobs, s \in LeaseSeconds : LeaseNext(p, j, s)
    BY <1>3, <1>5, <1>10
<1>11. CASE \E p \in Process : Succeed(p) \/ Fail(p)
    BY <1>3, <1>6, <1>11
<1> QED BY <1>2, <1>7, <1>8, <1>9, <1>10, <1>11 DEF Next

(* The queue implements the lifecycle of docs/runtime-state.md. *)
THEOREM QueueImplementsLifecycle == Spec => ImplementsLifecycle
<1>1. Init => Lifecycle!LifecycleInit
    BY DEF Init, Lifecycle!LifecycleInit, PhaseOf, UsedOf, Exists
<1>2. TypeOK /\ TablesInv /\ [Next]_vars => [Lifecycle!LifecycleNext]_<<PhaseOf, UsedOf>>
    BY StepOnLifecycle
<1> QED BY <1>1, <1>2, TablesAlways, PTL
        DEF Spec, ImplementsLifecycle, Lifecycle!LifecycleSpec, Lifecycle!lifecycleVars

=============================================================================
