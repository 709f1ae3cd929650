-------------------------- MODULE DetailFetchQueue --------------------------
(***************************************************************************)
(* The durable detail-fetch queue (orchestration/queue.py and              *)
(* JobRepository.create_idempotent): the tables detail_fetch_jobs and      *)
(* job_attempts, and the processes that call the queue.                    *)
(*                                                                         *)
(* Every operation is one BEGIN IMMEDIATE transaction and hence one        *)
(* action.  Its `now` is read BEFORE the transaction waits for the write   *)
(* lock (and the worker reads it once for all its calls), so each process  *)
(* has a variable `current` that may lag behind the clock by any amount.   *)
(* A process may be suspended while its lease expires, and may crash and   *)
(* restart between any two of its calls.                                   *)
(***************************************************************************)
EXTENDS Timestamps

CONSTANTS
    Process,        \* the operating-system processes using the database
    WorkerName,     \* the strings they pass as worker_id
    WorkerId,       \* [Process -> WorkerName]: which string each one passes
    Jobs,           \* job identities (run, source, listing key, reason)
    Priority,       \* [Jobs -> Int]
    MaxAttempts,    \* [Jobs -> Nat \ {0}]: the column max_attempts
    AttemptLimit,   \* bound on attempt numbers, at least every MaxAttempts
    LeaseSeconds,   \* the lease durations callers ask for
    ScheduleTimes,  \* the scheduled_at values jobs are created with
    Horizon,        \* bound: the clock stops at this whole second
    Null            \* SQL NULL, Python None, and a row that does not exist

ASSUME QueueAssumption ==
    /\ WorkerId \in [Process -> WorkerName]
    /\ Priority \in [Jobs -> Int]
    /\ AttemptLimit \in Nat
    /\ MaxAttempts \in [Jobs -> 1 .. AttemptLimit]
    /\ LeaseSeconds \subseteq Nat \ {0}
    /\ ScheduleTimes \subseteq Instant
    /\ Horizon \in Nat

VARIABLES
    clock,      \* the wall clock
    jobs,       \* [Jobs -> job row or Null]: table detail_fetch_jobs
    attempts,   \* [Jobs -> [number -> row or Null]]: table job_attempts
    current,    \* [Process -> Instant]: the `now` a process last captured
    held        \* [Process -> lease or Null]: the JobLease a process works on

vars == <<clock, jobs, attempts, current, held>>

AttemptNumber == 1 .. AttemptLimit

WorkerOutcome == {"succeeded", "failed_retryable", "failed_exhausted"}
Outcome == WorkerOutcome \cup {"abandoned"}

JobRow == [state : {"pending", "processing", "succeeded", "failed_exhausted"},
           attempt_count : Nat,
           scheduled_at : Instant,
           lease_owner : WorkerName \cup {Null},
           lease_expires_at : Instant \cup {Null}]

AttemptRow == [worker_id : WorkerName,
               started_at : Instant,
               finished_at : Instant \cup {Null},
               outcome : Outcome \cup {Null}]

JobLease == [job_id : Jobs, attempt_number : AttemptNumber]

(* Null is none of the values it stands in for. *)
ASSUME NullAssumption ==
    /\ Null \notin WorkerName
    /\ Null \notin Instant
    /\ Null \notin Outcome
    /\ Null \notin JobRow
    /\ Null \notin AttemptRow
    /\ Null \notin JobLease

-----------------------------------------------------------------------------
(* Rows and the statements that change them.  An operator Bug_... is a      *)
(* plausible wrong version of the definition that follows it; nothing uses  *)
(* it but the mutation runs.                                                *)

(* An upsert that puts a known job back into the queue. *)
Bug_CreatedRowUpsert(row, at) ==
    [state |-> "pending", attempt_count |-> 0, scheduled_at |-> at,
     lease_owner |-> Null, lease_expires_at |-> Null]

(* INSERT ... ON CONFLICT(run, source, key, reason) DO NOTHING *)
CreatedRow(row, at) ==
    IF row = Null
    THEN [state |-> "pending", attempt_count |-> 0, scheduled_at |-> at,
          lease_owner |-> Null, lease_expires_at |-> Null]
    ELSE row

(* The attempt is not counted. *)
Bug_LeasedRowUncounted(row, worker, expires) ==
    [row EXCEPT !.state = "processing", !.lease_owner = worker,
                !.lease_expires_at = expires]

LeasedRow(row, worker, expires) ==
    [row EXCEPT !.state = "processing",
                !.attempt_count = @ + 1,
                !.lease_owner = worker,
                !.lease_expires_at = expires]

(* lease_owner and lease_expires_at are left behind. *)
Bug_ReleasedRowKeepsLease(row, state, now) ==
    [row EXCEPT !.state = state, !.scheduled_at = now]

(* scheduled_at is left behind: the job is due at once for everybody. *)
Bug_ReleasedRowKeepsSchedule(row, state, now) ==
    [row EXCEPT !.state = state, !.lease_owner = Null,
                !.lease_expires_at = Null]

ReleasedRow(row, state, now) ==
    [row EXCEPT !.state = state,
                !.scheduled_at = now,
                !.lease_owner = Null,
                !.lease_expires_at = Null]

OpenAttempt(worker, now) ==
    [worker_id |-> worker, started_at |-> now,
     finished_at |-> Null, outcome |-> Null]

(* UPDATE job_attempts ... WHERE job_id=? AND attempt_number=? *)
ClosedAttempt(attempt, outcome, now) ==
    IF attempt = Null
    THEN Null
    ELSE [attempt EXCEPT !.finished_at = now, !.outcome = outcome]

(* Off by one. *)
Bug_ExhaustedLate(j) == jobs[j].attempt_count > MaxAttempts[j]

(* int(row["attempt_count"]) >= int(row["max_attempts"]) *)
Exhausted(j) == jobs[j].attempt_count >= MaxAttempts[j]

(* The outcome's name is written into the state column. *)
Bug_FailStateOutcome(j) ==
    IF Exhausted(j) THEN "failed_exhausted" ELSE "failed_retryable"

FailState(j) == IF Exhausted(j) THEN "failed_exhausted" ELSE "pending"
FailOutcome(j) == IF Exhausted(j) THEN "failed_exhausted" ELSE "failed_retryable"

-----------------------------------------------------------------------------
(* What the SELECT statements return. *)

Exists(j) == jobs[j] # Null
IsProcessing(j) == Exists(j) /\ jobs[j].state = "processing"

(* attempt_count < max_attempts is off by one. *)
Bug_EligibleOnceMore(j, now) ==
    /\ Exists(j)
    /\ jobs[j].state = "pending"
    /\ TextLeq(jobs[j].scheduled_at, now)
    /\ jobs[j].attempt_count < MaxAttempts[j] - 1

(* state='pending' is dropped: a job being processed is leased again. *)
Bug_EligibleProcessing(j, now) ==
    /\ Exists(j)
    /\ jobs[j].state \in {"pending", "processing"}
    /\ TextLeq(jobs[j].scheduled_at, now)
    /\ jobs[j].attempt_count < MaxAttempts[j]

Eligible(j, now) ==
    /\ Exists(j)
    /\ jobs[j].state = "pending"
    /\ TextLeq(jobs[j].scheduled_at, now)
    /\ jobs[j].attempt_count < MaxAttempts[j]

(* ORDER BY priority DESC, scheduled_at (ties, which created_at breaks, are *)
(* left open).                                                              *)
SortsBefore(i, j) ==
    \/ Priority[i] > Priority[j]
    \/ /\ Priority[i] = Priority[j]
       /\ TextLess(jobs[i].scheduled_at, jobs[j].scheduled_at)

NextJob(j, now) ==
    /\ Eligible(j, now)
    /\ \A i \in Jobs : Eligible(i, now) => ~SortsBefore(i, j)

(* Recovery does not look at the expiry. *)
Bug_AbandonedAnyLease(j, now) == IsProcessing(j)

Abandoned(j, now) ==
    /\ IsProcessing(j)
    /\ jobs[j].lease_expires_at # Null
    /\ TextLess(jobs[j].lease_expires_at, now)

(* The state is checked, the owner is not. *)
Bug_OwnsLeaseAnyWorker(p, j) == IsProcessing(j)

(* Any existing job may be finished by whoever once leased it. *)
Bug_OwnsLeaseUnchecked(p, j) == Exists(j)

(* The ownership check of _finish: the worker name, not the attempt. *)
OwnsLease(p, j) == IsProcessing(j) /\ jobs[j].lease_owner = WorkerId[p]

-----------------------------------------------------------------------------
Init ==
    /\ clock = [sec |-> 0, us |-> 0]
    /\ jobs = [j \in Jobs |-> Null]
    /\ attempts = [j \in Jobs |-> [n \in AttemptNumber |-> Null]]
    /\ current = [p \in Process |-> clock]
    /\ held = [p \in Process |-> Null]

(* Time passes, up to the whole second Horizon.                            *)
Tick ==
    /\ clock.sec < Horizon
    /\ clock' = IF clock.us < LastMicro
                THEN [sec |-> clock.sec, us |-> clock.us + 1]
                ELSE [sec |-> clock.sec + 1, us |-> 0]
    /\ UNCHANGED <<jobs, attempts, current, held>>

(* current = now or datetime.now(UTC), before the transaction begins. *)
CaptureNow(p) ==
    /\ current' = [current EXCEPT ![p] = clock]
    /\ UNCHANGED <<clock, jobs, attempts, held>>

CreateIdempotent(j, at) ==
    /\ jobs' = [jobs EXCEPT ![j] = CreatedRow(@, at)]
    /\ UNCHANGED <<clock, attempts, current, held>>

(* The insert of the attempt row is refused, and the transaction rolled    *)
(* back, when (job_id, attempt_number) is taken.                           *)
LeaseNext(p, j, seconds) ==
    LET number == jobs[j].attempt_count + 1
        expires == PlusSeconds(current[p], seconds)
    IN  /\ held[p] = Null
        /\ NextJob(j, current[p])
        /\ attempts[j][number] = Null
        /\ jobs' = [jobs EXCEPT ![j] = LeasedRow(@, WorkerId[p], expires)]
        /\ attempts' = [attempts EXCEPT
                ![j][number] = OpenAttempt(WorkerId[p], current[p])]
        /\ held' = [held EXCEPT
                ![p] = [job_id |-> j, attempt_number |-> number]]
        /\ UNCHANGED <<clock, current>>

(* The two updates of _finish; the process is done with the lease. *)
Finish(p, state, outcome) ==
    LET j == held[p].job_id
        number == jobs[j].attempt_count
    IN  /\ jobs' = [jobs EXCEPT ![j] = ReleasedRow(@, state, current[p])]
        /\ attempts' = [attempts EXCEPT
                ![j][number] = ClosedAttempt(@, outcome, current[p])]
        /\ held' = [held EXCEPT ![p] = Null]
        /\ UNCHANGED <<clock, current>>

Succeed(p) ==
    /\ held[p] # Null
    /\ OwnsLease(p, held[p].job_id)
    /\ Finish(p, "succeeded", "succeeded")

Fail(p) ==
    /\ held[p] # Null
    /\ OwnsLease(p, held[p].job_id)
    /\ Finish(p, FailState(held[p].job_id), FailOutcome(held[p].job_id))

(* QueueTransitionError: the process learns that its lease is gone. *)
FinishRejected(p) ==
    /\ held[p] # Null
    /\ ~OwnsLease(p, held[p].job_id)
    /\ held' = [held EXCEPT ![p] = Null]
    /\ UNCHANGED <<clock, jobs, attempts, current>>

(* An abandoned attempt is struck from the ledger instead of closed. *)
Bug_RecoverAbandonedUncounted(p) ==
    LET now == current[p]
    IN  /\ \E j \in Jobs : Abandoned(j, now)
        /\ jobs' = [j \in Jobs |->
                IF Abandoned(j, now)
                THEN [ReleasedRow(jobs[j], "pending", now) EXCEPT !.attempt_count = @ - 1]
                ELSE jobs[j]]
        /\ attempts' = [j \in Jobs |-> [n \in AttemptNumber |->
                IF Abandoned(j, now) /\ n = jobs[j].attempt_count
                THEN Null
                ELSE attempts[j][n]]]
        /\ UNCHANGED <<clock, current, held>>

(* Every abandoned job in one transaction. *)
RecoverAbandoned(p) ==
    LET now == current[p]
    IN  /\ \E j \in Jobs : Abandoned(j, now)
        /\ jobs' = [j \in Jobs |->
                IF Abandoned(j, now)
                THEN ReleasedRow(jobs[j], FailState(j), now)
                ELSE jobs[j]]
        /\ attempts' = [j \in Jobs |-> [n \in AttemptNumber |->
                IF Abandoned(j, now) /\ n = jobs[j].attempt_count
                THEN ClosedAttempt(attempts[j][n], "abandoned", now)
                ELSE attempts[j][n]]]
        /\ UNCHANGED <<clock, current, held>>

(* Bound: there is time left before the Horizon for any lease to expire.   *)
LeaseCanExpire == \A seconds \in LeaseSeconds : clock.sec + seconds < Horizon

(* The process dies and is started again: it has no lease and reads the    *)
(* clock afresh.  Its rows stay as they are.                               *)
Crash(p) ==
    /\ held[p] # Null
    /\ LeaseCanExpire
    /\ held' = [held EXCEPT ![p] = Null]
    /\ current' = [current EXCEPT ![p] = clock]
    /\ UNCHANGED <<clock, jobs, attempts>>

Next ==
    \/ Tick
    \/ \E j \in Jobs, at \in ScheduleTimes : CreateIdempotent(j, at)
    \/ \E p \in Process :
        \/ CaptureNow(p)
        \/ \E j \in Jobs, seconds \in LeaseSeconds : LeaseNext(p, j, seconds)
        \/ Succeed(p)
        \/ Fail(p)
        \/ FinishRejected(p)
        \/ RecoverAbandoned(p)
        \/ Crash(p)

Spec == Init /\ [][Next]_vars

-----------------------------------------------------------------------------
(* Fairness: time passes, a process reads the clock, leases when it can,   *)
(* finishes what it leased unless it crashes, and recovery keeps running.  *)
Fairness ==
    /\ WF_vars(Tick)
    /\ \A p \in Process :
        /\ WF_vars(CaptureNow(p))
        /\ WF_vars(\E j \in Jobs, s \in LeaseSeconds : LeaseNext(p, j, s))
        /\ WF_vars(Succeed(p) \/ Fail(p) \/ FinishRejected(p))
        /\ WF_vars(RecoverAbandoned(p))

FairSpec == Spec /\ Fairness

-----------------------------------------------------------------------------
(* Properties.                                                             *)

Terminal == {"succeeded", "failed_exhausted"}

(* No two processes pass the same worker_id.  The synthetic worker's       *)
(* hard-coded name breaks this as soon as two of them run.                 *)
UniqueNames == \A p, q \in Process : WorkerId[p] = WorkerId[q] => p = q

(* Every variable has its type.                                            *)
TypeOK ==
    /\ clock \in Instant
    /\ jobs \in [Jobs -> JobRow \cup {Null}]
    /\ attempts \in [Jobs -> [AttemptNumber -> AttemptRow \cup {Null}]]
    /\ current \in [Process -> Instant]
    /\ held \in [Process -> JobLease \cup {Null}]

(* The two tables agree.  The attempts recorded for a job are exactly the  *)
(* numbers 1 .. attempt_count; only the last may be open, and it is open   *)
(* exactly while the job is processing; every earlier one was given back;  *)
(* and the outcome of the last explains the state the job is in.  lease,   *)
(* _finish and recover_abandoned each write both tables.                   *)
LastOutcome(state) ==
    CASE state = "pending"    -> {"failed_retryable", "abandoned"}
      [] state = "processing" -> {Null}
      [] state = "succeeded"  -> {"succeeded"}
      [] OTHER                -> {"failed_exhausted", "abandoned"}

LedgerAgrees ==
    \A j \in Jobs, n \in AttemptNumber :
        /\ attempts[j][n] # Null <=> (Exists(j) /\ n <= jobs[j].attempt_count)
        /\ attempts[j][n] # Null =>
            /\ (attempts[j][n].outcome = Null <=> attempts[j][n].finished_at = Null)
            /\ attempts[j][n].outcome \in
                IF n = jobs[j].attempt_count
                THEN LastOutcome(jobs[j].state)
                ELSE {"failed_retryable", "abandoned"}

(* A job has an owner and an expiry exactly while it is processing, and    *)
(* the owner is the worker of its open attempt.                            *)
LeaseFieldsAgree ==
    \A j \in Jobs : Exists(j) =>
        /\ jobs[j].lease_owner # Null <=> jobs[j].state = "processing"
        /\ jobs[j].lease_expires_at # Null <=> jobs[j].state = "processing"
        /\ jobs[j].state = "processing" =>
            jobs[j].lease_owner = attempts[j][jobs[j].attempt_count].worker_id

(* Retries are bounded and no job is stranded: attempts never exceed the   *)
(* maximum, a pending job has one left (lease_next skips it otherwise, for *)
(* ever), failed_exhausted means that all were used, and nothing is        *)
(* processing or settled without an attempt.                               *)
RetryBound ==
    \A j \in Jobs : Exists(j) =>
        /\ jobs[j].attempt_count <= MaxAttempts[j]
        /\ jobs[j].state # "pending" => jobs[j].attempt_count >= 1
        /\ jobs[j].state = "pending" => jobs[j].attempt_count < MaxAttempts[j]
        /\ jobs[j].state = "failed_exhausted" =>
            jobs[j].attempt_count = MaxAttempts[j]

(* A job that succeeded or was exhausted never changes again: no late      *)
(* finish, no recovery and no repeated create_idempotent touches it.       *)
TerminalIsFinal ==
    [][\A j \in Jobs :
        (Exists(j) /\ jobs[j].state \in Terminal) => jobs'[j] = jobs[j]]_vars

(* An attempt that was closed is history: its times and its outcome are    *)
(* never overwritten, whatever process believes it still owns it.          *)
ClosedAttemptsAreHistory ==
    [][\A j \in Jobs, n \in AttemptNumber :
        (attempts[j][n] # Null /\ attempts[j][n].outcome # Null)
            => attempts'[j][n] = attempts[j][n]]_vars

(* Attempts of one job follow each other in the recorded (text) order: the *)
(* next one starts no earlier than the last one finished, although every   *)
(* process stamps with a `now` it read some time before.                   *)
AttemptsInTextOrder ==
    \A j \in Jobs, n \in AttemptNumber :
        (n + 1 \in AttemptNumber /\ attempts[j][n + 1] # Null)
            => TextLeq(attempts[j][n].finished_at, attempts[j][n + 1].started_at)

(* recover_abandoned takes no lease away in a second before the one it     *)
(* expires in.                                                             *)
LeaseKeptUntilItsLastSecond ==
    [][\A j \in Jobs, n \in AttemptNumber :
        (/\ IsProcessing(j) /\ n = jobs[j].attempt_count
         /\ attempts'[j][n].outcome = "abandoned")
            => jobs[j].lease_expires_at.sec <= clock.sec]_vars

(* "Expired processing leases are classified as abandoned": a lease that   *)
(* has not expired is not.                                                 *)
OnlyExpiredLeasesAbandoned ==
    [][\A j \in Jobs, n \in AttemptNumber :
        (/\ IsProcessing(j) /\ n = jobs[j].attempt_count
         /\ attempts'[j][n].outcome = "abandoned")
            => Earlier(jobs[j].lease_expires_at, clock)]_vars

(* Only the process that was given an attempt reports on it: succeed and   *)
(* fail close the attempt the caller holds and no other one.  The code     *)
(* compares worker names, so this needs names that are unique.             *)
FinishesOwnAttempt ==
    [][\A j \in Jobs, n \in AttemptNumber :
        (/\ attempts[j][n] # attempts'[j][n]
         /\ attempts'[j][n].outcome \in WorkerOutcome)
            => \E p \in Process :
                /\ held[p] = [job_id |-> j, attempt_number |-> n]
                /\ held'[p] = Null]_vars

(* What a process may conclude from the lease in its hand, with unique     *)
(* worker names: if the job is processing under its name, then it is this  *)
(* very attempt that is open; otherwise recovery classified the attempt as *)
(* abandoned.  So two processes never both have the open attempt of a job. *)
HeldLeaseIsOpenOrAbandoned ==
    \A p \in Process : held[p] # Null =>
        LET j == held[p].job_id
            n == held[p].attempt_number
        IN  /\ attempts[j][n] # Null
            /\ IF OwnsLease(p, j)
               THEN jobs[j].attempt_count = n
               ELSE attempts[j][n].outcome = "abandoned"

(* Whatever the workers are called, no attempt is ever given out twice:    *)
(* two processes that run for the same job, one of them a zombie whose     *)
(* lease was recovered, have different attempt numbers.  The number tells  *)
(* them apart where the owner column, which _finish compares, cannot.      *)
LeaseIsExclusive ==
    \A p, q \in Process : (held[p] # Null /\ held[p] = held[q]) => p = q

(* With unique worker names an attempt never finishes before it started,   *)
(* although both times are read before the transaction that writes them.   *)
AttemptsEndAfterTheyStart ==
    \A j \in Jobs, n \in AttemptNumber :
        (attempts[j][n] # Null /\ attempts[j][n].finished_at # Null)
            => NotLater(attempts[j][n].started_at, attempts[j][n].finished_at)

(* Every job that was created is in the end succeeded or exhausted.        *)
EveryJobSettles ==
    \A j \in Jobs :
        Exists(j) ~> (Exists(j) /\ jobs[j].state \in Terminal)

-----------------------------------------------------------------------------
(* The queue implements JobLifecycle: a job's phase is its state column,   *)
(* and the attempts used are its attempt_count.                            *)
PhaseOf == [j \in Jobs |-> IF Exists(j) THEN jobs[j].state ELSE "absent"]
UsedOf == [j \in Jobs |-> IF Exists(j) THEN jobs[j].attempt_count ELSE 0]

Lifecycle == INSTANCE JobLifecycle WITH phase <- PhaseOf, used <- UsedOf

(* Every step of the queue is a step of the documented transition diagram  *)
(* or leaves phase and used alone.                                         *)
ImplementsLifecycle == Lifecycle!LifecycleSpec

(* With the queue's own fairness, the lifecycle's fairness follows.        *)
ImplementsFairLifecycle == Lifecycle!FairLifecycleSpec

=============================================================================
