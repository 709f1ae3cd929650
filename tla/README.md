# Verification of the scraper runtime

TLA+ models, TLC configurations and TLAPS proofs for the durable runtime of the
scraper: the detail-fetch queue, the worker that drives a run through it, the
start of a process on the runtime database (migrations, queue owner, and the
SQLite write boundary in its single steps), the repositories of all other
records, and the command line with its backups, its logging and the contracts
it validates. The reference is the source; line numbers below are those of the
files under `src/`.

## 1. The system

A scraping run is driven by a worker process over one SQLite database and one
runtime directory. Several processes may use the same database (the command
line starts one per invocation, an operator restarts them), each
`write_transaction` is a `BEGIN IMMEDIATE` transaction, and SQLite serialises
them. Everything between two transactions can interleave with other processes
or be cut off by a crash.

| component | source | state | operations | correct when |
|---|---|---|---|---|
| Detail-fetch queue | `orchestration/queue.py`, `JobRepository` in `database/repositories.py` | `detail_fetch_jobs`, `job_attempts` | `create_idempotent`, `lease_next`, `succeed`, `fail`, `recover_abandoned` | the two tables agree, retries are bounded, nobody closes another's attempt, an unexpired lease is left alone, terminal means terminal, every job settles |
| Synthetic worker | `orchestration/synthetic_worker.py` | checkpoint, snapshot file, records file, and rows of six tables | `run` (about thirty steps) | a checkpoint promises no more than is on disk, rows point at complete files, a restart resumes |
| Timestamps | `_timestamp` and the SQL comparisons | text columns | `isoformat`, `<`, `<=`, `ORDER BY` on text | text order is the order of time |
| Crawl runs, partitions | `CrawlRepository` | `crawl_runs`, `crawl_partitions` | create, start, complete, fail | guarded transitions along the documented diagrams, whoever races; a run is completed after its partition |
| Checkpoints, snapshots, parser runs, batches | `database/repositories.py` | four tables | save/load, record/get, start/complete/fail | manifests and batches are never rewritten; a parser run ends once |
| Observations, listing identity | `ObservationRepository`, `JobRepository` | two tables | `append`, `create_idempotent`, each with an upsert of the identity | the identity is there exactly when something refers to it, and shows what was appended last; an id once told stays valid |
| Proxy ledger | `ProxyUsageRepository` | one table | append, sum | append only |
| Write boundary | `database/connection.py` | a lock per object, a connection per thread | `write_transaction` | all or nothing, one writer |
| Migrations, queue owner | `database/migrations.py`, `DetailFetchQueue.__init__` | `schema_migrations`, `runtime_queue_owner` | `apply_migrations`, registration | applied once, in order, by whoever comes first |
| Backup, restore | `storage/backup.py` | files | `backup_database`, `restore_database` | a returned backup is a state of the database and stays what it was; a restore gives the backup |
| Logging set-up | `scraper_logging/setup.py` | the root logger's handlers | `configure_logging` | the handlers stay few and redact, after any number of calls |
| Contracts, source registry | `contracts/`, `source_registry/` | none | validation of values | accept what `docs/data-contracts.md` describes, and no more than the defaults of `models.py` add; refuse with the exception the caller catches |
| Command line | `cli/main.py` | a shutdown flag | open the database, start the others | a command cut short leaves the database and the files as the called functions allow |
| Runtime directory, fixture server | `orchestration/` | none | mkdir, disk-space check, one HTTP response | pure I/O |

How they interact: the worker calls the queue and the repositories in sequence,
each call one transaction; processes meet only in the database and the runtime
directory. What is hard, in the order of what it can cost:

* a lease expires while its holder is suspended, and the holder comes back;
* a process dies between any two transactions, or between creating a file and
  writing it, and a later process resumes from what is left;
* the current time is read before a transaction waits for the lock, and in
  `run` once for the whole run, so rows are stamped and judged with a `now`
  that may be arbitrarily old;
* times are compared as text, and `isoformat` leaves a zero fraction out;
* two processes are given the same run, or different runs and each other's jobs;
* all workers use the same worker name;
* a backup looks for its destination and opens it later, and a connection
  creates the file it is given, source or destination;
* the loop that removes log handlers skips every second one.

`PROJECT.json` lists these hazards line by line with the properties that
address them, or says why none does.

## 2. The modules

```
Timestamps          instants, their order in time and their order as text
JobLifecycle        abstract: the transition diagram of docs/runtime-state.md
DetailFetchQueue    the queue; EXTENDS Timestamps; implements JobLifecycle
RunCourse           abstract: the milestones of a run, in an order that makes sense
SyntheticWorker     processes running run() over that very queue; implements RunCourse
SchemaHistory       abstract: migrations and an owner, one step each
Startup             processes of any release opening one file; implements SchemaHistory
RecordLifecycle     abstract: a diagram of docs/runtime-state.md, as its arcs
Records             all other repositories; implements RecordLifecycle thrice
Backup              backups and restores over the files they are given
Logging             the handlers of each process's root logger
Contracts           what the six contracts accept of a payload
SourceRegistry      what the registry accepts; EXTENDS Contracts
CommandLine         the commands; EXTENDS Backup, Logging, SourceRegistry
MCDetailFetchQueue, MCSyntheticWorker, MCStartup, MCRecords, MCCommandLine
                                           small instances
DetailFetchQueueProofs, QueueHistoryProofs, QueueOwnershipProofs    the queue
SyntheticWorkerProofs                      the worker
StartupProofs                              what a start leaves in the database
RecordsProofs                              the repositories
BackupProofs, CommandLineProofs            backups, and the commands around them
```

**Timestamps.** An instant is a second and a fraction `0 .. LastMicro`
(`LastMicro` is 999999 in the code, 1 or 0 in the runs, arbitrary in the
proofs). `TextLess` is the byte order of what `_timestamp` produces: within a
second, a zero fraction sorts last because `"Z" > "."`. `Earlier` is the order
of time.

**JobLifecycle.** Two functions, the phase of a job and the attempts used;
create, lease, success, and giving up a set of jobs at once (one recovery
transaction). No workers, no clocks.

**DetailFetchQueue.** One action per transaction:

| action | code |
|---|---|
| `CreateIdempotent` | `INSERT ... ON CONFLICT DO NOTHING`, `JobRepository.create_idempotent` |
| `CaptureNow` | `current = now or datetime.now(UTC)`, before the transaction |
| `LeaseNext` | `lease_next`: the SELECT, the job update, the attempt insert |
| `Succeed`, `Fail` | `_finish` after its ownership check |
| `FinishRejected` | `_finish` raising `QueueTransitionError` |
| `RecoverAbandoned` | `recover_abandoned`, all expired rows in one step |
| `Tick`, `Crash` | time passes; a process loses what it holds in memory |

`jobs` and `attempts` are the two tables with the columns that matter (state,
attempt_count, scheduled_at, lease_owner, lease_expires_at; worker_id,
started_at, finished_at, outcome). `current[p]` is the `now` a process last
read, and no action forces it to be fresh. `held[p]` is the `JobLease` a process
was given; the queue itself knows nothing about it. A process that is suspended
simply takes no step, so a lease may expire, be recovered and be leased again
before its first holder goes on. Left out: `created_at` as the last tie-breaker
(ties are left open, which allows every order), `last_error_class`, ids.

**SyntheticWorker.** `run()` step by step: each transaction, each read outside a
transaction and each file operation moves `pc[p]` from one label to the next;
its queue calls are the queue's own actions, conjoined. `Interrupt` may strike
before any step: a kill, a failed fixture request, a busy timeout, or a
`stop_after` point that returns with the lease still held. `Raise` is a step
that finds what it must not find (a key that is taken, a transition from the
wrong state, a partial file); the exception ends the process, and a lease it
holds stays in `processing`. Files are absent, partial (between `open("xb")` and
the end of the write) or complete. A run, its partition, job, artifact and batch
have ids derived from the run id by `uuid5`, so one set `Jobs` indexes all of
them. Left out: the discovery observation and the source upsert, which nothing
in `run` reads (they are in Records), and the contents of files.

**RunCourse.** A run is the set of milestones it has reached: the discovered
job, the success in the queue, the snapshot file and its manifest, the parser
run, the records file and its batch, and the four marks of the crawl run and its
partition. `RestsOn` says which come before which; a step adds one milestone
that is ready. There are no processes, leases, checkpoints or crashes.
SyntheticWorker computes the set from its tables and files (`DoneOf`).

**SchemaHistory.** The versions that are applied and the owners: the next
version of a release whose earlier ones are all there, the orchestrator as the
first owner of a complete schema, another tool as far as the triggers let it.
`StartupProofs` instantiates it twice, for the recorded checksums and for the
schema in effect.

**Startup.** Here a transaction is not one step. `Lock`, `Begin`, `Commit` are
`RuntimeDatabase.write_transaction`; `writer` is the connection that has
SQLite's write lock and `draft` what its transaction has made of the committed
`db`. `Fail` is any exception: rollback, release of the lock, and the start is
over. `BeginTimesOut` is `busy_timeout`, `Kill` the end of a process with all
its threads.

| action | code |
|---|---|
| `CreateTable` | `CREATE TABLE IF NOT EXISTS schema_migrations` |
| `Check` | the record of the next file, read on `read_connection` outside of any transaction, and the checksum comparison |
| `ImplicitCommit` | `executescript` commits the transaction it is called in |
| `ScriptBegin`, `RunScript`, `RecordVersion` | the script's own `BEGIN IMMEDIATE`, its statements, and the insert of the version, whose key refuses a second one |
| `Register` | `DetailFetchQueue.__init__` |
| `RegisterOther` | a tool that inserts an owner, subject to the triggers of migration 2 |

A migration is one value for the effect of its script and its checksum; what
the script of version 1 creates is told from that of version 2 only where a
property does (the owner table, and the trigger on it). `Commit` ends the
transaction and releases the lock in one step, since between the two the call
only returns. Later starts of a process are starts of the same threads.

**Records.** `db` is one record with the eleven tables outside of the queue's
own columns; a call is one transaction, so one step. Each method makes a draft
of `db`, and `Commit` keeps the draft when no statement raised and every
`REFERENCES` clause holds in it (`ForeignKeys`), else `db`: that is
`write_transaction`. Guards of an action are what makes a call raise before it
has written anything (a primary key that is taken, an `UPDATE` that matches no
row); such a call changes nothing and is no step. The two methods that write
twice, `append` and `create_idempotent`, can fail in their second statement, and
then the step is there and must leave nothing. `answers` remembers what
`create_idempotent` has returned. One source, one reason code, one status; time
stamps that the methods take for themselves, checkpoint texts and byte counts
are left out, the observation's time and URL are kept since the identity copies
them. `RecordLifecycle` is instantiated for runs, partitions and parser runs.

**Backup.** A database is known by the number of commits in it, `file[d]` is
what is at a path: nothing, an empty file that `sqlite3.connect` made (0), or a
copy. A call goes through `exists()` (`BeginBackup`, `BeginRestore`), the two
connections (`OpenSource`, `OpenTarget`: either one creates its file), the copy,
and the return. `Commit` is any other process writing meanwhile; `Abort` an
exception or a death at any step. SQLite's copy is one step: it is restarted
until it has one consistent state, and rolled back if it does not come to that.
A restore of a file onto itself is not modelled. `contested` remembers the
destinations that a second call found free while a first was at work there.

**Logging.** `Survivors(h)` is what `for x in root.handlers:
root.removeHandler(x)` leaves of a list: the elements at even places.
`ConfigureLogging` then attaches the stream handler and, when there is a path,
the file handler; an error in between leaves the first without the second.

**Contracts, SourceRegistry.** Pure operators. A value is its kind (twenty or
so: a text, an empty or blank one, a URL, one that `urlparse` cannot take, a
version, a hash, a time stamp with or without UTC, an int, a fraction, a bool, a
list, ...), with the text, the number or the entries that a check compares; an
entry of an object has a kind too (int, fraction, bool, anything else), since
`field_confidence` and `terminal_state_counts` look at the types of their values.
A fraction is counted in hundredths. Each contract is
the list of its checks in the order the code makes them, so that `Outcome` is
the exception that is raised first. Key normalisation and the digits of a hash
or of a time stamp are not told apart.

**CommandLine.** Processes, each doing one command at a time. Six commands first
open the database (`OpenDatabase`): `Migrate` commits what it still lacks, the
next migration or, for the commands that make a `DetailFetchQueue`, the owner;
the steps inside of such a commit, and the ways in which it fails, are Startup's.
When nothing is missing (`Opened`), `worker health`, `queue-status` and
`proxy-usage` only read (`WorkerHealth`, `Status`), `FixtureCrawl` makes seven
transactions one by one, `RecoverAbandoned` one; `BackupCommand` and `BackupStep`
are Backup's actions. `RunSynthetic` is the logging of that command (its run is
SyntheticWorker). Without a database, `Health` prints a line, and `ContractValidate`
and `SourceList` compute an exit code: 0, 2 for what the command catches, 1 for
what it does not. `CutShort` is an uncaught exception or, with the process, the
end of its logger.

The operators named `Bug_...` are plausible wrong versions of the definition
that follows each of them. No specification uses them; `PROJECT.json` says which
property notices each.

## 3. What is checked

| run | instance | shows |
|---|---|---|
| `queue` | 2 processes with names of their own, 2 jobs (2 attempts and 1, different priorities), leases of 1 s, jobs due at two times, clock to 2 s in steps of half a second, fair | `TypeOK`, the tables agree (`LedgerAgrees`, `LeaseFieldsAgree`), `RetryBound`, the recorded times are in order (`AttemptsInTextOrder`, `AttemptsEndAfterTheyStart`), leases in hand (`HeldLeaseIsOpenOrAbandoned`, `FinishesOwnAttempt`), nothing final changes (`TerminalIsFinal`, `ClosedAttemptsAreHistory`), leases are honoured up to their last second, the queue implements `JobLifecycle`, with its fairness, and every created job settles (`EveryJobSettles`) |
| `worker_race` | 2 processes given the same run, the shared worker name, one interruption anywhere, symmetric processes | the checkpoint is backed, rows have their files, completed artifacts are never rewritten, a completed run is whole, no attempt is in two hands (`LeaseIsExclusive`), the worker implements `RunCourse` (`ImplementsCourse`), and the queue is used as its model allows |
| `worker_live` | 1 worker started again and again, graceful shutdowns at will, no other interruption | every run reaches its last checkpoint or uses up its attempts |
| `startup` | two threads of a process and a process of another release, a fresh file, two kills or timeouts, a tool that registers itself | the file is always the first migrations of one release (`DatabaseIsOfOneRelease`), a recorded version is not touched again (`MigrationsAreKept`), a started thread finds its whole release applied and recorded, and the orchestrator as the only owner (`ReadyIsMigrated`, `OwnerIsAlone`), and every start ends (`EveryStartEnds`) |
| `records` | 2 runs, 2 partitions with the same key, 2 listings, 2 jobs, 2 batches for one checksum, 1 artifact and parser run, 2 URLs and times, seven calls, symmetric ids | `IdentityFollowsTheLog`, `JobIdsAreStable`, `RecordsAreAppendOnly`, and the three lifecycles (`FollowsLifecycles`) |
| `commands` | 2 processes, 2 paths, a fresh database and two migrations, four commands, one of them cut short, three foreign log handlers; for each contract every payload that differs from a valid one in one field, and in two that a check relates | returned backups stay (`UndisturbedBackupIsKept`), `RestoreGivesTheBackup`, `OneOldHandlerAtMost`, `contract validate` accepts what is documented and beyond it only what the defaults make documented (`DocumentedUpToDefaults`), and the commands use Backup as its model allows (`UsesBackup`) |
| `early_recovery`, `zombie_finish`, `restart_stuck`, `shutdown_exhausts`, `foreign_lease`, `backup_overwrites` | as small as the disagreement allows | the findings of section 5 |

**Bounds.** `Horizon` stops the clock. With leases of one second and a horizon
of two, a lease taken at any time in the first second can expire, be recovered
(under the text order also within the second it expires in) and be leased again
with its first holder still alive; that is the shortest history in which the
queue's ownership rules matter. `AttemptLimit` is the largest `MaxAttempts`;
one job may be retried and the other may not, so both outcomes of a failure
happen. A fraction of two values distinguishes a whole second from a fraction,
which is all the text order does. In the worker runs time is in whole seconds,
since the fraction is the queue's subject. `MaxCrashes` bounds interruptions:
one, at any of some thirty points, against a second process at any other
point. Two passed as well but takes three times as long. In `startup`, two threads
share the lock of a process and the third shares only the file; the releases
agree on the first migration and differ on the second, so a race may be lost
both to one's own release (`integrity`) and to the other (`changed`). A process never dies
holding a lease that can no longer expire before the horizon
(`LeaseCanExpire`): a real clock does not stop. In `records` seven calls are
enough for a source, two runs, two observations of one listing and two jobs for
it, or for a run, a job, its artifact and a parser run that two callers end. In
`commands` four commands let two backups and two restores meet on two paths, or
a process set up its log four times. `MaxCommits` is two migrations, the owner, a
whole crawl of seven rows and one more commit; a second crawl stops short of its
end, which for the files is like being cut off. Deadlock is
checked wherever a process can always read the clock again or start again; in
`records`, `commands` and `backup_overwrites` the calls simply end at their bound.

**Fairness.** Time passes (`WF` of `Tick`). A process reads the clock again and
again, leases when it can, finishes what it holds and calls
`recover_abandoned`: this is the loop of an operator who keeps restarting the
worker, as `docs/runtime-state.md` describes recovery, since `run` recovers
first, with a new `now`. Creation, crashes and shutdowns are not fair: they
need not happen. In the worker, `Start` and the steps of a running process are
weakly fair; only one action of a process is enabled at a time, or stays so
until it is taken, so nothing stronger is needed. `EveryJobSettles` needs no bound
on crashes: a crash loses a lease, and a lease has cost an attempt. In
`startup` the steps of a thread are strongly fair: both locks are taken away
again and again while it waits, but SQLite's busy handler and the RLock poll
for seconds where a transaction takes milliseconds, so a waiting thread gets
them some time; when that fails, it is a `BeginTimesOut`, of which there are at
most `MaxSetbacks`. A start that failed is tried again.

## 4. What is proved

TLAPS proves these for every set of processes and jobs, every assignment of
names, every `max_attempts` and lease duration, every precision of the clock,
and any `Horizon`:

| theorem | statement |
|---|---|
| `TypeCorrect` | `Spec => []TypeOK` |
| `TablesCorrect`, `LeaseColumnsAgree`, `RetriesAreBounded`, `AttemptsFollowEachOther` | `LedgerAgrees`, `LeaseFieldsAgree`, `RetryBound`, `AttemptsInTextOrder` always hold |
| `TerminalStaysFinal`, `HistoryIsKept` | settled jobs and closed attempts never change |
| `StoredTextIsAnOrder`, `StoredTextAgainstTime` | the text of time stamps is a strict total order; it is that of time but for a whole second against the rest of that second, where it is the opposite |
| `LeasesAreHonoured` | no lease is recovered in a second before the one it expires in |
| `EarlyRecoveryIsBounded` | an early recovery happens in the second of the expiry, by a process that goes by that whole second |
| `RecoveryIsExactOtherwise` | with any fractions, a recovery abandons exactly the leases that have expired by the time of its process, but for those where one of the two times is a whole second and the other a fraction of the same second: there it does the opposite |
| `LeasesAreExclusive` | no attempt is ever in two hands, whatever the workers are called |
| `QueueImplementsLifecycle` | `Spec => Lifecycle!LifecycleSpec` |
| `HeldLeasesAreSound` | with unique names, a lease in hand is the open attempt or was abandoned |
| `AttemptsAreClosedByTheirHolder` | with unique names, `succeed` and `fail` close only the caller's attempt |
| `AttemptsEndInTime` | with unique names, no attempt finishes before it starts, although both times are read before their transactions |
| `WorkerUsesQueue` | if jobs may be scheduled at any instant, `WorkerSpec => Spec`: what is proved of the queue holds under any number of workers |
| `WorkersKeepTheQueueSound` | under the same condition, the queue's table invariants and `LeaseIsExclusive` hold under any number of workers |
| `WorkerTypesHold`, `CheckpointsAreBacked`, `RowsAlwaysHaveTheirFiles`, `CompletedRunsAreWhole` | under the same condition, `WorkerTypeOK`, `CheckpointIsBacked`, `RowsHaveTheirFiles` and `CompletedRunIsWhole` always hold, for any processes (sharing runs or not) and interruptions |
| `ArtifactsStay` | under the same condition, no manifest, batch or complete file is ever replaced |
| `WorkerImplementsCourse`, `CompletedRunsMissNothing` | under the same condition, the worker implements `RunCourse`, so a completed run has every milestone (the fetch may be another run's) |
| `WorkersFollowLifecycles` | crawl runs and partitions follow the documented diagrams under any workers |
| `CompletedRunsUsedASuccess`, `SingleRunsSettleTheirJob` | a completed run used a success, its own or that of another run; where all processes carry one run, its own |
| `ShutdownsReturnOrExhaust` | a graceful shutdown makes the job eligible at once, or exhausts it if this was the last attempt |
| `InterruptedSuccessIsFinal`, `UnclosedRunsStayUnclosed` | the states that three crash points leave behind are left by no restart |
| `LocksStayOrdered` | one thread of a process at a time is inside of `write_transaction`; the two locks are taken in one order and never leaked |
| `StartupImplementsHistory` | starts implement `SchemaHistory`, for the records and for the schema in effect |
| `DatabaseStaysWhole` | the file is always the first migrations of one release, for any number of releases, processes and threads |
| `MigrationsStay` | a recorded version keeps its schema and its checksum |
| `ReadyThreadsAreMigrated`, `OwnerStaysAlone` | a started thread has every migration of its own release in the file, in effect and recorded as its own (a longer release may have added later ones), and the orchestrator as the only owner; once registered, that owner stays alone |
| `StartupTypes` | the types of `Startup`: no thread passes the end of its release |
| `RecordTypes`, `RecordsFollowLifecycles` | the tables keep their types; runs, partitions and parser runs implement their diagrams |
| `RecordsOnlyGrow` | observations, usage, snapshots, batches, jobs and first sights are never changed |
| `JobIdsStayStable` | an id once told is the id of the only job of its run and listing |
| `IdentitiesFollowTheLog` | an identity exists exactly while something refers to it, and shows the last observation |
| `BackupTypes`, `UndisturbedBackupsAreKept`, `RestoresGiveTheBackup` | backups and restores, for any number of processes, paths, commits and failures |
| `CommandsUseBackup` | `CommandSpec => BackupSpec`: the same holds under any commands |
| `HandlersStayFew` | at most one old handler, for any number of processes and calls |
| `CommandTypesHold` | the types of the command line, with the openings, the calls and the handlers |
| `DocumentsAreFollowedUpToDefaults` | for any set of payloads, `contract validate` accepts every documented one, and of the others exactly those that are documented once a missing `metadata` counts as an empty object and a missing array, a text or an object in its place as an array; for any registries, one that is accepted has distinct names and explains its fallbacks |

Assumptions on the constants are `LastMicroAssumption`, `QueueAssumption` and
`NullAssumption` (and, where named, `UniqueNames`), `WorkerAssumption` and
`WorkerNullAssumption` (each process has a run, and `Null` is no checkpoint, state
or job), and `StartupAssumption`
(a release has at least the two migrations, and fewer than some bound); TLC evaluates the named
assumptions in every run. `RecordsAssumption`, `NullIsNoRow`, `BackupAssumption`,
`NullIsNoCall`, `LoggingAssumption` and `CommandAssumption` say that `Null` is no
row, path or call, that bounds are naturals, and that at most three foreign
handlers are attached before the first call. `CommandAssumption` also says that a
payload has the fields of its contract, one key that stands for all others, and
any JSON values, and that a registry is a sequence of sources with any values in
their fields. `SingleRunsSettleTheirJob` and `InterruptedSuccessIsFinal` assume that
all processes carry one run; they say where the findings of section 5 end, not
what the code guarantees without them.

The argument. None of the table properties is inductive alone: that
`lease_next` keeps the attempts in order needs that a pending row is due from
the moment its last attempt finished, which is stated nowhere as a property.
`TablesInv` is the conjunction over jobs of `RowInv(row, ledger, max)`, a
statement about one row and its attempts (`Counted`, `Explained`, `Owned`,
`Bounded`, `InOrder`, the last with that extra fact). An action is therefore
examined only for the rows it writes: one lemma per way of writing a row
(`CreatedRowInv`, `LeasedRowInv`, and one for both ways of releasing it), one
lemma per action that lifts it to the tables, then `TablesNext`. `StepEffect`
sums up what any step can do to one job; the action properties and the
refinement follow from it by cases. `LeasesAreHonoured` also needs
`CapturedInThePast`: a captured `now` is never ahead of the clock.
`HeldLeaseIsOpenOrAbandoned` is inductive relative to `TablesInv` and
`UniqueNames`; the name is needed exactly where `OwnsLease` is used to conclude
that the open attempt is the caller's.

`StartupInv` adds to the properties what each thread may rely on at each label
(`PlaceInv`: the versions before its place are recorded with its own checksums;
`DraftInv`: what the draft is in terms of `db`, the place and the label). A
lookup may be stale, so nothing is said of the version at the place until the
insert has succeeded: that the row is still absent under the write lock is what
saves a thread that lost the race, and with `DatabaseIsOfOneRelease` it means
that the schema had not been applied either. Other threads are unaffected
because records and the owner are never taken back (`Untouched`). That no other
owner exists needs that registration comes after migration 2, hence
`OwnersInv`. The refinement follows from which steps change the file at all
(`DatabaseSteps`): the commit of a migration extends the prefix of the committing
thread's own release by one version (`CommitExtendsRelease`), the first commit of
a registration finds no owner, and `executescript`'s implicit commit changes
nothing. `LockInv` says where a thread has the lock of its process; `DraftInv` says
the same of SQLite's.

`AttemptsEndAfterTheyStart` takes both halves: a worker finishes with a time it
read no earlier than the one it leased with (`HeldStartOK`, which needs
`HeldLeaseIsOpenOrAbandoned` to know that the attempt it closes is that one),
and recovery with a time after an expiry that lies in a later second than the
start, which even the text order respects.

`LeaseIsExclusive` needs that a number in hand was counted when it was given out
(`HeldIsCounted`): `attempt_count` never falls, so the next number is new. It holds
although the owner column cannot tell two workers apart: the attempt number, which
`_finish` does not look at, does tell a zombie from the process that holds the lease.

The text order is examined once (`StoredTextAgainstTime`); with a captured `now`
that is not ahead of the clock, an early recovery must compare a whole second
with a fraction of the same second, and the second is the clock's. That there is
no other error in either direction (`RecoveryIsExactOtherwise`) follows from the
same comparison, applied to every processing row.

The worker's invariants hold together or not at all. `WorkerInv` gives every
step a rank (`Reached`), that of the checkpoint it comes after, and lets a
process rely on what that checkpoint promises (`PlaceOK`), plus what it has done
since: a lease in hand up to `succeed`, a complete file before its row, a
completed partition before its run. `RowOK` says the same of the stored
checkpoint. Other processes cannot invalidate a place, even of the same run,
because no step undoes anything (`Keeps`: queue rows through `JobsAreKept`, the
worker's tables and files through `KeptOf`), and so `ShapeStep` examines each
step once for all of them; `PlaceStep` and `RowsStep` then look only at the
process that moves and the row it adds. `CompletedArtifactsAreKept` is a part of
`Keeps`. The types need one more fact, `CountsOK`: at least as many parser runs
are counted as running as there are processes between `start` and `complete`.

For `ImplementsCourse` every step that adds a row, a file or a mark is shown to
reach exactly one milestone, and what it rests on to be there: that is `PlaceOK` of
the process that moves. The other steps change none (`WorkerInv` and `Keeps`
again). What a completed run lacks then follows in the abstract course alone.
The theorems about stuck runs are invariants of the state in question: from
`Stuck(r)` a process can only go round from `Start` to the lease, where the queue
offers nothing; `start_run` and `complete_run` are entered only by the process
that created the run or completed the partition (`EnteredFrom`).

In `RecordsProofs` every method is first reduced to its effect: `OtherCall` for
those that touch neither identities, observations nor jobs, `Seen` and `Created`
for the two that do; a rolled-back call has no effect. `JobIdsAreStable` needs
`OneJobEach`, that no two jobs share run and listing, which the `INSERT ... ON
CONFLICT DO NOTHING` and the `SELECT` after it maintain together.
`IdentityFollowsTheLog` is inductive listing by listing (`IdentityAgrees`).

`BackupInv` adds to the two properties what a call under way may rely on
(`CallOK`: until the copy its destination is missing or empty, after it the
content is what was copied, and a source that held a database still does), the
same of calls that have returned (`ReturnedOK`), and that two calls share a
destination only if it is contested, both at work (`Alone`) or one after the
other (`Fresh`). A path becomes contested when the second call begins, before it
can do any harm, which is why everything is stated up to `contested`.

`DocumentedUpToDefaults` compares two ways of saying what a payload must be: a
list of checks of which the first that fails decides, and the documents'
conditions field by field (`IsDocumented`), where every listed field is required.
`WithDefaults(p)` is the payload the code goes by, with the defaults that
`models.py` has for `metadata` and the five arrays. `AcceptedFields` says what
`FieldsAreDocumented(WithDefaults(p))` means for `p` itself; each contract then has
its own lemma, in which its checks are split into the lists they are made of
(`Passed` of a concatenation) and each check is equated with the condition it
stands for. The relations between fields touch no field that has a default
(`DefaultsKeepRelations`), and a documented payload is its own `WithDefaults`.

Only model-checked: the liveness properties, which are out of the prover's
reach (`EveryJobSettles`, `ImplementsFairLifecycle`, `EveryRunSettles`,
`EveryStartEnds`). The properties of section 5 are refuted, of course, and their
limits are what is proved about them.

## 5. Where code and documentation disagree

1. **Early recovery** (`queue.py:99`). At 11.0 s a lease that expires at 11.5 s
   is "less than now" as text and is abandoned. `docs/runtime-state.md` says
   that expired leases are. It can happen only inside the last second, to a
   process that goes by the whole second (`EarlyRecoveryIsBounded`), and the
   dropped zero fraction is its only cause: every other pair of times is judged
   right (`RecoveryIsExactOtherwise`). The same comparison leaves a lease that
   expires at a whole second standing for the rest of that second, which a later
   recovery makes up for.
2. **Zombie finish** (`queue.py:73`, `synthetic_worker.py:111`). The ownership
   check compares names, and all workers have the same one: a process whose
   attempt was abandoned closes another's attempt. With unique names it is
   impossible (`FinishesOwnAttempt`, proved).
3. **Stuck restart** (`synthetic_worker.py:120`). After a crash between
   `succeed` and the checkpoint, every restart waits for a lease for ever
   (`InterruptedSuccessIsFinal`).
4. **Shutdown exhausts** (`synthetic_worker.py:117`). A graceful shutdown of
   the last attempt makes the job `failed_exhausted`, not `pending`; of any other
   attempt it returns the lease at once (`ShutdownsReturnOrExhaust`).
5. **Foreign lease** (`synthetic_worker.py:111`). A run leases the job of
   another run, completes with it and leaves its own pending. That takes a second
   run on the database (`SingleRunsSettleTheirJob`), whose job has then succeeded
   (`CompletedRunsUsedASuccess`).

6. **Backup overwrites** (`backup.py:14`). Two backups that both found a path
   free: the second replaces the one that was returned, with a later state of
   the database. The function's comment and `docs/runtime-state.md` say that an
   existing destination is refused. `UndisturbedBackupIsKept` (proved) shows that
   this is the only way to lose a backup.

7. **Optional fields** (`models.py:82`, `:268-269`, `:322-324`).
   `docs/data-contracts.md` lists `metadata` (line 32), `warnings` and
   `failure_reasons` (136-137), `acquisition_versions` and `parser_versions`
   (155-156) and `known_limitations` (161) among the required fields of their
   contracts; `models.py` types the last five as tuples of strings. The code lets
   each of the six be missing, and makes a tuple of a string (its letters) or of an
   object (its keys) in the place of an array. It has no run of its own: `DocumentedUpToDefaults` states the
   documents' conditions, which these payloads violate, and that they are the only
   ones that are accepted nevertheless.

Seen while modelling, where the documents are silent or too vague to be wrong:

* a crash between the creation and the start of a run, or between the completion
  of its partition and its own, leaves a run that no later start closes
  (`synthetic_worker.py:152` and `:141`, `UnclosedRunsStayUnclosed`);
* a restore of a path that does not exist creates it, restores an empty database
  and returns (`backup.py:34`);
* a late observation overwrites URL and last time of an identity with older ones
  (`repositories.py:146`);
* a `listing_url` that `urlparse` cannot take, and a payload that is no UTF-8,
  end `contract validate` with a traceback (`validation.py:34`, `cli/main.py:51`);
* of the handlers that `configure_logging` finds, every second one stays
  attached, and the old log file of a second call may stay open (`setup.py:52`);
* any field that a contract does not know is refused (`validation.py:95`), also one
  that a later minor version adds, which `docs/data-contracts.md:166` allows.

## 6. Not modelled

* The runtime directory (mkdir, a disk-space check before a run) and the fixture
  server (one constant response): no later step depends on a state of theirs.
* Argument parsing, printing, and the text that logging filters rewrite.
* SQLite itself: a transaction is atomic and durable, a backup consistent, the
  foreign keys and the busy handler work.
* What is in files, manifests and checkpoints beyond what a check compares; byte
  counts of the proxy ledger, which nothing but a SUM reads.
