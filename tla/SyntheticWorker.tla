--------------------------- MODULE SyntheticWorker ---------------------------
(***************************************************************************)
(* The synthetic worker (orchestration/synthetic_worker.py) on top of the  *)
(* detail-fetch queue: processes that each carry one run from discovery to *)
(* a dataset batch, over one shared database and one runtime directory.    *)
(*                                                                         *)
(* Every transaction, every read and every file operation of run() is a    *)
(* step of its own; pc[p] names the step process p is about to take, and a *)
(* process may die before any of them and be started again.  The queue's   *)
(* own actions are those of DetailFetchQueue, so the queue here is that    *)
(* very queue; its identifiers of jobs serve as runs too, since run r has  *)
(* exactly the job (partition, artifact, batch) whose id is derived from r *)
(* with uuid5.                                                             *)
(*                                                                         *)
(* An operator Bug_... is a plausible wrong version of the definition that *)
(* follows it; only the mutation runs use it.                              *)
(***************************************************************************)
EXTENDS DetailFetchQueue

CONSTANTS
    RunOf,          \* [Process -> Jobs]: the --run-id each process is given
    MaxCrashes      \* bound: how many interruptions there are in all

ASSUME WorkerAssumption == RunOf \in [Process -> Jobs] /\ MaxCrashes \in Nat

VARIABLES
    crawlRun,       \* [Jobs -> state or Null]: table crawl_runs
    partition,      \* [Jobs -> state or Null]: table crawl_partitions
    checkpoint,     \* [Jobs -> value or Null]: table checkpoints
    manifest,       \* [Jobs -> job_id or Null]: table raw_snapshot_manifests
    parserRuns,     \* [Jobs -> [running, completed]]: table parser_runs, counted
    batch,          \* [Jobs -> BOOLEAN]: table dataset_batch_manifests
    snapshotFile,   \* [Jobs -> FileState]: snapshots/<artifact>.json
    recordsFile,    \* [Jobs -> FileState]: exports/<batch>.jsonl
    pc,             \* [Process -> Step]
    result,         \* [Process -> what its last run() returned]
    crashes         \* interruptions so far

queueVars == vars
durable == <<crawlRun, partition, checkpoint, manifest, parserRuns, batch,
             snapshotFile, recordsFile>>
workerVars == <<clock, jobs, attempts, current, held, crawlRun, partition,
                checkpoint, manifest, parserRuns, batch, snapshotFile,
                recordsFile, pc, result, crashes>>

FileState == {"absent", "partial", "complete"}

Step == {"off", "recover",
         "get_run", "create_run", "start_run",
         "get_partition", "create_partition", "start_partition",
         "load_checkpoint", "discover", "save_queued",
         "lease", "leased", "snapshot_open", "snapshot_write",
         "get_manifest", "record_manifest", "succeed", "save_snapshot",
         "parser_start", "parser_complete", "save_parsed",
         "get_batch", "records_check", "records_open", "records_write",
         "record_batch", "save_batch",
         "finish", "complete_partition", "complete_run", "save_completed"}

RunResult == {"none", "waiting_for_lease", "gracefully_stopped", "completed",
              "error"}

(* The checkpoints in the order run() passes them, and the step it resumes *)
(* with after loading each one.                                            *)
Checkpoint == {"queued", "snapshot-recorded", "parser-completed",
               "batch-recorded", "completed"}

(* NULL is neither a checkpoint, nor a state, nor the id of a job. *)
ASSUME WorkerNullAssumption ==
    Null \notin Checkpoint \cup {"created", "running", "pending", "processing"} \cup Jobs

Rank(value) ==
    CASE value = Null -> 0
      [] value = "queued" -> 1
      [] value = "snapshot-recorded" -> 2
      [] value = "parser-completed" -> 3
      [] value = "batch-recorded" -> 4
      [] value = "completed" -> 5

(* The checkpoint is written first, the job never. *)
Bug_ResumeAtSkipsDiscovery(value) ==
    CASE value = Null -> "save_queued"
      [] value = "queued" -> "lease"
      [] value = "snapshot-recorded" -> "parser_start"
      [] value = "parser-completed" -> "get_batch"
      [] value = "batch-recorded" -> "finish"

(* What comes after a recorded snapshot is taken to be the batch. *)
Bug_ResumeAtSkipsParser(value) ==
    CASE value = Null -> "discover"
      [] value = "queued" -> "lease"
      [] value = "snapshot-recorded" -> "get_batch"
      [] value = "parser-completed" -> "get_batch"
      [] value = "batch-recorded" -> "finish"

ResumeAt(value) ==
    CASE value = Null -> "discover"
      [] value = "queued" -> "lease"
      [] value = "snapshot-recorded" -> "parser_start"
      [] value = "parser-completed" -> "get_batch"
      [] value = "batch-recorded" -> "finish"

WorkerInit ==
    /\ Init
    /\ crawlRun = [r \in Jobs |-> Null]
    /\ partition = [r \in Jobs |-> Null]
    /\ checkpoint = [r \in Jobs |-> Null]
    /\ manifest = [r \in Jobs |-> Null]
    /\ parserRuns = [r \in Jobs |-> [running |-> 0, completed |-> 0]]
    /\ batch = [r \in Jobs |-> FALSE]
    /\ snapshotFile = [r \in Jobs |-> "absent"]
    /\ recordsFile = [r \in Jobs |-> "absent"]
    /\ pc = [p \in Process |-> "off"]
    /\ result = [p \in Process |-> "none"]
    /\ crashes = 0

-----------------------------------------------------------------------------
(* Control. *)

Goto(p, from, to) ==
    /\ pc[p] = from
    /\ pc' = [pc EXCEPT ![p] = to]
    /\ UNCHANGED <<result, crashes>>

(* run() returns with state `value`. *)
Return(p, value) ==
    /\ pc' = [pc EXCEPT ![p] = "off"]
    /\ result' = [result EXCEPT ![p] = value]
    /\ UNCHANGED crashes

(* A handler that puts the job back but leaves its attempt open. *)
Bug_LetGoRequeues(p) ==
    IF held[p] = Null
    THEN UNCHANGED queueVars
    ELSE /\ jobs' = [jobs EXCEPT ![held[p].job_id] =
                        ReleasedRow(@, "pending", current[p])]
         /\ held' = [held EXCEPT ![p] = Null]
         /\ UNCHANGED <<clock, attempts, current>>

(* The process forgets its lease; the row stays in processing. *)
LetGo(p) == IF held[p] = Null THEN UNCHANGED queueVars ELSE Crash(p)

(* Time passes. *)
WorkerTick ==
    /\ Tick
    /\ UNCHANGED <<durable, pc, result, crashes>>

(* run(): `current` is read once, for every call made below. *)
Start(p) ==
    /\ Goto(p, "off", "recover")
    /\ CaptureNow(p)
    /\ UNCHANGED durable

(* A kill, a power cut, a fixture server that does not answer, an expired  *)
(* busy timeout, or one of the stop_after points.                          *)
Interrupt(p) ==
    /\ pc[p] # "off"
    /\ crashes < MaxCrashes
    /\ crashes' = crashes + 1
    /\ pc' = [pc EXCEPT ![p] = "off"]
    /\ LetGo(p)
    /\ UNCHANGED <<durable, result>>

Recover(p) ==
    /\ Goto(p, "recover", "get_run")
    /\ IF \E j \in Jobs : Abandoned(j, current[p])
       THEN RecoverAbandoned(p)
       ELSE UNCHANGED queueVars
    /\ UNCHANGED durable

-----------------------------------------------------------------------------
(* _ensure_run *)

GetRun(p) ==
    /\ Goto(p, "get_run", IF crawlRun[RunOf[p]] = Null THEN "create_run" ELSE "get_partition")
    /\ UNCHANGED <<queueVars, durable>>

WriteRun(p, from, expected, target, to) ==
    /\ Goto(p, from, to)
    /\ crawlRun[RunOf[p]] = expected
    /\ crawlRun' = [crawlRun EXCEPT ![RunOf[p]] = target]
    /\ UNCHANGED <<queueVars, partition, checkpoint, manifest, parserRuns,
                   batch, snapshotFile, recordsFile>>

CreateRun(p) == WriteRun(p, "create_run", Null, "created", "start_run")
StartRun(p) == WriteRun(p, "start_run", "created", "running", "get_partition")

GetPartition(p) ==
    /\ Goto(p, "get_partition",
            CASE partition[RunOf[p]] = Null -> "create_partition"
              [] partition[RunOf[p]] = "pending" -> "start_partition"
              [] OTHER -> "load_checkpoint")
    /\ UNCHANGED <<queueVars, durable>>

WritePartition(p, from, expected, target, to) ==
    /\ Goto(p, from, to)
    /\ partition[RunOf[p]] = expected
    /\ partition' = [partition EXCEPT ![RunOf[p]] = target]
    /\ UNCHANGED <<queueVars, crawlRun, checkpoint, manifest, parserRuns,
                   batch, snapshotFile, recordsFile>>

(* The row is read again after it was created. *)
CreatePartition(p) ==
    WritePartition(p, "create_partition", Null, "pending", "get_partition")
(* The partition is never moved to processing. *)
Bug_StartPartitionStays(p) ==
    WritePartition(p, "start_partition", "pending", "pending", "load_checkpoint")

(* The state of a run is given to a partition. *)
Bug_StartPartitionRunning(p) ==
    WritePartition(p, "start_partition", "pending", "running", "load_checkpoint")

StartPartition(p) ==
    WritePartition(p, "start_partition", "pending", "processing", "load_checkpoint")

-----------------------------------------------------------------------------
(* Checkpoints *)

(* Nothing is left to do at "completed". *)
LoadCheckpoint(p) ==
    LET value == checkpoint[RunOf[p]]
    IN  /\ pc[p] = "load_checkpoint"
        /\ IF value = "completed"
           THEN Return(p, "completed")
           ELSE Goto(p, "load_checkpoint", ResumeAt(value))
        /\ UNCHANGED <<queueVars, durable>>

(* An upsert, whatever the value before. *)
SaveCheckpoint(p, from, value, to) ==
    /\ Goto(p, from, to)
    /\ checkpoint' = [checkpoint EXCEPT ![RunOf[p]] = value]
    /\ UNCHANGED <<queueVars, crawlRun, partition, manifest, parserRuns,
                   batch, snapshotFile, recordsFile>>

SaveQueued(p) == SaveCheckpoint(p, "save_queued", "queued", "lease")
SaveSnapshot(p) ==
    SaveCheckpoint(p, "save_snapshot", "snapshot-recorded", "parser_start")
SaveParsed(p) ==
    SaveCheckpoint(p, "save_parsed", "parser-completed", "get_batch")
SaveBatch(p) ==
    SaveCheckpoint(p, "save_batch", "batch-recorded", "finish")

SaveCompleted(p) ==
    /\ pc[p] = "save_completed"
    /\ checkpoint' = [checkpoint EXCEPT ![RunOf[p]] = "completed"]
    /\ Return(p, "completed")
    /\ UNCHANGED <<queueVars, crawlRun, partition, manifest, parserRuns,
                   batch, snapshotFile, recordsFile>>

-----------------------------------------------------------------------------
(* Discovery, and the use of the queue *)

(* The job is due from `current`, the only time the worker knows. *)
Discover(p) ==
    /\ Goto(p, "discover", "save_queued")
    /\ CreateIdempotent(RunOf[p], current[p])
    /\ UNCHANGED durable

(* lease_next takes the best job of ANY run. *)
TakeLease(p) ==
    /\ Goto(p, "lease", "leased")
    /\ \E j \in Jobs, seconds \in LeaseSeconds : LeaseNext(p, j, seconds)
    /\ UNCHANGED durable

NoLease(p) ==
    /\ pc[p] = "lease"
    /\ \A j \in Jobs : ~Eligible(j, current[p])
    /\ Return(p, "waiting_for_lease")
    /\ UNCHANGED <<queueVars, durable>>

(* shutdown_requested() is asked once, right after the lease. *)
GracefulShutdown(p) ==
    /\ pc[p] = "leased"
    /\ Fail(p)
    /\ Return(p, "gracefully_stopped")
    /\ UNCHANGED durable

MarkSucceeded(p) ==
    /\ Goto(p, "succeed", "save_snapshot")
    /\ Succeed(p)
    /\ UNCHANGED durable

-----------------------------------------------------------------------------
(* _record_snapshot *)

(* A file that is there is taken without comparing its digest. *)
Bug_SnapshotCheckExists(p) ==
    /\ Goto(p, "leased", IF snapshotFile[RunOf[p]] = "absent"
                         THEN "snapshot_open" ELSE "get_manifest")
    /\ UNCHANGED <<queueVars, durable>>

(* exists() and, when it does, the digest of the file that is there. *)
SnapshotCheck(p) ==
    /\ snapshotFile[RunOf[p]] # "partial"
    /\ Goto(p, "leased", IF snapshotFile[RunOf[p]] = "absent"
                         THEN "snapshot_open" ELSE "get_manifest")
    /\ UNCHANGED <<queueVars, durable>>

WriteSnapshot(p, from, expected, target, to) ==
    /\ Goto(p, from, to)
    /\ snapshotFile[RunOf[p]] \in expected
    /\ snapshotFile' = [snapshotFile EXCEPT ![RunOf[p]] = target]
    /\ UNCHANGED <<queueVars, crawlRun, partition, checkpoint, manifest,
                   parserRuns, batch, recordsFile>>

(* open("wb") truncates a file that is there. *)
Bug_SnapshotOpenTruncates(p) ==
    WriteSnapshot(p, "snapshot_open", FileState, "partial", "snapshot_write")

(* open("xb") creates an empty file and fails if there is one. *)
SnapshotOpen(p) ==
    WriteSnapshot(p, "snapshot_open", {"absent"}, "partial", "snapshot_write")
SnapshotWrite(p) ==
    WriteSnapshot(p, "snapshot_write", FileState, "complete", "get_manifest")

GetManifest(p) ==
    /\ Goto(p, "get_manifest",
            IF manifest[RunOf[p]] = Null THEN "record_manifest" ELSE "succeed")
    /\ UNCHANGED <<queueVars, durable>>

(* The artifact of this run, attributed to the job that was leased. *)
RecordManifest(p) ==
    /\ Goto(p, "record_manifest", "succeed")
    /\ manifest[RunOf[p]] = Null
    /\ manifest' = [manifest EXCEPT ![RunOf[p]] = held[p].job_id]
    /\ UNCHANGED <<queueVars, crawlRun, partition, checkpoint, parserRuns,
                   batch, snapshotFile, recordsFile>>

-----------------------------------------------------------------------------
(* Parser placeholder *)

WriteParserRun(p, from, started, finished, to) ==
    /\ Goto(p, from, to)
    /\ parserRuns' = [parserRuns EXCEPT
            ![RunOf[p]].running = @ + started - finished,
            ![RunOf[p]].completed = @ + finished]
    /\ UNCHANGED <<queueVars, crawlRun, partition, checkpoint, manifest,
                   batch, snapshotFile, recordsFile>>

(* The foreign key wants the artifact's manifest. *)
ParserStart(p) ==
    /\ manifest[RunOf[p]] # Null
    /\ WriteParserRun(p, "parser_start", 1, 0, "parser_complete")

(* The row is the process's own: its id was drawn by parser_runs.start. *)
ParserComplete(p) == WriteParserRun(p, "parser_complete", 0, 1, "save_parsed")

-----------------------------------------------------------------------------
(* _record_batch *)

GetBatch(p) ==
    /\ Goto(p, "get_batch", IF batch[RunOf[p]] THEN "save_batch" ELSE "records_check")
    /\ UNCHANGED <<queueVars, durable>>

RecordsCheck(p) ==
    /\ recordsFile[RunOf[p]] # "partial"
    /\ Goto(p, "records_check", IF recordsFile[RunOf[p]] = "absent"
                                THEN "records_open" ELSE "record_batch")
    /\ UNCHANGED <<queueVars, durable>>

WriteRecords(p, from, expected, target, to) ==
    /\ Goto(p, from, to)
    /\ recordsFile[RunOf[p]] \in expected
    /\ recordsFile' = [recordsFile EXCEPT ![RunOf[p]] = target]
    /\ UNCHANGED <<queueVars, crawlRun, partition, checkpoint, manifest,
                   parserRuns, batch, snapshotFile>>

RecordsOpen(p) ==
    WriteRecords(p, "records_open", {"absent"}, "partial", "records_write")
RecordsWrite(p) ==
    WriteRecords(p, "records_write", FileState, "complete", "record_batch")

RecordBatch(p) ==
    /\ Goto(p, "record_batch", "save_batch")
    /\ ~batch[RunOf[p]]
    /\ batch' = [batch EXCEPT ![RunOf[p]] = TRUE]
    /\ UNCHANGED <<queueVars, crawlRun, partition, checkpoint, manifest,
                   parserRuns, snapshotFile, recordsFile>>

-----------------------------------------------------------------------------
(* The end of the run *)

(* The run is completed before its partition. *)
Bug_FinishRunFirst(p) ==
    /\ Goto(p, "finish", IF crawlRun[RunOf[p]] = "running"
                         THEN "complete_run" ELSE "save_completed")
    /\ UNCHANGED <<queueVars, durable>>

(* get_run: a run that is not running is not completed either. *)
FinishRun(p) ==
    /\ Goto(p, "finish", IF crawlRun[RunOf[p]] = "running"
                         THEN "complete_partition" ELSE "save_completed")
    /\ UNCHANGED <<queueVars, durable>>

CompletePartition(p) ==
    WritePartition(p, "complete_partition", "processing", "completed", "complete_run")
CompleteRun(p) ==
    WriteRun(p, "complete_run", "running", "completed", "save_completed")

-----------------------------------------------------------------------------
(* Where a step raises instead: a primary key that is taken, a transition  *)
(* from another state than the expected one, a file that is there but      *)
(* incomplete, or a lease that was lost.                                   *)
Refused(p) ==
    LET r == RunOf[p]
    IN  CASE pc[p] = "create_run" -> crawlRun[r] # Null
          [] pc[p] = "start_run" -> crawlRun[r] # "created"
          [] pc[p] = "create_partition" -> partition[r] # Null
          [] pc[p] = "start_partition" -> partition[r] # "pending"
          [] pc[p] = "leased" -> snapshotFile[r] = "partial"
          [] pc[p] = "snapshot_open" -> snapshotFile[r] # "absent"
          [] pc[p] = "record_manifest" -> manifest[r] # Null
          [] pc[p] = "parser_start" -> manifest[r] = Null
          [] pc[p] = "records_check" -> recordsFile[r] = "partial"
          [] pc[p] = "records_open" -> recordsFile[r] # "absent"
          [] pc[p] = "record_batch" -> batch[r]
          [] pc[p] = "complete_partition" -> partition[r] # "processing"
          [] pc[p] = "complete_run" -> crawlRun[r] # "running"
          [] OTHER -> FALSE

(* The exception ends the process; a lease it has is not given back. *)
Raise(p) ==
    /\ Refused(p)
    /\ LetGo(p)
    /\ Return(p, "error")
    /\ UNCHANGED durable

(* succeed (or the fail of a shutdown) finds the lease gone. *)
LeaseLost(p) ==
    /\ pc[p] \in {"succeed", "leased"}
    /\ FinishRejected(p)
    /\ Return(p, "error")
    /\ UNCHANGED durable

WorkerStep(p) ==
    \/ Recover(p)
    \/ GetRun(p) \/ CreateRun(p) \/ StartRun(p)
    \/ GetPartition(p) \/ CreatePartition(p) \/ StartPartition(p)
    \/ LoadCheckpoint(p) \/ Discover(p) \/ SaveQueued(p)
    \/ TakeLease(p) \/ NoLease(p)
    \/ SnapshotCheck(p) \/ SnapshotOpen(p) \/ SnapshotWrite(p)
    \/ GetManifest(p) \/ RecordManifest(p) \/ MarkSucceeded(p) \/ SaveSnapshot(p)
    \/ ParserStart(p) \/ ParserComplete(p) \/ SaveParsed(p)
    \/ GetBatch(p) \/ RecordsCheck(p) \/ RecordsOpen(p) \/ RecordsWrite(p)
    \/ RecordBatch(p) \/ SaveBatch(p)
    \/ FinishRun(p) \/ CompletePartition(p) \/ CompleteRun(p) \/ SaveCompleted(p)
    \/ Raise(p) \/ LeaseLost(p)

WorkerNext ==
    \/ WorkerTick
    \/ \E p \in Process :
        Start(p) \/ WorkerStep(p) \/ GracefulShutdown(p) \/ Interrupt(p)

WorkerSpec == WorkerInit /\ [][WorkerNext]_workerVars

(* A worker is started again and again, and each start runs on. *)
WorkerFairness ==
    /\ WF_workerVars(WorkerTick)
    /\ \A p \in Process : WF_workerVars(Start(p)) /\ WF_workerVars(WorkerStep(p))

FairWorkerSpec == WorkerSpec /\ WorkerFairness

-----------------------------------------------------------------------------
(* Properties.                                                             *)

(* Every variable has its type.                                            *)
WorkerTypeOK ==
    /\ TypeOK
    /\ crawlRun \in [Jobs -> {Null, "created", "running", "completed"}]
    /\ partition \in [Jobs -> {Null, "pending", "processing", "completed"}]
    /\ checkpoint \in [Jobs -> Checkpoint \cup {Null}]
    /\ manifest \in [Jobs -> Jobs \cup {Null}]
    /\ parserRuns \in [Jobs -> [running : Nat, completed : Nat]]
    /\ batch \in [Jobs -> BOOLEAN]
    /\ snapshotFile \in [Jobs -> FileState]
    /\ recordsFile \in [Jobs -> FileState]
    /\ pc \in [Process -> Step]
    /\ result \in [Process -> RunResult]
    /\ crashes \in 0 .. MaxCrashes

(* A checkpoint never promises more than is on disk: whatever crashed, and *)
(* whoever wrote it last, the job, the snapshot and its manifest, a        *)
(* success in the queue, a completed parser run and the batch with its     *)
(* records are there when the checkpoint that stands for them is.          *)
CheckpointIsBacked ==
    \A r \in Jobs :
        LET rank == Rank(checkpoint[r])
        IN  /\ rank >= 1 => Exists(r)
            /\ rank >= 2 => /\ manifest[r] # Null
                            /\ \E j \in Jobs : Exists(j) /\ jobs[j].state = "succeeded"
            /\ rank >= 3 => parserRuns[r].completed >= 1
            /\ rank >= 4 => batch[r]

(* Database rows never point at files that are missing or half written:    *)
(* a manifest has its complete snapshot, a batch its complete records, and *)
(* a batch comes after a completed parser run of a recorded snapshot.      *)
RowsHaveTheirFiles ==
    \A r \in Jobs :
        /\ manifest[r] # Null => snapshotFile[r] = "complete"
        /\ batch[r] => /\ recordsFile[r] = "complete"
                       /\ parserRuns[r].completed >= 1
                       /\ manifest[r] # Null

(* "Restarting resumes ... without recreating a completed snapshot or      *)
(* batch": a manifest keeps its job, a batch stays, and a file that is     *)
(* complete is never opened again, whichever process comes later.          *)
CompletedArtifactsAreKept ==
    [][\A r \in Jobs :
        /\ manifest[r] # Null => manifest'[r] = manifest[r]
        /\ batch[r] => batch'[r]
        /\ snapshotFile[r] = "complete" => snapshotFile'[r] = "complete"
        /\ recordsFile[r] = "complete" => recordsFile'[r] = "complete"]_workerVars

(* A crawl run is completed only when its partition is, and only with its  *)
(* batch recorded.                                                         *)
CompletedRunIsWhole ==
    \A r \in Jobs :
        /\ crawlRun[r] = "completed" => partition[r] = "completed"
        /\ partition[r] = "completed" => batch[r] /\ crawlRun[r] \in {"running", "completed"}

(* The worker uses the queue only in ways the queue's own model allows.    *)
UsesQueue == Spec

(* What the rows and the files say that run r has reached. *)
Evidence(r) ==
    [discovered |-> Exists(r),
     fetched    |-> Exists(r) /\ jobs[r].state = "succeeded",
     snapshot   |-> snapshotFile[r] = "complete",
     manifest   |-> manifest[r] # Null,
     parsed     |-> parserRuns[r].completed >= 1,
     records    |-> recordsFile[r] = "complete",
     batch      |-> batch[r],
     started    |-> crawlRun[r] \in {"running", "completed"},
     opened     |-> partition[r] \in {"processing", "completed"},
     partition  |-> partition[r] = "completed",
     run        |-> crawlRun[r] = "completed"]

DoneOf ==
    [r \in Jobs |-> LET evidence == Evidence(r)
                    IN  {milestone \in DOMAIN evidence : evidence[milestone]}]

Course == INSTANCE RunCourse WITH Run <- Jobs, done <- DoneOf

(* The rows and the files of the runs follow the abstract course: however  *)
(* the processes are interleaved and interrupted, what a run has reached   *)
(* is reached in an order that makes sense, and never lost again.          *)
ImplementsCourse == Course!CourseSpec

(* A worker that is not interrupted brings every run to its end: the last  *)
(* checkpoint is reached, unless graceful shutdowns used up the attempts.  *)
EveryRunSettles ==
    \A p \in Process :
        <>(\/ checkpoint[RunOf[p]] = "completed"
           \/ Exists(RunOf[p]) /\ jobs[RunOf[p]].state = "failed_exhausted")

(* "Restarting resumes from the saved checkpoint": once the run's job has  *)
(* succeeded, restarts bring the run to its last checkpoint.               *)
RestartResumes ==
    \A r \in Jobs :
        (Exists(r) /\ jobs[r].state = "succeeded") ~> checkpoint[r] = "completed"

(* "A graceful shutdown returns an active lease to `pending`".             *)
ShutdownReturnsLease ==
    [][\A p \in Process :
        (pc[p] = "leased" /\ pc'[p] = "off" /\ result'[p] = "gracefully_stopped")
            => jobs'[held[p].job_id].state = "pending"]_workerVars

(* "Every discovered listing reaches a known terminal state": a run that   *)
(* reports completed has settled the job it discovered.                    *)
CompletedRunSettledItsJob ==
    \A r \in Jobs : checkpoint[r] = "completed" => jobs[r].state \in Terminal

=============================================================================
