------------------------ MODULE SyntheticWorkerProofs ------------------------
(***************************************************************************)
(* Theorems about SyntheticWorker, for any number of processes, runs,      *)
(* interruptions and graceful shutdowns, and with the shared worker name.  *)
(***************************************************************************)
EXTENDS SyntheticWorker, QueueHistoryProofs, FiniteSetTheorems

-----------------------------------------------------------------------------
(* The worker uses the queue as the queue's model allows.                  *)

(* What a process may do to the queue, other than to create a job. *)
CallsQueue(p) ==
    \/ UNCHANGED vars
    \/ RecoverAbandoned(p)
    \/ \E j \in Jobs, s \in LeaseSeconds : LeaseNext(p, j, s)
    \/ Succeed(p) \/ Fail(p) \/ FinishRejected(p)
    \/ CaptureNow(p) \/ Crash(p)

(* Every step that only reads, or writes another table or a file, leaves   *)
(* the queue's variables alone; the others are one action of the queue.    *)
LEMMA WorkerStepIsOneCall ==
    ASSUME NEW p \in Process, WorkerStep(p)
    PROVE  Discover(p) \/ CallsQueue(p)
<1>1. CASE Recover(p)
    BY <1>1 DEF Recover, queueVars, CallsQueue
<1>2. CASE GetRun(p) \/ CreateRun(p) \/ StartRun(p)
    BY <1>2 DEF GetRun, CreateRun, StartRun, WriteRun, queueVars, CallsQueue, vars
<1>3. CASE GetPartition(p) \/ CreatePartition(p) \/ StartPartition(p)
    BY <1>3 DEF GetPartition, CreatePartition, StartPartition, WritePartition,
                queueVars, CallsQueue, vars
<1>4. CASE LoadCheckpoint(p) \/ SaveQueued(p) \/ SaveSnapshot(p) \/ SaveParsed(p)
           \/ SaveBatch(p) \/ SaveCompleted(p)
    BY <1>4 DEF LoadCheckpoint, SaveQueued, SaveSnapshot, SaveParsed, SaveBatch,
                SaveCompleted, SaveCheckpoint, queueVars, CallsQueue, vars
<1>5. CASE Discover(p)
    BY <1>5
<1>6. CASE TakeLease(p)
    BY <1>6 DEF TakeLease, CallsQueue
<1>7. CASE MarkSucceeded(p)
    BY <1>7 DEF MarkSucceeded, CallsQueue
<1>8. CASE NoLease(p) \/ GetManifest(p) \/ RecordManifest(p)
    BY <1>8 DEF NoLease, GetManifest, RecordManifest, queueVars, CallsQueue, vars
<1>9. CASE SnapshotCheck(p) \/ SnapshotOpen(p) \/ SnapshotWrite(p)
    BY <1>9 DEF SnapshotCheck, SnapshotOpen, SnapshotWrite, WriteSnapshot,
                queueVars, CallsQueue, vars
<1>10. CASE ParserStart(p) \/ ParserComplete(p)
    BY <1>10 DEF ParserStart, ParserComplete, WriteParserRun, queueVars, CallsQueue, vars
<1>11. CASE GetBatch(p) \/ RecordsCheck(p) \/ RecordsOpen(p) \/ RecordsWrite(p) \/ RecordBatch(p)
    BY <1>11 DEF GetBatch, RecordsCheck, RecordsOpen, RecordsWrite, WriteRecords,
                 RecordBatch, queueVars, CallsQueue, vars
<1>12. CASE FinishRun(p) \/ CompletePartition(p) \/ CompleteRun(p)
    BY <1>12 DEF FinishRun, CompletePartition, CompleteRun, WriteRun, WritePartition,
                 queueVars, CallsQueue, vars
<1>13. CASE Raise(p)
    BY <1>13 DEF Raise, LetGo, queueVars, CallsQueue
<1>14. CASE LeaseLost(p)
    BY <1>14 DEF LeaseLost, CallsQueue
<1> QED BY <1>1, <1>2, <1>3, <1>4, <1>5, <1>6, <1>7, <1>8, <1>9, <1>10, <1>11,
           <1>12, <1>13, <1>14 DEF WorkerStep

(* So a step of a process is a step of the queue, or none. *)
LEMMA WorkerStepOnQueue ==
    ASSUME Instant \subseteq ScheduleTimes, TypeOK,
           NEW p \in Process, WorkerStep(p)
    PROVE  [Next]_vars
<1>1. CASE Discover(p)
    <2>1. RunOf[p] \in Jobs /\ current[p] \in ScheduleTimes
        BY WorkerAssumption DEF TypeOK
    <2>2. CreateIdempotent(RunOf[p], current[p])
        BY <1>1 DEF Discover
    <2> QED BY <2>1, <2>2 DEF Next
<1>2. CASE CallsQueue(p)
    BY <1>2 DEF CallsQueue, Next
<1> QED BY <1>1, <1>2, WorkerStepIsOneCall

(* Every step of a worker is a step of the queue, or none. *)
LEMMA WorkerNextOnQueue ==
    ASSUME Instant \subseteq ScheduleTimes
    PROVE  TypeOK /\ [WorkerNext]_workerVars => [Next]_vars
<1> SUFFICES ASSUME TypeOK, [WorkerNext]_workerVars PROVE [Next]_vars
    OBVIOUS
<1>1. CASE WorkerTick
    BY <1>1 DEF WorkerTick, Next
<1>2. ASSUME NEW p \in Process, Start(p)
      PROVE  [Next]_vars
    BY <1>2 DEF Start, Next
<1>3. ASSUME NEW p \in Process, WorkerStep(p)
      PROVE  [Next]_vars
    BY <1>3, WorkerStepOnQueue
<1>4. ASSUME NEW p \in Process, GracefulShutdown(p)
      PROVE  [Next]_vars
    BY <1>4 DEF GracefulShutdown, Next
<1>5. ASSUME NEW p \in Process, Interrupt(p)
      PROVE  [Next]_vars
    BY <1>5 DEF Interrupt, LetGo, Next, queueVars
<1>6. CASE UNCHANGED workerVars
    BY <1>6 DEF workerVars, vars
<1> QED BY <1>1, <1>2, <1>3, <1>4, <1>5, <1>6 DEF WorkerNext

(* The worker's queue is the queue of DetailFetchQueue: whatever is proved *)
(* of that holds of the tables the workers leave behind.                   *)
THEOREM WorkerUsesQueue ==
    ASSUME Instant \subseteq ScheduleTimes
    PROVE  WorkerSpec => UsesQueue
<1>1. WorkerInit => Init
    BY DEF WorkerInit
<1>2. TypeOK /\ [WorkerNext]_workerVars => [Next]_vars
    BY WorkerNextOnQueue
<1> QED BY <1>1, <1>2, TypeInit, TypeNext, PTL DEF WorkerSpec, UsesQueue, Spec

(* So the tables that workers of one name leave behind agree with each     *)
(* other, retries are bounded, and no attempt is given out twice.          *)
THEOREM WorkersKeepTheQueueSound ==
    ASSUME Instant \subseteq ScheduleTimes
    PROVE  WorkerSpec => [](/\ LedgerAgrees /\ LeaseFieldsAgree /\ RetryBound
                            /\ AttemptsInTextOrder /\ LeaseIsExclusive)
BY WorkerUsesQueue, TablesCorrect, LeasesAreExclusive, PTL DEF UsesQueue

-----------------------------------------------------------------------------
(* The worker's own tables and files.                                      *)

(* The types of the worker's variables, but for the count of parser runs   *)
(* that are running: that one never gets below zero needs an argument.     *)
ShapeOK ==
    /\ crawlRun \in [Jobs -> {Null, "created", "running", "completed"}]
    /\ partition \in [Jobs -> {Null, "pending", "processing", "completed"}]
    /\ checkpoint \in [Jobs -> Checkpoint \cup {Null}]
    /\ manifest \in [Jobs -> Jobs \cup {Null}]
    /\ parserRuns \in [Jobs -> [running : Int, completed : Nat]]
    /\ batch \in [Jobs -> BOOLEAN]
    /\ snapshotFile \in [Jobs -> FileState]
    /\ recordsFile \in [Jobs -> FileState]
    /\ pc \in [Process -> Step]
    /\ result \in [Process -> RunResult]
    /\ crashes \in 0 .. MaxCrashes

(* Nothing that run r has reached is undone. *)
KeptOf(r) ==
    /\ manifest[r] # Null => manifest'[r] = manifest[r]
    /\ parserRuns[r].completed >= 1 => parserRuns'[r].completed >= 1
    /\ batch[r] => batch'[r]
    /\ snapshotFile[r] = "complete" => snapshotFile'[r] = "complete"
    /\ recordsFile[r] = "complete" => recordsFile'[r] = "complete"
    /\ partition[r] = "completed" => partition'[r] = "completed"
    /\ crawlRun[r] \in {"running", "completed"}
        => crawlRun'[r] \in {"running", "completed"}

(* A step of process p leaves the others where they are, with what they    *)
(* hold.                                                                   *)
OthersStay(p) ==
    \A q \in Process \ {p} : pc'[q] = pc[q] /\ held'[q] = held[q]

(* The writers of a table or a file, each for all the steps that use it.   *)
LEMMA RunWrite ==
    ASSUME ShapeOK, NEW p \in Process, NEW from, NEW expected,
           NEW target \in {"created", "running", "completed"}, NEW to \in Step,
           expected \in {"running", "completed"} => target \in {"running", "completed"},
           WriteRun(p, from, expected, target, to)
    PROVE  ShapeOK' /\ OthersStay(p) /\ \A r \in Jobs : KeptOf(r)
<1>1. /\ pc' = [pc EXCEPT ![p] = to] /\ held' = held
      /\ crawlRun[RunOf[p]] = expected
      /\ crawlRun' = [crawlRun EXCEPT ![RunOf[p]] = target]
      /\ UNCHANGED <<partition, checkpoint, manifest, parserRuns, batch,
                     snapshotFile, recordsFile, result, crashes>>
    BY DEF WriteRun, Goto, queueVars, vars
<1>2. RunOf[p] \in Jobs
    BY WorkerAssumption
<1>3. ShapeOK'
    BY <1>1, <1>2 DEF ShapeOK
<1>4. ASSUME NEW r \in Jobs
      PROVE  crawlRun'[r] = IF r = RunOf[p] THEN target ELSE crawlRun[r]
    BY <1>1 DEF ShapeOK
<1>5. ASSUME NEW r \in Jobs
      PROVE  KeptOf(r)
    BY <1>1, <1>4, <1>5 DEF KeptOf
<1>6. OthersStay(p)
    BY <1>1 DEF OthersStay, ShapeOK
<1> QED BY <1>3, <1>5, <1>6

LEMMA PartitionWrite ==
    ASSUME ShapeOK, NEW p \in Process, NEW from, NEW expected,
           NEW target \in {"pending", "processing", "completed"}, NEW to \in Step,
           expected = "completed" => target = "completed",
           WritePartition(p, from, expected, target, to)
    PROVE  ShapeOK' /\ OthersStay(p) /\ \A r \in Jobs : KeptOf(r)
<1>1. /\ pc' = [pc EXCEPT ![p] = to] /\ held' = held
      /\ partition[RunOf[p]] = expected
      /\ partition' = [partition EXCEPT ![RunOf[p]] = target]
      /\ UNCHANGED <<crawlRun, checkpoint, manifest, parserRuns, batch,
                     snapshotFile, recordsFile, result, crashes>>
    BY DEF WritePartition, Goto, queueVars, vars
<1>2. RunOf[p] \in Jobs
    BY WorkerAssumption
<1>3. ShapeOK'
    BY <1>1, <1>2 DEF ShapeOK
<1>4. ASSUME NEW r \in Jobs
      PROVE  partition'[r] = IF r = RunOf[p] THEN target ELSE partition[r]
    BY <1>1 DEF ShapeOK
<1>5. ASSUME NEW r \in Jobs
      PROVE  KeptOf(r)
    BY <1>1, <1>4, <1>5 DEF KeptOf
<1>6. OthersStay(p)
    BY <1>1 DEF OthersStay, ShapeOK
<1> QED BY <1>3, <1>5, <1>6

LEMMA SnapshotFileWrite ==
    ASSUME ShapeOK, NEW p \in Process, NEW from, NEW expected,
           NEW target \in FileState, NEW to \in Step,
           "complete" \in expected => target = "complete",
           WriteSnapshot(p, from, expected, target, to)
    PROVE  ShapeOK' /\ OthersStay(p) /\ \A r \in Jobs : KeptOf(r)
<1>1. /\ pc' = [pc EXCEPT ![p] = to] /\ held' = held
      /\ snapshotFile[RunOf[p]] \in expected
      /\ snapshotFile' = [snapshotFile EXCEPT ![RunOf[p]] = target]
      /\ UNCHANGED <<crawlRun, partition, checkpoint, manifest, parserRuns, batch,
                     recordsFile, result, crashes>>
    BY DEF WriteSnapshot, Goto, queueVars, vars
<1>2. RunOf[p] \in Jobs
    BY WorkerAssumption
<1>3. ShapeOK'
    BY <1>1, <1>2 DEF ShapeOK
<1>4. ASSUME NEW r \in Jobs
      PROVE  snapshotFile'[r] = IF r = RunOf[p] THEN target ELSE snapshotFile[r]
    BY <1>1 DEF ShapeOK
<1>5. ASSUME NEW r \in Jobs
      PROVE  KeptOf(r)
    BY <1>1, <1>4, <1>5 DEF KeptOf
<1>6. OthersStay(p)
    BY <1>1 DEF OthersStay, ShapeOK
<1> QED BY <1>3, <1>5, <1>6

(* A parser run is started, or one that is running is completed.           *)
Counting(row, started, finished) ==
    [running |-> row.running + started - finished,
     completed |-> row.completed + finished]

LEMMA ParserRunWrite ==
    ASSUME ShapeOK, NEW p \in Process, NEW from, NEW to \in Step,
           NEW started \in 0 .. 1, NEW finished \in 0 .. 1,
           WriteParserRun(p, from, started, finished, to)
    PROVE  /\ ShapeOK' /\ OthersStay(p) /\ \A r \in Jobs : KeptOf(r)
           /\ \A r \in Jobs : parserRuns'[r] =
                IF r = RunOf[p]
                THEN Counting(parserRuns[r], started, finished)
                ELSE parserRuns[r]
<1>1. /\ pc' = [pc EXCEPT ![p] = to] /\ held' = held
      /\ parserRuns' = [parserRuns EXCEPT
            ![RunOf[p]].running = @ + started - finished,
            ![RunOf[p]].completed = @ + finished]
      /\ UNCHANGED <<crawlRun, partition, checkpoint, manifest, batch,
                     snapshotFile, recordsFile, result, crashes>>
    BY DEF WriteParserRun, Goto, queueVars, vars
<1>2. RunOf[p] \in Jobs
    BY WorkerAssumption
<1>3. parserRuns \in [Jobs -> [running : Int, completed : Nat]]
    BY DEF ShapeOK
<1>4. ASSUME NEW r \in Jobs
      PROVE  parserRuns'[r] =
                IF r = RunOf[p]
                THEN Counting(parserRuns[r], started, finished)
                ELSE parserRuns[r]
    BY <1>1, <1>2, <1>3 DEF Counting
<1>5. ASSUME NEW r \in Jobs
      PROVE  /\ parserRuns'[r] \in [running : Int, completed : Nat]
             /\ parserRuns[r].completed >= 1 => parserRuns'[r].completed >= 1
    <2>1. PICK i \in Int, c \in Nat : parserRuns[r] = [running |-> i, completed |-> c]
        BY <1>3
    <2>2. i + started - finished \in Int /\ c + finished \in Nat /\ (c >= 1 => c + finished >= 1)
        OBVIOUS
    <2>3. CASE r = RunOf[p]
        <3>1. parserRuns'[r] = [running |-> i + started - finished,
                                completed |-> c + finished]
            <4>1. parserRuns'[r] = Counting(parserRuns[r], started, finished)
                BY <1>4, <2>3
            <4> QED BY <4>1, <2>1 DEF Counting
        <3> QED BY <2>1, <2>2, <3>1
    <2>4. CASE r # RunOf[p]
        <3>1. parserRuns'[r] = parserRuns[r]
            BY <1>4, <2>4
        <3> QED BY <2>1, <3>1
    <2> QED BY <2>3, <2>4
<1>6. parserRuns' \in [Jobs -> [running : Int, completed : Nat]]
    BY <1>1, <1>3, <1>5
<1>7. ShapeOK'
    BY <1>1, <1>6 DEF ShapeOK
<1>8. ASSUME NEW r \in Jobs
      PROVE  KeptOf(r)
    BY <1>1, <1>5, <1>8 DEF KeptOf
<1>9. OthersStay(p)
    BY <1>1 DEF OthersStay, ShapeOK
<1> QED BY <1>4, <1>7, <1>8, <1>9

(* What one step of a process does to the worker's variables. *)
LEMMA ShapeStep ==
    ASSUME ShapeOK, TypeOK, NEW p \in Process,
           pc[p] = "record_manifest" => held[p] # Null,
           Start(p) \/ WorkerStep(p) \/ GracefulShutdown(p) \/ Interrupt(p)
    PROVE  ShapeOK' /\ OthersStay(p) /\ \A r \in Jobs : KeptOf(r)
<1>r. RunOf[p] \in Jobs
    BY WorkerAssumption
<1>held. ASSUME UNCHANGED queueVars \/ Crash(p)
         PROVE  \A q \in Process \ {p} : held'[q] = held[q]
    BY <1>held DEF queueVars, vars, Crash, TypeOK
<1>1. CASE Start(p)
    BY <1>1 DEF Start, Goto, CaptureNow, durable, ShapeOK, OthersStay, KeptOf, Step
<1>2. CASE Interrupt(p)
    <2>1. UNCHANGED queueVars \/ Crash(p)
        BY <1>2 DEF Interrupt, LetGo
    <2>2. crashes' \in 0 .. MaxCrashes
        BY <1>2, WorkerAssumption DEF Interrupt, ShapeOK
    <2> QED BY <1>2, <1>held, <2>1, <2>2
            DEF Interrupt, durable, ShapeOK, OthersStay, KeptOf, Step
<1>3. CASE GracefulShutdown(p) \/ LeaseLost(p)
    BY <1>3 DEF GracefulShutdown, LeaseLost, Fail, Finish, FinishRejected, Return,
                durable, ShapeOK, OthersStay, KeptOf, Step, RunResult, TypeOK
<1>4. CASE Recover(p) \/ Discover(p)
    <2>1. held' = held
        BY <1>4 DEF Recover, Discover, RecoverAbandoned, CreateIdempotent, queueVars, vars
    <2> QED BY <1>4, <2>1 DEF Recover, Discover, Goto, durable, ShapeOK, OthersStay,
                              KeptOf, Step
<1>5. CASE GetRun(p) \/ GetPartition(p) \/ GetManifest(p) \/ GetBatch(p)
           \/ FinishRun(p) \/ SnapshotCheck(p) \/ RecordsCheck(p)
    BY <1>5, <1>r DEF GetRun, GetPartition, GetManifest, GetBatch, FinishRun, SnapshotCheck,
                RecordsCheck, Goto, queueVars, vars, durable, ShapeOK, OthersStay,
                KeptOf, Step
<1>6. CASE CreateRun(p) \/ StartRun(p) \/ CompleteRun(p)
    <2>1. Null \notin {"running", "completed"}
        BY WorkerNullAssumption DEF Checkpoint
    <2>2. {"start_run", "get_partition", "save_completed"} \subseteq Step
        BY DEF Step
    <2> QED BY <1>6, <2>1, <2>2, RunWrite DEF CreateRun, StartRun, CompleteRun
<1>7. CASE CreatePartition(p) \/ StartPartition(p) \/ CompletePartition(p)
    <2>1. Null # "completed"
        BY WorkerNullAssumption DEF Checkpoint
    <2>2. {"get_partition", "load_checkpoint", "complete_run"} \subseteq Step
        BY DEF Step
    <2> QED BY <1>7, <2>1, <2>2, PartitionWrite
            DEF CreatePartition, StartPartition, CompletePartition
<1>8. CASE LoadCheckpoint(p)
    <2>1. pc' \in [Process -> Step] /\ result' \in [Process -> RunResult]
          /\ UNCHANGED crashes /\ \A q \in Process \ {p} : pc'[q] = pc[q]
        <3>1. CASE checkpoint[RunOf[p]] = "completed"
            BY <1>8, <3>1 DEF LoadCheckpoint, Return, ShapeOK, Step, RunResult
        <3>2. CASE checkpoint[RunOf[p]] # "completed"
            <4>1. ResumeAt(checkpoint[RunOf[p]]) \in Step
                BY <1>r, <3>2 DEF ResumeAt, ShapeOK, Checkpoint, Step
            <4> QED BY <1>8, <3>2, <4>1 DEF LoadCheckpoint, Goto, ShapeOK
        <3> QED BY <3>1, <3>2
    <2> QED BY <1>8, <2>1 DEF LoadCheckpoint, queueVars, vars, durable, ShapeOK,
                              OthersStay, KeptOf
<1>9. CASE SaveQueued(p) \/ SaveSnapshot(p) \/ SaveParsed(p) \/ SaveBatch(p)
    BY <1>9, <1>r DEF SaveQueued, SaveSnapshot, SaveParsed, SaveBatch, SaveCheckpoint,
           Goto, queueVars, vars, ShapeOK, OthersStay, KeptOf, Step, Checkpoint
<1>10. CASE SaveCompleted(p)
    BY <1>10, <1>r DEF SaveCompleted, Return, queueVars, vars, ShapeOK, OthersStay,
           KeptOf, Step, Checkpoint, RunResult
<1>11. CASE TakeLease(p)
    BY <1>11 DEF TakeLease, LeaseNext, Goto, durable, ShapeOK, OthersStay, KeptOf, Step,
                 TypeOK
<1>12. CASE NoLease(p)
    BY <1>12 DEF NoLease, Return, queueVars, vars, durable, ShapeOK, OthersStay, KeptOf,
                 Step, RunResult
<1>13. CASE SnapshotOpen(p) \/ SnapshotWrite(p)
    <2>1. {"snapshot_write", "get_manifest"} \subseteq Step
          /\ {"partial", "complete"} \subseteq FileState
        BY DEF Step, FileState
    <2> QED BY <1>13, <2>1, SnapshotFileWrite DEF SnapshotOpen, SnapshotWrite
<1>14. CASE RecordManifest(p)
    <2>1. held[p].job_id \in Jobs
        BY <1>14 DEF RecordManifest, Goto, TypeOK, JobLease
    <2> QED BY <1>14, <1>r, <2>1 DEF RecordManifest, Goto, queueVars, vars, ShapeOK,
               OthersStay, KeptOf, Step
<1>15. CASE MarkSucceeded(p)
    BY <1>15 DEF MarkSucceeded, Succeed, Finish, Goto, durable, ShapeOK, OthersStay,
                 KeptOf, Step, TypeOK
<1>16. CASE ParserStart(p) \/ ParserComplete(p)
    <2>1. {"parser_complete", "save_parsed"} \subseteq Step
        BY DEF Step
    <2> QED BY <1>16, <2>1, ParserRunWrite DEF ParserStart, ParserComplete
<1>17. CASE RecordsOpen(p) \/ RecordsWrite(p)
    BY <1>17, <1>r DEF RecordsOpen, RecordsWrite, WriteRecords, Goto, queueVars, vars,
           ShapeOK, OthersStay, KeptOf, Step, FileState
<1>18. CASE RecordBatch(p)
    BY <1>18, <1>r DEF RecordBatch, Goto, queueVars, vars, ShapeOK, OthersStay, KeptOf,
           Step
<1>19. CASE Raise(p)
    <2>1. UNCHANGED queueVars \/ Crash(p)
        BY <1>19 DEF Raise, LetGo
    <2> QED BY <1>19, <1>held, <2>1 DEF Raise, Return, durable, ShapeOK, OthersStay,
               KeptOf, Step, RunResult
<1> QED BY <1>1, <1>2, <1>3, <1>4, <1>5, <1>6, <1>7, <1>8, <1>9, <1>10, <1>11, <1>12,
           <1>13, <1>14, <1>15, <1>16, <1>17, <1>18, <1>19 DEF WorkerStep

-----------------------------------------------------------------------------
(* The inductive invariant.  RowOK says what the rows and files of a run   *)
(* promise each other; PlaceOK what a process may rely on at each step:    *)
(* what the checkpoint it resumed from, or the steps since, have left.     *)

Succeeded == \E j \in Jobs : Exists(j) /\ jobs[j].state = "succeeded"

(* What a checkpoint of the given rank promises of run r. *)
Promised(r, rank) ==
    /\ rank >= 1 => Exists(r)
    /\ rank >= 2 => manifest[r] # Null /\ Succeeded
    /\ rank >= 3 => parserRuns[r].completed >= 1
    /\ rank >= 4 => batch[r]

LeaseStep == {"leased", "snapshot_open", "snapshot_write", "get_manifest",
              "record_manifest", "succeed"}

(* The rank of the checkpoint that a step comes after, or writes next. *)
Reached(step) ==
    IF step \in {"save_queued", "lease", "save_snapshot"} \cup LeaseStep
    THEN 1
    ELSE IF step \in {"parser_start", "parser_complete"}
    THEN 2
    ELSE IF step \in {"save_parsed", "get_batch", "records_check", "records_open",
                      "records_write", "record_batch"}
    THEN 3
    ELSE IF step \in {"save_batch", "finish", "complete_partition", "complete_run",
                      "save_completed"}
    THEN 4
    ELSE 0

PlaceOK(p) ==
    LET r == RunOf[p]
    IN  /\ Promised(r, Reached(pc[p]))
        /\ pc[p] \in LeaseStep => held[p] # Null
        /\ pc[p] \in {"get_manifest", "record_manifest"} => snapshotFile[r] = "complete"
        /\ pc[p] \in {"succeed", "save_snapshot"} => manifest[r] # Null
        /\ pc[p] = "save_snapshot" => Succeeded
        /\ pc[p] = "record_batch" => recordsFile[r] = "complete"
        /\ pc[p] = "complete_partition" => crawlRun[r] \in {"running", "completed"}
        /\ pc[p] = "complete_run" => partition[r] = "completed"

RowOK(r) ==
    /\ Promised(r, Rank(checkpoint[r]))
    /\ manifest[r] # Null => snapshotFile[r] = "complete"
    /\ batch[r] => /\ recordsFile[r] = "complete"
                   /\ parserRuns[r].completed >= 1
                   /\ manifest[r] # Null
    /\ crawlRun[r] = "completed" => partition[r] = "completed"
    /\ partition[r] = "completed" => batch[r] /\ crawlRun[r] \in {"running", "completed"}

PlacesOK == \A p \in Process : PlaceOK(p)
RowsOK == \A r \in Jobs : RowOK(r)

(* A step undoes nothing, in the queue or in the worker's tables. *)
Keeps ==
    /\ \A r \in Jobs : Exists(r) => Exists(r)'
    /\ Succeeded => Succeeded'
    /\ \A r \in Jobs : KeptOf(r)

(* The queue never loses a job or the success of one. *)
LEMMA JobsAreKept ==
    ASSUME TypeOK, TablesInv, [Next]_vars
    PROVE  (\A r \in Jobs : Exists(r) => Exists(r)') /\ (Succeeded => Succeeded')
<1>1. ASSUME NEW r \in Jobs, Exists(r)
      PROVE  Exists(r)'
    <2>1. jobs[r] \in JobRow
        BY <1>1, TableTypes DEF Exists
    <2>2. Null \notin JobRow
        BY NullAssumption
    <2>3. ASSUME NEW q \in Process, NEW s \in LeaseSeconds
          PROVE  LeasedRow(jobs[r], WorkerId[q], PlusSeconds(current[q], s)) # Null
        <3>1. current[q] \in Instant /\ WorkerId[q] \in WorkerName /\ s \in Nat
            BY QueueAssumption DEF TypeOK
        <3>2. PlusSeconds(current[q], s) \in Instant
            BY <3>1, PlusSecondsType
        <3> QED BY <2>1, <2>2, <3>1, <3>2, LeasedRowType
    <2>4. ASSUME NEW q \in Process, NEW state \in {"pending", "succeeded", "failed_exhausted"}
          PROVE  ReleasedRow(jobs[r], state, current[q]) # Null
        BY <2>1, <2>2, ReleasedRowType DEF TypeOK
    <2> QED BY <1>1, <2>3, <2>4, StepEffect DEF Exists
<1>2. ASSUME NEW j \in Jobs, Exists(j), jobs[j].state = "succeeded"
      PROVE  Exists(j)' /\ jobs'[j].state = "succeeded"
    <2>1. jobs'[j] = jobs[j]
        BY <1>2, StepEffect DEF Exists, IsProcessing
    <2> QED BY <1>2, <2>1 DEF Exists
<1> QED BY <1>1, <1>2 DEF Succeeded

(* What was promised stays promised. *)
LEMMA PromiseKept ==
    ASSUME Keeps, NEW r \in Jobs, NEW rank \in 0 .. 5, Promised(r, rank)
    PROVE  Promised(r, rank)'
BY DEF Keeps, Promised, KeptOf

LEMMA ReachedType ==
    ASSUME NEW step
    PROVE  Reached(step) \in 0 .. 5
BY DEF Reached

LEMMA RankType ==
    /\ Rank(Null) = 0 /\ Rank("queued") = 1 /\ Rank("snapshot-recorded") = 2
    /\ Rank("parser-completed") = 3 /\ Rank("batch-recorded") = 4
    /\ Rank("completed") = 5
    /\ \A value \in Checkpoint \cup {Null} : Rank(value) \in 0 .. 5
<1>1. Null \notin Checkpoint
    BY WorkerNullAssumption
<1> QED BY <1>1 DEF Rank, Checkpoint

(* A process that a step leaves where it is can go on relying on the same. *)
LEMMA PlaceKept ==
    ASSUME Keeps, NEW q \in Process, PlaceOK(q), pc'[q] = pc[q], held'[q] = held[q]
    PROVE  PlaceOK(q)'
<1>1. RunOf[q] \in Jobs
    BY WorkerAssumption
<1>2. KeptOf(RunOf[q]) /\ (Succeeded => Succeeded')
    BY <1>1 DEF Keeps
<1>3. Promised(RunOf[q], Reached(pc[q]))'
    <2>1. PICK rank \in 0 .. 5 : rank = Reached(pc[q])
        BY ReachedType
    <2>2. Promised(RunOf[q], rank)'
        BY <1>1, <2>1, PromiseKept DEF PlaceOK
    <2>3. Reached(pc[q])' = rank
        BY <2>1
    <2> QED BY <2>2, <2>3 DEF Promised
<1> QED BY <1>2, <1>3 DEF PlaceOK, KeptOf

(* Rows in which nothing is added keep their promises. *)
LEMMA RowKept ==
    ASSUME Keeps, ShapeOK, NEW r \in Jobs, RowOK(r),
           checkpoint'[r] = checkpoint[r], manifest'[r] = manifest[r],
           batch'[r] = batch[r], partition'[r] = partition[r],
           crawlRun'[r] = crawlRun[r] \/ crawlRun'[r] # "completed"
    PROVE  RowOK(r)'
<1>1. Promised(r, Rank(checkpoint[r]))'
    <2>1. PICK rank \in 0 .. 5 : rank = Rank(checkpoint[r])
        BY RankType DEF ShapeOK
    <2>2. Promised(r, rank)'
        BY <2>1, PromiseKept DEF RowOK
    <2>3. Rank(checkpoint[r])' = rank
        BY <2>1 DEF Rank
    <2> QED BY <2>2, <2>3 DEF Promised
<1>2. KeptOf(r)
    BY DEF Keeps
<1> QED BY <1>1, <1>2 DEF RowOK, KeptOf

(* The steps that a process may take without relying on anything. *)
FreeStep == {"off", "recover", "get_run", "create_run", "start_run",
             "get_partition", "create_partition", "start_partition",
             "load_checkpoint", "discover"}

LEMMA FreePlace ==
    ASSUME NEW p \in Process, pc'[p] \in FreeStep
    PROVE  PlaceOK(p)'
<1>1. Reached(pc'[p]) = 0
    BY DEF Reached, FreeStep, LeaseStep
<1>2. Reached(pc[p])' = 0
    BY <1>1 DEF Reached
<1> QED BY <1>2 DEF PlaceOK, Promised, FreeStep, LeaseStep

(* The process that takes a step finds what the next one relies on.        *)
LEMMA PlaceStep ==
    ASSUME ShapeOK, TypeOK, Keeps, NEW p \in Process, PlaceOK(p), RowsOK,
           Start(p) \/ WorkerStep(p) \/ GracefulShutdown(p) \/ Interrupt(p)
    PROVE  PlaceOK(p)'
<1> DEFINE r == RunOf[p]
<1>r. r \in Jobs
    BY WorkerAssumption
<1>pc. pc \in [Process -> Step]
    BY DEF ShapeOK
<1>kept. /\ KeptOf(r) /\ (Succeeded => Succeeded') /\ (Exists(r) => Exists(r)')
         /\ RowOK(r)
    BY <1>r DEF Keeps, RowsOK
<1>1. CASE \/ Start(p) \/ Recover(p) \/ GetRun(p) \/ CreateRun(p) \/ StartRun(p)
           \/ GetPartition(p) \/ CreatePartition(p) \/ StartPartition(p)
    BY <1>1, <1>pc, FreePlace
       DEF Start, Recover, GetRun, CreateRun, StartRun, WriteRun, GetPartition,
           CreatePartition, StartPartition, WritePartition, Goto, FreeStep
<1>2. CASE \/ Interrupt(p) \/ GracefulShutdown(p) \/ LeaseLost(p) \/ Raise(p)
           \/ NoLease(p) \/ SaveCompleted(p)
    BY <1>2, <1>pc, FreePlace
       DEF Interrupt, GracefulShutdown, LeaseLost, Raise, NoLease, SaveCompleted, Return,
           FreeStep
<1>3. CASE LoadCheckpoint(p)
    <2>1. CASE checkpoint[r] = "completed"
        BY <1>3, <1>pc, <2>1, FreePlace DEF LoadCheckpoint, Return, FreeStep
    <2>2. CASE checkpoint[r] # "completed"
        <3>1. Promised(r, Rank(checkpoint[r]))
            BY <1>kept DEF RowOK
        <3>2. pc'[p] = ResumeAt(checkpoint[r])
            BY <1>3, <1>pc, <2>2 DEF LoadCheckpoint, Goto
        <3>3. checkpoint[r] \in Checkpoint \cup {Null} /\ Null \notin Checkpoint
            BY <1>r, WorkerNullAssumption DEF ShapeOK
        <3>4. CASE checkpoint[r] = Null
            <4>1. pc'[p] = "discover"
                BY <3>2, <3>3, <3>4 DEF ResumeAt, Checkpoint
            <4> QED BY <4>1, FreePlace DEF FreeStep
        <3>5. CASE checkpoint[r] = "queued"
            <4>1. pc'[p] = "lease" /\ Promised(r, 1)
                BY <3>1, <3>2, <3>3, <3>5, RankType DEF ResumeAt, Checkpoint
            <4> QED BY <4>1, <1>kept DEF PlaceOK, Promised, Reached, LeaseStep, KeptOf
        <3>6. CASE checkpoint[r] = "snapshot-recorded"
            <4>1. pc'[p] = "parser_start" /\ Promised(r, 2)
                BY <3>1, <3>2, <3>3, <3>6, RankType DEF ResumeAt, Checkpoint
            <4> QED BY <4>1, <1>kept DEF PlaceOK, Promised, Reached, LeaseStep, KeptOf
        <3>7. CASE checkpoint[r] = "parser-completed"
            <4>1. pc'[p] = "get_batch" /\ Promised(r, 3)
                BY <3>1, <3>2, <3>3, <3>7, RankType DEF ResumeAt, Checkpoint
            <4> QED BY <4>1, <1>kept DEF PlaceOK, Promised, Reached, LeaseStep, KeptOf
        <3>8. CASE checkpoint[r] = "batch-recorded"
            <4>1. pc'[p] = "finish" /\ Promised(r, 4)
                BY <3>1, <3>2, <3>3, <3>8, RankType DEF ResumeAt, Checkpoint
            <4> QED BY <4>1, <1>kept DEF PlaceOK, Promised, Reached, LeaseStep, KeptOf
        <3> QED BY <2>2, <3>3, <3>4, <3>5, <3>6, <3>7, <3>8 DEF Checkpoint
    <2> QED BY <2>1, <2>2
<1>4. CASE Discover(p)
    <2>1. pc'[p] = "save_queued"
        BY <1>4, <1>pc DEF Discover, Goto
    <2>2. jobs'[r] = CreatedRow(jobs[r], current[p])
        BY <1>4, <1>r DEF Discover, CreateIdempotent, TypeOK
    <2>3. CreatedRow(jobs[r], current[p]) \in JobRow /\ Null \notin JobRow
        BY <1>r, CreatedRowType, NullAssumption DEF TypeOK
    <2>4. Exists(r)'
        BY <2>2, <2>3 DEF Exists
    <2> QED BY <2>1, <2>4 DEF PlaceOK, Promised, Reached, LeaseStep
<1>5. CASE SaveQueued(p) \/ SaveSnapshot(p) \/ SaveParsed(p) \/ SaveBatch(p)
    <2>1. \/ pc[p] = "save_queued" /\ pc'[p] = "lease"
          \/ pc[p] = "save_snapshot" /\ pc'[p] = "parser_start"
          \/ pc[p] = "save_parsed" /\ pc'[p] = "get_batch"
          \/ pc[p] = "save_batch" /\ pc'[p] = "finish"
        BY <1>5, <1>pc DEF SaveQueued, SaveSnapshot, SaveParsed, SaveBatch,
                           SaveCheckpoint, Goto
    <2> QED BY <2>1, <1>kept DEF PlaceOK, Promised, Reached, LeaseStep, KeptOf
<1>6. CASE TakeLease(p)
    <2>1. pc[p] = "lease" /\ pc'[p] = "leased"
        BY <1>6, <1>pc DEF TakeLease, Goto
    <2>2. held'[p] # Null
        <3>1. PICK j \in Jobs, s \in LeaseSeconds : LeaseNext(p, j, s)
            BY <1>6 DEF TakeLease
        <3>2. held'[p] = [job_id |-> j, attempt_number |-> jobs[j].attempt_count + 1]
            BY <3>1 DEF LeaseNext, TypeOK
        <3>3. jobs[j].attempt_count + 1 \in AttemptNumber
            BY <3>1, LeaseNumber DEF LeaseNext
        <3> QED BY <3>2, <3>3, NullAssumption DEF JobLease
    <2> QED BY <2>1, <2>2, <1>kept DEF PlaceOK, Promised, Reached, LeaseStep, KeptOf
<1>7. CASE SnapshotCheck(p) \/ SnapshotOpen(p) \/ SnapshotWrite(p)
    <2>1. \/ /\ pc[p] = "leased" /\ snapshotFile' = snapshotFile
             /\ \/ pc'[p] = "snapshot_open"
                \/ pc'[p] = "get_manifest" /\ snapshotFile[r] = "complete"
          \/ pc[p] = "snapshot_open" /\ pc'[p] = "snapshot_write"
          \/ /\ pc[p] = "snapshot_write" /\ pc'[p] = "get_manifest"
             /\ snapshotFile'[r] = "complete"
        <3>1. snapshotFile \in [Jobs -> FileState]
            BY DEF ShapeOK
        <3> QED BY <1>7, <1>pc, <1>r, <3>1
                DEF SnapshotCheck, SnapshotOpen, SnapshotWrite, WriteSnapshot, Goto,
                    FileState, durable
    <2>2. held' = held
        BY <1>7 DEF SnapshotCheck, SnapshotOpen, SnapshotWrite, WriteSnapshot, queueVars, vars
    <2> QED BY <2>1, <2>2, <1>kept DEF PlaceOK, Promised, Reached, LeaseStep, KeptOf
<1>8. CASE GetManifest(p) \/ RecordManifest(p)
    <2>1. \/ /\ pc[p] = "get_manifest" /\ manifest' = manifest
             /\ \/ pc'[p] = "record_manifest"
                \/ pc'[p] = "succeed" /\ manifest[r] # Null
          \/ pc[p] = "record_manifest" /\ pc'[p] = "succeed" /\ manifest'[r] = held[p].job_id
        BY <1>8, <1>pc, <1>r DEF GetManifest, RecordManifest, Goto, durable, ShapeOK
    <2>2. held' = held
        BY <1>8 DEF GetManifest, RecordManifest, queueVars, vars
    <2>3. pc[p] = "record_manifest" => held[p].job_id # Null
        BY WorkerNullAssumption DEF PlaceOK, LeaseStep, TypeOK, JobLease
    <2> QED BY <2>1, <2>2, <2>3, <1>kept DEF PlaceOK, Promised, Reached, LeaseStep, KeptOf
<1>9. CASE MarkSucceeded(p)
    <2>1. pc[p] = "succeed" /\ pc'[p] = "save_snapshot"
        BY <1>9, <1>pc DEF MarkSucceeded, Goto
    <2>2. Succeeded'
        <3>1. /\ held[p] # Null /\ OwnsLease(p, held[p].job_id)
              /\ Finish(p, "succeeded", "succeeded")
            BY <1>9 DEF MarkSucceeded, Succeed
        <3>2. PICK j \in Jobs : j = held[p].job_id
            BY <3>1 DEF TypeOK, JobLease
        <3>3. jobs[j] \in JobRow
            BY <3>1, <3>2, TableTypes DEF OwnsLease
        <3>4. jobs'[j] = ReleasedRow(jobs[j], "succeeded", current[p])
            BY <3>1, <3>2, FinishEffect
        <3>5. jobs'[j] \in JobRow
            BY <3>3, <3>4, ReleasedRowType DEF TypeOK
        <3>6. jobs'[j].state = "succeeded"
            BY <3>3, <3>4 DEF ReleasedRow, JobRow
        <3> QED BY <3>5, <3>6, NullAssumption DEF Succeeded, Exists
    <2> QED BY <2>1, <2>2, <1>kept DEF PlaceOK, Promised, Reached, LeaseStep, KeptOf
<1>10. CASE ParserStart(p) \/ ParserComplete(p)
    <2>1. \/ pc[p] = "parser_start" /\ pc'[p] = "parser_complete"
          \/ pc[p] = "parser_complete" /\ pc'[p] = "save_parsed"
        BY <1>10, <1>pc DEF ParserStart, ParserComplete, WriteParserRun, Goto
    <2>2. ParserComplete(p) => parserRuns'[r].completed >= 1
        <3>1. SUFFICES ASSUME ParserComplete(p) PROVE parserRuns'[r].completed >= 1
            OBVIOUS
        <3>2. parserRuns'[r] = Counting(parserRuns[r], 0, 1)
            BY <1>r, <3>1, ParserRunWrite DEF ParserComplete, Step
        <3>3. parserRuns[r].completed \in Nat
            BY <1>r DEF ShapeOK
        <3>4. parserRuns'[r].completed = parserRuns[r].completed + 1
            BY <3>2 DEF Counting
        <3> QED BY <3>3, <3>4
    <2>3. pc[p] = "parser_complete" => ParserComplete(p)
        BY <1>10 DEF ParserStart, WriteParserRun, Goto
    <2> QED BY <2>1, <2>2, <2>3, <1>kept DEF PlaceOK, Promised, Reached, LeaseStep, KeptOf
<1>11. CASE GetBatch(p) \/ RecordsCheck(p) \/ RecordsOpen(p) \/ RecordsWrite(p)
            \/ RecordBatch(p)
    <2>1. \/ /\ pc[p] = "get_batch"
             /\ pc'[p] = "records_check" \/ (pc'[p] = "save_batch" /\ batch[r])
          \/ /\ pc[p] = "records_check"
             /\ \/ pc'[p] = "records_open"
                \/ pc'[p] = "record_batch" /\ recordsFile[r] = "complete"
          \/ pc[p] = "records_open" /\ pc'[p] = "records_write"
          \/ /\ pc[p] = "records_write" /\ pc'[p] = "record_batch"
             /\ recordsFile'[r] = "complete"
          \/ pc[p] = "record_batch" /\ pc'[p] = "save_batch" /\ batch'[r]
        <3>1. recordsFile \in [Jobs -> FileState] /\ batch \in [Jobs -> BOOLEAN]
            BY DEF ShapeOK
        <3> QED BY <1>11, <1>pc, <1>r, <3>1
                DEF GetBatch, RecordsCheck, RecordsOpen, RecordsWrite, WriteRecords,
                    RecordBatch, Goto, FileState
    <2> QED BY <2>1, <1>kept DEF PlaceOK, Promised, Reached, LeaseStep, KeptOf
<1>12. CASE FinishRun(p) \/ CompletePartition(p) \/ CompleteRun(p)
    <2>1. \/ /\ pc[p] = "finish"
             /\ \/ pc'[p] = "save_completed"
                \/ pc'[p] = "complete_partition" /\ crawlRun[r] = "running"
          \/ /\ pc[p] = "complete_partition" /\ pc'[p] = "complete_run"
             /\ partition'[r] = "completed"
          \/ pc[p] = "complete_run" /\ pc'[p] = "save_completed"
        BY <1>12, <1>pc, <1>r
           DEF FinishRun, CompletePartition, CompleteRun, WritePartition, WriteRun, Goto,
               ShapeOK
    <2> QED BY <2>1, <1>kept DEF PlaceOK, Promised, Reached, LeaseStep, KeptOf
<1> QED BY <1>1, <1>2, <1>3, <1>4, <1>5, <1>6, <1>7, <1>8, <1>9, <1>10, <1>11, <1>12
        DEF WorkerStep

(* What a step adds to the rows of its run is backed when it is added.     *)
LEMMA RowsStep ==
    ASSUME ShapeOK, ShapeOK', TypeOK, Keeps, NEW p \in Process, PlaceOK(p), RowsOK,
           Start(p) \/ WorkerStep(p) \/ GracefulShutdown(p) \/ Interrupt(p)
    PROVE  RowsOK'
<1> SUFFICES ASSUME NEW r \in Jobs
             PROVE  RowOK(r)'
    BY DEF RowsOK
<1>r. RunOf[p] \in Jobs
    BY WorkerAssumption
<1>row. RowOK(r) /\ KeptOf(r) /\ (Succeeded => Succeeded') /\ (Exists(r) => Exists(r)')
    BY DEF RowsOK, Keeps
<1>1. CASE UNCHANGED <<crawlRun, partition, checkpoint, manifest, batch>>
    BY <1>1, RowKept DEF RowsOK
<1>2. CASE CreateRun(p) \/ StartRun(p)
    <2>1. /\ UNCHANGED <<partition, checkpoint, manifest, batch>>
          /\ crawlRun'[r] = crawlRun[r] \/ crawlRun'[r] # "completed"
        BY <1>2, <1>r DEF CreateRun, StartRun, WriteRun, ShapeOK
    <2> QED BY <2>1, RowKept DEF RowsOK
<1>3. CASE CompleteRun(p)
    <2>1. /\ UNCHANGED <<partition, checkpoint, manifest, batch>>
          /\ r # RunOf[p] => crawlRun'[r] = crawlRun[r]
          /\ r = RunOf[p] => pc[p] = "complete_run"
        BY <1>3, <1>r DEF CompleteRun, WriteRun, Goto, ShapeOK
    <2>2. CASE r # RunOf[p]
        BY <2>1, <2>2, RowKept DEF RowsOK
    <2>3. CASE r = RunOf[p]
        <3>1. PICK rank \in 0 .. 5 : rank = Rank(checkpoint[r])
            BY RankType DEF ShapeOK
        <3>2. Promised(r, rank)' /\ Rank(checkpoint[r])' = rank
            BY <1>row, <2>1, <3>1, PromiseKept DEF RowOK, Rank
        <3>3. partition[r] = "completed"
            BY <2>1, <2>3 DEF PlaceOK
        <3> QED BY <1>row, <2>1, <3>2, <3>3 DEF RowOK, KeptOf, Promised
    <2> QED BY <2>2, <2>3
<1>4. CASE CreatePartition(p) \/ StartPartition(p) \/ CompletePartition(p)
    <2>1. /\ UNCHANGED <<crawlRun, checkpoint, manifest, batch>>
          /\ \/ partition'[r] = partition[r]
             \/ partition'[r] # "completed"
             \/ r = RunOf[p] /\ pc[p] = "complete_partition"
        BY <1>4, <1>r DEF CreatePartition, StartPartition, CompletePartition,
                          WritePartition, Goto, ShapeOK
    <2>2. CASE partition'[r] = partition[r]
        BY <2>1, <2>2, RowKept DEF RowsOK
    <2>3. PICK rank \in 0 .. 5 : rank = Rank(checkpoint[r])
        BY RankType DEF ShapeOK
    <2>4. Promised(r, rank)' /\ Rank(checkpoint[r])' = rank
        BY <1>row, <2>1, <2>3, PromiseKept DEF RowOK, Rank
    <2>5. CASE partition'[r] # "completed"
        BY <1>row, <2>1, <2>4, <2>5 DEF RowOK, KeptOf, Promised
    <2>6. CASE r = RunOf[p] /\ pc[p] = "complete_partition"
        <3>1. batch[r] /\ crawlRun[r] \in {"running", "completed"}
            BY <2>6 DEF PlaceOK, Promised, Reached, LeaseStep
        <3>2. crawlRun'[r] = "completed" => partition'[r] = "completed"
            BY <1>row, <2>1 DEF RowOK, KeptOf
        <3> QED BY <1>row, <2>1, <2>4, <3>1, <3>2 DEF RowOK, KeptOf, Promised
    <2> QED BY <2>1, <2>2, <2>5, <2>6
<1>5. CASE RecordManifest(p)
    <2>1. /\ UNCHANGED <<crawlRun, partition, checkpoint, batch, snapshotFile>>
          /\ r # RunOf[p] => manifest'[r] = manifest[r]
          /\ r = RunOf[p] => pc[p] = "record_manifest"
        BY <1>5, <1>r DEF RecordManifest, Goto, ShapeOK
    <2>2. CASE r # RunOf[p]
        BY <2>1, <2>2, RowKept DEF RowsOK
    <2>3. CASE r = RunOf[p]
        <3>1. PICK rank \in 0 .. 5 : rank = Rank(checkpoint[r])
            BY RankType DEF ShapeOK
        <3>2. Promised(r, rank)' /\ Rank(checkpoint[r])' = rank
            BY <1>row, <2>1, <3>1, PromiseKept DEF RowOK, Rank
        <3>3. snapshotFile[r] = "complete"
            BY <2>1, <2>3 DEF PlaceOK
        <3> QED BY <1>row, <2>1, <3>2, <3>3 DEF RowOK, KeptOf, Promised
    <2> QED BY <2>2, <2>3
<1>6. CASE RecordBatch(p)
    <2>1. /\ UNCHANGED <<crawlRun, partition, checkpoint, manifest, recordsFile>>
          /\ r # RunOf[p] => batch'[r] = batch[r]
          /\ r = RunOf[p] => pc[p] = "record_batch"
        BY <1>6, <1>r DEF RecordBatch, Goto, ShapeOK
    <2>2. CASE r # RunOf[p]
        BY <2>1, <2>2, RowKept DEF RowsOK
    <2>3. CASE r = RunOf[p]
        <3>1. PICK rank \in 0 .. 5 : rank = Rank(checkpoint[r])
            BY RankType DEF ShapeOK
        <3>2. Promised(r, rank)' /\ Rank(checkpoint[r])' = rank
            BY <1>row, <2>1, <3>1, PromiseKept DEF RowOK, Rank
        <3>3. /\ recordsFile[r] = "complete" /\ parserRuns[r].completed >= 1
              /\ manifest[r] # Null
            BY <2>1, <2>3 DEF PlaceOK, Promised, Reached, LeaseStep
        <3> QED BY <1>row, <2>1, <3>2, <3>3 DEF RowOK, KeptOf, Promised
    <2> QED BY <2>2, <2>3
<1>7. CASE SaveQueued(p) \/ SaveSnapshot(p) \/ SaveParsed(p) \/ SaveBatch(p)
           \/ SaveCompleted(p)
    <2>1. /\ UNCHANGED <<crawlRun, partition, manifest, batch, snapshotFile, recordsFile,
                         parserRuns, jobs>>
          /\ r # RunOf[p] => checkpoint'[r] = checkpoint[r]
          /\ r = RunOf[p] =>
              \/ pc[p] = "save_queued" /\ checkpoint'[r] = "queued"
              \/ pc[p] = "save_snapshot" /\ checkpoint'[r] = "snapshot-recorded"
              \/ pc[p] = "save_parsed" /\ checkpoint'[r] = "parser-completed"
              \/ pc[p] = "save_batch" /\ checkpoint'[r] = "batch-recorded"
              \/ pc[p] = "save_completed" /\ checkpoint'[r] = "completed"
        BY <1>7, <1>r DEF SaveQueued, SaveSnapshot, SaveParsed, SaveBatch, SaveCompleted,
                          SaveCheckpoint, Goto, queueVars, vars, ShapeOK
    <2>2. CASE r # RunOf[p]
        BY <2>1, <2>2, RowKept DEF RowsOK
    <2>3. CASE r = RunOf[p]
        <3>1. PICK rank \in 1 .. 5 : rank = Rank(checkpoint'[r]) /\ Promised(r, rank)
            BY <2>1, <2>3, RankType DEF PlaceOK, Promised, Reached, LeaseStep
        <3>2. Promised(r, rank)'
            BY <3>1, PromiseKept
        <3>3. Rank(checkpoint[r])' = rank
            BY <3>1 DEF Rank
        <3> QED BY <1>row, <2>1, <3>2, <3>3 DEF RowOK, KeptOf, Promised
    <2> QED BY <2>2, <2>3
<1>8. CASE Start(p) \/ GracefulShutdown(p) \/ Interrupt(p)
    BY <1>8, <1>1 DEF Start, GracefulShutdown, Interrupt, durable
<1>9. CASE \/ Recover(p) \/ GetRun(p) \/ GetPartition(p) \/ LoadCheckpoint(p)
           \/ Discover(p) \/ TakeLease(p) \/ NoLease(p) \/ SnapshotCheck(p)
           \/ GetManifest(p) \/ MarkSucceeded(p) \/ GetBatch(p) \/ RecordsCheck(p)
           \/ FinishRun(p) \/ Raise(p) \/ LeaseLost(p)
    BY <1>9, <1>1 DEF Recover, GetRun, GetPartition, LoadCheckpoint, Discover, TakeLease,
                NoLease, SnapshotCheck, GetManifest, MarkSucceeded, GetBatch,
                RecordsCheck, FinishRun, Raise, LeaseLost, durable
<1>10. CASE \/ SnapshotOpen(p) \/ SnapshotWrite(p) \/ ParserStart(p)
            \/ ParserComplete(p) \/ RecordsOpen(p) \/ RecordsWrite(p)
    BY <1>10, <1>1 DEF SnapshotOpen, SnapshotWrite, WriteSnapshot, ParserStart,
                 ParserComplete, WriteParserRun, RecordsOpen, RecordsWrite, WriteRecords
<1> QED BY <1>2, <1>3, <1>4, <1>5, <1>6, <1>7, <1>8, <1>9, <1>10 DEF WorkerStep

-----------------------------------------------------------------------------
(* The theorems.                                                           *)

WorkerInv == TypeOK /\ TablesInv /\ ShapeOK /\ PlacesOK /\ RowsOK

LEMMA WorkerInvInit == WorkerInit => WorkerInv
<1> SUFFICES ASSUME WorkerInit PROVE WorkerInv
    OBVIOUS
<1>1. TypeOK /\ TablesInv
    BY TypeInit, TablesInit DEF WorkerInit
<1>2. ShapeOK
    BY WorkerAssumption DEF WorkerInit, ShapeOK, FileState, Step, RunResult
<1>3. PlacesOK
    BY DEF WorkerInit, PlacesOK, PlaceOK, Promised, Reached, LeaseStep
<1>4. Null # "completed"
    BY WorkerNullAssumption DEF Checkpoint
<1>5. ASSUME NEW r \in Jobs
      PROVE  RowOK(r)
    <2>1. Rank(checkpoint[r]) = 0
        BY RankType DEF WorkerInit
    <2> QED BY <1>4, <2>1 DEF WorkerInit, RowOK, Promised
<1> QED BY <1>1, <1>2, <1>3, <1>5 DEF WorkerInv, RowsOK

(* One step keeps the invariant and undoes nothing. *)
LEMMA WorkerInvNext ==
    ASSUME Instant \subseteq ScheduleTimes, WorkerInv, [WorkerNext]_workerVars
    PROVE  WorkerInv' /\ Keeps
<1>1. TypeOK /\ TablesInv /\ ShapeOK /\ PlacesOK /\ RowsOK
    BY DEF WorkerInv
<1>2. [Next]_vars
    BY <1>1, WorkerNextOnQueue
<1>3. TypeOK' /\ TablesInv'
    BY <1>1, <1>2, TypeNext, TablesNext
<1>4. (\A r \in Jobs : Exists(r) => Exists(r)') /\ (Succeeded => Succeeded')
    BY <1>1, <1>2, JobsAreKept
<1>5. CASE WorkerTick \/ UNCHANGED workerVars
    <2>1. UNCHANGED <<held, durable, pc, result, crashes>>
        BY <1>5 DEF WorkerTick, Tick, workerVars, durable
    <2>2. ShapeOK' /\ \A r \in Jobs : KeptOf(r)
        BY <1>1, <2>1 DEF ShapeOK, KeptOf, durable
    <2>3. Keeps
        BY <1>4, <2>2 DEF Keeps
    <2>4. PlacesOK'
        BY <1>1, <2>1, <2>3, PlaceKept DEF PlacesOK
    <2>5. RowsOK'
        BY <1>1, <2>1, <2>3, RowKept DEF RowsOK, durable
    <2> QED BY <1>3, <2>2, <2>3, <2>4, <2>5 DEF WorkerInv
<1>6. ASSUME NEW p \in Process,
             Start(p) \/ WorkerStep(p) \/ GracefulShutdown(p) \/ Interrupt(p)
      PROVE  WorkerInv' /\ Keeps
    <2>1. PlaceOK(p)
        BY <1>1 DEF PlacesOK
    <2>2. pc[p] = "record_manifest" => held[p] # Null
        BY <2>1 DEF PlaceOK, LeaseStep
    <2>3. ShapeOK' /\ OthersStay(p) /\ \A r \in Jobs : KeptOf(r)
        BY <1>1, <1>6, <2>2, ShapeStep
    <2>4. Keeps
        BY <1>4, <2>3 DEF Keeps
    <2>5. PlaceOK(p)'
        BY <1>1, <1>6, <2>1, <2>4, PlaceStep
    <2>6. ASSUME NEW q \in Process, q # p
          PROVE  PlaceOK(q)'
        BY <1>1, <2>3, <2>4, <2>6, PlaceKept DEF PlacesOK, OthersStay
    <2>7. PlacesOK'
        BY <2>5, <2>6 DEF PlacesOK
    <2>8. RowsOK'
        BY <1>1, <1>6, <2>1, <2>3, <2>4, RowsStep
    <2> QED BY <1>3, <2>3, <2>4, <2>7, <2>8 DEF WorkerInv
<1> QED BY <1>5, <1>6 DEF WorkerNext

LEMMA WorkerAlways ==
    ASSUME Instant \subseteq ScheduleTimes
    PROVE  WorkerSpec => []WorkerInv
<1>1. WorkerInv /\ [WorkerNext]_workerVars => WorkerInv'
    BY WorkerInvNext
<1> QED BY <1>1, WorkerInvInit, PTL DEF WorkerSpec

(* However many processes carry however many runs, and wherever they are   *)
(* interrupted, a checkpoint promises only what is there.                  *)
THEOREM CheckpointsAreBacked ==
    ASSUME Instant \subseteq ScheduleTimes
    PROVE  WorkerSpec => []CheckpointIsBacked
<1>1. WorkerInv => CheckpointIsBacked
    BY DEF WorkerInv, RowsOK, RowOK, Promised, Succeeded, CheckpointIsBacked
<1> QED BY <1>1, WorkerAlways, PTL

(* No row points at a file that is missing or half written. *)
THEOREM RowsAlwaysHaveTheirFiles ==
    ASSUME Instant \subseteq ScheduleTimes
    PROVE  WorkerSpec => []RowsHaveTheirFiles
<1>1. WorkerInv => RowsHaveTheirFiles
    BY DEF WorkerInv, RowsOK, RowOK, RowsHaveTheirFiles
<1> QED BY <1>1, WorkerAlways, PTL

(* A run is completed after its partition, and that after the batch. *)
THEOREM CompletedRunsAreWhole ==
    ASSUME Instant \subseteq ScheduleTimes
    PROVE  WorkerSpec => []CompletedRunIsWhole
<1>1. WorkerInv => CompletedRunIsWhole
    BY DEF WorkerInv, RowsOK, RowOK, CompletedRunIsWhole
<1> QED BY <1>1, WorkerAlways, PTL

(* No later process replaces a manifest, a batch or a complete file. *)
THEOREM ArtifactsStay ==
    ASSUME Instant \subseteq ScheduleTimes
    PROVE  WorkerSpec => CompletedArtifactsAreKept
<1>1. WorkerInv /\ [WorkerNext]_workerVars =>
        [\A r \in Jobs :
            /\ manifest[r] # Null => manifest'[r] = manifest[r]
            /\ batch[r] => batch'[r]
            /\ snapshotFile[r] = "complete" => snapshotFile'[r] = "complete"
            /\ recordsFile[r] = "complete" => recordsFile'[r] = "complete"]_workerVars
    BY WorkerInvNext DEF Keeps, KeptOf
<1> QED BY <1>1, WorkerAlways, PTL DEF WorkerSpec, CompletedArtifactsAreKept

-----------------------------------------------------------------------------
(* The count of running parser runs.  It is at least the number of         *)
(* processes between start and complete, so complete never takes it below  *)
(* zero; it may be more, since an interrupted run is never completed.      *)

Parsing(r) == {p \in Process : pc[p] = "parser_complete" /\ RunOf[p] = r}

CountOK(r) ==
    /\ IsFiniteSet(Parsing(r))
    /\ parserRuns[r].running >= Cardinality(Parsing(r))

CountsOK == \A r \in Jobs : CountOK(r)

(* Only parser_runs.start leads to the step that completes the run, and    *)
(* only the two of them change the table.                                  *)
LEMMA ParsingSteps ==
    ASSUME ShapeOK, NEW p \in Process,
           Start(p) \/ WorkerStep(p) \/ GracefulShutdown(p) \/ Interrupt(p)
    PROVE  \/ ParserStart(p) \/ ParserComplete(p)
           \/ pc'[p] # "parser_complete" /\ parserRuns' = parserRuns
<1>pc. pc \in [Process -> Step]
    BY DEF ShapeOK
<1>1. CASE \/ Start(p) \/ Recover(p) \/ GetRun(p) \/ CreateRun(p) \/ StartRun(p)
           \/ GetPartition(p) \/ CreatePartition(p) \/ StartPartition(p) \/ Discover(p)
    BY <1>1, <1>pc
       DEF Start, Recover, GetRun, CreateRun, StartRun, WriteRun, GetPartition, Discover,
           CreatePartition, StartPartition, WritePartition, Goto, durable
<1>2. CASE \/ Interrupt(p) \/ GracefulShutdown(p) \/ LeaseLost(p) \/ Raise(p)
           \/ NoLease(p) \/ SaveCompleted(p)
    BY <1>2, <1>pc
       DEF Interrupt, GracefulShutdown, LeaseLost, Raise, NoLease, SaveCompleted, Return,
           durable
<1>3. CASE LoadCheckpoint(p)
    <2>1. checkpoint[RunOf[p]] \in Checkpoint \cup {Null}
        BY WorkerAssumption DEF ShapeOK
    <2>2. checkpoint[RunOf[p]] # "completed"
            => ResumeAt(checkpoint[RunOf[p]]) # "parser_complete"
        BY <2>1 DEF ResumeAt, Checkpoint
    <2> QED BY <1>3, <1>pc, <2>2 DEF LoadCheckpoint, Return, Goto, durable
<1>4. CASE \/ SaveQueued(p) \/ SaveSnapshot(p) \/ SaveParsed(p) \/ SaveBatch(p)
           \/ TakeLease(p) \/ MarkSucceeded(p) \/ GetManifest(p) \/ RecordManifest(p)
    BY <1>4, <1>pc DEF SaveQueued, SaveSnapshot, SaveParsed, SaveBatch, SaveCheckpoint,
                       TakeLease, MarkSucceeded, GetManifest, RecordManifest, Goto, durable
<1>5. CASE \/ SnapshotCheck(p) \/ SnapshotOpen(p) \/ SnapshotWrite(p) \/ GetBatch(p)
           \/ RecordsCheck(p) \/ RecordsOpen(p) \/ RecordsWrite(p) \/ RecordBatch(p)
    BY <1>5, <1>pc DEF SnapshotCheck, SnapshotOpen, SnapshotWrite, WriteSnapshot, GetBatch,
                       RecordsCheck, RecordsOpen, RecordsWrite, WriteRecords, RecordBatch,
                       Goto, durable
<1>6. CASE FinishRun(p) \/ CompletePartition(p) \/ CompleteRun(p)
    BY <1>6, <1>pc DEF FinishRun, CompletePartition, CompleteRun, WriteRun,
                       WritePartition, Goto, durable
<1> QED BY <1>1, <1>2, <1>3, <1>4, <1>5, <1>6 DEF WorkerStep

(* A step of a process keeps the count of each run. *)
LEMMA CountStep ==
    ASSUME ShapeOK, NEW p \in Process, OthersStay(p), NEW r \in Jobs, CountOK(r),
           Start(p) \/ WorkerStep(p) \/ GracefulShutdown(p) \/ Interrupt(p)
    PROVE  CountOK(r)'
<1> DEFINE before == Parsing(r)
           after == {q \in Process : pc'[q] = "parser_complete" /\ RunOf[q] = r}
<1>1. Parsing(r)' = after
    BY DEF Parsing
<1>2. IsFiniteSet(before) /\ parserRuns[r].running >= Cardinality(before)
    BY DEF CountOK
<1>3. /\ IsFiniteSet(before \cup {p}) /\ IsFiniteSet(before \ {p})
      /\ p \in before => Cardinality(before \ {p}) = Cardinality(before) - 1
      /\ Cardinality(before \ {p}) <= Cardinality(before)
      /\ Cardinality(before \cup {p}) <= Cardinality(before) + 1
      /\ Cardinality(before) \in Nat
    BY <1>2, FS_AddElement, FS_RemoveElement, FS_CardinalityType
<1>4. parserRuns[r].running \in Int
    BY DEF ShapeOK
<1> HIDE DEF before, after
<1>fold. ASSUME IsFiniteSet(after), parserRuns'[r].running >= Cardinality(after)
         PROVE  CountOK(r)'
    BY <1>fold, <1>1 DEF CountOK
<1>5. CASE pc'[p] # "parser_complete" /\ parserRuns' = parserRuns
    <2>1. after = before \ {p}
        BY <1>5 DEF Parsing, OthersStay, before, after
    <2>2. Cardinality(after) \in Nat
        BY <1>3, <2>1, FS_CardinalityType
    <2>3. parserRuns[r].running >= Cardinality(after)
        BY <1>2, <1>3, <1>4, <2>1, <2>2
    <2> QED BY <1>3, <1>5, <1>fold, <2>1, <2>3
<1>6. CASE ParserStart(p)
    <2>1. pc'[p] = "parser_complete"
        BY <1>6 DEF ParserStart, WriteParserRun, Goto, ShapeOK
    <2>2. parserRuns'[r] = IF r = RunOf[p] THEN Counting(parserRuns[r], 1, 0)
                           ELSE parserRuns[r]
        BY <1>6, ParserRunWrite DEF ParserStart, Step
    <2>3. CASE r = RunOf[p]
        <3>1. after = before \cup {p}
            BY <2>1, <2>3 DEF Parsing, OthersStay, before, after
        <3>2. parserRuns'[r].running = parserRuns[r].running + 1 - 0
            BY <2>2, <2>3 DEF Counting
        <3>3. Cardinality(after) \in Nat
            BY <1>3, <3>1, FS_CardinalityType
        <3>4. parserRuns'[r].running >= Cardinality(after)
            BY <1>2, <1>3, <1>4, <3>1, <3>2, <3>3
        <3> QED BY <1>3, <1>fold, <3>1, <3>4
    <2>4. CASE r # RunOf[p]
        <3>1. after = before
            BY <2>4 DEF Parsing, OthersStay, before, after
        <3> QED BY <1>2, <1>fold, <2>2, <2>4, <3>1
    <2> QED BY <2>3, <2>4
<1>7. CASE ParserComplete(p)
    <2>1. pc[p] = "parser_complete" /\ pc'[p] = "save_parsed"
        BY <1>7 DEF ParserComplete, WriteParserRun, Goto, ShapeOK
    <2>2. parserRuns'[r] = IF r = RunOf[p] THEN Counting(parserRuns[r], 0, 1)
                           ELSE parserRuns[r]
        BY <1>7, ParserRunWrite DEF ParserComplete, Step
    <2>3. after = before \ {p}
        BY <2>1 DEF Parsing, OthersStay, before, after
    <2>4. CASE r = RunOf[p]
        <3>1. p \in before
            BY <2>1, <2>4 DEF Parsing, before
        <3>2. parserRuns'[r].running = parserRuns[r].running + 0 - 1
            BY <2>2, <2>4 DEF Counting
        <3>3. Cardinality(after) \in Nat
            BY <1>3, <2>3, FS_CardinalityType
        <3>4. parserRuns'[r].running >= Cardinality(after)
            BY <1>2, <1>3, <1>4, <2>3, <3>1, <3>2, <3>3
        <3> QED BY <1>3, <1>fold, <2>3, <3>4
    <2>5. CASE r # RunOf[p]
        <3>1. after = before
            BY <2>3, <2>5 DEF Parsing, before
        <3> QED BY <1>2, <1>fold, <2>2, <2>5, <3>1
    <2> QED BY <2>4, <2>5
<1> QED BY <1>5, <1>6, <1>7, ParsingSteps

(* The worker's tables, files and control have their types; above all,     *)
(* no interleaving of starts, completions and interruptions makes the      *)
(* count of running parser runs negative.                                  *)
THEOREM WorkerTypesHold ==
    ASSUME Instant \subseteq ScheduleTimes
    PROVE  WorkerSpec => []WorkerTypeOK
<1>1. WorkerInit => CountsOK
    <2>1. WorkerInit => \A r \in Jobs : Parsing(r) = {}
        BY DEF WorkerInit, Parsing
    <2> QED BY <2>1, FS_EmptySet DEF WorkerInit, CountsOK, CountOK
<1>2. WorkerInv /\ CountsOK /\ [WorkerNext]_workerVars => CountsOK'
    <2> SUFFICES ASSUME WorkerInv, CountsOK, [WorkerNext]_workerVars, NEW r \in Jobs
                 PROVE  CountOK(r)'
        BY DEF CountsOK
    <2>1. CountOK(r) /\ ShapeOK
        BY DEF CountsOK, WorkerInv
    <2>2. CASE WorkerTick \/ UNCHANGED workerVars
        <3>1. pc' = pc /\ parserRuns' = parserRuns
            BY <2>2 DEF WorkerTick, workerVars, durable
        <3>2. Parsing(r)' = Parsing(r)
            BY <3>1 DEF Parsing
        <3> QED BY <2>1, <3>1, <3>2 DEF CountOK
    <2>3. ASSUME NEW p \in Process,
                 Start(p) \/ WorkerStep(p) \/ GracefulShutdown(p) \/ Interrupt(p)
          PROVE  CountOK(r)'
        <3>1. TypeOK /\ (pc[p] = "record_manifest" => held[p] # Null)
            BY DEF WorkerInv, PlacesOK, PlaceOK, LeaseStep
        <3>2. OthersStay(p)
            BY <2>1, <2>3, <3>1, ShapeStep
        <3> QED BY <2>1, <2>3, <3>2, CountStep
    <2> QED BY <2>2, <2>3 DEF WorkerNext
<1>3. WorkerInv /\ CountsOK => WorkerTypeOK
    <2> SUFFICES ASSUME WorkerInv, CountsOK PROVE WorkerTypeOK
        OBVIOUS
    <2>1. TypeOK /\ ShapeOK
        BY DEF WorkerInv
    <2>2. ASSUME NEW r \in Jobs
          PROVE  parserRuns[r] \in [running : Nat, completed : Nat]
        <3>1. parserRuns[r] \in [running : Int, completed : Nat]
            BY <2>1 DEF ShapeOK
        <3>2. Cardinality(Parsing(r)) \in Nat
            BY FS_CardinalityType DEF CountsOK, CountOK
        <3>3. parserRuns[r].running >= 0
            BY <3>1, <3>2 DEF CountsOK, CountOK
        <3> QED BY <3>1, <3>3
    <2>3. parserRuns \in [Jobs -> [running : Nat, completed : Nat]]
        BY <2>1, <2>2 DEF ShapeOK
    <2> QED BY <2>1, <2>3 DEF ShapeOK, WorkerTypeOK
<1> QED BY <1>1, <1>2, <1>3, WorkerAlways, PTL DEF WorkerSpec

-----------------------------------------------------------------------------
(* The course of the runs.                                                 *)

(* What the set of milestones of a run says of its rows and files. *)
DoneMeans(r) ==
    /\ DoneOf[r] \subseteq Course!Milestone
    /\ "discovered" \in DoneOf[r] <=> Exists(r)
    /\ "fetched" \in DoneOf[r] <=> Exists(r) /\ jobs[r].state = "succeeded"
    /\ "snapshot" \in DoneOf[r] <=> snapshotFile[r] = "complete"
    /\ "manifest" \in DoneOf[r] <=> manifest[r] # Null
    /\ "parsed" \in DoneOf[r] <=> parserRuns[r].completed >= 1
    /\ "records" \in DoneOf[r] <=> recordsFile[r] = "complete"
    /\ "batch" \in DoneOf[r] <=> batch[r]
    /\ "started" \in DoneOf[r] <=> crawlRun[r] \in {"running", "completed"}
    /\ "opened" \in DoneOf[r] <=> partition[r] \in {"processing", "completed"}
    /\ "partition" \in DoneOf[r] <=> partition[r] = "completed"
    /\ "run" \in DoneOf[r] <=> crawlRun[r] = "completed"

LEMMA WhatIsDone ==
    ASSUME NEW r \in Jobs
    PROVE  DoneMeans(r)
BY DEF DoneMeans, DoneOf, Evidence, Course!Milestone

LEMMA WhatIsDoneNext ==
    ASSUME NEW r \in Jobs
    PROVE  DoneMeans(r)'
BY DEF DoneMeans, DoneOf, Evidence, Course!Milestone

LEMMA DoneShape ==
    /\ DoneOf = [r \in Jobs |-> DoneOf[r]]
    /\ DoneOf' = [r \in Jobs |-> DoneOf'[r]]
BY DEF DoneOf

LEMMA CourseStep ==
    ASSUME NEW r \in Jobs, NEW m \in Course!Milestone,
           \A i \in Jobs \ {r} : DoneOf'[i] = DoneOf[i],
           DoneOf'[r] = DoneOf[r] \cup {m},
           m \notin DoneOf[r] => m \in Course!Ready(r)
    PROVE  [Course!CourseNext]_DoneOf
<1>1. CASE m \in DoneOf[r]
    <2>1. \A i \in Jobs : DoneOf'[i] = DoneOf[i]
        BY <1>1
    <2>2. DoneOf' = DoneOf
        BY <2>1, DoneShape, Zenon
    <2> QED BY <2>2
<1>2. CASE m \notin DoneOf[r]
    <2>1. DoneOf' = [DoneOf EXCEPT ![r] = DoneOf[r] \cup {m}]
        BY DoneShape
    <2> QED BY <1>2, <2>1 DEF Course!CourseNext, Course!Reach
<1> QED BY <1>1, <1>2

(* Milestones that a step of the queue brings about. *)
LEMMA CourseOfQueue ==
    ASSUME TypeOK, TypeOK', TablesInv, [Next]_vars, UNCHANGED durable
    PROVE  [Course!CourseNext]_DoneOf
<1>u. ASSUME NEW i \in Jobs
      PROVE  /\ "discovered" \in DoneOf[i] <=> PhaseOf[i] # "absent"
             /\ "discovered" \in DoneOf'[i] <=> PhaseOf'[i] # "absent"
             /\ "fetched" \in DoneOf[i] <=> PhaseOf[i] = "succeeded"
             /\ "fetched" \in DoneOf'[i] <=> PhaseOf'[i] = "succeeded"
             /\ \A m \in Course!Milestone \ {"discovered", "fetched"} :
                    m \in DoneOf'[i] <=> m \in DoneOf[i]
             /\ DoneOf[i] \subseteq Course!Milestone
             /\ DoneOf'[i] \subseteq Course!Milestone
    <2>1. /\ jobs[i] # Null => jobs[i].state # "absent"
          /\ jobs'[i] # Null => jobs'[i].state # "absent"
        <3>1. jobs[i] \in JobRow \cup {Null} /\ jobs'[i] \in JobRow \cup {Null}
            BY DEF TypeOK
        <3> QED BY <3>1 DEF JobRow
    <2>2. DoneMeans(i) /\ DoneMeans(i)'
        BY WhatIsDone, WhatIsDoneNext
    <2>3. /\ PhaseOf[i] = IF Exists(i) THEN jobs[i].state ELSE "absent"
          /\ PhaseOf'[i] = IF Exists(i)' THEN jobs'[i].state ELSE "absent"
        BY DEF PhaseOf
    <2>4. \A m \in Course!Milestone \ {"discovered", "fetched"} :
                    m \in DoneOf'[i] <=> m \in DoneOf[i]
        BY <2>2 DEF DoneMeans, durable, Course!Milestone
    <2> QED BY <2>1, <2>2, <2>3, <2>4 DEF DoneMeans, Exists
<1>same. ASSUME NEW i \in Jobs,
                PhaseOf'[i] # "absent" <=> PhaseOf[i] # "absent",
                PhaseOf'[i] = "succeeded" <=> PhaseOf[i] = "succeeded"
         PROVE  DoneOf'[i] = DoneOf[i]
    BY <1>u, <1>same
<1>1. [Course!CourseNext]_DoneOf \/ Lifecycle!LifecycleNext
    <2>1. CASE UNCHANGED <<PhaseOf, UsedOf>>
        <3>1. \A i \in Jobs : DoneOf'[i] = DoneOf[i]
            BY <2>1, <1>same
        <3> QED BY <3>1, DoneShape, Zenon
    <2> QED BY <2>1, StepOnLifecycle
<1>2. ASSUME NEW j \in Jobs, Lifecycle!Create(j)
      PROVE  [Course!CourseNext]_DoneOf
    <2>1. /\ PhaseOf[j] = "absent" /\ PhaseOf'[j] = "pending"
          /\ \A i \in Jobs \ {j} : PhaseOf'[i] = PhaseOf[i]
        BY <1>2 DEF Lifecycle!Create, PhaseOf
    <2>2. \A i \in Jobs \ {j} : DoneOf'[i] = DoneOf[i]
        BY <2>1, <1>same
    <2>3. DoneOf'[j] = DoneOf[j] \cup {"discovered"}
        BY <2>1, <1>u DEF Course!Milestone
    <2>4. "discovered" \in Course!Ready(j)
        BY <2>1, <1>u DEF Course!Ready, Course!RestsOn, Course!Milestone
    <2> QED BY <2>2, <2>3, <2>4, CourseStep DEF Course!Milestone
<1>3. ASSUME NEW j \in Jobs, Lifecycle!Success(j)
      PROVE  [Course!CourseNext]_DoneOf
    <2>1. /\ PhaseOf[j] = "processing" /\ PhaseOf'[j] = "succeeded"
          /\ \A i \in Jobs \ {j} : PhaseOf'[i] = PhaseOf[i]
        BY <1>3 DEF Lifecycle!Success, PhaseOf
    <2>2. \A i \in Jobs \ {j} : DoneOf'[i] = DoneOf[i]
        BY <2>1, <1>same
    <2>3. DoneOf'[j] = DoneOf[j] \cup {"fetched"}
        BY <2>1, <1>u DEF Course!Milestone
    <2>4. "fetched" \in Course!Ready(j)
        BY <2>1, <1>u DEF Course!Ready, Course!RestsOn, Course!Milestone
    <2> QED BY <2>2, <2>3, <2>4, CourseStep DEF Course!Milestone
<1>4. ASSUME NEW j \in Jobs, Lifecycle!Lease(j)
      PROVE  [Course!CourseNext]_DoneOf
    <2>1. \A i \in Jobs : \/ PhaseOf'[i] = PhaseOf[i]
                          \/ PhaseOf[i] = "pending" /\ PhaseOf'[i] = "processing"
        BY <1>4 DEF Lifecycle!Lease, PhaseOf
    <2>2. \A i \in Jobs : DoneOf'[i] = DoneOf[i]
        BY <2>1, <1>same
    <2> QED BY <2>2, DoneShape, Zenon
<1>5. ASSUME NEW J \in SUBSET Jobs, Lifecycle!GiveUp(J)
      PROVE  [Course!CourseNext]_DoneOf
    <2>1. \A i \in Jobs : \/ PhaseOf'[i] = PhaseOf[i]
                          \/ /\ PhaseOf[i] = "processing"
                             /\ PhaseOf'[i] \in {"pending", "failed_exhausted"}
        BY <1>5 DEF Lifecycle!GiveUp, Lifecycle!AfterFailure, PhaseOf
    <2>2. \A i \in Jobs : DoneOf'[i] = DoneOf[i]
        BY <2>1, <1>same
    <2> QED BY <2>2, DoneShape, Zenon
<1> QED BY <1>1, <1>2, <1>3, <1>4, <1>5 DEF Lifecycle!LifecycleNext

(* A write for run r that brings about at most the milestone m.            *)
LEMMA CourseOfWrite ==
    ASSUME NEW r \in Jobs, NEW m \in Course!Milestone,
           \A i \in Jobs \ {r} : Evidence(i)' = Evidence(i),
           m \in DoneOf'[r] \/ DoneOf'[r] = DoneOf[r],
           \A other \in Course!Milestone \ {m} : other \in DoneOf'[r] <=> other \in DoneOf[r],
           Course!RestsOn(m) \subseteq DoneOf[r],
           m = "parsed" => Succeeded
    PROVE  [Course!CourseNext]_DoneOf
<1>1. \A i \in Jobs \ {r} : DoneOf'[i] = DoneOf[i]
    BY DEF DoneOf
<1>2. CASE DoneOf'[r] = DoneOf[r]
    <2>1. \A i \in Jobs : DoneOf'[i] = DoneOf[i]
        BY <1>1, <1>2
    <2> QED BY <2>1, DoneShape, Zenon
<1>3. CASE m \in DoneOf'[r]
    <2>1. DoneOf'[r] = DoneOf[r] \cup {m}
        BY <1>3, WhatIsDone, WhatIsDoneNext DEF DoneMeans
    <2>2. Succeeded => \E other \in Jobs : "fetched" \in DoneOf[other]
        BY WhatIsDone DEF DoneMeans, Succeeded
    <2>3. m \notin DoneOf[r] => m \in Course!Ready(r)
        BY <2>2 DEF Course!Ready
    <2> QED BY <1>1, <2>1, <2>3, CourseStep
<1> QED BY <1>2, <1>3

(* A step of a process brings about at most one milestone, and finds what  *)
(* that one rests on.                                                      *)
LEMMA CourseOfWorker ==
    ASSUME ShapeOK, TypeOK, TypeOK', TablesInv, [Next]_vars,
           NEW p \in Process, PlaceOK(p), WorkerStep(p)
    PROVE  [Course!CourseNext]_DoneOf
<1> DEFINE r == RunOf[p]
<1>r. r \in Jobs
    BY WorkerAssumption
<1>b. DoneMeans(r) /\ DoneMeans(r)'
    BY <1>r, WhatIsDone, WhatIsDoneNext
<1>no. ASSUME \A i \in Jobs : Evidence(i)' = Evidence(i)
       PROVE  [Course!CourseNext]_DoneOf
    <2>1. \A i \in Jobs : DoneOf'[i] = DoneOf[i]
        BY <1>no DEF DoneOf
    <2> QED BY <2>1, DoneShape, Zenon
<1>null. Null \notin {"created", "running", "completed", "pending", "processing"}
    BY WorkerNullAssumption DEF Checkpoint
<1>1. CASE SnapshotOpen(p) \/ SnapshotWrite(p)
    <2>1. /\ UNCHANGED <<jobs, crawlRun, partition, manifest, parserRuns, batch, recordsFile>>
          /\ \A i \in Jobs \ {r} : snapshotFile'[i] = snapshotFile[i]
        BY <1>1, <1>r DEF SnapshotOpen, SnapshotWrite, WriteSnapshot, ShapeOK,
                          queueVars, vars
    <2>2. \/ snapshotFile[r] = "absent" /\ snapshotFile'[r] = "partial"
          \/ snapshotFile'[r] = "complete" /\ pc[p] = "snapshot_write"
        BY <1>1, <1>r DEF SnapshotOpen, SnapshotWrite, WriteSnapshot, Goto, ShapeOK
    <2>3. \A i \in Jobs \ {r} : Evidence(i)' = Evidence(i)
        BY <2>1 DEF Evidence, Exists
    <2>4. /\ UNCHANGED <<jobs, crawlRun, partition, manifest, parserRuns, batch, recordsFile>>
          /\ (Exists(r)' <=> Exists(r))
        BY <2>1 DEF Exists
    <2>5. CASE snapshotFile[r] = "absent" /\ snapshotFile'[r] = "partial"
        <3>1. Evidence(r)' = Evidence(r)
            BY <2>1, <2>5, <1>null DEF Evidence, Exists
        <3> QED BY <1>no, <2>3, <3>1
    <2>6. CASE snapshotFile'[r] = "complete" /\ pc[p] = "snapshot_write"
        <3>1. \A other \in Course!Milestone \ {"snapshot"} :
                other \in DoneOf'[r] <=> other \in DoneOf[r]
            BY <1>b, <2>4 DEF DoneMeans, Course!Milestone
        <3>2. Exists(r)
            BY <2>6 DEF PlaceOK, Promised, Reached, LeaseStep
        <3>3. "snapshot" \in DoneOf'[r] /\ Course!RestsOn("snapshot") \subseteq DoneOf[r]
            BY <1>b, <2>6, <3>2 DEF DoneMeans, Course!RestsOn
        <3> QED BY <1>r, <2>3, <3>1, <3>2, <3>3, CourseOfWrite DEF Course!Milestone
    <2> QED BY <2>2, <2>5, <2>6
<1>2. CASE RecordsOpen(p) \/ RecordsWrite(p)
    <2>1. /\ UNCHANGED <<jobs, crawlRun, partition, manifest, parserRuns, batch, snapshotFile>>
          /\ \A i \in Jobs \ {r} : recordsFile'[i] = recordsFile[i]
        BY <1>2, <1>r DEF RecordsOpen, RecordsWrite, WriteRecords, ShapeOK,
                          queueVars, vars
    <2>2. \/ recordsFile[r] = "absent" /\ recordsFile'[r] = "partial"
          \/ recordsFile'[r] = "complete" /\ pc[p] = "records_write"
        BY <1>2, <1>r DEF RecordsOpen, RecordsWrite, WriteRecords, Goto, ShapeOK
    <2>3. \A i \in Jobs \ {r} : Evidence(i)' = Evidence(i)
        BY <2>1 DEF Evidence, Exists
    <2>4. /\ UNCHANGED <<jobs, crawlRun, partition, manifest, parserRuns, batch, snapshotFile>>
          /\ (Exists(r)' <=> Exists(r))
        BY <2>1 DEF Exists
    <2>5. CASE recordsFile[r] = "absent" /\ recordsFile'[r] = "partial"
        <3>1. Evidence(r)' = Evidence(r)
            BY <2>1, <2>5, <1>null DEF Evidence, Exists
        <3> QED BY <1>no, <2>3, <3>1
    <2>6. CASE recordsFile'[r] = "complete" /\ pc[p] = "records_write"
        <3>1. \A other \in Course!Milestone \ {"records"} :
                other \in DoneOf'[r] <=> other \in DoneOf[r]
            BY <1>b, <2>4 DEF DoneMeans, Course!Milestone
        <3>2. parserRuns[r].completed >= 1
            BY <2>6 DEF PlaceOK, Promised, Reached, LeaseStep
        <3>3. "records" \in DoneOf'[r] /\ Course!RestsOn("records") \subseteq DoneOf[r]
            BY <1>b, <2>6, <3>2 DEF DoneMeans, Course!RestsOn
        <3> QED BY <1>r, <2>3, <3>1, <3>2, <3>3, CourseOfWrite DEF Course!Milestone
    <2> QED BY <2>2, <2>5, <2>6
<1>3. CASE RecordManifest(p)
    <2>1. /\ UNCHANGED <<jobs, crawlRun, partition, parserRuns, batch, snapshotFile, recordsFile>>
          /\ \A i \in Jobs \ {r} : manifest'[i] = manifest[i]
        BY <1>3, <1>r DEF RecordManifest, ShapeOK,
                          queueVars, vars
    <2>2. pc[p] = "record_manifest" /\ manifest'[r] # Null
        <3>1. pc[p] = "record_manifest" /\ manifest'[r] = held[p].job_id
            BY <1>3, <1>r DEF RecordManifest, Goto, ShapeOK
        <3>2. held[p].job_id # Null
            BY <3>1, WorkerNullAssumption DEF PlaceOK, LeaseStep, TypeOK, JobLease
        <3> QED BY <3>1, <3>2
    <2>3. \A i \in Jobs \ {r} : Evidence(i)' = Evidence(i)
        BY <2>1 DEF Evidence, Exists
    <2>4. /\ UNCHANGED <<jobs, crawlRun, partition, parserRuns, batch, snapshotFile, recordsFile>>
          /\ (Exists(r)' <=> Exists(r))
        BY <2>1 DEF Exists
    <2>5. CASE pc[p] = "record_manifest" /\ manifest'[r] # Null
        <3>1. \A other \in Course!Milestone \ {"manifest"} :
                other \in DoneOf'[r] <=> other \in DoneOf[r]
            BY <1>b, <2>4 DEF DoneMeans, Course!Milestone
        <3>2. snapshotFile[r] = "complete"
            BY <2>5 DEF PlaceOK
        <3>3. "manifest" \in DoneOf'[r] /\ Course!RestsOn("manifest") \subseteq DoneOf[r]
            BY <1>b, <2>5, <3>2 DEF DoneMeans, Course!RestsOn
        <3> QED BY <1>r, <2>3, <3>1, <3>2, <3>3, CourseOfWrite DEF Course!Milestone
    <2> QED BY <2>2, <2>5
<1>4. CASE RecordBatch(p)
    <2>1. /\ UNCHANGED <<jobs, crawlRun, partition, manifest, parserRuns, snapshotFile, recordsFile>>
          /\ \A i \in Jobs \ {r} : batch'[i] = batch[i]
        BY <1>4, <1>r DEF RecordBatch, ShapeOK,
                          queueVars, vars
    <2>2. pc[p] = "record_batch" /\ batch'[r]
        BY <1>4, <1>r DEF RecordBatch, Goto, ShapeOK
    <2>3. \A i \in Jobs \ {r} : Evidence(i)' = Evidence(i)
        BY <2>1 DEF Evidence, Exists
    <2>4. /\ UNCHANGED <<jobs, crawlRun, partition, manifest, parserRuns, snapshotFile, recordsFile>>
          /\ (Exists(r)' <=> Exists(r))
        BY <2>1 DEF Exists
    <2>5. CASE pc[p] = "record_batch" /\ batch'[r]
        <3>1. \A other \in Course!Milestone \ {"batch"} :
                other \in DoneOf'[r] <=> other \in DoneOf[r]
            BY <1>b, <2>4 DEF DoneMeans, Course!Milestone
        <3>2. recordsFile[r] = "complete"
            BY <2>5 DEF PlaceOK
        <3>3. "batch" \in DoneOf'[r] /\ Course!RestsOn("batch") \subseteq DoneOf[r]
            BY <1>b, <2>5, <3>2 DEF DoneMeans, Course!RestsOn
        <3> QED BY <1>r, <2>3, <3>1, <3>2, <3>3, CourseOfWrite DEF Course!Milestone
    <2> QED BY <2>2, <2>5
<1>5. CASE CreateRun(p) \/ StartRun(p) \/ CompleteRun(p)
    <2>1. /\ UNCHANGED <<jobs, partition, manifest, parserRuns, batch, snapshotFile, recordsFile>>
          /\ \A i \in Jobs \ {r} : crawlRun'[i] = crawlRun[i]
        BY <1>5, <1>r DEF CreateRun, StartRun, CompleteRun, WriteRun, ShapeOK,
                          queueVars, vars
    <2>2. \/ crawlRun[r] = Null /\ crawlRun'[r] = "created"
          \/ crawlRun[r] = "created" /\ crawlRun'[r] = "running"
          \/ crawlRun[r] = "running" /\ crawlRun'[r] = "completed" /\ pc[p] = "complete_run"
        BY <1>5, <1>r DEF CreateRun, StartRun, CompleteRun, WriteRun, Goto, ShapeOK
    <2>3. \A i \in Jobs \ {r} : Evidence(i)' = Evidence(i)
        BY <2>1 DEF Evidence, Exists
    <2>4. /\ UNCHANGED <<jobs, partition, manifest, parserRuns, batch, snapshotFile, recordsFile>>
          /\ (Exists(r)' <=> Exists(r))
        BY <2>1 DEF Exists
    <2>5. CASE crawlRun[r] = Null /\ crawlRun'[r] = "created"
        <3>1. Evidence(r)' = Evidence(r)
            BY <2>1, <2>5, <1>null DEF Evidence, Exists
        <3> QED BY <1>no, <2>3, <3>1
    <2>6. CASE crawlRun[r] = "created" /\ crawlRun'[r] = "running"
        <3>1. \A other \in Course!Milestone \ {"started"} :
                other \in DoneOf'[r] <=> other \in DoneOf[r]
            BY <1>b, <2>4, <2>6 DEF DoneMeans, Course!Milestone
        <3>2. "started" \in DoneOf'[r] /\ Course!RestsOn("started") \subseteq DoneOf[r]
            BY <1>b, <2>6 DEF DoneMeans, Course!RestsOn
        <3> QED BY <1>r, <2>3, <3>1, <3>2, CourseOfWrite DEF Course!Milestone
    <2>7. CASE crawlRun[r] = "running" /\ crawlRun'[r] = "completed" /\ pc[p] = "complete_run"
        <3>1. \A other \in Course!Milestone \ {"run"} :
                other \in DoneOf'[r] <=> other \in DoneOf[r]
            BY <1>b, <2>4, <2>7 DEF DoneMeans, Course!Milestone
        <3>2. partition[r] = "completed"
            BY <2>7 DEF PlaceOK
        <3>3. "run" \in DoneOf'[r] /\ Course!RestsOn("run") \subseteq DoneOf[r]
            BY <1>b, <2>7, <3>2 DEF DoneMeans, Course!RestsOn
        <3> QED BY <1>r, <2>3, <3>1, <3>2, <3>3, CourseOfWrite DEF Course!Milestone
    <2> QED BY <2>2, <2>5, <2>6, <2>7
<1>6. CASE CreatePartition(p) \/ StartPartition(p) \/ CompletePartition(p)
    <2>1. /\ UNCHANGED <<jobs, crawlRun, manifest, parserRuns, batch, snapshotFile, recordsFile>>
          /\ \A i \in Jobs \ {r} : partition'[i] = partition[i]
        BY <1>6, <1>r DEF CreatePartition, StartPartition, CompletePartition,
           WritePartition, ShapeOK,
                          queueVars, vars
    <2>2. \/ partition[r] = Null /\ partition'[r] = "pending"
          \/ partition[r] = "pending" /\ partition'[r] = "processing"
          \/ /\ partition[r] = "processing" /\ partition'[r] = "completed"
             /\ pc[p] = "complete_partition"
        BY <1>6, <1>r DEF CreatePartition, StartPartition, CompletePartition,
           WritePartition, Goto, ShapeOK
    <2>3. \A i \in Jobs \ {r} : Evidence(i)' = Evidence(i)
        BY <2>1 DEF Evidence, Exists
    <2>4. /\ UNCHANGED <<jobs, crawlRun, manifest, parserRuns, batch, snapshotFile, recordsFile>>
          /\ (Exists(r)' <=> Exists(r))
        BY <2>1 DEF Exists
    <2>5. CASE partition[r] = Null /\ partition'[r] = "pending"
        <3>1. Evidence(r)' = Evidence(r)
            BY <2>1, <2>5, <1>null DEF Evidence, Exists
        <3> QED BY <1>no, <2>3, <3>1
    <2>6. CASE partition[r] = "pending" /\ partition'[r] = "processing"
        <3>1. \A other \in Course!Milestone \ {"opened"} :
                other \in DoneOf'[r] <=> other \in DoneOf[r]
            BY <1>b, <2>4, <2>6 DEF DoneMeans, Course!Milestone
        <3>2. "opened" \in DoneOf'[r] /\ Course!RestsOn("opened") \subseteq DoneOf[r]
            BY <1>b, <2>6 DEF DoneMeans, Course!RestsOn
        <3> QED BY <1>r, <2>3, <3>1, <3>2, CourseOfWrite DEF Course!Milestone
    <2>7. CASE /\ partition[r] = "processing" /\ partition'[r] = "completed"
               /\ pc[p] = "complete_partition"
        <3>1. \A other \in Course!Milestone \ {"partition"} :
                other \in DoneOf'[r] <=> other \in DoneOf[r]
            BY <1>b, <2>4, <2>7 DEF DoneMeans, Course!Milestone
        <3>2. batch[r] /\ crawlRun[r] \in {"running", "completed"}
            BY <2>7 DEF PlaceOK, Promised, Reached, LeaseStep
        <3>3. "partition" \in DoneOf'[r] /\ Course!RestsOn("partition") \subseteq DoneOf[r]
            BY <1>b, <2>7, <3>2 DEF DoneMeans, Course!RestsOn
        <3> QED BY <1>r, <2>3, <3>1, <3>2, <3>3, CourseOfWrite DEF Course!Milestone
    <2> QED BY <2>2, <2>5, <2>6, <2>7
<1>7. CASE ParserStart(p) \/ ParserComplete(p)
    <2>1. /\ UNCHANGED <<jobs, crawlRun, partition, manifest, batch, snapshotFile, recordsFile>>
          /\ (Exists(r)' <=> Exists(r))
        BY <1>7 DEF ParserStart, ParserComplete, WriteParserRun, Exists, queueVars, vars
    <2>2. CASE ParserStart(p)
        <3>1. \A i \in Jobs : parserRuns'[i].completed = parserRuns[i].completed
            <4>1. \A i \in Jobs : parserRuns'[i] = IF i = r THEN Counting(parserRuns[i], 1, 0)
                                                   ELSE parserRuns[i]
                BY <2>2, ParserRunWrite DEF ParserStart, Step
            <4>2. \A i \in Jobs : parserRuns[i].completed \in Nat
                BY DEF ShapeOK
            <4>3. ASSUME NEW i \in Jobs
                  PROVE  parserRuns'[i].completed = parserRuns[i].completed
                <5>1. CASE i = r
                    <6>1. parserRuns'[i] = Counting(parserRuns[i], 1, 0)
                        BY <4>1, <5>1
                    <6>2. parserRuns'[i].completed = parserRuns[i].completed + 0
                        BY <6>1 DEF Counting
                    <6> QED BY <4>2, <6>2
                <5> QED BY <4>1, <5>1
            <4> QED BY <4>3
        <3>2. \A i \in Jobs : Evidence(i)' = Evidence(i)
            BY <2>1, <3>1 DEF Evidence, Exists
        <3> QED BY <1>no, <3>2
    <2>3. CASE ParserComplete(p)
        <3>1. \A i \in Jobs : parserRuns'[i] = IF i = r THEN Counting(parserRuns[i], 0, 1)
                                               ELSE parserRuns[i]
            BY <2>3, ParserRunWrite DEF ParserComplete, Step
        <3>2. parserRuns[r].completed \in Nat
            BY <1>r DEF ShapeOK
        <3>3. parserRuns'[r].completed = parserRuns[r].completed + 1
            <4>1. parserRuns'[r] = Counting(parserRuns[r], 0, 1)
                BY <1>r, <3>1
            <4> QED BY <4>1 DEF Counting
        <3>4. \A i \in Jobs \ {r} : Evidence(i)' = Evidence(i)
            BY <2>1, <3>1 DEF Evidence, Exists
        <3>5. \A other \in Course!Milestone \ {"parsed"} :
                other \in DoneOf'[r] <=> other \in DoneOf[r]
            BY <1>b, <2>1 DEF DoneMeans, Course!Milestone
        <3>6. pc[p] = "parser_complete" /\ manifest[r] # Null /\ Succeeded
            BY <2>3 DEF ParserComplete, WriteParserRun, Goto, PlaceOK, Promised, Reached,
                        LeaseStep
        <3>7. "parsed" \in DoneOf'[r] /\ Course!RestsOn("parsed") \subseteq DoneOf[r]
            BY <1>b, <3>2, <3>3, <3>6 DEF DoneMeans, Course!RestsOn
        <3> QED BY <1>r, <3>4, <3>5, <3>6, <3>7, CourseOfWrite DEF Course!Milestone
    <2> QED BY <1>7, <2>2, <2>3
<1>8. CASE UNCHANGED durable
    BY <1>8, CourseOfQueue
<1>9. CASE \/ SaveQueued(p) \/ SaveSnapshot(p) \/ SaveParsed(p) \/ SaveBatch(p)
           \/ SaveCompleted(p)
    <2>1. UNCHANGED <<jobs, crawlRun, partition, manifest, parserRuns, batch, snapshotFile,
                      recordsFile>>
        BY <1>9 DEF SaveQueued, SaveSnapshot, SaveParsed, SaveBatch, SaveCompleted,
                    SaveCheckpoint, queueVars, vars
    <2>2. \A i \in Jobs : Evidence(i)' = Evidence(i)
        BY <2>1 DEF Evidence, Exists
    <2> QED BY <1>no, <2>2
<1>10. CASE \/ Recover(p) \/ GetRun(p) \/ GetPartition(p) \/ LoadCheckpoint(p)
            \/ Discover(p) \/ TakeLease(p) \/ NoLease(p) \/ SnapshotCheck(p)
            \/ GetManifest(p) \/ MarkSucceeded(p) \/ GetBatch(p) \/ RecordsCheck(p)
            \/ FinishRun(p) \/ Raise(p) \/ LeaseLost(p)
    BY <1>8, <1>10 DEF Recover, GetRun, GetPartition, LoadCheckpoint, Discover, TakeLease,
                NoLease, SnapshotCheck, GetManifest, MarkSucceeded, GetBatch,
                RecordsCheck, FinishRun, Raise, LeaseLost
<1> QED BY <1>1, <1>2, <1>3, <1>4, <1>5, <1>6, <1>7, <1>8, <1>9, <1>10 DEF WorkerStep

(* The workers follow the abstract course of a run.  A step changes either *)
(* the queue, or one table or file of one run, never more.                 *)
THEOREM WorkerImplementsCourse ==
    ASSUME Instant \subseteq ScheduleTimes
    PROVE  WorkerSpec => ImplementsCourse
<1>1. WorkerInit => Course!CourseInit
    <2> SUFFICES ASSUME WorkerInit PROVE Course!CourseInit
        OBVIOUS
    <2>1. Null \notin {"created", "running", "completed", "pending", "processing"}
        BY WorkerNullAssumption DEF Checkpoint
    <2>2. ASSUME NEW r \in Jobs
          PROVE  DoneOf[r] = {}
        <3>1. DoneMeans(r)
            BY WhatIsDone
        <3>2. ~Exists(r)
            BY DEF WorkerInit, Init, Exists
        <3> QED BY <2>1, <3>1, <3>2 DEF WorkerInit, DoneMeans, Course!Milestone
    <2> QED BY <2>2, DoneShape DEF Course!CourseInit
<1>2. WorkerInv /\ [WorkerNext]_workerVars => [Course!CourseNext]_DoneOf
    <2> SUFFICES ASSUME WorkerInv, [WorkerNext]_workerVars
                 PROVE  [Course!CourseNext]_DoneOf
        OBVIOUS
    <2>1. TypeOK /\ TypeOK' /\ TablesInv /\ ShapeOK /\ PlacesOK /\ [Next]_vars
        BY WorkerInvNext, WorkerNextOnQueue DEF WorkerInv
    <2>2. ASSUME NEW p \in Process, WorkerStep(p)
          PROVE  [Course!CourseNext]_DoneOf
        BY <2>1, <2>2, CourseOfWorker DEF PlacesOK
    <2>3. ASSUME \/ WorkerTick \/ UNCHANGED workerVars
                 \/ \E p \in Process : Start(p) \/ GracefulShutdown(p) \/ Interrupt(p)
          PROVE  [Course!CourseNext]_DoneOf
        <3>1. UNCHANGED durable
            BY <2>3 DEF WorkerTick, Start, GracefulShutdown, Interrupt, workerVars, durable
        <3> QED BY <2>1, <3>1, CourseOfQueue
    <2> QED BY <2>2, <2>3 DEF WorkerNext
<1> QED BY <1>1, <1>2, WorkerAlways, PTL
        DEF WorkerSpec, ImplementsCourse, Course!CourseSpec

(* A run whose row says completed has everything: its job, its snapshot    *)
(* with a manifest, a parser run, its records, its batch and a completed   *)
(* partition, and some job was fetched.  It follows from the course alone. *)
THEOREM CompletedRunsMissNothing ==
    ASSUME Instant \subseteq ScheduleTimes
    PROVE  WorkerSpec => []Course!NothingIsMissing
<1> DEFINE Closed == \A r \in Jobs :
                /\ DoneOf[r] \subseteq Course!Milestone
                /\ \A m \in DoneOf[r] : Course!RestsOn(m) \subseteq DoneOf[r]
                /\ "parsed" \in DoneOf[r] => \E other \in Jobs : "fetched" \in DoneOf[other]
<1>1. Course!CourseInit => Closed
    BY DEF Course!CourseInit
<1>2. Closed /\ [Course!CourseNext]_DoneOf => Closed'
    <2> SUFFICES ASSUME Closed, [Course!CourseNext]_DoneOf, NEW r \in Jobs
                 PROVE  /\ DoneOf'[r] \subseteq Course!Milestone
                        /\ \A m \in DoneOf'[r] : Course!RestsOn(m) \subseteq DoneOf'[r]
                        /\ "parsed" \in DoneOf'[r] =>
                                \E other \in Jobs : "fetched" \in DoneOf'[other]
        OBVIOUS
    <2>1. CASE DoneOf' = DoneOf
        BY <2>1
    <2>2. ASSUME NEW s \in Jobs, NEW m \in Course!Ready(s), Course!Reach(s, m)
          PROVE  /\ DoneOf'[r] \subseteq Course!Milestone
                 /\ \A n \in DoneOf'[r] : Course!RestsOn(n) \subseteq DoneOf'[r]
                 /\ "parsed" \in DoneOf'[r] =>
                        \E other \in Jobs : "fetched" \in DoneOf'[other]
        <3>1. \A i \in Jobs : DoneOf'[i] = IF i = s THEN DoneOf[i] \cup {m} ELSE DoneOf[i]
            BY <2>2, DoneShape DEF Course!Reach
        <3>2. /\ m \in Course!Milestone /\ Course!RestsOn(m) \subseteq DoneOf[s]
              /\ m = "parsed" => \E other \in Jobs : "fetched" \in DoneOf[other]
            BY <2>2 DEF Course!Ready
        <3> QED BY <3>1, <3>2
    <2> QED BY <2>1, <2>2 DEF Course!CourseNext
<1>3. Closed => Course!NothingIsMissing
    <2> SUFFICES ASSUME Closed, NEW r \in Jobs, "run" \in DoneOf[r]
                 PROVE  /\ Course!Milestone \ {"fetched"} \subseteq DoneOf[r]
                        /\ \E other \in Jobs : "fetched" \in DoneOf[other]
        BY DEF Course!NothingIsMissing
    <2>1. "partition" \in DoneOf[r]
        BY DEF Course!RestsOn
    <2>2. {"batch", "started", "opened"} \subseteq DoneOf[r]
        BY <2>1 DEF Course!RestsOn
    <2>3. "records" \in DoneOf[r]
        BY <2>2 DEF Course!RestsOn
    <2>4. "parsed" \in DoneOf[r]
        BY <2>3 DEF Course!RestsOn
    <2>5. "manifest" \in DoneOf[r]
        BY <2>4 DEF Course!RestsOn
    <2>6. "snapshot" \in DoneOf[r]
        BY <2>5 DEF Course!RestsOn
    <2>7. "discovered" \in DoneOf[r]
        BY <2>6 DEF Course!RestsOn
    <2> QED BY <2>1, <2>2, <2>3, <2>4, <2>5, <2>6, <2>7 DEF Course!Milestone
<1> HIDE DEF Closed
<1> QED BY <1>1, <1>2, <1>3, WorkerImplementsCourse, PTL
        DEF ImplementsCourse, Course!CourseSpec

-----------------------------------------------------------------------------
(* How far the disagreements with the documents reach.                     *)

(* A step of a process other than a discovery creates no job. *)
LEMMA NothingIsCreated ==
    ASSUME TypeOK, NEW p \in Process, CallsQueue(p), NEW j \in Jobs, ~Exists(j)
    PROVE  jobs'[j] = jobs[j]
<1>1. CASE RecoverAbandoned(p)
    BY <1>1 DEF RecoverAbandoned, Abandoned, IsProcessing
<1>2. ASSUME NEW i \in Jobs, NEW s \in LeaseSeconds, LeaseNext(p, i, s)
      PROVE  jobs'[j] = jobs[j]
    BY <1>2 DEF LeaseNext, NextJob, Eligible, TypeOK
<1>3. CASE Succeed(p) \/ Fail(p)
    BY <1>3 DEF Succeed, Fail, Finish, OwnsLease, IsProcessing, TypeOK
<1> QED BY <1>1, <1>2, <1>3 DEF CallsQueue, FinishRejected, CaptureNow, Crash, vars

(* Every job was discovered by a process of its run. *)
JobsHaveRuns == \A j \in Jobs : Exists(j) => \E p \in Process : RunOf[p] = j

LEMMA JobsHaveRunsNext ==
    ASSUME TypeOK, JobsHaveRuns, [WorkerNext]_workerVars
    PROVE  JobsHaveRuns'
<1> SUFFICES ASSUME NEW j \in Jobs, Exists(j)', ~Exists(j)
             PROVE  \E p \in Process : RunOf[p] = j
    BY DEF JobsHaveRuns
<1>1. jobs'[j] # jobs[j]
    BY DEF Exists
<1>2. ASSUME NEW p \in Process, Discover(p)
      PROVE  RunOf[p] = j
    BY <1>1, <1>2, WorkerAssumption DEF Discover, CreateIdempotent, TypeOK
<1>3. ASSUME NEW p \in Process, CallsQueue(p)
      PROVE  FALSE
    BY <1>1, <1>3, NothingIsCreated
<1>4. ASSUME NEW p \in Process, Start(p) \/ GracefulShutdown(p) \/ Interrupt(p)
      PROVE  CallsQueue(p)
    BY <1>4 DEF Start, GracefulShutdown, Interrupt, LetGo, CallsQueue, queueVars
<1>5. CASE WorkerTick \/ UNCHANGED workerVars
    BY <1>1, <1>5 DEF WorkerTick, Tick, workerVars
<1> QED BY <1>2, <1>3, <1>4, <1>5, WorkerStepIsOneCall DEF WorkerNext

LEMMA JobsHaveRunsAlways ==
    ASSUME Instant \subseteq ScheduleTimes
    PROVE  WorkerSpec => []JobsHaveRuns
<1>1. WorkerInit => JobsHaveRuns
    BY DEF WorkerInit, Init, JobsHaveRuns, Exists
<1>2. WorkerInv /\ JobsHaveRuns /\ [WorkerNext]_workerVars => JobsHaveRuns'
    BY JobsHaveRunsNext DEF WorkerInv
<1> QED BY <1>1, <1>2, WorkerAlways, PTL DEF WorkerSpec

(* A run that completes did so on a success in the queue: its own job's,   *)
(* or that of another run that some process was started for.  The second   *)
(* case is the whole of what lease_next, which is not told the run, can    *)
(* do to a run that completes.                                             *)
CompletedRunUsedASuccess ==
    \A r \in Jobs : checkpoint[r] = "completed" =>
        \/ Exists(r) /\ jobs[r].state = "succeeded"
        \/ \E p \in Process : /\ RunOf[p] # r /\ Exists(RunOf[p])
                              /\ jobs[RunOf[p]].state = "succeeded"

(* What a completed run tells about the queue. *)
THEOREM CompletedRunsUsedASuccess ==
    ASSUME Instant \subseteq ScheduleTimes
    PROVE  WorkerSpec => []CompletedRunUsedASuccess
<1>1. ASSUME WorkerInv, JobsHaveRuns, NEW r \in Jobs, checkpoint[r] = "completed"
      PROVE  \/ Exists(r) /\ jobs[r].state = "succeeded"
             \/ \E p \in Process : /\ RunOf[p] # r /\ Exists(RunOf[p])
                                   /\ jobs[RunOf[p]].state = "succeeded"
    <2>1. PICK j \in Jobs : Exists(j) /\ jobs[j].state = "succeeded"
        BY <1>1, RankType DEF WorkerInv, RowsOK, RowOK, Promised, Succeeded
    <2>2. PICK p \in Process : RunOf[p] = j
        BY <1>1, <2>1 DEF JobsHaveRuns
    <2> QED BY <2>1, <2>2
<1>2. WorkerInv /\ JobsHaveRuns => CompletedRunUsedASuccess
    BY <1>1 DEF CompletedRunUsedASuccess
<1> QED BY <1>2, WorkerAlways, JobsHaveRunsAlways, PTL

(* So on a database that serves one run, a completed run has settled the   *)
(* job it discovered, as docs/project-boundaries.md says.                  *)
THEOREM SingleRunsSettleTheirJob ==
    ASSUME Instant \subseteq ScheduleTimes,
           \A p, q \in Process : RunOf[p] = RunOf[q]
    PROVE  WorkerSpec => []CompletedRunSettledItsJob
<1>1. ASSUME WorkerInv, JobsHaveRuns, NEW r \in Jobs, checkpoint[r] = "completed"
      PROVE  jobs[r].state \in Terminal
    <2>1. Exists(r) /\ Succeeded
        BY <1>1, RankType DEF WorkerInv, RowsOK, RowOK, Promised
    <2>2. PICK j \in Jobs : Exists(j) /\ jobs[j].state = "succeeded"
        BY <2>1 DEF Succeeded
    <2>3. j = r
        BY <1>1, <2>1, <2>2 DEF JobsHaveRuns
    <2> QED BY <2>2, <2>3 DEF Terminal
<1>2. WorkerInv /\ JobsHaveRuns => CompletedRunSettledItsJob
    BY <1>1 DEF CompletedRunSettledItsJob
<1> QED BY <1>2, WorkerAlways, JobsHaveRunsAlways, PTL

(* A graceful shutdown gives the lease back whenever an attempt is left:   *)
(* the job can be leased at once, by the same process and with the time it *)
(* has.  Only on the last attempt is the job exhausted instead.            *)
ShutdownReturnsLeaseOrExhausts ==
    [][\A p \in Process, j \in Jobs :
        (GracefulShutdown(p) /\ held[p].job_id = j) =>
            IF jobs[j].attempt_count < MaxAttempts[j]
            THEN Eligible(j, current[p])'
            ELSE jobs'[j].state = "failed_exhausted"]_workerVars

(* What a graceful shutdown does to the job of its lease. *)
THEOREM ShutdownsReturnOrExhaust ==
    ASSUME Instant \subseteq ScheduleTimes
    PROVE  WorkerSpec => ShutdownReturnsLeaseOrExhausts
<1>1. ASSUME TypeOK, TablesInv, NEW p \in Process, NEW j \in Jobs,
             GracefulShutdown(p), held[p].job_id = j
      PROVE  IF jobs[j].attempt_count < MaxAttempts[j]
             THEN Eligible(j, current[p])'
             ELSE jobs'[j].state = "failed_exhausted"
    <2>1. /\ jobs[j] \in JobRow /\ jobs[j].attempt_count \in Nat
          /\ MaxAttempts[j] \in 1 .. AttemptLimit
        BY <1>1, TableTypes DEF GracefulShutdown, Fail, OwnsLease, JobRow
    <2>2. /\ jobs'[j] = ReleasedRow(jobs[j], FailState(j), current[p])
          /\ current'[p] = current[p]
        BY <1>1, FinishEffect DEF GracefulShutdown, Fail, Finish
    <2>3. jobs'[j] \in JobRow
        <3>1. current[p] \in Instant
            BY <1>1 DEF TypeOK
        <3>2. FailState(j) \in {"pending", "succeeded", "failed_exhausted"}
            BY FailTypes
        <3> QED BY <2>1, <2>2, <3>1, <3>2, ReleasedRowType
    <2>4. /\ jobs'[j].state = FailState(j) /\ jobs'[j].scheduled_at = current[p]
          /\ jobs'[j].attempt_count = jobs[j].attempt_count
        BY <2>1, <2>2 DEF ReleasedRow, JobRow
    <2>5. CASE jobs[j].attempt_count < MaxAttempts[j]
        <3>1. FailState(j) = "pending"
            BY <2>1, <2>5 DEF FailState, Exhausted
        <3>2. Eligible(j, current[p])'
            BY <2>2, <2>3, <2>4, <2>5, <3>1, NotNull DEF Eligible, Exists, TextLeq
        <3> QED BY <2>5, <3>2
    <2>6. CASE ~(jobs[j].attempt_count < MaxAttempts[j])
        <3>1. FailState(j) = "failed_exhausted"
            BY <2>1, <2>6 DEF FailState, Exhausted
        <3> QED BY <2>4, <2>6, <3>1
    <2> QED BY <2>5, <2>6
<1>2. WorkerInv /\ [WorkerNext]_workerVars =>
        [\A p \in Process, j \in Jobs :
            (GracefulShutdown(p) /\ held[p].job_id = j) =>
                IF jobs[j].attempt_count < MaxAttempts[j]
                THEN Eligible(j, current[p])'
                ELSE jobs'[j].state = "failed_exhausted"]_workerVars
    BY <1>1 DEF WorkerInv
<1> QED BY <1>2, WorkerAlways, PTL DEF WorkerSpec, ShutdownReturnsLeaseOrExhausts

(* The state that a crash between queue.succeed and the checkpoint after   *)
(* it leaves behind: run r is to lease a job that has already succeeded.   *)
BeforeLease == FreeStep \cup {"save_queued", "lease"}

Stuck(r) ==
    /\ Exists(r) /\ jobs[r].state = "succeeded"
    /\ checkpoint[r] = "queued"
    /\ \A p \in Process : pc[p] \in BeforeLease

(* Where a process can go from there.                                      *)
LEMMA StuckStep ==
    ASSUME WorkerInv, JobsHaveRuns, NEW r \in Jobs, \A p \in Process : RunOf[p] = r,
           Stuck(r), NEW p \in Process,
           Start(p) \/ WorkerStep(p) \/ GracefulShutdown(p) \/ Interrupt(p)
    PROVE  checkpoint'[r] = "queued" /\ pc'[p] \in BeforeLease
<1>1. /\ pc[p] \in BeforeLease /\ pc \in [Process -> Step] /\ RunOf[p] = r
      /\ checkpoint[r] = "queued" /\ checkpoint \in [Jobs -> Checkpoint \cup {Null}]
    BY DEF Stuck, WorkerInv, ShapeOK
<1>2. CASE Start(p) \/ Recover(p) \/ GetRun(p) \/ GetPartition(p) \/ Interrupt(p)
           \/ Discover(p)
    BY <1>1, <1>2 DEF Start, Recover, GetRun, GetPartition, Interrupt, Discover, Goto,
                BeforeLease, FreeStep, durable
<1>3. CASE CreateRun(p) \/ StartRun(p) \/ CreatePartition(p) \/ StartPartition(p)
    BY <1>1, <1>3 DEF CreateRun, StartRun, WriteRun, CreatePartition, StartPartition,
                WritePartition, Goto, BeforeLease, FreeStep
<1>4. CASE LoadCheckpoint(p)
    <2>1. "queued" # Null
        BY WorkerNullAssumption DEF Checkpoint
    <2>2. ResumeAt("queued") = "lease"
        BY <2>1 DEF ResumeAt
    <2> QED BY <1>1, <1>4, <2>2 DEF LoadCheckpoint, Goto, BeforeLease, durable
<1>5. CASE NoLease(p) \/ Raise(p) \/ LeaseLost(p)
    BY <1>1, <1>5 DEF NoLease, Raise, LeaseLost, Return, BeforeLease, FreeStep, durable
<1>6. CASE SaveQueued(p)
    BY <1>1, <1>6 DEF SaveQueued, SaveCheckpoint, Goto, BeforeLease
<1>7. ~TakeLease(p)
    <2> SUFFICES ASSUME NEW j \in Jobs, NEW s \in LeaseSeconds, LeaseNext(p, j, s)
                 PROVE  FALSE
        BY DEF TakeLease
    <2>1. Exists(j) /\ jobs[j].state = "pending"
        BY DEF LeaseNext, NextJob, Eligible
    <2>2. j = r
        BY <2>1 DEF JobsHaveRuns
    <2> QED BY <2>1, <2>2 DEF Stuck
<1>8. pc[p] \notin {"leased", "snapshot_open", "snapshot_write", "get_manifest",
                    "record_manifest", "succeed", "save_snapshot", "parser_start",
                    "parser_complete", "save_parsed", "get_batch", "records_check",
                    "records_open", "records_write", "record_batch", "save_batch",
                    "finish", "complete_partition", "complete_run", "save_completed"}
    BY <1>1 DEF BeforeLease, FreeStep
<1>9. ~(\/ GracefulShutdown(p) \/ SnapshotCheck(p) \/ SnapshotOpen(p) \/ SnapshotWrite(p)
        \/ GetManifest(p) \/ RecordManifest(p) \/ MarkSucceeded(p) \/ SaveSnapshot(p)
        \/ ParserStart(p) \/ ParserComplete(p) \/ SaveParsed(p))
    BY <1>8 DEF GracefulShutdown, SnapshotCheck, SnapshotOpen, SnapshotWrite, WriteSnapshot,
                GetManifest, RecordManifest, MarkSucceeded, SaveSnapshot, SaveParsed,
                SaveCheckpoint, ParserStart, ParserComplete, WriteParserRun, Goto
<1>10. ~(\/ GetBatch(p) \/ RecordsCheck(p) \/ RecordsOpen(p) \/ RecordsWrite(p)
         \/ RecordBatch(p) \/ SaveBatch(p) \/ FinishRun(p) \/ CompletePartition(p)
         \/ CompleteRun(p) \/ SaveCompleted(p))
    BY <1>8 DEF GetBatch, RecordsCheck, RecordsOpen, RecordsWrite, WriteRecords,
                RecordBatch, SaveBatch, SaveCheckpoint, FinishRun, CompletePartition,
                WritePartition, CompleteRun, WriteRun, SaveCompleted, Goto
<1> QED BY <1>2, <1>3, <1>4, <1>5, <1>6, <1>7, <1>9, <1>10 DEF WorkerStep

(* Nothing the program can do leads out of that state: however many        *)
(* processes are started for the run, and however often, its checkpoint    *)
(* stays queued.  Recovery, discovery and the queue have nothing for it.   *)
THEOREM InterruptedSuccessIsFinal ==
    ASSUME Instant \subseteq ScheduleTimes,
           NEW r \in Jobs, \A p \in Process : RunOf[p] = r
    PROVE  WorkerSpec => [](Stuck(r) => []Stuck(r))
<1>1. WorkerInv /\ JobsHaveRuns /\ Stuck(r) /\ [WorkerNext]_workerVars => Stuck(r)'
    <2> SUFFICES ASSUME WorkerInv, JobsHaveRuns, Stuck(r), [WorkerNext]_workerVars
                 PROVE  Stuck(r)'
        OBVIOUS
    <2>1. Exists(r)' /\ jobs'[r].state = "succeeded"
        <3>1. TypeOK /\ TablesInv /\ [Next]_vars
            BY WorkerNextOnQueue DEF WorkerInv
        <3>2. jobs'[r] = jobs[r]
            BY <3>1, StepEffect DEF Stuck, Exists, IsProcessing
        <3> QED BY <3>2 DEF Stuck, Exists
    <2>2. CASE WorkerTick \/ UNCHANGED workerVars
        BY <2>1, <2>2 DEF WorkerTick, workerVars, durable, Stuck
    <2>3. ASSUME NEW p \in Process,
                 Start(p) \/ WorkerStep(p) \/ GracefulShutdown(p) \/ Interrupt(p)
          PROVE  Stuck(r)'
        <3>1. checkpoint'[r] = "queued" /\ pc'[p] \in BeforeLease
            BY <2>3, StuckStep
        <3>2. OthersStay(p)
            <4>1. pc[p] # "record_manifest"
                BY DEF Stuck, BeforeLease, FreeStep
            <4> QED BY <2>3, <4>1, ShapeStep DEF WorkerInv
        <3> QED BY <2>1, <3>1, <3>2 DEF Stuck, OthersStay
    <2> QED BY <2>2, <2>3 DEF WorkerNext
<1> QED BY <1>1, WorkerAlways, JobsHaveRunsAlways, PTL DEF WorkerSpec

-----------------------------------------------------------------------------
(* Crawl runs and partitions move along the diagrams of                    *)
(* docs/runtime-state.md, whichever processes carry them.                  *)

WorkerRunArc == {<<"absent", "created">>, <<"created", "running">>,
                 <<"running", "completed">>}
WorkerPartitionArc == {<<"absent", "pending">>, <<"pending", "processing">>,
                       <<"processing", "completed">>}

RunPhase == [r \in Jobs |-> IF crawlRun[r] = Null THEN "absent" ELSE crawlRun[r]]
PartitionPhase == [r \in Jobs |-> IF partition[r] = Null THEN "absent" ELSE partition[r]]

CrawlRuns == INSTANCE RecordLifecycle
                WITH Item <- Jobs, Arc <- WorkerRunArc, phase <- RunPhase
CrawlPartitions == INSTANCE RecordLifecycle
                WITH Item <- Jobs, Arc <- WorkerPartitionArc, phase <- PartitionPhase

(* Only the steps that are named for it write these two tables. *)
LEMMA RunTablesStep ==
    ASSUME NEW p \in Process, WorkerStep(p)
    PROVE  /\ crawlRun' = crawlRun \/ CreateRun(p) \/ StartRun(p) \/ CompleteRun(p)
           /\ \/ partition' = partition
              \/ CreatePartition(p) \/ StartPartition(p) \/ CompletePartition(p)
<1>1. CASE \/ Recover(p) \/ GetRun(p) \/ GetPartition(p) \/ LoadCheckpoint(p)
           \/ Discover(p) \/ TakeLease(p) \/ NoLease(p) \/ SnapshotCheck(p)
           \/ GetManifest(p) \/ MarkSucceeded(p) \/ GetBatch(p) \/ RecordsCheck(p)
           \/ FinishRun(p) \/ Raise(p) \/ LeaseLost(p)
    BY <1>1 DEF Recover, GetRun, GetPartition, LoadCheckpoint, Discover, TakeLease,
                NoLease, SnapshotCheck, GetManifest, MarkSucceeded, GetBatch,
                RecordsCheck, FinishRun, Raise, LeaseLost, durable
<1>2. CASE \/ SaveQueued(p) \/ SaveSnapshot(p) \/ SaveParsed(p) \/ SaveBatch(p)
           \/ SaveCompleted(p) \/ RecordManifest(p) \/ RecordBatch(p)
           \/ SnapshotOpen(p) \/ SnapshotWrite(p) \/ RecordsOpen(p) \/ RecordsWrite(p)
           \/ ParserStart(p) \/ ParserComplete(p)
    BY <1>2 DEF SaveQueued, SaveSnapshot, SaveParsed, SaveBatch, SaveCheckpoint,
                SaveCompleted, RecordManifest, RecordBatch, SnapshotOpen, SnapshotWrite,
                WriteSnapshot, RecordsOpen, RecordsWrite, WriteRecords, ParserStart,
                ParserComplete, WriteParserRun
<1>3. CASE \/ CreateRun(p) \/ StartRun(p) \/ CompleteRun(p)
           \/ CreatePartition(p) \/ StartPartition(p) \/ CompletePartition(p)
    BY <1>3 DEF CreateRun, StartRun, CompleteRun, WriteRun,
                CreatePartition, StartPartition, CompletePartition, WritePartition
<1> QED BY <1>1, <1>2, <1>3 DEF WorkerStep

(* A guarded update of a run's row is a move along an arc. *)
LEMMA RunMove ==
    ASSUME ShapeOK, NEW p \in Process,
           NEW expected \in {Null, "created", "running"},
           NEW target \in {"created", "running", "completed"},
           NEW from, NEW to, WriteRun(p, from, expected, target, to),
           <<IF expected = Null THEN "absent" ELSE expected, target>> \in WorkerRunArc
    PROVE  CrawlRuns!LifecycleNext
<1> DEFINE r == RunOf[p]
           arc == <<IF expected = Null THEN "absent" ELSE expected, target>>
<1>1. /\ r \in Jobs /\ crawlRun[r] = expected /\ target # Null
      /\ crawlRun' = [crawlRun EXCEPT ![r] = target]
    BY WorkerAssumption, WorkerNullAssumption DEF WriteRun, Checkpoint
<1>2. RunPhase' = [RunPhase EXCEPT ![r] = target]
    BY <1>1 DEF RunPhase, ShapeOK
<1>3. RunPhase[r] = arc[1] /\ target = arc[2]
    BY <1>1 DEF RunPhase
<1>4. CrawlRuns!Move(r, arc)
    BY <1>2, <1>3 DEF CrawlRuns!Move
<1> QED BY <1>1, <1>4 DEF CrawlRuns!LifecycleNext

(* The same for a partition's row. *)
LEMMA PartitionMove ==
    ASSUME ShapeOK, NEW p \in Process,
           NEW expected \in {Null, "pending", "processing"},
           NEW target \in {"pending", "processing", "completed"},
           NEW from, NEW to, WritePartition(p, from, expected, target, to),
           <<IF expected = Null THEN "absent" ELSE expected, target>> \in WorkerPartitionArc
    PROVE  CrawlPartitions!LifecycleNext
<1> DEFINE r == RunOf[p]
           arc == <<IF expected = Null THEN "absent" ELSE expected, target>>
<1>1. /\ r \in Jobs /\ partition[r] = expected /\ target # Null
      /\ partition' = [partition EXCEPT ![r] = target]
    BY WorkerAssumption, WorkerNullAssumption DEF WritePartition, Checkpoint
<1>2. PartitionPhase' = [PartitionPhase EXCEPT ![r] = target]
    BY <1>1 DEF PartitionPhase, ShapeOK
<1>3. PartitionPhase[r] = arc[1] /\ target = arc[2]
    BY <1>1 DEF PartitionPhase
<1>4. CrawlPartitions!Move(r, arc)
    BY <1>2, <1>3 DEF CrawlPartitions!Move
<1> QED BY <1>1, <1>4 DEF CrawlPartitions!LifecycleNext

(* However processes race for a run, its row and its partition's take one  *)
(* arc at a time: nothing is started, completed or created twice, and a    *)
(* completed one is never opened again.                                    *)
THEOREM WorkersFollowLifecycles ==
    ASSUME Instant \subseteq ScheduleTimes
    PROVE  WorkerSpec => CrawlRuns!LifecycleSpec /\ CrawlPartitions!LifecycleSpec
<1>1. WorkerInit => CrawlRuns!LifecycleInit /\ CrawlPartitions!LifecycleInit
    BY DEF WorkerInit, CrawlRuns!LifecycleInit, CrawlPartitions!LifecycleInit,
           RunPhase, PartitionPhase
<1>2. Null \notin {"created", "running", "pending", "processing"}
    BY WorkerNullAssumption
<1>3. WorkerInv /\ [WorkerNext]_workerVars =>
        /\ [CrawlRuns!LifecycleNext]_RunPhase
        /\ [CrawlPartitions!LifecycleNext]_PartitionPhase
    <2> SUFFICES ASSUME ShapeOK, [WorkerNext]_workerVars
                 PROVE  /\ [CrawlRuns!LifecycleNext]_RunPhase
                        /\ [CrawlPartitions!LifecycleNext]_PartitionPhase
        BY DEF WorkerInv
    <2>1. /\ crawlRun' = crawlRun => RunPhase' = RunPhase
          /\ partition' = partition => PartitionPhase' = PartitionPhase
        BY DEF RunPhase, PartitionPhase
    <2>2. CASE UNCHANGED durable
        BY <2>1, <2>2 DEF durable
    <2>3. ASSUME NEW p \in Process, WorkerStep(p)
          PROVE  /\ [CrawlRuns!LifecycleNext]_RunPhase
                 /\ [CrawlPartitions!LifecycleNext]_PartitionPhase
        <3>1. CreateRun(p) => CrawlRuns!LifecycleNext
            BY <1>2, RunMove DEF CreateRun, WorkerRunArc
        <3>2. StartRun(p) => CrawlRuns!LifecycleNext
            BY <1>2, RunMove DEF StartRun, WorkerRunArc
        <3>3. CompleteRun(p) => CrawlRuns!LifecycleNext
            BY <1>2, RunMove DEF CompleteRun, WorkerRunArc
        <3>4. CreatePartition(p) => CrawlPartitions!LifecycleNext
            BY <1>2, PartitionMove DEF CreatePartition, WorkerPartitionArc
        <3>5. StartPartition(p) => CrawlPartitions!LifecycleNext
            BY <1>2, PartitionMove DEF StartPartition, WorkerPartitionArc
        <3>6. CompletePartition(p) => CrawlPartitions!LifecycleNext
            BY <1>2, PartitionMove DEF CompletePartition, WorkerPartitionArc
        <3> QED BY <2>1, <2>3, <3>1, <3>2, <3>3, <3>4, <3>5, <3>6, RunTablesStep
    <2>4. CASE \/ WorkerTick \/ UNCHANGED workerVars
               \/ \E p \in Process : Start(p) \/ GracefulShutdown(p) \/ Interrupt(p)
        BY <2>2, <2>4 DEF WorkerTick, Start, GracefulShutdown, Interrupt, workerVars, durable
    <2> QED BY <2>3, <2>4 DEF WorkerNext
<1> QED BY <1>1, <1>3, WorkerAlways, PTL
        DEF WorkerSpec, CrawlRuns!LifecycleSpec, CrawlPartitions!LifecycleSpec

(* Two more places where a crash leaves a run that no later start closes.  *)
(* A run that was created but not started is taken for one that is under   *)
(* way; one whose partition is completed already is refused at its end.    *)
NeverStarted(r) ==
    /\ crawlRun[r] = "created"
    /\ \A p \in Process : RunOf[p] = r => pc[p] # "start_run"

HalfClosed(r) ==
    /\ crawlRun[r] = "running" /\ partition[r] = "completed"
    /\ \A p \in Process : RunOf[p] = r => pc[p] # "complete_run"

(* The two steps that would close them are reached in one way each. *)
LEMMA EnteredFrom ==
    ASSUME ShapeOK, NEW p \in Process,
           Start(p) \/ WorkerStep(p) \/ GracefulShutdown(p) \/ Interrupt(p)
    PROVE  /\ pc'[p] = "start_run" => CreateRun(p)
           /\ pc'[p] = "complete_run" => CompletePartition(p)
<1>1. pc \in [Process -> Step]
    BY DEF ShapeOK
<1>2. CASE \/ Recover(p) \/ GetRun(p) \/ CreateRun(p) \/ StartRun(p) \/ GetPartition(p)
           \/ CreatePartition(p) \/ StartPartition(p) \/ Start(p)
    BY <1>1, <1>2 DEF Recover, GetRun, CreateRun, StartRun, WriteRun, GetPartition,
                CreatePartition, StartPartition, WritePartition, Start, Goto
<1>3. CASE LoadCheckpoint(p)
    <2>1. /\ RunOf[p] \in Jobs /\ checkpoint[RunOf[p]] \in Checkpoint \cup {Null}
          /\ Null \notin Checkpoint
        BY WorkerAssumption, WorkerNullAssumption DEF ShapeOK
    <2>2. \A value \in (Checkpoint \cup {Null}) \ {"completed"} :
            ResumeAt(value) \in {"discover", "lease", "parser_start", "get_batch", "finish"}
        BY <2>1 DEF ResumeAt, Checkpoint
    <2>3. pc'[p] \in {"off", "discover", "lease", "parser_start", "get_batch", "finish"}
        BY <1>1, <1>3, <2>1, <2>2 DEF LoadCheckpoint, Goto, Return
    <2> QED BY <2>3
<1>4. CASE \/ Discover(p) \/ SaveQueued(p) \/ SaveSnapshot(p) \/ SaveParsed(p)
           \/ SaveBatch(p) \/ SaveCompleted(p) \/ TakeLease(p) \/ NoLease(p)
           \/ MarkSucceeded(p)
    BY <1>1, <1>4 DEF Discover, SaveQueued, SaveSnapshot, SaveParsed, SaveBatch,
                SaveCheckpoint, SaveCompleted, TakeLease, NoLease, MarkSucceeded, Goto, Return
<1>5. CASE \/ SnapshotCheck(p) \/ SnapshotOpen(p) \/ SnapshotWrite(p) \/ GetManifest(p)
           \/ RecordManifest(p) \/ ParserStart(p) \/ ParserComplete(p)
    BY <1>1, <1>5 DEF SnapshotCheck, SnapshotOpen, SnapshotWrite, WriteSnapshot,
                GetManifest, RecordManifest, ParserStart, ParserComplete, WriteParserRun, Goto
<1>6. CASE \/ GetBatch(p) \/ RecordsCheck(p) \/ RecordsOpen(p) \/ RecordsWrite(p)
           \/ RecordBatch(p) \/ FinishRun(p) \/ CompletePartition(p) \/ CompleteRun(p)
    BY <1>1, <1>6 DEF GetBatch, RecordsCheck, RecordsOpen, RecordsWrite, WriteRecords,
                RecordBatch, FinishRun, CompletePartition, WritePartition, CompleteRun,
                WriteRun, Goto
<1>7. CASE GracefulShutdown(p) \/ Interrupt(p) \/ Raise(p) \/ LeaseLost(p)
    BY <1>1, <1>7 DEF GracefulShutdown, Interrupt, Raise, LeaseLost, Return
<1> QED BY <1>2, <1>3, <1>4, <1>5, <1>6, <1>7 DEF WorkerStep

(* Neither of them is ever left again, whoever starts the run how often.   *)
THEOREM UnclosedRunsStayUnclosed ==
    ASSUME Instant \subseteq ScheduleTimes, NEW r \in Jobs
    PROVE  WorkerSpec => /\ [](NeverStarted(r) => []NeverStarted(r))
                         /\ [](HalfClosed(r) => []HalfClosed(r))
<1>1. Null \notin {"created", "running", "pending", "processing"}
    BY WorkerNullAssumption
<1>2. WorkerInv /\ NeverStarted(r) /\ [WorkerNext]_workerVars => NeverStarted(r)'
    <2> SUFFICES ASSUME WorkerInv, NeverStarted(r), [WorkerNext]_workerVars
                 PROVE  NeverStarted(r)'
        OBVIOUS
    <2>1. crawlRun[r] = "created"
        BY DEF NeverStarted
    <2>2. CASE UNCHANGED <<crawlRun, pc>>
        BY <2>2 DEF NeverStarted
    <2>3. ASSUME NEW p \in Process,
                 Start(p) \/ WorkerStep(p) \/ GracefulShutdown(p) \/ Interrupt(p)
          PROVE  NeverStarted(r)'
        <3>1. ShapeOK /\ OthersStay(p)
            BY <2>3, ShapeStep DEF WorkerInv, PlacesOK, PlaceOK, LeaseStep
        <3>2. RunOf[p] = r => ~CreateRun(p) /\ ~StartRun(p) /\ ~CompleteRun(p)
            BY <1>1, <2>1 DEF CreateRun, StartRun, CompleteRun, WriteRun, Goto, NeverStarted
        <3>3. crawlRun'[r] = "created"
            <4>1. CASE WorkerStep(p)
                BY <2>1, <3>1, <3>2, <4>1, RunTablesStep
                    DEF CreateRun, StartRun, CompleteRun, WriteRun, ShapeOK
            <4>2. CASE Start(p) \/ GracefulShutdown(p) \/ Interrupt(p)
                BY <2>1, <4>2 DEF Start, GracefulShutdown, Interrupt, durable
            <4> QED BY <2>3, <4>1, <4>2
        <3>4. RunOf[p] = r => pc'[p] # "start_run"
            BY <2>3, <3>1, <3>2, EnteredFrom
        <3> QED BY <3>1, <3>3, <3>4 DEF NeverStarted, OthersStay
    <2> QED BY <2>2, <2>3 DEF WorkerNext, WorkerTick, workerVars, durable
<1>3. WorkerInv /\ HalfClosed(r) /\ [WorkerNext]_workerVars => HalfClosed(r)'
    <2> SUFFICES ASSUME WorkerInv, HalfClosed(r), [WorkerNext]_workerVars
                 PROVE  HalfClosed(r)'
        OBVIOUS
    <2>1. crawlRun[r] = "running" /\ partition[r] = "completed"
        BY DEF HalfClosed
    <2>2. CASE UNCHANGED <<crawlRun, partition, pc>>
        BY <2>2 DEF HalfClosed
    <2>3. ASSUME NEW p \in Process,
                 Start(p) \/ WorkerStep(p) \/ GracefulShutdown(p) \/ Interrupt(p)
          PROVE  HalfClosed(r)'
        <3>1. ShapeOK /\ OthersStay(p) /\ KeptOf(r)
            BY <2>3, ShapeStep DEF WorkerInv, PlacesOK, PlaceOK, LeaseStep
        <3>2. RunOf[p] = r => ~CreateRun(p) /\ ~StartRun(p) /\ ~CompleteRun(p)
            BY <1>1, <2>1 DEF CreateRun, StartRun, CompleteRun, WriteRun, Goto, HalfClosed
        <3>3. crawlRun'[r] = "running" /\ partition'[r] = "completed"
            <4>1. CASE WorkerStep(p)
                BY <2>1, <3>1, <3>2, <4>1, RunTablesStep
                    DEF CreateRun, StartRun, CompleteRun, WriteRun, ShapeOK, KeptOf
            <4>2. CASE Start(p) \/ GracefulShutdown(p) \/ Interrupt(p)
                BY <2>1, <4>2 DEF Start, GracefulShutdown, Interrupt, durable
            <4> QED BY <2>3, <4>1, <4>2
        <3>4. RunOf[p] = r => pc'[p] # "complete_run"
            <4>1. RunOf[p] = r => ~CompletePartition(p)
                BY <2>1 DEF CompletePartition, WritePartition
            <4> QED BY <2>3, <3>1, <4>1, EnteredFrom
        <3> QED BY <3>1, <3>3, <3>4 DEF HalfClosed, OthersStay
    <2> QED BY <2>2, <2>3 DEF WorkerNext, WorkerTick, workerVars, durable
<1> QED BY <1>2, <1>3, WorkerAlways, PTL DEF WorkerSpec

=============================================================================
