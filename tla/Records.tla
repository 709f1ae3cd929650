------------------------------- MODULE Records -------------------------------
(***************************************************************************)
(* The repositories of database/repositories.py outside of the queue, over *)
(* the tables of 0001_runtime_schema.sql.  Each call is one transaction,   *)
(* so whoever calls them in parallel, the database sees one call after the *)
(* other.  A call makes a draft; what a constraint refuses is rolled back  *)
(* with everything the transaction had written before (write_transaction). *)
(*                                                                         *)
(* There is one source; a row of another, unregistered one is refused.  A  *)
(* call that raises without having written anything is no step.  Reads     *)
(* return what the tables hold and are no steps either.                    *)
(*                                                                         *)
(* An operator Bug_... is a plausible wrong version of the definition that *)
(* follows it; only the mutation runs use it.                              *)
(***************************************************************************)
EXTENDS Integers, Sequences

CONSTANTS
    Run, Partition, Listing, Job, Artifact, ParserRun, Batch,   \* identifiers
    PartitionKey,   \* [Partition -> its partition_key]
    Checksum,       \* manifest checksums
    Url, Time,      \* what listings and observations say
    MaxCalls,       \* bound on the calls that write
    Null            \* SQL NULL, and a row that does not exist

ASSUME RecordsAssumption ==
    /\ MaxCalls \in Nat
    /\ Null \notin Job \cup Checksum \cup Time

VARIABLES
    db,             \* the tables
    answers,        \* what create_idempotent has returned: ghost
    calls           \* calls so far

recordsVars == <<db, answers, calls>>

PartitionRow == [state : {"absent", "pending", "processing", "completed", "failed"},
                 run : Run \cup {Null}]
IdentityRow == [url : Url, first : Time, last : Time]
ObservationRow == [listing : Listing, run : Run, url : Url, at : Time]
JobRow == [run : Run, listing : Listing]
SnapshotRow == [job : Job, run : Run, success : BOOLEAN]
ParserRunRow == [state : {"absent", "running", "completed", "failed"},
                 artifact : Artifact \cup {Null}]
UsageRow == [run : Run, job : Job \cup {Null}]

(* The tables.  Every row is one value; Null, or absent, is no row. *)
Database ==
    [registered   : BOOLEAN,
     runs         : [Run -> {"absent", "created", "running", "completed", "failed"}],
     partitions   : [Partition -> PartitionRow],
     identity     : [Listing -> IdentityRow \cup {Null}],
     observations : Seq(ObservationRow),
     jobs         : [Job -> JobRow \cup {Null}],
     checkpoints  : [Run \X Partition -> Time \cup {Null}],
     snapshots    : [Artifact -> SnapshotRow \cup {Null}],
     parserRuns   : [ParserRun -> ParserRunRow],
     ledger       : Seq(UsageRow),
     batches      : [Batch -> Checksum \cup {Null}]]

ASSUME NullIsNoRow == Null \notin IdentityRow /\ Null \notin JobRow /\ Null \notin SnapshotRow

RecordsInit ==
    /\ db = [registered   |-> FALSE,
             runs         |-> [r \in Run |-> "absent"],
             partitions   |-> [x \in Partition |-> [state |-> "absent", run |-> Null]],
             identity     |-> [l \in Listing |-> Null],
             observations |-> << >>,
             jobs         |-> [j \in Job |-> Null],
             checkpoints  |-> [c \in Run \X Partition |-> Null],
             snapshots    |-> [a \in Artifact |-> Null],
             parserRuns   |-> [k \in ParserRun |-> [state |-> "absent", artifact |-> Null]],
             ledger       |-> << >>,
             batches      |-> [b \in Batch |-> Null]]
    /\ answers = {}
    /\ calls = 0

-----------------------------------------------------------------------------
(* Transactions.                                                           *)

RunExists(d, r) == d.runs[r] # "absent"

(* PRAGMA foreign_keys = ON; every REFERENCES clause of the schema. *)
ForeignKeys(d) ==
    /\ \A r \in Run : RunExists(d, r) => d.registered
    /\ \A x \in Partition :
          d.partitions[x].state # "absent" => RunExists(d, d.partitions[x].run)
    /\ \A i \in DOMAIN d.observations :
          RunExists(d, d.observations[i].run) /\ d.identity[d.observations[i].listing] # Null
    /\ \A j \in Job : d.jobs[j] # Null =>
          RunExists(d, d.jobs[j].run) /\ d.identity[d.jobs[j].listing] # Null
    /\ \A r \in Run : \A x \in Partition : d.checkpoints[<<r, x>>] # Null =>
          RunExists(d, r) /\ d.partitions[x].state # "absent"
    /\ \A a \in Artifact : d.snapshots[a] # Null =>
          RunExists(d, d.snapshots[a].run) /\ d.jobs[d.snapshots[a].job] # Null
    /\ \A k \in ParserRun : d.parserRuns[k].state # "absent" =>
          d.snapshots[d.parserRuns[k].artifact] # Null
    /\ \A i \in DOMAIN d.ledger :
          /\ RunExists(d, d.ledger[i].run)
          /\ d.ledger[i].job # Null => d.jobs[d.ledger[i].job] # Null

(* The statements before the one that fails are committed on their own.    *)
Bug_Commit(draft, ok) ==
    db' = IF ok /\ ForeignKeys(draft) THEN draft ELSE [db EXCEPT !.identity = draft.identity]

(* ok: the statements themselves raise nothing. *)
Commit(draft, ok) == db' = IF ok /\ ForeignKeys(draft) THEN draft ELSE db

Called == calls < MaxCalls /\ calls' = calls + 1

Write(draft, ok) == Called /\ Commit(draft, ok) /\ UNCHANGED answers

-----------------------------------------------------------------------------
(* One action per method.                                                  *)

(* enabled, the strategy and the notes follow the last call. *)
UpsertSource == Write([db EXCEPT !.registered = TRUE], TRUE)

CreateRun(r) ==
    /\ ~RunExists(db, r)
    /\ Write([db EXCEPT !.runs[r] = "created"], TRUE)

(* An UPDATE without AND state=?, as if its rowcount told enough.          *)
Bug_TransitionRun(r, expected, target) ==
    /\ db.runs[r] # "absent"
    /\ Write([db EXCEPT !.runs[r] = target], TRUE)

TransitionRun(r, expected, target) ==
    /\ db.runs[r] = expected
    /\ Write([db EXCEPT !.runs[r] = target], TRUE)

StartRun(r) == TransitionRun(r, "created", "running")
CompleteRun(r) == TransitionRun(r, "running", "completed")
FailRun(r) == TransitionRun(r, "running", "failed")

(* UNIQUE (crawl_run_id, partition_key) *)
CreatePartition(x, r) ==
    /\ db.partitions[x].state = "absent"
    /\ \A y \in Partition : PartitionKey[y] = PartitionKey[x] => db.partitions[y].run # r
    /\ Write([db EXCEPT !.partitions[x] = [state |-> "pending", run |-> r]], TRUE)

TransitionPartition(x, expected, target) ==
    /\ db.partitions[x].state = expected
    /\ Write([db EXCEPT !.partitions[x].state = target], TRUE)

StartPartition(x) == TransitionPartition(x, "pending", "processing")
CompletePartition(x) == TransitionPartition(x, "processing", "completed")
FailPartition(x) == TransitionPartition(x, "processing", "failed")

(* Two arguments of the INSERT are swapped; both columns are TEXT. *)
Bug_NewIdentity(url, at) == [url |-> at, first |-> url, last |-> at]

NewIdentity(url, at) == [url |-> url, first |-> at, last |-> at]

(* observations.append.  accepted: the observation_id is new, and sqlite   *)
(* can bind the fields that the contract leaves unchecked.                 *)
AppendObservation(l, r, url, at, accepted) ==
    Write([db EXCEPT
              !.identity[l] = IF @ = Null THEN NewIdentity(url, at)
                              ELSE [@ EXCEPT !.url = url, !.last = at],
              !.observations = Append(@, [listing |-> l, run |-> r, url |-> url, at |-> at])],
          accepted)

JobsFor(d, r, l) == {j \in Job : d.jobs[j] = [run |-> r, listing |-> l]}

(* The id of the call is returned, whatever the table says. *)
Bug_Answer(d, r, l, j) == {j}

(* SELECT job_id ... WHERE crawl_run_id=? AND ... *)
Answer(d, r, l, j) == JobsFor(d, r, l)

(* Jobs differ in their run and listing; the reason is always the same.    *)
(* A job_id that another job has is an IntegrityError.                     *)
CreateIdempotent(j, r, l, url, at) ==
    LET known == JobsFor(db, r, l)
        draft == [db EXCEPT
                    !.identity[l] = IF @ = Null THEN NewIdentity(url, at) ELSE @,
                    !.jobs[j] = IF known = {} THEN [run |-> r, listing |-> l] ELSE @]
        ok == known = {} => db.jobs[j] = Null
    IN  /\ Called
        /\ Commit(draft, ok)
        /\ answers' = IF ok /\ ForeignKeys(draft)
                      THEN answers \cup {[run |-> r, listing |-> l, job |-> i]
                                         : i \in Answer(draft, r, l, j)}
                      ELSE answers

(* Nothing relates the partition to the run. *)
SaveCheckpoint(r, x, value) == Write([db EXCEPT !.checkpoints[<<r, x>>] = value], TRUE)

(* INSERT OR REPLACE *)
Bug_IsNew(row) == TRUE

(* An INSERT whose primary key is taken is refused. *)
IsNew(row) == row = Null

(* Nothing relates the run of a snapshot to that of its job. *)
RecordSnapshot(a, j, r, success) ==
    /\ IsNew(db.snapshots[a])
    /\ Write([db EXCEPT !.snapshots[a] = [job |-> j, run |-> r, success |-> success]], TRUE)

StartParserRun(k, a) ==
    /\ db.parserRuns[k].state = "absent"
    /\ Write([db EXCEPT !.parserRuns[k] = [state |-> "running", artifact |-> a]], TRUE)

EndParserRun(k, target) ==
    /\ db.parserRuns[k].state = "running"
    /\ Write([db EXCEPT !.parserRuns[k].state = target], TRUE)

CompleteParserRun(k) == EndParserRun(k, "completed")

(* An empty failure_reason is a ValueError. *)
FailParserRun(k) == EndParserRun(k, "failed")

(* proxy_usage.append, with byte counts that are no negative numbers. *)
AppendUsage(r, j) == Write([db EXCEPT !.ledger = Append(@, [run |-> r, job |-> j])], TRUE)

(* manifest_checksum is UNIQUE. *)
RecordBatch(b, checksum) ==
    /\ IsNew(db.batches[b])
    /\ \A c \in Batch : db.batches[c] # checksum
    /\ Write([db EXCEPT !.batches[b] = checksum], TRUE)

RecordsNext ==
    \/ UpsertSource
    \/ \E r \in Run :
          \/ CreateRun(r) \/ StartRun(r) \/ CompleteRun(r) \/ FailRun(r)
          \/ \E x \in Partition :
                CreatePartition(x, r) \/ \E t \in Time : SaveCheckpoint(r, x, t)
          \/ \E l \in Listing : \E url \in Url : \E at \in Time :
                \/ \E accepted \in BOOLEAN : AppendObservation(l, r, url, at, accepted)
                \/ \E j \in Job : CreateIdempotent(j, r, l, url, at)
          \/ \E a \in Artifact : \E j \in Job : \E success \in BOOLEAN :
                RecordSnapshot(a, j, r, success)
          \/ \E j \in Job \cup {Null} : AppendUsage(r, j)
    \/ \E x \in Partition : StartPartition(x) \/ CompletePartition(x) \/ FailPartition(x)
    \/ \E k \in ParserRun :
          \/ \E a \in Artifact : StartParserRun(k, a)
          \/ CompleteParserRun(k) \/ FailParserRun(k)
    \/ \E b \in Batch : \E c \in Checksum : RecordBatch(b, c)

RecordsSpec == RecordsInit /\ [][RecordsNext]_recordsVars

-----------------------------------------------------------------------------
(* Every table holds rows of its own kind, and answers name jobs. *)
RecordsTypeOK ==
    /\ db \in Database
    /\ answers \subseteq [run : Run, listing : Listing, job : Job]
    /\ calls \in 0 .. MaxCalls

(* The identity of a listing exists exactly when an observation or a job   *)
(* of it does (an upsert whose observation is refused is taken back), and  *)
(* shows the observation that was appended last, be it older than others   *)
(* (line 146); a job alone fills it but never changes it.                  *)
IdentityFollowsTheLog ==
    \A l \in Listing :
        LET row == db.identity[l]
            seen == {i \in DOMAIN db.observations : db.observations[i].listing = l}
            jobs == {j \in Job : db.jobs[j] # Null /\ db.jobs[j].listing = l}
        IN  /\ row # Null <=> seen # {} \/ jobs # {}
            /\ \A i \in seen : (\A k \in seen : k <= i) =>
                  row.url = db.observations[i].url /\ row.last = db.observations[i].at
            /\ row # Null /\ seen = {} => row.first = row.last

(* Job creation is idempotent by run, listing and reason: every caller is  *)
(* told the same id, that of the one job there is.                         *)
JobIdsAreStable ==
    \A x \in answers : JobsFor(db, x.run, x.listing) = {x.job}

(* Observations and the ledger only grow at their ends; a snapshot, a      *)
(* batch, a job and the first sight of a listing never change.             *)
RecordsAreAppendOnly ==
    [][ /\ SubSeq(db'.observations, 1, Len(db.observations)) = db.observations
        /\ SubSeq(db'.ledger, 1, Len(db.ledger)) = db.ledger
        /\ \A a \in Artifact : db.snapshots[a] \in {Null, db'.snapshots[a]}
        /\ \A b \in Batch : db.batches[b] \in {Null, db'.batches[b]}
        /\ \A j \in Job : db.jobs[j] \in {Null, db'.jobs[j]}
        /\ \A l \in Listing : db.identity[l] # Null =>
              db'.identity[l] # Null /\ db'.identity[l].first = db.identity[l].first ]_recordsVars

RunArc == {<<"absent", "created">>, <<"created", "running">>,
           <<"running", "completed">>, <<"running", "failed">>}
PartitionArc == {<<"absent", "pending">>, <<"pending", "processing">>,
                 <<"processing", "completed">>, <<"processing", "failed">>}
ParserArc == {<<"absent", "running">>, <<"running", "completed">>, <<"running", "failed">>}

Runs == INSTANCE RecordLifecycle WITH Item <- Run, Arc <- RunArc, phase <- db.runs
Partitions == INSTANCE RecordLifecycle WITH Item <- Partition, Arc <- PartitionArc,
                  phase <- [x \in Partition |-> db.partitions[x].state]
ParserRuns == INSTANCE RecordLifecycle WITH Item <- ParserRun, Arc <- ParserArc,
                  phase <- [k \in ParserRun |-> db.parserRuns[k].state]

(* Crawl runs, partitions and parser runs follow the diagrams of           *)
(* docs/runtime-state.md, "Crawl and parser lifecycle".                    *)
FollowsLifecycles ==
    Runs!LifecycleSpec /\ Partitions!LifecycleSpec /\ ParserRuns!LifecycleSpec
=============================================================================
