--------------------------- MODULE RecordsProofs ---------------------------
(***************************************************************************)
(* Theorems about Records, for any sets of identifiers, urls and times and *)
(* any number of calls.                                                    *)
(***************************************************************************)
EXTENDS Records, SequenceTheorems, TLAPS

-----------------------------------------------------------------------------
(* What each call leaves in the tables.                                    *)

LEMMA RecordsTypeInit == RecordsInit => RecordsTypeOK
<1> SUFFICES ASSUME RecordsInit PROVE RecordsTypeOK
    OBVIOUS
<1>1. db \in Database
    BY DEF RecordsInit, Database, PartitionRow, ParserRunRow
<1>2. answers \subseteq [run : Run, listing : Listing, job : Job] /\ calls \in 0 .. MaxCalls
    BY RecordsAssumption DEF RecordsInit
<1> QED BY <1>1, <1>2 DEF RecordsTypeOK

(* A call that writes commits its draft, or nothing. *)
LEMMA WriteType ==
    ASSUME RecordsTypeOK, NEW draft \in Database, NEW ok, Write(draft, ok)
    PROVE  RecordsTypeOK' /\ db' \in {db, draft} /\ answers' = answers
<1>1. db' \in {db, draft} /\ answers' = answers
    BY DEF Write, Commit
<1>2. calls' \in 0 .. MaxCalls
    BY RecordsAssumption DEF Write, Called, RecordsTypeOK
<1> QED BY <1>1, <1>2 DEF RecordsTypeOK

(* Rows that must stay do; runs, partitions and parser runs follow an arc. *)
Kept ==
    /\ db'.ledger = db.ledger \/ \E u \in UsageRow : db'.ledger = Append(db.ledger, u)
    /\ \A a \in Artifact : db.snapshots[a] \in {Null, db'.snapshots[a]}
    /\ \A b \in Batch : db.batches[b] \in {Null, db'.batches[b]}

Moved ==
    /\ [Runs!LifecycleNext]_(db.runs)
    /\ [Partitions!LifecycleNext]_([x \in Partition |-> db.partitions[x].state])
    /\ [ParserRuns!LifecycleNext]_([k \in ParserRun |-> db.parserRuns[k].state])

(* The calls that touch neither identities nor observations nor jobs.      *)
OtherCall ==
    /\ RecordsTypeOK' /\ Kept /\ Moved
    /\ answers' = answers
    /\ db'.identity = db.identity /\ db'.observations = db.observations /\ db'.jobs = db.jobs

LEMMA NoChange == ASSUME db' = db PROVE Kept /\ Moved
<1> QED BY DEF Kept, Moved

LEMMA RunEffect ==
    ASSUME RecordsTypeOK, NEW r \in Run, NEW expected, NEW target,
           <<expected, target>> \in RunArc, db.runs[r] = expected,
           Write([db EXCEPT !.runs[r] = target], TRUE)
    PROVE  OtherCall
<1> DEFINE draft == [db EXCEPT !.runs[r] = target]
<1>1. draft \in Database
    BY DEF RecordsTypeOK, Database, RunArc
<1>2. RecordsTypeOK' /\ db' \in {db, draft} /\ answers' = answers
    BY <1>1, WriteType
<1>3. CASE db' = db
    BY <1>2, <1>3, NoChange DEF OtherCall
<1>4. CASE db' = draft
    <2>1. /\ db'.runs = [db.runs EXCEPT ![r] = target]
          /\ db'.identity = db.identity /\ db'.observations = db.observations
          /\ db'.jobs = db.jobs /\ db'.partitions = db.partitions
          /\ db'.snapshots = db.snapshots /\ db'.parserRuns = db.parserRuns
          /\ db'.ledger = db.ledger /\ db'.batches = db.batches
        BY <1>4 DEF RecordsTypeOK, Database
    <2>2. Runs!LifecycleNext
        BY <2>1 DEF Runs!LifecycleNext, Runs!Move
    <2> QED BY <1>2, <2>1, <2>2 DEF OtherCall, Kept, Moved
<1> QED BY <1>2, <1>3, <1>4

LEMMA PartitionEffect ==
    ASSUME RecordsTypeOK, NEW x \in Partition, NEW row \in PartitionRow,
           <<db.partitions[x].state, row.state>> \in PartitionArc,
           Write([db EXCEPT !.partitions[x] = row], TRUE)
    PROVE  OtherCall
<1> DEFINE draft == [db EXCEPT !.partitions[x] = row]
<1>1. draft \in Database
    BY DEF RecordsTypeOK, Database
<1>2. RecordsTypeOK' /\ db' \in {db, draft} /\ answers' = answers
    BY <1>1, WriteType
<1>3. CASE db' = db
    BY <1>2, <1>3, NoChange DEF OtherCall
<1>4. CASE db' = draft
    <2>1. /\ db'.partitions = [db.partitions EXCEPT ![x] = row]
          /\ db'.identity = db.identity /\ db'.observations = db.observations
          /\ db'.jobs = db.jobs /\ db'.runs = db.runs
          /\ db'.snapshots = db.snapshots /\ db'.parserRuns = db.parserRuns
          /\ db'.ledger = db.ledger /\ db'.batches = db.batches
        BY <1>4 DEF RecordsTypeOK, Database
    <2>2. db.partitions \in [Partition -> PartitionRow]
        BY DEF RecordsTypeOK, Database
    <2>3. [y \in Partition |-> db'.partitions[y].state]
          = [[y \in Partition |-> db.partitions[y].state] EXCEPT ![x] = row.state]
        BY <2>1, <2>2
    <2>4. Partitions!LifecycleNext
        BY <2>3 DEF Partitions!LifecycleNext, Partitions!Move
    <2> QED BY <1>2, <2>1, <2>4 DEF OtherCall, Kept, Moved
<1> QED BY <1>2, <1>3, <1>4

LEMMA ParserRunEffect ==
    ASSUME RecordsTypeOK, NEW k \in ParserRun, NEW row \in ParserRunRow,
           <<db.parserRuns[k].state, row.state>> \in ParserArc,
           Write([db EXCEPT !.parserRuns[k] = row], TRUE)
    PROVE  OtherCall
<1> DEFINE draft == [db EXCEPT !.parserRuns[k] = row]
<1>1. draft \in Database
    BY DEF RecordsTypeOK, Database
<1>2. RecordsTypeOK' /\ db' \in {db, draft} /\ answers' = answers
    BY <1>1, WriteType
<1>3. CASE db' = db
    BY <1>2, <1>3, NoChange DEF OtherCall
<1>4. CASE db' = draft
    <2>1. /\ db'.parserRuns = [db.parserRuns EXCEPT ![k] = row]
          /\ db'.identity = db.identity /\ db'.observations = db.observations
          /\ db'.jobs = db.jobs /\ db'.runs = db.runs
          /\ db'.snapshots = db.snapshots /\ db'.partitions = db.partitions
          /\ db'.ledger = db.ledger /\ db'.batches = db.batches
        BY <1>4 DEF RecordsTypeOK, Database
    <2>2. db.parserRuns \in [ParserRun -> ParserRunRow]
        BY DEF RecordsTypeOK, Database
    <2>3. [y \in ParserRun |-> db'.parserRuns[y].state]
          = [[y \in ParserRun |-> db.parserRuns[y].state] EXCEPT ![k] = row.state]
        BY <2>1, <2>2
    <2>4. ParserRuns!LifecycleNext
        BY <2>3 DEF ParserRuns!LifecycleNext, ParserRuns!Move
    <2> QED BY <1>2, <2>1, <2>4 DEF OtherCall, Kept, Moved
<1> QED BY <1>2, <1>3, <1>4

(* The calls on tables that only grow, or are only overwritten.            *)
LEMMA GrowthEffect ==
    ASSUME RecordsTypeOK, NEW draft \in Database, Write(draft, TRUE),
           /\ draft.identity = db.identity /\ draft.observations = db.observations
           /\ draft.jobs = db.jobs /\ draft.runs = db.runs
           /\ draft.parserRuns = db.parserRuns /\ draft.partitions = db.partitions,
           draft.ledger = db.ledger \/ \E u \in UsageRow : draft.ledger = Append(db.ledger, u),
           \A a \in Artifact : db.snapshots[a] \in {Null, draft.snapshots[a]},
           \A b \in Batch : db.batches[b] \in {Null, draft.batches[b]}
    PROVE  OtherCall
<1>1. RecordsTypeOK' /\ db' \in {db, draft} /\ answers' = answers
    BY WriteType
<1>2. CASE db' = db
    BY <1>1, <1>2, NoChange DEF OtherCall
<1>3. CASE db' = draft
    BY <1>1, <1>3 DEF OtherCall, Kept, Moved
<1> QED BY <1>1, <1>2, <1>3

(* The same, method by method. *)
LEMMA SourceCall == ASSUME RecordsTypeOK, UpsertSource PROVE OtherCall
<1> DEFINE draft == [db EXCEPT !.registered = TRUE]
<1>1. /\ draft \in Database
      /\ draft.identity = db.identity /\ draft.observations = db.observations
      /\ draft.jobs = db.jobs /\ draft.runs = db.runs /\ draft.partitions = db.partitions
      /\ draft.parserRuns = db.parserRuns /\ draft.ledger = db.ledger
      /\ draft.snapshots = db.snapshots /\ draft.batches = db.batches
    BY DEF RecordsTypeOK, Database
<1>2. Write(draft, TRUE)
    BY DEF UpsertSource
<1> HIDE DEF draft
<1> QED BY <1>1, <1>2, GrowthEffect

LEMMA RunCall ==
    ASSUME RecordsTypeOK, NEW r \in Run,
           CreateRun(r) \/ StartRun(r) \/ CompleteRun(r) \/ FailRun(r)
    PROVE  OtherCall
<1>1. CASE CreateRun(r)
    <2>1. db.runs[r] = "absent" /\ <<"absent", "created">> \in RunArc
        BY <1>1 DEF CreateRun, RunExists, RunArc
    <2> QED BY <1>1, <2>1, RunEffect DEF CreateRun
<1>2. ASSUME NEW from, NEW to, <<from, to>> \in RunArc, TransitionRun(r, from, to)
      PROVE  OtherCall
    BY <1>2, RunEffect DEF TransitionRun
<1>3. /\ <<"created", "running">> \in RunArc /\ <<"running", "completed">> \in RunArc
      /\ <<"running", "failed">> \in RunArc
    BY DEF RunArc
<1> QED BY <1>1, <1>2, <1>3 DEF StartRun, CompleteRun, FailRun

LEMMA PartitionCall ==
    ASSUME RecordsTypeOK, NEW x \in Partition,
           \/ \E r \in Run : CreatePartition(x, r)
           \/ StartPartition(x) \/ CompletePartition(x) \/ FailPartition(x)
    PROVE  OtherCall
<1>1. ASSUME NEW r \in Run, CreatePartition(x, r) PROVE OtherCall
    <2> DEFINE row == [state |-> "pending", run |-> r]
    <2>1. row \in PartitionRow /\ <<db.partitions[x].state, row.state>> \in PartitionArc
        BY <1>1 DEF CreatePartition, PartitionRow, PartitionArc
    <2> QED BY <1>1, <2>1, PartitionEffect DEF CreatePartition
<1>2. ASSUME NEW from, NEW to, <<from, to>> \in PartitionArc, TransitionPartition(x, from, to)
      PROVE  OtherCall
    <2> DEFINE row == [db.partitions[x] EXCEPT !.state = to]
    <2>1. db.partitions[x] \in PartitionRow /\ db.partitions[x].state = from
        BY <1>2 DEF RecordsTypeOK, Database, TransitionPartition
    <2>2. row \in PartitionRow /\ row.state = to
        BY <1>2, <2>1 DEF PartitionRow, PartitionArc
    <2>3. Write([db EXCEPT !.partitions[x] = row], TRUE)
        BY <1>2 DEF TransitionPartition
    <2> HIDE DEF row
    <2> QED BY <1>2, <2>1, <2>2, <2>3, PartitionEffect
<1>3. /\ <<"pending", "processing">> \in PartitionArc
      /\ <<"processing", "completed">> \in PartitionArc
      /\ <<"processing", "failed">> \in PartitionArc
    BY DEF PartitionArc
<1> QED BY <1>1, <1>2, <1>3 DEF StartPartition, CompletePartition, FailPartition

LEMMA ParserRunCall ==
    ASSUME RecordsTypeOK, NEW k \in ParserRun,
           (\E a \in Artifact : StartParserRun(k, a)) \/ CompleteParserRun(k) \/ FailParserRun(k)
    PROVE  OtherCall
<1>1. ASSUME NEW a \in Artifact, StartParserRun(k, a) PROVE OtherCall
    <2> DEFINE row == [state |-> "running", artifact |-> a]
    <2>1. row \in ParserRunRow /\ <<db.parserRuns[k].state, row.state>> \in ParserArc
        BY <1>1 DEF StartParserRun, ParserRunRow, ParserArc
    <2> QED BY <1>1, <2>1, ParserRunEffect DEF StartParserRun
<1>2. ASSUME NEW to \in {"completed", "failed"}, EndParserRun(k, to) PROVE OtherCall
    <2> DEFINE row == [db.parserRuns[k] EXCEPT !.state = to]
    <2>1. db.parserRuns[k] \in ParserRunRow /\ db.parserRuns[k].state = "running"
        BY <1>2 DEF RecordsTypeOK, Database, EndParserRun
    <2>2. row \in ParserRunRow /\ row.state = to /\ <<"running", to>> \in ParserArc
        BY <1>2, <2>1 DEF ParserRunRow, ParserArc
    <2>3. Write([db EXCEPT !.parserRuns[k] = row], TRUE)
        BY <1>2 DEF EndParserRun
    <2> HIDE DEF row
    <2> QED BY <2>1, <2>2, <2>3, ParserRunEffect
<1> QED BY <1>1, <1>2 DEF CompleteParserRun, FailParserRun

LEMMA CheckpointCall ==
    ASSUME RecordsTypeOK, NEW r \in Run, NEW x \in Partition, NEW t \in Time,
           SaveCheckpoint(r, x, t)
    PROVE  OtherCall
<1> DEFINE draft == [db EXCEPT !.checkpoints[<<r, x>>] = t]
<1>1. /\ draft \in Database
      /\ draft.identity = db.identity /\ draft.observations = db.observations
      /\ draft.jobs = db.jobs /\ draft.runs = db.runs /\ draft.partitions = db.partitions
      /\ draft.parserRuns = db.parserRuns /\ draft.ledger = db.ledger
      /\ draft.snapshots = db.snapshots /\ draft.batches = db.batches
    BY DEF RecordsTypeOK, Database
<1>2. Write(draft, TRUE)
    BY DEF SaveCheckpoint
<1> HIDE DEF draft
<1> QED BY <1>1, <1>2, GrowthEffect

LEMMA SnapshotCall ==
    ASSUME RecordsTypeOK, NEW a \in Artifact, NEW j \in Job, NEW r \in Run,
           NEW success \in BOOLEAN, RecordSnapshot(a, j, r, success)
    PROVE  OtherCall
<1> DEFINE row == [job |-> j, run |-> r, success |-> success]
           draft == [db EXCEPT !.snapshots[a] = row]
<1>0. row \in SnapshotRow
    BY DEF SnapshotRow
<1>1. /\ draft \in Database
      /\ draft.identity = db.identity /\ draft.observations = db.observations
      /\ draft.jobs = db.jobs /\ draft.runs = db.runs /\ draft.partitions = db.partitions
      /\ draft.parserRuns = db.parserRuns /\ draft.ledger = db.ledger
      /\ draft.snapshots = [db.snapshots EXCEPT ![a] = row] /\ draft.batches = db.batches
    BY <1>0 DEF RecordsTypeOK, Database
<1>2. Write(draft, TRUE) /\ db.snapshots[a] = Null
    BY DEF RecordSnapshot, IsNew
<1>3. \A b \in Artifact : db.snapshots[b] \in {Null, draft.snapshots[b]}
    BY <1>1, <1>2 DEF RecordsTypeOK, Database
<1> HIDE DEF draft
<1> QED BY <1>1, <1>2, <1>3, GrowthEffect

LEMMA UsageCall ==
    ASSUME RecordsTypeOK, NEW r \in Run, NEW j \in Job \cup {Null}, AppendUsage(r, j)
    PROVE  OtherCall
<1> DEFINE row == [run |-> r, job |-> j]
           draft == [db EXCEPT !.ledger = Append(@, row)]
<1>0. row \in UsageRow
    BY DEF UsageRow
<1>1. db.ledger \in Seq(UsageRow) /\ Append(db.ledger, row) \in Seq(UsageRow)
    BY <1>0 DEF RecordsTypeOK, Database
<1>2. /\ draft \in Database
      /\ draft.identity = db.identity /\ draft.observations = db.observations
      /\ draft.jobs = db.jobs /\ draft.runs = db.runs /\ draft.partitions = db.partitions
      /\ draft.parserRuns = db.parserRuns /\ draft.ledger = Append(db.ledger, row)
      /\ draft.snapshots = db.snapshots /\ draft.batches = db.batches
    BY <1>1 DEF RecordsTypeOK, Database
<1>3. Write(draft, TRUE)
    BY DEF AppendUsage
<1> HIDE DEF draft, row
<1> QED BY <1>0, <1>2, <1>3, GrowthEffect

LEMMA BatchCall ==
    ASSUME RecordsTypeOK, NEW b \in Batch, NEW c \in Checksum, RecordBatch(b, c)
    PROVE  OtherCall
<1> DEFINE draft == [db EXCEPT !.batches[b] = c]
<1>1. /\ draft \in Database
      /\ draft.identity = db.identity /\ draft.observations = db.observations
      /\ draft.jobs = db.jobs /\ draft.runs = db.runs /\ draft.partitions = db.partitions
      /\ draft.parserRuns = db.parserRuns /\ draft.ledger = db.ledger
      /\ draft.snapshots = db.snapshots /\ draft.batches = [db.batches EXCEPT ![b] = c]
    BY DEF RecordsTypeOK, Database
<1>2. Write(draft, TRUE) /\ db.batches[b] = Null
    BY DEF RecordBatch, IsNew
<1>3. \A x \in Batch : db.batches[x] \in {Null, draft.batches[x]}
    BY <1>1, <1>2 DEF RecordsTypeOK, Database
<1> HIDE DEF draft
<1> QED BY <1>1, <1>2, <1>3, GrowthEffect

-----------------------------------------------------------------------------
(* The two calls that see a listing.                                       *)

(* An observation and the identity it sets are written together. *)
Seen(l, r, url, at) ==
    \/ db'.identity = db.identity /\ db'.observations = db.observations
    \/ /\ db'.observations = Append(db.observations,
                                     [listing |-> l, run |-> r, url |-> url, at |-> at])
       /\ \E row \in IdentityRow :
             /\ db'.identity = [db.identity EXCEPT ![l] = row]
             /\ row.url = url /\ row.last = at
             /\ db.identity[l] # Null => row.first = db.identity[l].first

LEMMA ObservationEffect ==
    ASSUME RecordsTypeOK, NEW l \in Listing, NEW r \in Run, NEW url \in Url, NEW at \in Time,
           NEW accepted \in BOOLEAN, AppendObservation(l, r, url, at, accepted)
    PROVE  /\ RecordsTypeOK' /\ Kept /\ Moved /\ answers' = answers /\ db'.jobs = db.jobs
           /\ Seen(l, r, url, at)
<1> DEFINE o == [listing |-> l, run |-> r, url |-> url, at |-> at]
           row == IF db.identity[l] = Null THEN NewIdentity(url, at)
                  ELSE [db.identity[l] EXCEPT !.url = url, !.last = at]
           draft == [db EXCEPT !.identity[l] = row, !.observations = Append(@, o)]
<1>1. o \in ObservationRow
    BY DEF ObservationRow
<1>2. db.observations \in Seq(ObservationRow) /\ Append(db.observations, o) \in Seq(ObservationRow)
    BY <1>1 DEF RecordsTypeOK, Database
<1>3. /\ row \in IdentityRow /\ row.url = url /\ row.last = at
      /\ db.identity[l] # Null => row.first = db.identity[l].first
    <2>1. CASE db.identity[l] = Null
        BY <2>1 DEF NewIdentity, IdentityRow
    <2>2. CASE db.identity[l] # Null
        <3>1. db.identity[l] \in IdentityRow
            BY <2>2 DEF RecordsTypeOK, Database
        <3> QED BY <2>2, <3>1 DEF IdentityRow
    <2> QED BY <2>1, <2>2
<1> HIDE DEF row, o
<1>4. /\ draft \in Database
      /\ draft.identity = [db.identity EXCEPT ![l] = row]
      /\ draft.observations = Append(db.observations, o)
      /\ draft.jobs = db.jobs /\ draft.runs = db.runs /\ draft.partitions = db.partitions
      /\ draft.parserRuns = db.parserRuns /\ draft.ledger = db.ledger
      /\ draft.snapshots = db.snapshots /\ draft.batches = db.batches
    BY <1>2, <1>3 DEF RecordsTypeOK, Database
<1>5. Write(draft, accepted)
    BY DEF AppendObservation, row, o
<1> HIDE DEF draft
<1>6. RecordsTypeOK' /\ db' \in {db, draft} /\ answers' = answers
    BY <1>4, <1>5, WriteType
<1>7. CASE db' = db
    BY <1>6, <1>7, NoChange DEF Seen
<1>8. CASE db' = draft
    <2>1. Kept /\ Moved
        BY <1>4, <1>8 DEF Kept, Moved
    <2> QED BY <1>3, <1>4, <1>6, <1>8, <2>1 DEF Seen, o
<1> QED BY <1>6, <1>7, <1>8

(* A job is created only when there is none for its run and listing; the   *)
(* caller is told the jobs there are then.                                 *)
Created(j, r, l) ==
    \/ db' = db /\ answers' = answers
    \/ /\ answers' = answers \cup {[run |-> r, listing |-> l, job |-> i] : i \in JobsFor(db', r, l)}
       /\ \/ JobsFor(db, r, l) # {} /\ db'.jobs = db.jobs
          \/ /\ JobsFor(db, r, l) = {} /\ db.jobs[j] = Null
             /\ db'.jobs = [db.jobs EXCEPT ![j] = [run |-> r, listing |-> l]]
       /\ \/ db.identity[l] # Null /\ db'.identity = db.identity
          \/ /\ db.identity[l] = Null
             /\ \E row \in IdentityRow :
                   /\ db'.identity = [db.identity EXCEPT ![l] = row]
                   /\ row.first = row.last

LEMMA CreateEffect ==
    ASSUME RecordsTypeOK, NEW j \in Job, NEW r \in Run, NEW l \in Listing,
           NEW url \in Url, NEW at \in Time, CreateIdempotent(j, r, l, url, at)
    PROVE  /\ RecordsTypeOK' /\ Kept /\ Moved /\ db'.observations = db.observations
           /\ Created(j, r, l)
<1> DEFINE job == [run |-> r, listing |-> l]
           known == JobsFor(db, r, l)
           row == IF db.identity[l] = Null THEN NewIdentity(url, at) ELSE db.identity[l]
           slot == IF known = {} THEN job ELSE db.jobs[j]
           draft == [db EXCEPT !.identity[l] = row, !.jobs[j] = slot]
           ok == known = {} => db.jobs[j] = Null
           told == answers \cup {[run |-> r, listing |-> l, job |-> i] : i \in Answer(draft, r, l, j)}
<1>1. NewIdentity(url, at) \in IdentityRow /\ NewIdentity(url, at).first = NewIdentity(url, at).last
    BY DEF NewIdentity, IdentityRow
<1>2. row \in IdentityRow \cup {Null} /\ slot \in JobRow \cup {Null}
    BY <1>1 DEF RecordsTypeOK, Database, JobRow
<1>a. calls' \in 0 .. MaxCalls
    <2>1. Called
        BY DEF CreateIdempotent
    <2>2. calls \in 0 .. MaxCalls
        BY DEF RecordsTypeOK
    <2> HIDE DEF row, slot, draft
    <2> QED BY <2>1, <2>2, RecordsAssumption DEF Called
<1>b. draft = [db EXCEPT
                 !.identity[l] = IF @ = Null THEN NewIdentity(url, at) ELSE @,
                 !.jobs[j] = IF known = {} THEN [run |-> r, listing |-> l] ELSE @]
    BY DEF RecordsTypeOK, Database
<1>3. /\ db' = IF ok /\ ForeignKeys(draft) THEN draft ELSE db
      /\ answers' = IF ok /\ ForeignKeys(draft) THEN told ELSE answers
    BY <1>b DEF CreateIdempotent, Commit
<1> HIDE DEF row, slot
<1>4. /\ draft \in Database
      /\ draft.identity = [db.identity EXCEPT ![l] = row]
      /\ draft.jobs = [db.jobs EXCEPT ![j] = slot] /\ draft.observations = db.observations
      /\ draft.runs = db.runs /\ draft.partitions = db.partitions
      /\ draft.parserRuns = db.parserRuns /\ draft.ledger = db.ledger
      /\ draft.snapshots = db.snapshots /\ draft.batches = db.batches
    BY <1>2 DEF RecordsTypeOK, Database
<1> HIDE DEF draft
<1>5. JobsFor(draft, r, l) \subseteq Job
    BY DEF JobsFor
<1>6. told \subseteq [run : Run, listing : Listing, job : Job]
    BY <1>5 DEF RecordsTypeOK, Answer
<1>7. RecordsTypeOK'
    BY <1>3, <1>4, <1>6, <1>a DEF RecordsTypeOK
<1>8. CASE ~(ok /\ ForeignKeys(draft))
    BY <1>3, <1>7, <1>8, NoChange DEF Created
<1>9. CASE ok /\ ForeignKeys(draft)
    <2>1. db' = draft /\ answers' = told
        BY <1>3, <1>9
    <2>2. Kept /\ Moved
        BY <1>4, <2>1 DEF Kept, Moved
    <2>3. known # {} => db'.jobs = db.jobs
        BY <1>4, <2>1 DEF slot, RecordsTypeOK, Database
    <2>4. known = {} => db.jobs[j] = Null /\ db'.jobs = [db.jobs EXCEPT ![j] = job]
        BY <1>4, <1>9, <2>1 DEF slot
    <2>5. db.identity[l] # Null => db'.identity = db.identity
        BY <1>4, <2>1 DEF row, RecordsTypeOK, Database
    <2>6. db.identity[l] = Null =>
             \E x \in IdentityRow : db'.identity = [db.identity EXCEPT ![l] = x] /\ x.first = x.last
        BY <1>1, <1>4, <2>1 DEF row
    <2>7. answers' = answers \cup {[run |-> r, listing |-> l, job |-> i] : i \in JobsFor(db', r, l)}
        BY <2>1 DEF Answer
    <2>8. db'.observations = db.observations
        BY <1>4, <2>1
    <2> QED BY <1>7, <2>2, <2>3, <2>4, <2>5, <2>6, <2>7, <2>8 DEF Created
<1> QED BY <1>8, <1>9

-----------------------------------------------------------------------------
(* Every step, and the theorems about single steps.                        *)

LEMMA OtherCases ==
    ASSUME RecordsTypeOK, RecordsNext
    PROVE  \/ OtherCall
           \/ \E r \in Run, l \in Listing, url \in Url, at \in Time :
                 \/ \E accepted \in BOOLEAN : AppendObservation(l, r, url, at, accepted)
                 \/ \E j \in Job : CreateIdempotent(j, r, l, url, at)
<1>1. CASE UpsertSource
    BY <1>1, SourceCall
<1>2. ASSUME NEW r \in Run, CreateRun(r) \/ StartRun(r) \/ CompleteRun(r) \/ FailRun(r)
      PROVE  OtherCall
    BY <1>2, RunCall
<1>3. ASSUME NEW r \in Run, NEW x \in Partition,
             CreatePartition(x, r) \/ \E t \in Time : SaveCheckpoint(r, x, t)
      PROVE  OtherCall
    BY <1>3, PartitionCall, CheckpointCall
<1>4. ASSUME NEW r \in Run, NEW a \in Artifact, NEW j \in Job, NEW success \in BOOLEAN,
             RecordSnapshot(a, j, r, success)
      PROVE  OtherCall
    BY <1>4, SnapshotCall
<1>5. ASSUME NEW r \in Run, NEW j \in Job \cup {Null}, AppendUsage(r, j) PROVE OtherCall
    BY <1>5, UsageCall
<1>6. ASSUME NEW x \in Partition, StartPartition(x) \/ CompletePartition(x) \/ FailPartition(x)
      PROVE  OtherCall
    BY <1>6, PartitionCall
<1>7. ASSUME NEW k \in ParserRun,
             (\E a \in Artifact : StartParserRun(k, a)) \/ CompleteParserRun(k) \/ FailParserRun(k)
      PROVE  OtherCall
    BY <1>7, ParserRunCall
<1>8. ASSUME NEW b \in Batch, NEW c \in Checksum, RecordBatch(b, c) PROVE OtherCall
    BY <1>8, BatchCall
<1> QED BY <1>1, <1>2, <1>3, <1>4, <1>5, <1>6, <1>7, <1>8 DEF RecordsNext

LEMMA RecordsStep ==
    ASSUME RecordsTypeOK, [RecordsNext]_recordsVars
    PROVE  RecordsTypeOK' /\ Kept /\ Moved
<1>1. CASE OtherCall
    BY <1>1 DEF OtherCall
<1>2. ASSUME NEW r \in Run, NEW l \in Listing, NEW url \in Url, NEW at \in Time,
             \/ \E accepted \in BOOLEAN : AppendObservation(l, r, url, at, accepted)
             \/ \E j \in Job : CreateIdempotent(j, r, l, url, at)
      PROVE  RecordsTypeOK' /\ Kept /\ Moved
    BY <1>2, ObservationEffect, CreateEffect
<1>3. CASE UNCHANGED recordsVars
    BY <1>3, NoChange DEF recordsVars, RecordsTypeOK
<1> QED BY <1>1, <1>2, <1>3, OtherCases

(* Every table holds rows of its own kind, and a call that was rolled back *)
(* leaves none.                                                            *)
THEOREM RecordTypes == RecordsSpec => []RecordsTypeOK
<1>1. RecordsInit => RecordsTypeOK
    BY RecordsTypeInit
<1>2. RecordsTypeOK /\ [RecordsNext]_recordsVars => RecordsTypeOK'
    BY RecordsStep
<1> QED BY <1>1, <1>2, PTL DEF RecordsSpec

(* Runs, partitions and parser runs follow the documented diagrams,        *)
(* whichever callers race for a transition: the methods implement them.    *)
THEOREM RecordsFollowLifecycles == RecordsSpec => FollowsLifecycles
<1>1. RecordsInit => Runs!LifecycleInit /\ Partitions!LifecycleInit /\ ParserRuns!LifecycleInit
    BY DEF RecordsInit, Runs!LifecycleInit, Partitions!LifecycleInit, ParserRuns!LifecycleInit
<1>2. RecordsTypeOK /\ [RecordsNext]_recordsVars => Moved
    BY RecordsStep
<1>3. Moved => /\ [Runs!LifecycleNext]_(db.runs)
               /\ [Partitions!LifecycleNext]_([x \in Partition |-> db.partitions[x].state])
               /\ [ParserRuns!LifecycleNext]_([k \in ParserRun |-> db.parserRuns[k].state])
    BY DEF Moved
<1> QED BY <1>1, <1>2, <1>3, RecordTypes, PTL
        DEF RecordsSpec, FollowsLifecycles, Runs!LifecycleSpec, Partitions!LifecycleSpec,
            ParserRuns!LifecycleSpec

LEMMA PrefixOfAppend ==
    ASSUME NEW S, NEW s \in Seq(S), NEW e \in S
    PROVE  SubSeq(Append(s, e), 1, Len(s)) = s
<1>1. /\ Append(s, e) \in Seq(S) /\ Len(Append(s, e)) = Len(s) + 1 /\ Len(s) \in Nat
      /\ \A i \in 1 .. Len(s) : Append(s, e)[i] = s[i]
    BY AppendProperties
<1>2. /\ SubSeq(Append(s, e), 1, Len(s)) \in Seq(S)
      /\ Len(SubSeq(Append(s, e), 1, Len(s))) = Len(s)
      /\ \A i \in 1 .. Len(s) : SubSeq(Append(s, e), 1, Len(s))[i] = s[i]
    BY <1>1, SubSeqProperties
<1> QED BY <1>2

(* No call, refused or not, changes or removes an observation, a usage     *)
(* row, a snapshot, a batch or a job, or when a listing was first seen.    *)
THEOREM RecordsOnlyGrow == RecordsSpec => RecordsAreAppendOnly
<1> DEFINE Jobs == \A j \in Job : db.jobs[j] \in {Null, db'.jobs[j]}
           First == \A l \in Listing : db.identity[l] # Null =>
                       db'.identity[l] # Null /\ db'.identity[l].first = db.identity[l].first
           Log == \/ db'.observations = db.observations
                  \/ \E o \in ObservationRow : db'.observations = Append(db.observations, o)
<1>1. ASSUME RecordsTypeOK, [RecordsNext]_recordsVars PROVE Jobs /\ First /\ Log
    <2>0. /\ db.jobs \in [Job -> JobRow \cup {Null}]
          /\ db.identity \in [Listing -> IdentityRow \cup {Null}]
        BY <1>1 DEF RecordsTypeOK, Database
    <2>1. CASE OtherCall
        BY <2>1 DEF OtherCall
    <2>2. CASE UNCHANGED recordsVars
        BY <2>2 DEF recordsVars
    <2>3. ASSUME NEW r \in Run, NEW l \in Listing, NEW url \in Url, NEW at \in Time,
                 NEW accepted \in BOOLEAN, AppendObservation(l, r, url, at, accepted)
          PROVE  Jobs /\ First /\ Log
        <3>1. [listing |-> l, run |-> r, url |-> url, at |-> at] \in ObservationRow
            BY DEF ObservationRow
        <3>2. db'.jobs = db.jobs /\ Seen(l, r, url, at)
            BY <1>1, <2>3, ObservationEffect
        <3> QED BY <2>0, <3>1, <3>2, NullIsNoRow DEF Seen
    <2>4. ASSUME NEW r \in Run, NEW l \in Listing, NEW url \in Url, NEW at \in Time,
                 NEW j \in Job, CreateIdempotent(j, r, l, url, at)
          PROVE  Jobs /\ First /\ Log
        <3>1. db'.observations = db.observations /\ Created(j, r, l)
            BY <1>1, <2>4, CreateEffect
        <3>2. Jobs
            BY <2>0, <3>1 DEF Created
        <3>3. First
            BY <2>0, <3>1, NullIsNoRow DEF Created
        <3> QED BY <3>1, <3>2, <3>3
    <2> QED BY <1>1, <2>1, <2>2, <2>3, <2>4, OtherCases
<1>2. ASSUME RecordsTypeOK, [RecordsNext]_recordsVars
      PROVE  /\ SubSeq(db'.observations, 1, Len(db.observations)) = db.observations
             /\ SubSeq(db'.ledger, 1, Len(db.ledger)) = db.ledger
    <2>1. db.observations \in Seq(ObservationRow) /\ db.ledger \in Seq(UsageRow)
        BY <1>2 DEF RecordsTypeOK, Database
    <2>2. Log /\ Kept
        BY <1>1, <1>2, RecordsStep
    <2> QED BY <2>1, <2>2, PrefixOfAppend, SubSeqFull DEF Kept
<1>3. RecordsTypeOK /\ [RecordsNext]_recordsVars =>
        [/\ SubSeq(db'.observations, 1, Len(db.observations)) = db.observations
         /\ SubSeq(db'.ledger, 1, Len(db.ledger)) = db.ledger
         /\ \A a \in Artifact : db.snapshots[a] \in {Null, db'.snapshots[a]}
         /\ \A b \in Batch : db.batches[b] \in {Null, db'.batches[b]}
         /\ \A j \in Job : db.jobs[j] \in {Null, db'.jobs[j]}
         /\ \A l \in Listing : db.identity[l] # Null =>
               db'.identity[l] # Null /\ db'.identity[l].first = db.identity[l].first]_recordsVars
    BY <1>1, <1>2, RecordsStep DEF Kept
<1> QED BY <1>3, RecordTypes, PTL DEF RecordsSpec, RecordsAreAppendOnly

-----------------------------------------------------------------------------
(* Jobs and their ids.                                                     *)

(* No two jobs share run and listing: that is why an answer stays true.    *)
OneJobEach ==
    \A i \in Job : \A j \in Job : db.jobs[i] # Null /\ db.jobs[i] = db.jobs[j] => i = j

AnswersHold ==
    \A x \in answers : \A i \in Job : db.jobs[i] = [run |-> x.run, listing |-> x.listing] <=> i = x.job

JobsInv == RecordsTypeOK /\ OneJobEach /\ AnswersHold

LEMMA CreatedKeepsJobs ==
    ASSUME JobsInv, NEW j \in Job, NEW r \in Run, NEW l \in Listing, Created(j, r, l)
    PROVE  OneJobEach' /\ AnswersHold'
<1> DEFINE job == [run |-> r, listing |-> l]
<1>1. /\ db.jobs \in [Job -> JobRow \cup {Null}] /\ job \in JobRow /\ job # Null
      /\ answers \subseteq [run : Run, listing : Listing, job : Job]
    BY NullIsNoRow DEF JobsInv, RecordsTypeOK, Database, JobRow
<1>2. CASE db' = db /\ answers' = answers
    BY <1>2 DEF JobsInv, OneJobEach, AnswersHold
<1>3. ASSUME answers' = answers \cup {[run |-> r, listing |-> l, job |-> i] : i \in JobsFor(db', r, l)},
             OneJobEach', \A i \in Job : db.jobs[i] \in {Null, db'.jobs[i]},
             \A x \in answers : \A i \in Job :
                db'.jobs[i] = [run |-> x.run, listing |-> x.listing] <=> i = x.job
      PROVE  AnswersHold'
    <2>1. ASSUME NEW i \in Job, db'.jobs[i] = job, NEW k \in Job
          PROVE  db'.jobs[k] = job <=> k = i
        BY <1>1, <1>3, <2>1 DEF OneJobEach
    <2>2. ASSUME NEW x \in answers', NEW k \in Job
          PROVE  db'.jobs[k] = [run |-> x.run, listing |-> x.listing] <=> k = x.job
        <3>1. CASE x \in answers
            BY <1>3, <3>1
        <3>2. CASE x \notin answers
            <4>1. PICK i \in JobsFor(db', r, l) : x = [run |-> r, listing |-> l, job |-> i]
                BY <1>3, <3>2
            <4>2. i \in Job /\ db'.jobs[i] = job
                BY <4>1 DEF JobsFor
            <4>3. x.run = r /\ x.listing = l /\ x.job = i
                BY <4>1
            <4> QED BY <2>1, <4>2, <4>3
        <3> QED BY <3>1, <3>2
    <2> QED BY <2>2 DEF AnswersHold
<1>4. CASE db'.jobs = db.jobs /\ ~(db' = db /\ answers' = answers)
    BY <1>1, <1>3, <1>4 DEF JobsInv, OneJobEach, AnswersHold, Created
<1>5. CASE /\ JobsFor(db, r, l) = {} /\ db.jobs[j] = Null
           /\ db'.jobs = [db.jobs EXCEPT ![j] = job] /\ ~(db' = db /\ answers' = answers)
    <2>1. \A i \in Job : db.jobs[i] # job
        BY <1>5 DEF JobsFor
    <2>2. OneJobEach'
        BY <1>1, <1>5, <2>1 DEF JobsInv, OneJobEach
    <2>3. \A i \in Job : db.jobs[i] \in {Null, db'.jobs[i]}
        BY <1>1, <1>5
    <2>4. ASSUME NEW x \in answers, NEW i \in Job
          PROVE  db'.jobs[i] = [run |-> x.run, listing |-> x.listing] <=> i = x.job
        <3> DEFINE y == [run |-> x.run, listing |-> x.listing]
        <3>1. /\ \A k \in Job : db.jobs[k] = y <=> k = x.job
              /\ x.job \in Job /\ y # Null
            BY <1>1, NullIsNoRow DEF JobsInv, AnswersHold, JobRow
        <3>2. y # job
            BY <2>1, <3>1
        <3> HIDE DEF y, job
        <3>3. db'.jobs[i] = y <=> i = x.job
            BY <1>1, <1>5, <3>1, <3>2
        <3> QED BY <3>3 DEF y
    <2>5. answers' = answers \cup {[run |-> r, listing |-> l, job |-> i] : i \in JobsFor(db', r, l)}
        BY <1>5 DEF Created
    <2> QED BY <1>3, <2>2, <2>3, <2>4, <2>5
<1> QED BY <1>2, <1>4, <1>5 DEF Created

(* However many callers ask for a job, under whatever fresh ids, and       *)
(* whichever of their transactions are refused, an id once returned is the *)
(* id of the only job of its run and listing.                              *)
THEOREM JobIdsStayStable == RecordsSpec => []JobIdsAreStable
<1>1. RecordsInit => JobsInv
    BY RecordsTypeInit DEF JobsInv, OneJobEach, AnswersHold, RecordsInit
<1>2. ASSUME JobsInv, [RecordsNext]_recordsVars PROVE JobsInv'
    <2>1. RecordsTypeOK'
        BY <1>2, RecordsStep DEF JobsInv
    <2>2. CASE db'.jobs = db.jobs /\ answers' = answers
        BY <1>2, <2>1, <2>2 DEF JobsInv, OneJobEach, AnswersHold
    <2>3. CASE OtherCall
        BY <2>2, <2>3 DEF OtherCall
    <2>4. CASE UNCHANGED recordsVars
        BY <2>2, <2>4 DEF recordsVars
    <2>5. ASSUME NEW r \in Run, NEW l \in Listing, NEW url \in Url, NEW at \in Time,
                 NEW accepted \in BOOLEAN, AppendObservation(l, r, url, at, accepted)
          PROVE  JobsInv'
        BY <1>2, <2>2, <2>5, ObservationEffect DEF JobsInv
    <2>6. ASSUME NEW r \in Run, NEW l \in Listing, NEW url \in Url, NEW at \in Time,
                 NEW j \in Job, CreateIdempotent(j, r, l, url, at)
          PROVE  JobsInv'
        <3>1. Created(j, r, l)
            BY <1>2, <2>6, CreateEffect DEF JobsInv
        <3> QED BY <1>2, <2>1, <3>1, CreatedKeepsJobs DEF JobsInv
    <2> QED BY <1>2, <2>3, <2>4, <2>5, <2>6, OtherCases DEF JobsInv
<1>3. JobsInv => JobIdsAreStable
    <2> SUFFICES ASSUME JobsInv, NEW x \in answers
                 PROVE  JobsFor(db, x.run, x.listing) = {x.job}
        BY DEF JobIdsAreStable
    <2>1. x.job \in Job
        BY DEF JobsInv, RecordsTypeOK
    <2> QED BY <2>1 DEF JobsInv, AnswersHold, JobsFor
<1> QED BY <1>1, <1>2, <1>3, PTL DEF RecordsSpec

-----------------------------------------------------------------------------
(* Identities and the log.                                                 *)

SeenAt(l, i) == i \in DOMAIN db.observations /\ db.observations[i].listing = l
HasJob(l) == \E j \in Job : db.jobs[j] # Null /\ db.jobs[j].listing = l

(* IdentityFollowsTheLog, for one listing. *)
IdentityAgrees(l) ==
    /\ db.identity[l] # Null <=> (\E i \in DOMAIN db.observations : SeenAt(l, i)) \/ HasJob(l)
    /\ \A i \in DOMAIN db.observations :
          SeenAt(l, i) /\ (\A k \in DOMAIN db.observations : SeenAt(l, k) => k <= i) =>
             /\ db.identity[l].url = db.observations[i].url
             /\ db.identity[l].last = db.observations[i].at
    /\ db.identity[l] # Null /\ (\A i \in DOMAIN db.observations : ~SeenAt(l, i)) =>
          db.identity[l].first = db.identity[l].last

IdentityInv == RecordsTypeOK /\ \A l \in Listing : IdentityAgrees(l)

LEMMA SeenAgrees ==
    ASSUME IdentityInv, NEW l \in Listing, NEW r \in Run, NEW url \in Url, NEW at \in Time,
           Seen(l, r, url, at), db'.jobs = db.jobs, NEW m \in Listing
    PROVE  IdentityAgrees(m)'
<1> DEFINE o == [listing |-> l, run |-> r, url |-> url, at |-> at]
<1>1. /\ db.observations \in Seq(ObservationRow) /\ o \in ObservationRow
      /\ db.identity \in [Listing -> IdentityRow \cup {Null}]
    BY DEF IdentityInv, RecordsTypeOK, Database, ObservationRow
<1>2. IdentityAgrees(m)
    BY DEF IdentityInv
<1>3. CASE db'.identity = db.identity /\ db'.observations = db.observations
    BY <1>2, <1>3 DEF IdentityAgrees, SeenAt, HasJob
<1>4. ASSUME db'.observations = Append(db.observations, o), NEW row \in IdentityRow,
             db'.identity = [db.identity EXCEPT ![l] = row], row.url = url, row.last = at
      PROVE  IdentityAgrees(m)'
    <2>n. PICK n \in Nat : n = Len(db.observations) + 1
        BY <1>1, LenProperties
    <2>1. /\ DOMAIN db.observations = 1 .. n - 1 /\ DOMAIN db'.observations = 1 .. n /\ n \in Nat \ {0}
          /\ db'.observations[n] = o
          /\ \A i \in 1 .. n - 1 : db'.observations[i] = db.observations[i]
        BY <1>1, <1>4, <2>n, AppendProperties, LenProperties
    <2>2. \A i \in 1 .. n - 1 : SeenAt(m, i)' <=> SeenAt(m, i)
        BY <2>1 DEF SeenAt
    <2>3. HasJob(m)' <=> HasJob(m)
        BY DEF HasJob
    <2>4. CASE m = l
        <3>1. db'.identity[m] = row /\ row # Null
            BY <1>1, <1>4, <2>4, NullIsNoRow
        <3>2. SeenAt(m, n)'
            BY <2>1, <2>4 DEF SeenAt
        <3>3. n \in 1 .. n /\ \A i \in 1 .. n : n <= i => i = n
            BY <2>1
        <3>4. o.url = url /\ o.at = at
            OBVIOUS
        <3> HIDE DEF o
        <3> QED BY <1>4, <2>1, <3>1, <3>2, <3>3, <3>4 DEF IdentityAgrees
    <2>5. CASE m # l
        <3>1. db'.identity[m] = db.identity[m]
            BY <1>1, <1>4, <2>5
        <3>2. ~SeenAt(m, n)'
            BY <2>1, <2>5 DEF SeenAt
        <3>3. \A i \in 1 .. n : i = n \/ i \in 1 .. n - 1
            BY <2>1
        <3>4. 1 .. n - 1 \subseteq 1 .. n
            BY <2>1
        <3> HIDE DEF o
        <3> QED BY <1>2, <2>1, <2>2, <2>3, <3>1, <3>2, <3>3, <3>4 DEF IdentityAgrees
    <2> QED BY <2>4, <2>5
<1> QED BY <1>3, <1>4 DEF Seen

LEMMA CreatedAgrees ==
    ASSUME IdentityInv, NEW j \in Job, NEW r \in Run, NEW l \in Listing, Created(j, r, l),
           db'.observations = db.observations, NEW m \in Listing
    PROVE  IdentityAgrees(m)'
<1> DEFINE job == [run |-> r, listing |-> l]
<1>1. /\ db.identity \in [Listing -> IdentityRow \cup {Null}]
      /\ db.jobs \in [Job -> JobRow \cup {Null}] /\ job \in JobRow /\ job # Null /\ job.listing = l
    BY NullIsNoRow DEF IdentityInv, RecordsTypeOK, Database, JobRow
<1>2. IdentityAgrees(m) /\ IdentityAgrees(l)
    BY DEF IdentityInv
<1>3. \A i : SeenAt(m, i)' <=> SeenAt(m, i)
    BY DEF SeenAt
<1>4. CASE db' = db
    BY <1>2, <1>4 DEF IdentityAgrees, SeenAt, HasJob
<1>5. CASE db' # db
    <2>1. HasJob(l)'
        <3>1. CASE JobsFor(db, r, l) # {} /\ db'.jobs = db.jobs
            BY <1>1, <3>1 DEF HasJob, JobsFor
        <3>2. CASE db'.jobs = [db.jobs EXCEPT ![j] = job]
            <4>1. db'.jobs[j] = job
                BY <1>1, <3>2
            <4> QED BY <1>1, <4>1 DEF HasJob
        <3> QED BY <1>5, <3>1, <3>2 DEF Created
    <2>2. HasJob(m) => HasJob(m)'
        BY <1>1, <1>5 DEF Created, HasJob
    <2>3. m # l => (HasJob(m)' => HasJob(m))
        BY <1>1, <1>5 DEF Created, HasJob
    <2>4. CASE db'.identity = db.identity /\ db.identity[l] # Null
        <3>1. db.identity[m] # Null <=>
                 (\E i \in DOMAIN db.observations : SeenAt(m, i)) \/ HasJob(m)'
            BY <1>2, <2>1, <2>2, <2>3, <2>4 DEF IdentityAgrees
        <3> QED BY <1>2, <1>3, <2>4, <3>1 DEF IdentityAgrees
    <2>5. ASSUME db.identity[l] = Null, NEW row \in IdentityRow,
                 db'.identity = [db.identity EXCEPT ![l] = row], row.first = row.last
          PROVE  IdentityAgrees(m)'
        <3>1. CASE m = l
            <4>1. db'.identity[m] = row /\ row # Null
                BY <1>1, <2>5, <3>1, NullIsNoRow
            <4>2. \A i \in DOMAIN db.observations : ~SeenAt(m, i)
                BY <1>2, <2>5, <3>1 DEF IdentityAgrees
            <4> QED BY <1>3, <2>1, <2>5, <3>1, <4>1, <4>2 DEF IdentityAgrees
        <3>2. CASE m # l
            <4>1. db'.identity[m] = db.identity[m]
                BY <1>1, <2>5, <3>2
            <4>2. HasJob(m)' <=> HasJob(m)
                BY <2>2, <2>3, <3>2
            <4> QED BY <1>2, <1>3, <4>1, <4>2 DEF IdentityAgrees
        <3> QED BY <3>1, <3>2
    <2> QED BY <1>5, <2>4, <2>5 DEF Created
<1> QED BY <1>4, <1>5

(* A listing's identity is there exactly as long as something refers to    *)
(* it, and shows what was appended last, whatever was refused in between.  *)
THEOREM IdentitiesFollowTheLog == RecordsSpec => []IdentityFollowsTheLog
<1>1. RecordsInit => IdentityInv
    <2> SUFFICES ASSUME RecordsInit PROVE IdentityInv
        OBVIOUS
    <2>1. db.observations = << >> /\ \A l \in Listing : db.identity[l] = Null
        BY DEF RecordsInit
    <2>2. \A l \in Listing : ~HasJob(l)
        BY DEF RecordsInit, HasJob
    <2> QED BY <2>1, <2>2, RecordsTypeInit DEF IdentityInv, IdentityAgrees, SeenAt
<1>2. ASSUME IdentityInv, [RecordsNext]_recordsVars PROVE IdentityInv'
    <2>1. RecordsTypeOK'
        BY <1>2, RecordsStep DEF IdentityInv
    <2>2. CASE db'.identity = db.identity /\ db'.observations = db.observations /\ db'.jobs = db.jobs
        BY <1>2, <2>1, <2>2 DEF IdentityInv, IdentityAgrees, SeenAt, HasJob
    <2>3. CASE OtherCall
        BY <2>2, <2>3 DEF OtherCall
    <2>4. CASE UNCHANGED recordsVars
        BY <2>2, <2>4 DEF recordsVars
    <2>5. ASSUME NEW r \in Run, NEW l \in Listing, NEW url \in Url, NEW at \in Time,
                 NEW accepted \in BOOLEAN, AppendObservation(l, r, url, at, accepted)
          PROVE  IdentityInv'
        <3>1. Seen(l, r, url, at) /\ db'.jobs = db.jobs
            BY <1>2, <2>5, ObservationEffect DEF IdentityInv
        <3> QED BY <1>2, <2>1, <3>1, SeenAgrees DEF IdentityInv
    <2>6. ASSUME NEW r \in Run, NEW l \in Listing, NEW url \in Url, NEW at \in Time,
                 NEW j \in Job, CreateIdempotent(j, r, l, url, at)
          PROVE  IdentityInv'
        <3>1. Created(j, r, l) /\ db'.observations = db.observations
            BY <1>2, <2>6, CreateEffect DEF IdentityInv
        <3> QED BY <1>2, <2>1, <3>1, CreatedAgrees DEF IdentityInv
    <2> QED BY <1>2, <2>3, <2>4, <2>5, <2>6, OtherCases DEF IdentityInv
<1>3. IdentityInv => IdentityFollowsTheLog
    <2> SUFFICES ASSUME IdentityInv, NEW l \in Listing, IdentityAgrees(l)
                 PROVE  IdentityFollowsTheLog!(l)
        BY DEF IdentityInv, IdentityFollowsTheLog
    <2> QED BY DEF IdentityAgrees, SeenAt, HasJob
<1> QED BY <1>1, <1>2, <1>3, PTL DEF RecordsSpec

=============================================================================
