---------------------------- MODULE StartupProofs ----------------------------
(***************************************************************************)
(* Theorems about Startup, for any number of threads, processes and        *)
(* releases, and any contents of the migration files.                      *)
(***************************************************************************)
EXTENDS Startup, TLAPS

-----------------------------------------------------------------------------
(* The inductive invariant.  A thread's local variables speak of versions  *)
(* that are recorded for good, and what the writer has drafted follows     *)
(* from what is committed and the label the writer is at.                  *)

Working == {"body", "script", "script_record", "commit"}

(* The draft of a migration once its record is inserted. *)
Applied(t) ==
    [AfterScript(db, at[t], Release(t)[at[t]]) EXCEPT
        !.record[at[t]] = Release(t)[at[t]]]

PlaceInv(t) ==
    /\ \A v \in Version : v < at[t] => db.record[v] = Release(t)[v]
    /\ at[t] <= Len(Release(t)) + 1
    /\ task[t] = "migrate" /\ pc[t] # "check" => at[t] <= Len(Release(t))
    /\ task[t] = "register" => at[t] = Len(Release(t)) + 1
    /\ pc[t] \in {"script_begin", "script", "script_record"} => task[t] = "migrate"
    /\ pc[t] = "ready" => task[t] = "register" /\ OwnerName \in db.owners

DraftInv(t) ==
    /\ writer = t <=> pc[t] \in Working
    /\ pc[t] \in {"body", "script"} => draft = db
    /\ pc[t] = "script_record" => draft = AfterScript(db, at[t], Release(t)[at[t]])
    /\ pc[t] = "commit" =>
        /\ task[t] = "create" => draft = db
        /\ task[t] = "migrate" => db.record[at[t]] = Null /\ draft = Applied(t)
        /\ task[t] = "register" =>
            /\ db.owners \subseteq {OwnerName}
            /\ draft = [db EXCEPT !.owners = {OwnerName}]

OwnersInv ==
    OwnerName \in db.owners => db.owners = {OwnerName} /\ db.schema[2] # Null

StartupInv ==
    /\ StartupTypeOK
    /\ DatabaseIsOfOneRelease
    /\ OwnersInv
    /\ \A t \in Thread : PlaceInv(t) /\ DraftInv(t)

-----------------------------------------------------------------------------
(* Facts about the constants and the helpers. *)

(* The files of a release are contents, at most LastVersion of them. *)
LEMMA ReleaseFacts ==
    ASSUME NEW t \in Thread
    PROVE  /\ Release(t) \in Seq(Content)
           /\ Len(Release(t)) \in Nat
           /\ Len(Release(t)) >= 2 /\ Len(Release(t)) <= LastVersion
           /\ \A v \in 1 .. Len(Release(t)) :
                v \in Version /\ Release(t)[v] \in Content /\ Release(t)[v] # Null
<1>1. ProcessOf[t] \in OsProcess /\ Release(t) = Migrations[ProcessOf[t]]
    BY StartupAssumption DEF Release
<1>2. Release(t) \in Seq(Content) /\ Len(Release(t)) \in 2 .. LastVersion
    BY <1>1, StartupAssumption
<1>3. Len(Release(t)) \in Nat /\ Len(Release(t)) >= 2 /\ Len(Release(t)) <= LastVersion
    BY <1>2, StartupAssumption
<1>4. \A v \in 1 .. Len(Release(t)) : Release(t)[v] \in Content
    BY <1>2
<1>5. \A v \in 1 .. Len(Release(t)) : v \in Version
    BY <1>3, StartupAssumption DEF Version
<1> QED BY <1>2, <1>3, <1>4, <1>5, StartupAssumption

(* A script leaves the records and the owners alone, and has its effect    *)
(* unless there was one before.                                            *)
LEMMA AfterScriptFacts ==
    ASSUME NEW d \in Database, NEW v \in Version, NEW c \in Content
    PROVE  /\ AfterScript(d, v, c) \in Database
           /\ AfterScript(d, v, c).record = d.record
           /\ AfterScript(d, v, c).owners = d.owners
           /\ d.schema[v] = Null => AfterScript(d, v, c).schema = [d.schema EXCEPT ![v] = c]
<1>1. CASE d.schema[v] = Null
    <2>1. [d EXCEPT !.schema[v] = c] = [d EXCEPT !.schema = [d.schema EXCEPT ![v] = c]]
        BY DEF Database
    <2>2. [d.schema EXCEPT ![v] = c] \in [Version -> Content \cup {Null}]
        BY DEF Database
    <2> QED BY <1>1, <2>1, <2>2 DEF AfterScript, Database
<1>2. CASE d.schema[v] # Null
    BY <1>2 DEF AfterScript
<1> QED BY <1>1, <1>2

(* What the invariant says of a thread that a step leaves alone stays      *)
(* true: records and the registered owner are never taken back.            *)
LEMMA Untouched ==
    ASSUME StartupInv, NEW u \in Thread,
           pc'[u] = pc[u], task'[u] = task[u], at'[u] = at[u],
           \A v \in Version : db.record[v] # Null => db'.record[v] = db.record[v],
           OwnerName \in db.owners => OwnerName \in db'.owners,
           \/ db' = db /\ draft' = draft /\ writer' = writer
           \/ writer # u /\ writer' # u
    PROVE  PlaceInv(u)' /\ DraftInv(u)'
<1>1. PlaceInv(u) /\ DraftInv(u) /\ at[u] \in Nat
    BY StartupAssumption DEF StartupInv, StartupTypeOK
<1>2. Release(u)' = Release(u)
    BY DEF Release
<1>3. \A v \in Version : v < at[u] => db.record[v] # Null
    <2> SUFFICES ASSUME NEW v \in Version, v < at[u] PROVE db.record[v] # Null
        OBVIOUS
    <2>1. v \in 1 .. Len(Release(u))
        BY <1>1, ReleaseFacts DEF PlaceInv, Version
    <2> QED BY <1>1, <2>1, ReleaseFacts DEF PlaceInv
<1>4. PlaceInv(u)'
    BY <1>1, <1>2, <1>3 DEF PlaceInv
<1>5. DraftInv(u)'
    <2>1. CASE db' = db /\ draft' = draft /\ writer' = writer
        BY <1>1, <1>2, <2>1 DEF DraftInv, Applied
    <2>2. CASE writer # u /\ writer' # u
        BY <1>1, <2>2 DEF DraftInv, Working
    <2> QED BY <2>1, <2>2
<1> QED BY <1>4, <1>5

(* An exception and a kill: the threads in T start afresh, the draft of    *)
(* one of them is gone, and nobody else notices.                           *)
LEMMA StopKeeps ==
    ASSUME StartupInv, NEW T \in SUBSET Thread, Stop(T),
           outcome' \in [Thread -> Failure \cup {"none"}],
           setbacks' \in 0 .. MaxSetbacks
    PROVE  StartupInv'
<1>1. StartupTypeOK /\ Null \notin Thread
    BY StartupAssumption DEF StartupInv
<1>2. StartupTypeOK'
    <2>1. pc' \in [Thread -> Label] /\ task' \in [Thread -> Task]
        BY <1>1 DEF Stop, StartupTypeOK, Label, Task
    <2>2. at' \in [Thread -> 1 .. LastVersion + 1]
        BY <1>1, StartupAssumption DEF Stop, StartupTypeOK
    <2>3. lock' \in [OsProcess -> Thread \cup {Null}]
        BY <1>1 DEF Stop, StartupTypeOK
    <2> QED BY <1>1, <2>1, <2>2, <2>3 DEF Stop, StartupTypeOK
<1>3. db' = db
    BY DEF Stop
<1>4. DatabaseIsOfOneRelease' /\ OwnersInv'
    BY <1>3 DEF StartupInv, DatabaseIsOfOneRelease, OwnersInv
<1>5. ASSUME NEW u \in Thread
      PROVE  PlaceInv(u)' /\ DraftInv(u)'
    <2>1. CASE u \in T
        <3>1. pc'[u] = "off" /\ task'[u] = "create" /\ at'[u] = 1 /\ writer' # u
            BY <1>1, <2>1 DEF Stop
        <3>2. Release(u)' = Release(u)
            BY DEF Release
        <3>3. PlaceInv(u)'
            BY <3>1, <3>2, ReleaseFacts DEF PlaceInv, Version
        <3> QED BY <3>1, <3>3 DEF DraftInv, Working
    <2>2. CASE u \notin T
        <3>1. pc'[u] = pc[u] /\ task'[u] = task[u] /\ at'[u] = at[u]
            BY <2>2 DEF Stop
        <3>2. \/ draft' = draft /\ writer' = writer
              \/ writer # u /\ writer' # u
            BY <1>1, <2>2 DEF Stop
        <3> QED BY <1>3, <3>1, <3>2, Untouched
    <2> QED BY <2>1, <2>2
<1> QED BY <1>2, <1>4, <1>5 DEF StartupInv

(* An exception in one thread. *)
LEMMA FailKeeps ==
    ASSUME StartupInv, NEW t \in Thread, NEW failure \in Failure,
           Fail(t, failure), setbacks' \in 0 .. MaxSetbacks
    PROVE  StartupInv'
<1>1. outcome' \in [Thread -> Failure \cup {"none"}]
    BY DEF Fail, StartupInv, StartupTypeOK
<1> QED BY <1>1, StopKeeps DEF Fail

-----------------------------------------------------------------------------
(* The steps of one thread. *)

(* A step of thread t that gives and takes nothing but its own.            *)
LEMMA Assemble ==
    ASSUME StartupInv, StartupTypeOK', NEW t \in Thread,
           \A u \in Thread : u # t =>
                pc'[u] = pc[u] /\ task'[u] = task[u] /\ at'[u] = at[u],
           \A v \in Version : db.record[v] # Null => db'.record[v] = db.record[v],
           OwnerName \in db.owners => OwnerName \in db'.owners,
           \/ db' = db /\ draft' = draft /\ writer' = writer
           \/ writer \in {t, Null} /\ writer' \in {t, Null},
           DatabaseIsOfOneRelease', OwnersInv', PlaceInv(t)', DraftInv(t)'
    PROVE  StartupInv'
<1>1. ASSUME NEW u \in Thread, u # t
      PROVE  PlaceInv(u)' /\ DraftInv(u)'
    <2>1. \/ db' = db /\ draft' = draft /\ writer' = writer
          \/ writer # u /\ writer' # u
        BY <1>1, StartupAssumption
    <2> QED BY <1>1, <2>1, Untouched
<1> QED BY <1>1 DEF StartupInv

(* The committed database is as it was. *)
LEMMA SameDatabase ==
    ASSUME StartupInv, db' = db
    PROVE  DatabaseIsOfOneRelease' /\ OwnersInv'
BY DEF StartupInv, DatabaseIsOfOneRelease, OwnersInv

(* Start, the acquisition of the lock, and the transaction that creates    *)
(* schema_migrations, move one thread's label only.                        *)
LEMMA LabelKeeps ==
    ASSUME StartupInv, NEW t \in Thread,
           Start(t) \/ Lock(t) \/ CreateTable(t)
    PROVE  StartupInv'
<1>1. StartupTypeOK /\ PlaceInv(t) /\ DraftInv(t)
    BY DEF StartupInv
<1>2. /\ UNCHANGED <<db, draft, writer, task, at>>
      /\ \A u \in Thread : u # t => pc'[u] = pc[u]
      /\ \/ pc[t] = "off" /\ pc'[t] = "lock"
         \/ pc[t] = "lock" /\ pc'[t] = "begin"
         \/ pc[t] = "body" /\ pc'[t] = "commit" /\ task[t] = "create"
    BY <1>1 DEF Start, Lock, CreateTable, Goto, StartupTypeOK
<1>3. StartupTypeOK'
    <2>1. pc' \in [Thread -> Label]
        BY <1>1 DEF Start, Lock, CreateTable, Goto, StartupTypeOK, Label
    <2>2. /\ lock' \in [OsProcess -> Thread \cup {Null}]
          /\ outcome' \in [Thread -> Failure \cup {"none"}]
          /\ setbacks' = setbacks
        BY <1>1 DEF Start, Lock, CreateTable, StartupTypeOK
    <2> QED BY <1>1, <1>2, <2>1, <2>2 DEF StartupTypeOK
<1>4. Release(t)' = Release(t)
    BY DEF Release
<1>5. PlaceInv(t)'
    BY <1>1, <1>2, <1>4 DEF PlaceInv
<1>6. DraftInv(t)'
    BY <1>1, <1>2, <1>4 DEF DraftInv, Working
<1> QED BY <1>2, <1>3, <1>5, <1>6, SameDatabase, Assemble

(* BEGIN IMMEDIATE, of the boundary and of the script. *)
LEMMA BeginKeeps ==
    ASSUME StartupInv, NEW t \in Thread, Begin(t) \/ ScriptBegin(t)
    PROVE  StartupInv'
<1>1. StartupTypeOK /\ PlaceInv(t) /\ DraftInv(t)
    BY DEF StartupInv
<1>2. /\ UNCHANGED <<db, lock, task, at, outcome, setbacks>>
      /\ writer = Null /\ writer' = t /\ draft' = db
      /\ \A u \in Thread : u # t => pc'[u] = pc[u]
      /\ \/ pc[t] = "begin" /\ pc'[t] = "body"
         \/ pc[t] = "script_begin" /\ pc'[t] = "script"
      /\ pc' \in [Thread -> Label]
    BY <1>1 DEF Begin, ScriptBegin, BeginImmediate, Goto, StartupTypeOK, Label
<1>3. StartupTypeOK'
    BY <1>1, <1>2 DEF StartupTypeOK
<1>4. Release(t)' = Release(t)
    BY DEF Release
<1>5. PlaceInv(t)'
    BY <1>1, <1>2, <1>4 DEF PlaceInv
<1>6. DraftInv(t)'
    BY <1>2 DEF DraftInv, Working
<1> QED BY <1>2, <1>3, <1>5, <1>6, SameDatabase, Assemble

(* The next file is looked up.  A thread that enters the registration has  *)
(* seen all of its files recorded.                                         *)
LEMMA CheckKeeps ==
    ASSUME StartupInv, NEW t \in Thread, Check(t)
    PROVE  StartupInv'
<1>1. StartupTypeOK /\ PlaceInv(t) /\ DraftInv(t) /\ pc[t] = "check"
    BY DEF StartupInv, Check
<1>2. /\ Release(t)' = Release(t) /\ Len(Release(t)) \in Nat
      /\ Len(Release(t)) <= LastVersion /\ at[t] \in 1 .. LastVersion + 1
    BY <1>1, ReleaseFacts DEF Release, StartupTypeOK
<1>3. ASSUME NEW next \in {"migrate", "register"}, Enter(t, next),
             next = "migrate" => at[t] <= Len(Release(t)),
             next = "register" => at[t] > Len(Release(t))
      PROVE  StartupInv'
    <2>1. /\ UNCHANGED <<db, draft, writer, lock, at, outcome, setbacks>>
          /\ pc'[t] = "lock" /\ task'[t] = next
          /\ \A u \in Thread : u # t => pc'[u] = pc[u] /\ task'[u] = task[u]
          /\ pc' \in [Thread -> Label] /\ task' \in [Thread -> Task]
        BY <1>1, <1>3 DEF Enter, Goto, StartupTypeOK, Label, Task
    <2>2. StartupTypeOK'
        BY <1>1, <2>1 DEF StartupTypeOK
    <2>3. PlaceInv(t)'
        BY <1>1, <1>2, <1>3, <2>1 DEF PlaceInv
    <2>4. DraftInv(t)'
        BY <1>1, <2>1 DEF DraftInv, Working
    <2> QED BY <2>1, <2>2, <2>3, <2>4, SameDatabase, Assemble
<1>4. ASSUME at[t] <= Len(Release(t)), db.record[at[t]] = Release(t)[at[t]],
             at' = [at EXCEPT ![t] = @ + 1],
             UNCHANGED <<db, draft, writer, lock, pc, task, outcome, setbacks>>
      PROVE  StartupInv'
    <2>1. /\ at'[t] = at[t] + 1 /\ \A u \in Thread : u # t => at'[u] = at[u]
          /\ at' \in [Thread -> 1 .. LastVersion + 1]
        BY <1>1, <1>2, <1>4, StartupAssumption DEF StartupTypeOK
    <2>2. StartupTypeOK'
        BY <1>1, <1>4, <2>1 DEF StartupTypeOK
    <2>3. task[t] # "register"
        BY <1>1, <1>2, <1>4 DEF PlaceInv
    <2>4. \A v \in Version : v < at[t] + 1 => db.record[v] = Release(t)[v]
        BY <1>1, <1>2, <1>4, StartupAssumption DEF PlaceInv, Version
    <2>5. PlaceInv(t)'
        BY <1>1, <1>2, <1>4, <2>1, <2>3, <2>4 DEF PlaceInv
    <2>6. DraftInv(t)'
        BY <1>1, <1>4 DEF DraftInv, Working
    <2> QED BY <1>4, <2>1, <2>2, <2>5, <2>6, SameDatabase, Assemble
<1>5. CASE Fail(t, "changed") /\ UNCHANGED setbacks
    BY <1>1, <1>5, FailKeeps DEF Failure, StartupTypeOK
<1> QED BY <1>2, <1>3, <1>4, <1>5 DEF Check

(* executescript commits a transaction that has changed nothing. *)
LEMMA ImplicitCommitKeeps ==
    ASSUME StartupInv, NEW t \in Thread, ImplicitCommit(t)
    PROVE  StartupInv'
<1>1. StartupTypeOK /\ PlaceInv(t) /\ DraftInv(t)
    BY DEF StartupInv
<1>2. /\ UNCHANGED <<lock, task, at, outcome, setbacks>>
      /\ pc[t] = "body" /\ task[t] = "migrate" /\ pc'[t] = "script_begin"
      /\ \A u \in Thread : u # t => pc'[u] = pc[u]
      /\ pc' \in [Thread -> Label]
      /\ writer' = Null /\ draft' = Null
    BY <1>1 DEF ImplicitCommit, Goto, StartupTypeOK, Label
<1>3. draft = db /\ writer = t /\ db' = db
    BY <1>1, <1>2 DEF ImplicitCommit, DraftInv, Working
<1>4. StartupTypeOK'
    BY <1>1, <1>2, <1>3 DEF StartupTypeOK
<1>5. Release(t)' = Release(t)
    BY DEF Release
<1>6. PlaceInv(t)'
    BY <1>1, <1>2, <1>3, <1>5 DEF PlaceInv
<1>7. DraftInv(t)'
    BY <1>2, StartupAssumption DEF DraftInv, Working
<1> QED BY <1>2, <1>3, <1>4, <1>6, <1>7, SameDatabase, Assemble

(* The script's statements change the draft. *)
LEMMA RunScriptKeeps ==
    ASSUME StartupInv, NEW t \in Thread, RunScript(t)
    PROVE  StartupInv'
<1> DEFINE content == Release(t)[at[t]]
<1>1. StartupTypeOK /\ PlaceInv(t) /\ DraftInv(t)
    BY DEF StartupInv
<1>2. /\ UNCHANGED <<db, writer, lock, task, at, outcome, setbacks>>
      /\ pc[t] = "script" /\ pc'[t] = "script_record"
      /\ \A u \in Thread : u # t => pc'[u] = pc[u]
      /\ pc' \in [Thread -> Label]
    BY <1>1 DEF RunScript, Goto, StartupTypeOK, Label
<1>3. /\ task[t] = "migrate" /\ writer = t
      /\ draft = db /\ draft' = AfterScript(db, at[t], content)
    BY <1>1, <1>2 DEF RunScript, PlaceInv, DraftInv, Working
<1>4. at[t] \in Version /\ content \in Content
    <2>1. at[t] \in 1 .. Len(Release(t))
        BY <1>1, <1>2, <1>3, ReleaseFacts, StartupAssumption DEF PlaceInv, StartupTypeOK
    <2> QED BY <2>1, ReleaseFacts
<1>5. draft' \in Database
    BY <1>1, <1>3, <1>4, AfterScriptFacts DEF StartupTypeOK
<1>6. StartupTypeOK'
    BY <1>1, <1>2, <1>5 DEF StartupTypeOK
<1>7. Release(t)' = Release(t)
    BY DEF Release
<1>8. PlaceInv(t)'
    BY <1>1, <1>2, <1>3, <1>7 DEF PlaceInv
<1>9. DraftInv(t)'
    BY <1>2, <1>3, <1>7 DEF DraftInv, Working
<1> QED BY <1>2, <1>3, <1>6, <1>8, <1>9, SameDatabase, Assemble

(* The record of the version is inserted, unless there is one.             *)
LEMMA RecordVersionKeeps ==
    ASSUME StartupInv, NEW t \in Thread, RecordVersion(t)
    PROVE  StartupInv'
<1> DEFINE content == Release(t)[at[t]]
<1>1. StartupTypeOK /\ PlaceInv(t) /\ DraftInv(t)
    BY DEF StartupInv
<1>2. CASE pc[t] = "script_record" /\ Fail(t, "integrity") /\ UNCHANGED setbacks
    BY <1>1, <1>2, FailKeeps DEF Failure, StartupTypeOK
<1>3. ASSUME Goto(t, "script_record", "commit"), draft.record[at[t]] = Null,
             draft' = [draft EXCEPT !.record[at[t]] = content],
             UNCHANGED <<db, writer, lock, task, at, outcome, setbacks>>
      PROVE  StartupInv'
    <2>1. /\ pc[t] = "script_record" /\ pc'[t] = "commit"
          /\ \A u \in Thread : u # t => pc'[u] = pc[u]
          /\ pc' \in [Thread -> Label]
        BY <1>1, <1>3 DEF Goto, StartupTypeOK, Label
    <2>2. /\ task[t] = "migrate" /\ writer = t
          /\ draft = AfterScript(db, at[t], content)
        BY <1>1, <2>1 DEF PlaceInv, DraftInv, Working
    <2>3. at[t] \in Version /\ content \in Content
        <3>1. at[t] \in 1 .. Len(Release(t))
            BY <1>1, <2>1, <2>2, ReleaseFacts, StartupAssumption DEF PlaceInv, StartupTypeOK
        <3> QED BY <3>1, ReleaseFacts
    <2>4. draft \in Database /\ draft.record = db.record
        BY <1>1, <2>2, <2>3, AfterScriptFacts DEF StartupTypeOK
    <2>5. draft' \in Database
        <3>1. [draft.record EXCEPT ![at[t]] = content] \in [Version -> Content \cup {Null}]
            BY <2>3, <2>4 DEF Database
        <3>2. draft' = [draft EXCEPT !.record = [draft.record EXCEPT ![at[t]] = content]]
            BY <1>3, <2>4 DEF Database
        <3> QED BY <2>4, <3>1, <3>2 DEF Database
    <2>6. StartupTypeOK'
        BY <1>1, <1>3, <2>1, <2>5 DEF StartupTypeOK
    <2>7. Release(t)' = Release(t)
        BY DEF Release
    <2>8. PlaceInv(t)'
        BY <1>1, <1>3, <2>1, <2>7 DEF PlaceInv
    <2>9. db.record[at[t]] = Null /\ draft' = Applied(t)
        BY <1>3, <2>2, <2>4 DEF Applied
    <2>10. Applied(t)' = Applied(t)
        BY <1>3, <2>7 DEF Applied
    <2>11. DraftInv(t)'
        BY <1>3, <2>1, <2>2, <2>9, <2>10 DEF DraftInv, Working
    <2> QED BY <1>3, <2>1, <2>2, <2>6, <2>8, <2>11, SameDatabase, Assemble
<1> QED BY <1>2, <1>3 DEF RecordVersion

(* The owner is registered, found, or another one is. *)
LEMMA RegisterKeeps ==
    ASSUME StartupInv, NEW t \in Thread, Register(t)
    PROVE  StartupInv'
<1>1. StartupTypeOK /\ PlaceInv(t) /\ DraftInv(t) /\ OwnersInv
    BY DEF StartupInv
<1>2. pc[t] = "body" /\ task[t] = "register" /\ writer = t /\ draft = db
    BY <1>1 DEF Register, DraftInv, Working
<1>3. CASE Fail(t, "other_owner") /\ UNCHANGED setbacks
    BY <1>1, <1>3, FailKeeps DEF Failure, StartupTypeOK
<1>4. ASSUME Goto(t, "body", "commit"), draft' = [db EXCEPT !.owners = {OwnerName}],
             db.owners \subseteq {OwnerName},
             UNCHANGED <<db, writer, lock, task, at, outcome, setbacks>>
      PROVE  StartupInv'
    <2>1. /\ pc'[t] = "commit" /\ \A u \in Thread : u # t => pc'[u] = pc[u]
          /\ pc' \in [Thread -> Label]
        BY <1>1, <1>4 DEF Goto, StartupTypeOK, Label
    <2>2. draft' \in Database
        BY <1>1, <1>4 DEF StartupTypeOK, Database
    <2>3. StartupTypeOK'
        BY <1>1, <1>4, <2>1, <2>2 DEF StartupTypeOK
    <2>4. Release(t)' = Release(t)
        BY DEF Release
    <2>5. PlaceInv(t)'
        BY <1>1, <1>2, <1>4, <2>1, <2>4 DEF PlaceInv
    <2>6. DraftInv(t)'
        BY <1>2, <1>4, <2>1 DEF DraftInv, Working
    <2> QED BY <1>2, <1>4, <2>1, <2>3, <2>5, <2>6, SameDatabase, Assemble
<1>5. ASSUME OwnerName \in draft.owners
      PROVE  draft = [db EXCEPT !.owners = {OwnerName}] /\ db.owners \subseteq {OwnerName}
    BY <1>1, <1>2, <1>5 DEF OwnersInv, StartupTypeOK, Database
<1> QED BY <1>2, <1>3, <1>4, <1>5 DEF Register

-----------------------------------------------------------------------------
(* What a commit does to the database. *)

(* A committed migration adds one version, that had neither a schema nor a *)
(* record, after the ones its release has before it.                       *)
LEMMA CommitMigration ==
    ASSUME StartupInv, NEW t \in Thread, Commit(t), task[t] = "migrate"
    PROVE  /\ at[t] \in 1 .. Len(Release(t))
           /\ db.schema[at[t]] = Null /\ db.record[at[t]] = Null
           /\ db' \in Database
           /\ db'.record = [db.record EXCEPT ![at[t]] = Release(t)[at[t]]]
           /\ db'.schema = [db.schema EXCEPT ![at[t]] = Release(t)[at[t]]]
           /\ db'.owners = db.owners
<1> DEFINE content == Release(t)[at[t]]
<1> DEFINE done == AfterScript(db, at[t], content)
<1>1. StartupTypeOK /\ PlaceInv(t) /\ DraftInv(t) /\ pc[t] = "commit"
    BY DEF StartupInv, Commit, Goto
<1>2. db.record[at[t]] = Null /\ db' = Applied(t) /\ db \in Database
    BY <1>1 DEF Commit, DraftInv, StartupTypeOK
<1>3. at[t] \in 1 .. Len(Release(t))
    BY <1>1, ReleaseFacts, StartupAssumption DEF PlaceInv, StartupTypeOK
<1>4. at[t] \in Version /\ content \in Content
    BY <1>3, ReleaseFacts
<1>5. db.schema[at[t]] = Null
    BY <1>2 DEF StartupInv, DatabaseIsOfOneRelease
<1>6. /\ done \in Database /\ done.record = db.record /\ done.owners = db.owners
      /\ done.schema = [db.schema EXCEPT ![at[t]] = content]
    BY <1>2, <1>4, <1>5, AfterScriptFacts
<1>7. Applied(t) = [done EXCEPT !.record = [db.record EXCEPT ![at[t]] = content]]
    BY <1>6 DEF Applied
<1>8. [db.record EXCEPT ![at[t]] = content] \in [Version -> Content \cup {Null}]
    BY <1>2, <1>4 DEF Database
<1> HIDE DEF done
<1> QED BY <1>2, <1>3, <1>5, <1>6, <1>7, <1>8 DEF Database

(* So the database is, before and after, the first migrations of the       *)
(* committing thread's own release.                                        *)
LEMMA CommitExtendsRelease ==
    ASSUME StartupInv, NEW t \in Thread, Commit(t), task[t] = "migrate"
    PROVE  /\ ProcessOf[t] \in OsProcess
           /\ at[t] \in 1 .. Len(Migrations[ProcessOf[t]])
           /\ db.record = FirstMigrations(ProcessOf[t], at[t] - 1)
           /\ db.schema = db.record
           /\ db'.record = FirstMigrations(ProcessOf[t], at[t])
           /\ db'.schema = db'.record
           /\ db'.owners = db.owners
<1> DEFINE a == at[t]
<1> DEFINE content == Release(t)[a]
<1> DEFINE mine == ProcessOf[t]
<1>1. /\ a \in 1 .. Len(Release(t)) /\ db.schema[a] = Null /\ db.record[a] = Null
      /\ db'.record = [db.record EXCEPT ![a] = content]
      /\ db'.schema = [db.schema EXCEPT ![a] = content]
      /\ db'.owners = db.owners
    BY CommitMigration
<1>2. /\ mine \in OsProcess /\ Release(t) = Migrations[mine]
      /\ PlaceInv(t) /\ db \in Database
    BY StartupAssumption DEF Release, StartupInv, StartupTypeOK
<1> PICK o \in OsProcess : \E n \in 0 .. Len(Migrations[o]) :
        /\ db.record = FirstMigrations(o, n)
        /\ db.schema = FirstMigrations(o, n)
    BY DEF StartupInv, DatabaseIsOfOneRelease
<1>3. PICK n \in 0 .. Len(Migrations[o]) :
        db.record = FirstMigrations(o, n) /\ db.schema = FirstMigrations(o, n)
    OBVIOUS
<1>4. /\ Migrations[o] \in Seq(Content) /\ Len(Migrations[o]) \in Nat
      /\ Len(Migrations[o]) <= LastVersion
      /\ \A v \in 1 .. Len(Migrations[o]) : Migrations[o][v] # Null
    <2>1. Migrations[o] \in Seq(Content) /\ Len(Migrations[o]) \in 2 .. LastVersion
        BY StartupAssumption
    <2>2. \A v \in 1 .. Len(Migrations[o]) : Migrations[o][v] \in Content
        BY <2>1
    <2> QED BY <2>1, <2>2, StartupAssumption
<1>5. a \in Version /\ a \in Nat /\ Version \subseteq Nat
    BY <1>1, ReleaseFacts DEF Version
<1>6. n \in Nat /\ n < a
    <2>1. ~(a <= n)
        BY <1>1, <1>3, <1>4, <1>5 DEF FirstMigrations
    <2> QED BY <1>3, <1>4, <1>5, <2>1
<1>7. n >= a - 1
    <2> SUFFICES ASSUME a - 1 > n PROVE FALSE
        BY <1>3, <1>4, <1>5
    <2>1. a - 1 \in 1 .. Len(Release(t)) /\ a - 1 \in Version
        BY <1>1, <1>5, <1>6, ReleaseFacts
    <2>2. db.record[a - 1] # Null
        BY <1>2, <1>5, <2>1, ReleaseFacts DEF PlaceInv
    <2>3. FirstMigrations(o, n)[a - 1] = Null
        BY <2>1, <1>5, <1>6 DEF FirstMigrations
    <2> QED BY <1>3, <2>2, <2>3
<1>8. \A v \in Version : [db.record EXCEPT ![a] = content][v] = FirstMigrations(mine, a)[v]
    <2> SUFFICES ASSUME NEW v \in Version
                 PROVE  [db.record EXCEPT ![a] = content][v] = FirstMigrations(mine, a)[v]
        OBVIOUS
    <2>1. CASE v = a
        BY <1>2, <1>5, <2>1 DEF FirstMigrations, Database
    <2>2. CASE v < a
        BY <1>2, <1>5, <2>2 DEF FirstMigrations, PlaceInv, Database
    <2>3. CASE v > a
        BY <1>2, <1>3, <1>5, <1>6, <2>3 DEF FirstMigrations, Database
    <2> QED BY <1>5, <2>1, <2>2, <2>3
<1>9. FirstMigrations(mine, a) = [db.record EXCEPT ![a] = content]
    BY <1>2, <1>8 DEF FirstMigrations, Database
<1>10. \A v \in Version : db.record[v] = FirstMigrations(mine, a - 1)[v]
    <2> SUFFICES ASSUME NEW v \in Version
                 PROVE  db.record[v] = FirstMigrations(mine, a - 1)[v]
        OBVIOUS
    <2>1. CASE v < a
        BY <1>2, <1>5, <2>1 DEF FirstMigrations, PlaceInv
    <2>2. CASE v >= a
        BY <1>3, <1>5, <1>6, <2>2 DEF FirstMigrations
    <2> QED BY <1>5, <2>1, <2>2
<1>11. db.record = FirstMigrations(mine, a - 1)
    BY <1>2, <1>10 DEF FirstMigrations, Database
<1>12. db.record = db.schema
    BY <1>3
<1> QED BY <1>1, <1>2, <1>9, <1>11, <1>12

(* It goes on being the first migrations of a release.                     *)
LEMMA CommitOneRelease ==
    ASSUME StartupInv, NEW t \in Thread, Commit(t), task[t] = "migrate"
    PROVE  DatabaseIsOfOneRelease'
<1> DEFINE mine == ProcessOf[t]
<1>1. /\ mine \in OsProcess /\ at[t] \in 1 .. Len(Migrations[mine])
      /\ Len(Migrations[mine]) \in Nat
      /\ db'.record = FirstMigrations(mine, at[t])
      /\ db'.schema = FirstMigrations(mine, at[t])
    BY CommitExtendsRelease, StartupAssumption
<1>2. at[t] \in 0 .. Len(Migrations[mine])
    BY <1>1
<1> QED BY <1>1, <1>2 DEF DatabaseIsOfOneRelease

(* A thread that registers has seen the trigger of migration 2 committed.  *)
LEMMA RegistersOnMigrated ==
    ASSUME StartupInv, NEW t \in Thread, task[t] = "register"
    PROVE  db.record[2] # Null /\ db.schema[2] # Null
<1>1. PlaceInv(t) /\ DatabaseIsOfOneRelease
    BY DEF StartupInv
<1>2. 2 \in Version /\ 2 < at[t] /\ 2 \in 1 .. Len(Release(t))
    BY <1>1, ReleaseFacts, StartupAssumption DEF PlaceInv, Version
<1>3. db.record[2] # Null
    BY <1>1, <1>2, ReleaseFacts DEF PlaceInv
<1> QED BY <1>1, <1>3 DEF DatabaseIsOfOneRelease

(* Commit keeps the invariant. *)
LEMMA CommitKeeps ==
    ASSUME StartupInv, NEW t \in Thread, Commit(t)
    PROVE  StartupInv'
<1>1. /\ StartupTypeOK /\ PlaceInv(t) /\ DraftInv(t) /\ pc[t] = "commit"
      /\ OwnersInv /\ DatabaseIsOfOneRelease
    BY DEF StartupInv, Commit, Goto
<1>2. /\ writer = t /\ writer' = Null /\ draft' = Null /\ db' = draft
      /\ UNCHANGED <<task, outcome, setbacks>>
      /\ pc'[t] = IF task[t] = "register" THEN "ready" ELSE "check"
      /\ at'[t] = IF task[t] = "migrate" THEN at[t] + 1 ELSE at[t]
      /\ \A u \in Thread : u # t => pc'[u] = pc[u] /\ at'[u] = at[u]
      /\ pc' \in [Thread -> Label]
      /\ lock' \in [OsProcess -> Thread \cup {Null}]
    BY <1>1 DEF Commit, Goto, StartupTypeOK, Label, DraftInv, Working
<1>3. /\ at[t] \in Nat /\ at[t] \in 1 .. LastVersion + 1 /\ LastVersion \in Nat
      /\ Len(Release(t)) \in Nat /\ Len(Release(t)) >= 2
      /\ Len(Release(t)) <= LastVersion
    BY <1>1, ReleaseFacts, StartupAssumption DEF StartupTypeOK
<1>4. at' \in [Thread -> 1 .. LastVersion + 1]
    <2>1. task[t] = "migrate" => at[t] + 1 \in 1 .. LastVersion + 1
        BY <1>1, <1>3 DEF PlaceInv
    <2> QED BY <1>1, <2>1 DEF Commit, StartupTypeOK
<1>5. Release(t)' = Release(t)
    BY DEF Release
<1>6. db' \in Database => StartupTypeOK'
    BY <1>1, <1>2, <1>4 DEF StartupTypeOK
<1>7. DraftInv(t)'
    BY <1>2, StartupAssumption DEF DraftInv, Working
<1>8. CASE task[t] = "create"
    <2>1. db' = db
        BY <1>1, <1>2, <1>8 DEF DraftInv
    <2>2. PlaceInv(t)'
        BY <1>1, <1>2, <1>5, <1>8, <2>1 DEF PlaceInv
    <2>3. StartupTypeOK'
        BY <1>1, <1>6, <2>1 DEF StartupTypeOK
    <2> QED BY <1>2, <1>7, <2>1, <2>2, <2>3, SameDatabase, Assemble
<1>9. CASE task[t] = "migrate"
    <2>1. /\ at[t] \in 1 .. Len(Release(t))
          /\ db.schema[at[t]] = Null /\ db.record[at[t]] = Null
          /\ db' \in Database /\ db \in Database
          /\ db'.record = [db.record EXCEPT ![at[t]] = Release(t)[at[t]]]
          /\ db'.schema = [db.schema EXCEPT ![at[t]] = Release(t)[at[t]]]
          /\ db'.owners = db.owners
        BY <1>1, <1>9, CommitMigration DEF StartupTypeOK
    <2>2. at[t] \in Version /\ Release(t)[at[t]] # Null
        BY <2>1, ReleaseFacts
    <2>3. \A v \in Version : v # at[t] =>
            db'.record[v] = db.record[v] /\ db'.schema[v] = db.schema[v]
        BY <2>1 DEF Database
    <2>4. db'.record[at[t]] = Release(t)[at[t]]
        BY <2>1, <2>2 DEF Database
    <2>5. \A v \in Version : v < at[t] + 1 => db'.record[v] = Release(t)[v]
        <3>1. \A v \in Version : v < at[t] + 1 => v < at[t] \/ v = at[t]
            BY <1>3 DEF Version
        <3>2. \A v \in Version : v < at[t] => v # at[t]
            BY <1>3 DEF Version
        <3> QED BY <1>1, <2>3, <2>4, <3>1, <3>2 DEF PlaceInv
    <2>6. PlaceInv(t)'
        BY <1>2, <1>3, <1>5, <1>9, <2>1, <2>5 DEF PlaceInv
    <2>7. OwnersInv'
        BY <1>1, <2>1, <2>3, StartupAssumption DEF OwnersInv, Version
    <2>8. DatabaseIsOfOneRelease'
        BY <1>9, CommitOneRelease
    <2>9. \A v \in Version : db.record[v] # Null => db'.record[v] = db.record[v]
        BY <2>1, <2>3
    <2> QED BY <1>2, <1>6, <1>7, <2>1, <2>6, <2>7, <2>8, <2>9, Assemble
<1>10. CASE task[t] = "register"
    <2>1. db' = [db EXCEPT !.owners = {OwnerName}] /\ db \in Database
        BY <1>1, <1>2, <1>10 DEF DraftInv, StartupTypeOK
    <2>2. /\ db' \in Database /\ db'.record = db.record /\ db'.schema = db.schema
          /\ db'.owners = {OwnerName}
        BY <2>1 DEF Database
    <2>3. PlaceInv(t)'
        BY <1>1, <1>2, <1>5, <1>10, <2>2 DEF PlaceInv
    <2>4. DatabaseIsOfOneRelease'
        BY <1>1, <2>2 DEF DatabaseIsOfOneRelease
    <2>5. db.schema[2] # Null
        BY <1>10, RegistersOnMigrated
    <2>6. OwnersInv'
        BY <2>2, <2>5 DEF OwnersInv
    <2> QED BY <1>2, <1>6, <1>7, <2>2, <2>3, <2>4, <2>6, Assemble
<1> QED BY <1>1, <1>8, <1>9, <1>10 DEF StartupTypeOK, Task

-----------------------------------------------------------------------------
(* Setbacks and other tools. *)

(* A busy timeout is an exception in one thread. *)
LEMMA TimeoutKeeps ==
    ASSUME StartupInv, NEW t \in Thread, BeginTimesOut(t)
    PROVE  StartupInv'
<1>1. setbacks' \in 0 .. MaxSetbacks
    BY StartupAssumption DEF BeginTimesOut, StartupInv, StartupTypeOK
<1>2. Fail(t, "locked") /\ "locked" \in Failure
    BY DEF BeginTimesOut, Failure
<1> QED BY <1>1, <1>2, FailKeeps

(* The end of a process stops its threads. *)
LEMMA KillKeeps ==
    ASSUME StartupInv, NEW o \in OsProcess, Kill(o)
    PROVE  StartupInv'
<1> DEFINE mine == {t \in Thread : ProcessOf[t] = o}
<1>1. setbacks' \in 0 .. MaxSetbacks
    BY StartupAssumption DEF Kill, StartupInv, StartupTypeOK
<1>2. outcome' \in [Thread -> Failure \cup {"none"}]
    BY DEF Kill, StartupInv, StartupTypeOK
<1>3. Stop(mine) /\ mine \in SUBSET Thread
    BY DEF Kill
<1> HIDE DEF mine
<1> QED BY <1>1, <1>2, <1>3, StopKeeps

(* Another tool cannot register beside the orchestrator: the trigger is    *)
(* there before the orchestrator is.                                       *)
LEMMA RegisterOtherKeeps ==
    ASSUME StartupInv, NEW name \in OtherName, RegisterOther(name)
    PROVE  StartupInv'
<1>1. /\ StartupTypeOK /\ DatabaseIsOfOneRelease /\ OwnersInv /\ db \in Database
      /\ writer = Null /\ Null \notin Thread
    BY StartupAssumption DEF StartupInv, StartupTypeOK, RegisterOther
<1>2. OwnerName \notin db.owners
    BY <1>1 DEF RegisterOther, MayInsertOwner, OwnersInv
<1>3. /\ db' \in Database /\ db'.record = db.record /\ db'.schema = db.schema
      /\ db'.owners = db.owners \cup {name}
    BY <1>1 DEF RegisterOther, Database
<1>4. OwnerName \notin db'.owners
    BY <1>2, <1>3, StartupAssumption
<1>5. StartupTypeOK'
    BY <1>1, <1>3 DEF RegisterOther, StartupTypeOK
<1>6. DatabaseIsOfOneRelease' /\ OwnersInv'
    BY <1>1, <1>3, <1>4 DEF DatabaseIsOfOneRelease, OwnersInv
<1>7. ASSUME NEW u \in Thread
      PROVE  PlaceInv(u)' /\ DraftInv(u)'
    <2>1. writer # u /\ writer' # u
        BY <1>1 DEF RegisterOther
    <2>2. pc'[u] = pc[u] /\ task'[u] = task[u] /\ at'[u] = at[u]
        BY DEF RegisterOther
    <2> QED BY <1>2, <1>3, <2>1, <2>2, Untouched
<1> QED BY <1>5, <1>6, <1>7 DEF StartupInv

-----------------------------------------------------------------------------
(* Every step. *)

(* The empty database is the first no migrations of any release. *)
LEMMA StartupInit == Init => StartupInv
<1> SUFFICES ASSUME Init PROVE StartupInv
    OBVIOUS
<1>1. StartupTypeOK
    <2>1. Empty \in Database
        BY DEF Empty, Database
    <2>2. 1 \in 1 .. LastVersion + 1
        BY StartupAssumption
    <2>3. 0 \in 0 .. MaxSetbacks
        BY StartupAssumption
    <2> QED BY <2>1, <2>2, <2>3 DEF Init, StartupTypeOK, Label, Task
<1>2. DatabaseIsOfOneRelease
    <2>1. PICK o \in OsProcess : TRUE
        BY StartupAssumption
    <2>2. 0 \in 0 .. Len(Migrations[o])
        BY StartupAssumption
    <2>3. FirstMigrations(o, 0) = [v \in Version |-> Null]
        BY StartupAssumption DEF FirstMigrations, Version
    <2> QED BY <2>2, <2>3 DEF Init, Empty, DatabaseIsOfOneRelease
<1>3. OwnersInv
    BY DEF Init, Empty, OwnersInv
<1>4. ASSUME NEW t \in Thread PROVE PlaceInv(t) /\ DraftInv(t)
    <2>1. PlaceInv(t)
        BY ReleaseFacts DEF Init, PlaceInv, Version
    <2>2. DraftInv(t)
        BY StartupAssumption DEF Init, DraftInv, Working
    <2> QED BY <2>1, <2>2
<1> QED BY <1>1, <1>2, <1>3, <1>4 DEF StartupInv

(* The invariant is inductive. *)
LEMMA StartupNext == StartupInv /\ [Next]_vars => StartupInv'
<1> SUFFICES ASSUME StartupInv, [Next]_vars PROVE StartupInv'
    OBVIOUS
<1>1. ASSUME NEW t \in Thread, Step(t) PROVE StartupInv'
    BY <1>1, LabelKeeps, BeginKeeps, CommitKeeps, CheckKeeps,
       ImplicitCommitKeeps, RunScriptKeeps, RecordVersionKeeps, RegisterKeeps
    DEF Step
<1>2. ASSUME NEW t \in Thread, BeginTimesOut(t) PROVE StartupInv'
    BY <1>2, TimeoutKeeps
<1>3. ASSUME NEW o \in OsProcess, Kill(o) PROVE StartupInv'
    BY <1>3, KillKeeps
<1>4. ASSUME NEW name \in OtherName, RegisterOther(name) PROVE StartupInv'
    BY <1>4, RegisterOtherKeeps
<1>5. CASE UNCHANGED vars
    BY <1>5 DEF vars, StartupInv, StartupTypeOK, DatabaseIsOfOneRelease, OwnersInv,
       PlaceInv, DraftInv, Applied, Release
<1> QED BY <1>1, <1>2, <1>3, <1>4, <1>5 DEF Next

(* The inductive invariant holds always. *)
LEMMA StartupInvariance == Spec => []StartupInv
BY StartupInit, StartupNext, PTL DEF Spec

(* The steps that change what is committed: the commit of a migration, the *)
(* commit of the first registration, and another tool's registration.      *)
LEMMA DatabaseSteps ==
    ASSUME StartupInv, [Next]_vars, db' # db
    PROVE  \/ \E t \in Thread : Commit(t) /\ task[t] = "migrate"
           \/ \E t \in Thread :
                /\ Commit(t) /\ task[t] = "register" /\ db.owners = {}
                /\ db' = [db EXCEPT !.owners = {OwnerName}]
           \/ \E name \in OtherName : RegisterOther(name)
<1>1. StartupTypeOK /\ db \in Database /\ \A t \in Thread : DraftInv(t)
    BY DEF StartupInv, StartupTypeOK
<1>2. ASSUME NEW t \in Thread, ImplicitCommit(t) PROVE FALSE
    BY <1>1, <1>2 DEF ImplicitCommit, Goto, DraftInv
<1>3. ASSUME NEW t \in Thread, Commit(t)
      PROVE  \/ task[t] = "migrate"
             \/ /\ task[t] = "register" /\ db.owners = {}
                /\ db' = [db EXCEPT !.owners = {OwnerName}]
    <2>1. pc[t] = "commit" /\ db' = draft /\ task[t] \in Task /\ DraftInv(t)
        BY <1>1, <1>3 DEF Commit, Goto, StartupTypeOK
    <2>2. task[t] # "create"
        BY <2>1 DEF DraftInv
    <2>3. CASE task[t] = "register"
        <3>1. db.owners \subseteq {OwnerName} /\ db' = [db EXCEPT !.owners = {OwnerName}]
            BY <2>1, <2>3 DEF DraftInv
        <3>2. db.owners # {OwnerName}
            BY <1>1, <3>1 DEF Database
        <3> QED BY <2>3, <3>1, <3>2
    <2> QED BY <2>1, <2>2, <2>3 DEF Task
<1>4. ASSUME NEW t \in Thread, Step(t), ~Commit(t), ~ImplicitCommit(t)
      PROVE  FALSE
    BY <1>4 DEF Step, Start, Lock, Begin, BeginImmediate, CreateTable, Check, Enter,
       ScriptBegin, RunScript, RecordVersion, Register, Fail, Stop
<1>5. ASSUME NEW t \in Thread, BeginTimesOut(t) PROVE FALSE
    BY <1>5 DEF BeginTimesOut, Fail, Stop
<1>6. ASSUME NEW o \in OsProcess, Kill(o) PROVE FALSE
    BY <1>6 DEF Kill, Stop
<1>7. ~UNCHANGED vars
    BY DEF vars
<1> QED BY <1>2, <1>3, <1>4, <1>5, <1>6, <1>7 DEF Next

(* Another tool's registration changes the owners only.                    *)
LEMMA RegisterOtherFacts ==
    ASSUME StartupInv, NEW name \in OtherName, RegisterOther(name)
    PROVE  /\ db'.record = db.record /\ db'.schema = db.schema
           /\ db'.owners = db.owners \cup {name}
BY DEF RegisterOther, StartupInv, StartupTypeOK, Database

(* A step changes no version that has been recorded.                       *)
LEMMA StepKeepsMigrations ==
    ASSUME StartupInv, [Next]_vars, NEW v \in Version, db.record[v] # Null
    PROVE  db'.record[v] = db.record[v] /\ db'.schema[v] = db.schema[v]
<1>1. db \in Database
    BY DEF StartupInv, StartupTypeOK
<1>2. CASE db' = db
    BY <1>2
<1>3. ASSUME NEW t \in Thread, Commit(t), task[t] = "migrate"
      PROVE  db'.record[v] = db.record[v] /\ db'.schema[v] = db.schema[v]
    BY <1>1, <1>3, CommitMigration DEF Database
<1>4. CASE db' = [db EXCEPT !.owners = {OwnerName}]
    BY <1>1, <1>4 DEF Database
<1>5. ASSUME NEW name \in OtherName, RegisterOther(name)
      PROVE  db'.record[v] = db.record[v] /\ db'.schema[v] = db.schema[v]
    BY <1>5, RegisterOtherFacts
<1> QED BY <1>2, <1>3, <1>4, <1>5, DatabaseSteps

-----------------------------------------------------------------------------
(* The theorems. *)

(* Every variable keeps its type; a thread's place in the list of          *)
(* migrations never passes the end of its release.                         *)
THEOREM StartupTypes == Spec => []StartupTypeOK
<1>1. StartupInv => StartupTypeOK
    BY DEF StartupInv
<1> QED BY <1>1, StartupInvariance, PTL

(* Whatever releases start, die and time out on one file, what is          *)
(* committed is always the first so many migrations of one of them, schema *)
(* and record together.                                                    *)
THEOREM DatabaseStaysWhole == Spec => []DatabaseIsOfOneRelease
<1>1. StartupInv => DatabaseIsOfOneRelease
    BY DEF StartupInv
<1> QED BY <1>1, StartupInvariance, PTL

(* A version that has been recorded is never applied or recorded again.    *)
THEOREM MigrationsStay == Spec => MigrationsAreKept
<1>1. StartupInv /\ [Next]_vars =>
        [\A v \in Version : db.record[v] # Null =>
            /\ db'.record[v] = db.record[v]
            /\ db'.schema[v] = db.schema[v]]_vars
    BY StepKeepsMigrations
<1> QED BY <1>1, StartupInvariance, PTL DEF Spec, MigrationsAreKept

(* A thread whose start succeeded finds every migration of its own release *)
(* in effect and recorded as its own, and the orchestrator as the only     *)
(* owner; whatever else is there came after them in a longer release.      *)
THEOREM ReadyThreadsAreMigrated == Spec => []ReadyIsMigrated
<1>1. StartupInv => ReadyIsMigrated
    <2> SUFFICES ASSUME StartupInv, NEW t \in Thread, pc[t] = "ready"
                 PROVE  /\ \A v \in 1 .. Len(Release(t)) :
                              db.schema[v] = Release(t)[v] /\ db.record[v] = Release(t)[v]
                        /\ db.owners = {OwnerName}
        BY DEF ReadyIsMigrated
    <2>1. /\ PlaceInv(t) /\ at[t] = Len(Release(t)) + 1
          /\ db.owners = {OwnerName}
        BY DEF StartupInv, PlaceInv, OwnersInv
    <2>2. ASSUME NEW v \in 1 .. Len(Release(t)) PROVE db.record[v] = Release(t)[v]
        BY <2>1, ReleaseFacts DEF PlaceInv
    <2>3. db.schema = db.record
        BY DEF StartupInv, DatabaseIsOfOneRelease
    <2> QED BY <2>1, <2>2, <2>3
<1> QED BY <1>1, StartupInvariance, PTL

(* The orchestrator is never registered beside another owner, because no   *)
(* thread registers before the trigger of migration 2 is committed.        *)
THEOREM OwnerStaysAlone == Spec => []OwnerIsAlone
<1>1. StartupInv => OwnerIsAlone
    BY DEF StartupInv, OwnersInv, OwnerIsAlone
<1> QED BY <1>1, StartupInvariance, PTL

-----------------------------------------------------------------------------
(* The two locks. *)

(* Where a thread is inside of write_transaction. *)
Inside == {"begin", "body", "script_begin", "script", "script_record", "commit"}

LockInv ==
    /\ \A t \in Thread : pc[t] \in Inside <=> lock[ProcessOf[t]] = t
    /\ \A o \in OsProcess : lock[o] # Null => ProcessOf[lock[o]] = o

(* The threads in T stop and let go of their locks. *)
LEMMA StopKeepsLocks ==
    ASSUME StartupTypeOK, LockInv, NEW T \in SUBSET Thread, Stop(T)
    PROVE  LockInv'
<1>1. /\ \A t \in Thread : pc'[t] = IF t \in T THEN "off" ELSE pc[t]
      /\ \A o \in OsProcess : lock'[o] = IF lock[o] \in T THEN Null ELSE lock[o]
    BY DEF Stop
<1>2. \A t \in Thread : ProcessOf[t] \in OsProcess /\ t # Null
    BY StartupAssumption
<1> QED BY <1>1, <1>2 DEF LockInv, Inside

(* A thread stays inside, or outside, and the locks are as they were.      *)
LEMMA SamePlaceKeepsLocks ==
    ASSUME StartupTypeOK, LockInv, NEW t \in Thread, UNCHANGED lock,
           \A u \in Thread : u # t => pc'[u] = pc[u],
           pc'[t] \in Inside <=> pc[t] \in Inside
    PROVE  LockInv'
BY DEF LockInv

(* Every step keeps the locks in order. *)
LEMMA LockStep ==
    ASSUME StartupTypeOK, LockInv, [Next]_vars
    PROVE  LockInv'
<1>1. /\ pc \in [Thread -> Label] /\ lock \in [OsProcess -> Thread \cup {Null}]
      /\ \A t \in Thread : ProcessOf[t] \in OsProcess /\ t # Null
    BY StartupAssumption DEF StartupTypeOK
<1>2. ASSUME NEW t \in Thread, NEW failure, Fail(t, failure) PROVE LockInv'
    BY <1>2, StopKeepsLocks DEF Fail
<1>3. ASSUME NEW t \in Thread, Lock(t) PROVE LockInv'
    <2>1. /\ pc[t] = "lock" /\ pc'[t] = "begin" /\ lock[ProcessOf[t]] = Null
          /\ \A u \in Thread : u # t => pc'[u] = pc[u]
          /\ lock'[ProcessOf[t]] = t
          /\ \A o \in OsProcess : o # ProcessOf[t] => lock'[o] = lock[o]
        BY <1>1, <1>3 DEF Lock, Goto
    <2> QED BY <1>1, <2>1 DEF LockInv, Inside
<1>4. ASSUME NEW t \in Thread, Commit(t) PROVE LockInv'
    <2>1. /\ pc[t] = "commit" /\ pc'[t] \in {"ready", "check"}
          /\ \A u \in Thread : u # t => pc'[u] = pc[u]
          /\ lock'[ProcessOf[t]] = Null
          /\ \A o \in OsProcess : o # ProcessOf[t] => lock'[o] = lock[o]
        BY <1>1, <1>4 DEF Commit, Goto
    <2>2. lock[ProcessOf[t]] = t
        BY <2>1 DEF LockInv, Inside
    <2> QED BY <1>1, <2>1, <2>2 DEF LockInv, Inside
<1>5. ASSUME NEW t \in Thread,
             \/ Start(t) \/ Begin(t) \/ CreateTable(t) \/ ImplicitCommit(t)
             \/ ScriptBegin(t) \/ RunScript(t)
      PROVE  LockInv'
    <2>1. /\ UNCHANGED lock /\ \A u \in Thread : u # t => pc'[u] = pc[u]
          /\ pc'[t] \in Inside <=> pc[t] \in Inside
        BY <1>1, <1>5 DEF Start, Begin, BeginImmediate, CreateTable, ImplicitCommit,
           ScriptBegin, RunScript, Goto, Inside
    <2> QED BY <2>1, SamePlaceKeepsLocks
<1>6. ASSUME NEW t \in Thread, Check(t) PROVE LockInv'
    <2>1. CASE \E failure \in Failure : Fail(t, failure)
        BY <1>2, <2>1
    <2>2. CASE Enter(t, "migrate") \/ Enter(t, "register") \/ UNCHANGED <<pc, lock>>
        <3>1. /\ UNCHANGED lock /\ \A u \in Thread : u # t => pc'[u] = pc[u]
              /\ pc'[t] \in Inside <=> pc[t] \in Inside
            BY <1>1, <2>2 DEF Enter, Goto, Inside
        <3> QED BY <3>1, SamePlaceKeepsLocks
    <2> QED BY <1>6, <2>1, <2>2 DEF Check, Failure
<1>7. ASSUME NEW t \in Thread, RecordVersion(t) \/ Register(t) PROVE LockInv'
    <2>1. CASE \E failure \in Failure : Fail(t, failure)
        BY <1>2, <2>1
    <2>2. CASE /\ Goto(t, "body", "commit") \/ Goto(t, "script_record", "commit")
               /\ UNCHANGED lock
        <3>1. /\ \A u \in Thread : u # t => pc'[u] = pc[u]
              /\ pc'[t] \in Inside <=> pc[t] \in Inside
            BY <1>1, <2>2 DEF Goto, Inside
        <3> QED BY <2>2, <3>1, SamePlaceKeepsLocks
    <2> QED BY <1>7, <2>1, <2>2 DEF RecordVersion, Register, Failure
<1>8. ASSUME NEW t \in Thread, BeginTimesOut(t) PROVE LockInv'
    BY <1>2, <1>8 DEF BeginTimesOut
<1>9. ASSUME NEW o \in OsProcess, Kill(o) PROVE LockInv'
    <2> DEFINE mine == {t \in Thread : ProcessOf[t] = o}
    <2>1. Stop(mine) /\ mine \in SUBSET Thread
        BY <1>9 DEF Kill
    <2> HIDE DEF mine
    <2> QED BY <2>1, StopKeepsLocks
<1>10. CASE UNCHANGED <<pc, lock>>
    BY <1>10 DEF LockInv
<1> QED BY <1>3, <1>4, <1>5, <1>6, <1>7, <1>8, <1>9, <1>10
        DEF Next, Step, RegisterOther, vars

(* The RLock of a process is taken before SQLite's write lock and given up *)
(* after it: a thread that waits for the first has neither, one that waits *)
(* for the second has the first, and one that has both waits for none,     *)
(* also between the two transactions of executescript.  A thread that      *)
(* failed or died has left nothing locked.                                 *)
LocksAreOrdered ==
    \A t \in Thread :
        /\ pc[t] \in {"off", "lock", "check", "ready"} =>
            lock[ProcessOf[t]] # t /\ writer # t
        /\ pc[t] \in {"begin", "script_begin"} =>
            lock[ProcessOf[t]] = t /\ writer # t
        /\ writer = t => pc[t] \in Working /\ lock[ProcessOf[t]] = t

(* No two threads of a process are in a transaction, and no circle of      *)
(* threads waits for each other's locks.                                   *)
THEOREM LocksStayOrdered ==
    Spec => [](/\ LocksAreOrdered
               /\ \A t, u \in Thread :
                    (/\ ProcessOf[t] = ProcessOf[u]
                     /\ pc[t] \in Inside /\ pc[u] \in Inside) => t = u)
<1>1. Init => LockInv
    <2> SUFFICES ASSUME Init PROVE LockInv
        OBVIOUS
    <2>1. \A t \in Thread : ProcessOf[t] \in OsProcess /\ t # Null
        BY StartupAssumption
    <2> QED BY <2>1 DEF Init, LockInv, Inside
<1>2. StartupInv /\ LockInv /\ [Next]_vars => LockInv'
    BY LockStep DEF StartupInv
<1>3. ASSUME StartupInv, LockInv
      PROVE  /\ LocksAreOrdered
             /\ \A t, u \in Thread :
                    (/\ ProcessOf[t] = ProcessOf[u]
                     /\ pc[t] \in Inside /\ pc[u] \in Inside) => t = u
    <2>1. \A t \in Thread : writer = t <=> pc[t] \in Working
        BY <1>3 DEF StartupInv, DraftInv
    <2>2. LocksAreOrdered
        BY <1>3, <2>1 DEF LockInv, LocksAreOrdered, Inside, Working
    <2>3. ASSUME NEW t \in Thread, NEW u \in Thread, ProcessOf[t] = ProcessOf[u],
                 pc[t] \in Inside, pc[u] \in Inside
          PROVE  t = u
        BY <1>3, <2>3 DEF LockInv
    <2> QED BY <2>2, <2>3
<1> QED BY <1>1, <1>2, <1>3, StartupInvariance, PTL DEF Spec

-----------------------------------------------------------------------------
(* The history of the file: what is recorded, and what is in effect, are   *)
(* both the state of SchemaHistory.                                        *)

Recorded == INSTANCE SchemaHistory
    WITH Known <- {Migrations[o] : o \in OsProcess}, Owner <- OwnerName,
         Other <- OtherName, applied <- db.record, owners <- db.owners

InEffect == INSTANCE SchemaHistory
    WITH Known <- {Migrations[o] : o \in OsProcess}, Owner <- OwnerName,
         Other <- OtherName, applied <- db.schema, owners <- db.owners

(* The abstract history speaks of the same prefixes of a release.          *)
LEMMA FirstIsFirst ==
    ASSUME NEW o \in OsProcess, NEW n
    PROVE  /\ Recorded!First(Migrations[o], n) = FirstMigrations(o, n)
           /\ InEffect!First(Migrations[o], n) = FirstMigrations(o, n)
BY DEF Recorded!First, InEffect!First, FirstMigrations

(* Every step adds one version, registers one owner, or changes nothing.   *)
LEMMA HistoryStep ==
    ASSUME StartupInv, [Next]_vars
    PROVE  /\ [Recorded!HistoryNext]_<<db.record, db.owners>>
           /\ [InEffect!HistoryNext]_<<db.schema, db.owners>>
<1>1. StartupTypeOK /\ db \in Database /\ db.record = db.schema
    BY DEF StartupInv, StartupTypeOK, DatabaseIsOfOneRelease
<1>2. CASE db' = db
    BY <1>2
<1>3. ASSUME NEW t \in Thread, Commit(t), task[t] = "migrate"
      PROVE  Recorded!Migrate /\ InEffect!Migrate
    <2> DEFINE o == ProcessOf[t]
    <2>1. /\ o \in OsProcess /\ at[t] \in 1 .. Len(Migrations[o])
          /\ db.record = FirstMigrations(o, at[t] - 1)
          /\ db.schema = FirstMigrations(o, at[t] - 1)
          /\ db'.record = FirstMigrations(o, at[t])
          /\ db'.schema = FirstMigrations(o, at[t])
          /\ db'.owners = db.owners
        BY <1>3, CommitExtendsRelease
    <2> HIDE DEF o
    <2>2. Migrations[o] \in {Migrations[p] : p \in OsProcess}
        BY <2>1
    <2>3. Recorded!Migrate
        BY <2>1, <2>2, FirstIsFirst DEF Recorded!Migrate
    <2>4. InEffect!Migrate
        BY <2>1, <2>2, FirstIsFirst DEF InEffect!Migrate
    <2> QED BY <2>3, <2>4
<1>4. ASSUME NEW t \in Thread, task[t] = "register", db.owners = {},
             db' = [db EXCEPT !.owners = {OwnerName}]
      PROVE  Recorded!RegisterOwner /\ InEffect!RegisterOwner
    <2>1. /\ db'.record = db.record /\ db'.schema = db.schema
          /\ db'.owners = {OwnerName}
        BY <1>1, <1>4 DEF Database
    <2> QED BY <1>4, <2>1, RegistersOnMigrated
            DEF Recorded!RegisterOwner, InEffect!RegisterOwner
<1>5. ASSUME NEW name \in OtherName, RegisterOther(name)
      PROVE  Recorded!RegisterAnother /\ InEffect!RegisterAnother
    <2>1. /\ db.schema[1] # Null /\ db.record[1] # Null
          /\ db.schema[2] # Null => db.owners = {}
          /\ db.record[2] # Null => db.owners = {}
          /\ name \in OtherName \ db.owners
        BY <1>1, <1>5 DEF RegisterOther, MayInsertOwner
    <2>2. /\ db'.record = db.record /\ db'.schema = db.schema
          /\ db'.owners = db.owners \cup {name}
        BY <1>5, RegisterOtherFacts
    <2> QED BY <2>1, <2>2 DEF Recorded!RegisterAnother, InEffect!RegisterAnother
<1> QED BY <1>2, <1>3, <1>4, <1>5, DatabaseSteps
        DEF Recorded!HistoryNext, InEffect!HistoryNext

(* However many threads, processes and releases start on a file, and       *)
(* wherever they die, the file has the history of migrations that are      *)
(* applied one at a time and of an owner that is registered in one step:   *)
(* neither the look-up outside of a transaction nor the implicit commit of *)
(* executescript can be seen in it.                                        *)
THEOREM StartupImplementsHistory ==
    Spec => Recorded!HistorySpec /\ InEffect!HistorySpec
<1>1. Init => Recorded!HistoryInit /\ InEffect!HistoryInit
    BY DEF Init, Empty, Recorded!HistoryInit, InEffect!HistoryInit
<1>2. StartupInv /\ [Next]_vars =>
        /\ [Recorded!HistoryNext]_<<db.record, db.owners>>
        /\ [InEffect!HistoryNext]_<<db.schema, db.owners>>
    BY HistoryStep
<1> QED BY <1>1, <1>2, StartupInvariance, PTL
        DEF Spec, Recorded!HistorySpec, InEffect!HistorySpec

=============================================================================
