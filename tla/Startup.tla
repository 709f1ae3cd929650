------------------------------- MODULE Startup -------------------------------
(***************************************************************************)
(* How a process gets hold of the runtime database: apply_migrations, run  *)
(* by RuntimeRepositories, and the registration of the queue owner by      *)
(* DetailFetchQueue.__init__, with the write boundary of                   *)
(* RuntimeDatabase.write_transaction in its single steps.                  *)
(*                                                                         *)
(* Any number of threads in any number of processes start on one file.     *)
(* Threads of a process share an RLock, processes share only SQLite's      *)
(* write lock.  A migration is looked up outside of any transaction, and   *)
(* executescript commits the transaction it is called in before it begins  *)
(* its own, so others may get in between at both places.  A process may    *)
(* belong to a release with other migration files, and dies at any point.  *)
(*                                                                         *)
(* An operator Bug_... is a plausible wrong version of the definition that *)
(* follows it; only the mutation runs use it.                              *)
(***************************************************************************)
EXTENDS Integers, Sequences

CONSTANTS
    Thread,
    OsProcess,
    ProcessOf,      \* [Thread -> OsProcess]
    Content,        \* what a migration file may contain (its checksum)
    Migrations,     \* [OsProcess -> Seq(Content)]: the files of its release
    LastVersion,    \* the largest version number of any release
    OwnerName,      \* DetailFetchQueue.OWNER_NAME
    OtherName,      \* names an external tool may register
    MaxSetbacks,    \* bound: how many kills and busy timeouts there are
    Null

ASSUME StartupAssumption ==
    /\ ProcessOf \in [Thread -> OsProcess] /\ OsProcess # {}
    /\ LastVersion \in Nat /\ LastVersion >= 2
    /\ Migrations \in [OsProcess -> Seq(Content)]
    /\ \A o \in OsProcess : Len(Migrations[o]) \in 2 .. LastVersion
    /\ OwnerName \notin OtherName
    /\ MaxSetbacks \in Nat
    /\ Null \notin Content /\ Null \notin Thread

Version == 1 .. LastVersion

VARIABLES
    db,         \* what is committed in the database file
    draft,      \* what the transaction of the writer has made of it, if any
    writer,     \* the thread whose connection has SQLite's write lock
    lock,       \* [OsProcess -> thread or Null]: RuntimeDatabase._writer_lock
    pc,         \* [Thread -> label]
    task,       \* [Thread -> what its next transaction is for]
    at,         \* [Thread -> Nat]: the migration file it has come to
    outcome,    \* [Thread -> how its last start failed, or "none"]
    setbacks

vars == <<db, draft, writer, lock, pc, task, at, outcome, setbacks>>

(* schema[v] is the script of version v whose statements have taken effect *)
(* and record[v] the checksum in schema_migrations.                        *)
Database == [schema : [Version -> Content \cup {Null}],
             record : [Version -> Content \cup {Null}],
             owners : SUBSET ({OwnerName} \cup OtherName)]

Label == {"off", "lock", "begin", "body", "script_begin", "script",
          "script_record", "commit", "check", "ready"}
Task == {"create", "migrate", "register"}
Failure == {"locked", "integrity", "changed", "other_owner"}

Release(t) == Migrations[ProcessOf[t]]

Empty == [schema |-> [v \in Version |-> Null],
          record |-> [v \in Version |-> Null],
          owners |-> {}]

Init ==
    /\ db = Empty
    /\ draft = Null
    /\ writer = Null
    /\ lock = [o \in OsProcess |-> Null]
    /\ pc = [t \in Thread |-> "off"]
    /\ task = [t \in Thread |-> "create"]
    /\ at = [t \in Thread |-> 1]
    /\ outcome = [t \in Thread |-> "none"]
    /\ setbacks = 0

Goto(t, from, to) ==
    /\ pc[t] = from
    /\ pc' = [pc EXCEPT ![t] = to]

-----------------------------------------------------------------------------
(* The write boundary. *)

Lock(t) ==
    /\ Goto(t, "lock", "begin")
    /\ lock[ProcessOf[t]] = Null
    /\ lock' = [lock EXCEPT ![ProcessOf[t]] = t]
    /\ UNCHANGED <<db, draft, writer, task, at, outcome, setbacks>>

(* BEGIN IMMEDIATE waits until nobody writes. *)
BeginImmediate(t, from, to) ==
    /\ Goto(t, from, to)
    /\ writer = Null
    /\ writer' = t
    /\ draft' = db
    /\ UNCHANGED <<db, lock, task, at, outcome, setbacks>>

Begin(t) == BeginImmediate(t, "begin", "body")

(* The thread goes on to another file after every transaction. *)
Bug_CommitAlwaysAdvances(t) ==
    /\ Goto(t, "commit", IF task[t] = "register" THEN "ready" ELSE "check")
    /\ db' = draft
    /\ draft' = Null
    /\ writer' = Null
    /\ lock' = [lock EXCEPT ![ProcessOf[t]] = Null]
    /\ at' = [at EXCEPT ![t] = @ + 1]
    /\ UNCHANGED <<task, outcome, setbacks>>

(* Where the thread goes once its transaction is committed. *)
Commit(t) ==
    /\ Goto(t, "commit", IF task[t] = "register" THEN "ready" ELSE "check")
    /\ db' = draft
    /\ draft' = Null
    /\ writer' = Null
    /\ lock' = [lock EXCEPT ![ProcessOf[t]] = Null]
    /\ at' = [at EXCEPT ![t] = IF task[t] = "migrate" THEN @ + 1 ELSE @]
    /\ UNCHANGED <<task, outcome, setbacks>>

(* The threads in T stop: a transaction of theirs is rolled back, and the  *)
(* locks they hold are released.                                           *)
Stop(T) ==
    /\ pc' = [t \in Thread |-> IF t \in T THEN "off" ELSE pc[t]]
    /\ task' = [t \in Thread |-> IF t \in T THEN "create" ELSE task[t]]
    /\ at' = [t \in Thread |-> IF t \in T THEN 1 ELSE at[t]]
    /\ writer' = IF writer \in T THEN Null ELSE writer
    /\ draft' = IF writer \in T THEN Null ELSE draft
    /\ lock' = [o \in OsProcess |-> IF lock[o] \in T THEN Null ELSE lock[o]]
    /\ UNCHANGED db

(* The lock is released after a commit only. *)
Bug_FailKeepsLock(t, failure) ==
    /\ pc' = [pc EXCEPT ![t] = "off"]
    /\ task' = [task EXCEPT ![t] = "create"]
    /\ at' = [at EXCEPT ![t] = 1]
    /\ writer' = IF writer = t THEN Null ELSE writer
    /\ draft' = IF writer = t THEN Null ELSE draft
    /\ outcome' = [outcome EXCEPT ![t] = failure]
    /\ UNCHANGED <<db, lock>>

(* An exception ends the start. *)
Fail(t, failure) ==
    /\ Stop({t})
    /\ outcome' = [outcome EXCEPT ![t] = failure]

(* busy_timeout: "database is locked". *)
BeginTimesOut(t) ==
    /\ pc[t] \in {"begin", "script_begin"}
    /\ writer # Null
    /\ setbacks < MaxSetbacks
    /\ setbacks' = setbacks + 1
    /\ Fail(t, "locked")

(* The end of a process and of all its threads. *)
Kill(o) ==
    LET mine == {t \in Thread : ProcessOf[t] = o}
    IN  /\ \E t \in mine : pc[t] # "off"
        /\ setbacks < MaxSetbacks
        /\ setbacks' = setbacks + 1
        /\ Stop(mine)
        /\ UNCHANGED outcome

-----------------------------------------------------------------------------
(* apply_migrations *)

Start(t) ==
    /\ Goto(t, "off", "lock")
    /\ outcome' = [outcome EXCEPT ![t] = "none"]
    /\ UNCHANGED <<db, draft, writer, lock, task, at, setbacks>>

(* CREATE TABLE IF NOT EXISTS schema_migrations: nothing that was there    *)
(* changes.                                                                *)
CreateTable(t) ==
    /\ task[t] = "create"
    /\ Goto(t, "body", "commit")
    /\ UNCHANGED <<db, draft, writer, lock, task, at, outcome, setbacks>>

Enter(t, next) ==
    /\ Goto(t, "check", "lock")
    /\ task' = [task EXCEPT ![t] = next]
    /\ UNCHANGED <<db, draft, writer, lock, at, outcome, setbacks>>

(* A changed file is passed over instead of being refused. *)
Bug_CheckAcceptsChanged(t) ==
    /\ pc[t] = "check"
    /\ IF at[t] > Len(Release(t))
       THEN Enter(t, "register")
       ELSE IF db.record[at[t]] = Null
            THEN Enter(t, "migrate")
            ELSE /\ at' = [at EXCEPT ![t] = @ + 1]
                 /\ UNCHANGED <<db, draft, writer, lock, pc, task, outcome, setbacks>>

(* The record of the next file, read outside of any transaction.           *)
Check(t) ==
    /\ pc[t] = "check"
    /\ \/ at[t] > Len(Release(t)) /\ Enter(t, "register")
       \/ /\ at[t] <= Len(Release(t))
          /\ \/ db.record[at[t]] = Null /\ Enter(t, "migrate")
             \/ /\ db.record[at[t]] = Release(t)[at[t]]
                /\ at' = [at EXCEPT ![t] = @ + 1]
                /\ UNCHANGED <<db, draft, writer, lock, pc, task, outcome, setbacks>>
             \/ /\ db.record[at[t]] \notin {Null, Release(t)[at[t]]}
                /\ Fail(t, "changed")
                /\ UNCHANGED setbacks

(* executescript commits the transaction that write_transaction began.     *)
ImplicitCommit(t) ==
    /\ task[t] = "migrate"
    /\ Goto(t, "body", "script_begin")
    /\ db' = draft
    /\ draft' = Null
    /\ writer' = Null
    /\ UNCHANGED <<lock, task, at, outcome, setbacks>>

(* BEGIN IMMEDIATE of the script. *)
ScriptBegin(t) == BeginImmediate(t, "script_begin", "script")

(* The script's statements, each of them IF NOT EXISTS. *)
AfterScript(database, v, content) ==
    IF database.schema[v] = Null
    THEN [database EXCEPT !.schema[v] = content]
    ELSE database

(* The statements take effect one by one, outside of a transaction. *)
Bug_RunScriptUnprotected(t) ==
    /\ Goto(t, "script", "script_record")
    /\ draft' = AfterScript(draft, at[t], Release(t)[at[t]])
    /\ db' = draft'
    /\ UNCHANGED <<writer, lock, task, at, outcome, setbacks>>

RunScript(t) ==
    /\ Goto(t, "script", "script_record")
    /\ draft' = AfterScript(draft, at[t], Release(t)[at[t]])
    /\ UNCHANGED <<db, writer, lock, task, at, outcome, setbacks>>

(* INSERT OR REPLACE *)
Bug_RecordVersionReplaces(t) ==
    /\ Goto(t, "script_record", "commit")
    /\ draft' = [draft EXCEPT !.record[at[t]] = Release(t)[at[t]]]
    /\ UNCHANGED <<db, writer, lock, task, at, outcome, setbacks>>

(* INSERT INTO schema_migrations: the version is the primary key.          *)
RecordVersion(t) ==
    \/ /\ Goto(t, "script_record", "commit")
       /\ draft.record[at[t]] = Null
       /\ draft' = [draft EXCEPT !.record[at[t]] = Release(t)[at[t]]]
       /\ UNCHANGED <<db, writer, lock, task, at, outcome, setbacks>>
    \/ /\ pc[t] = "script_record"
       /\ draft.record[at[t]] # Null
       /\ Fail(t, "integrity")
       /\ UNCHANGED setbacks

-----------------------------------------------------------------------------
(* DetailFetchQueue.__init__ *)

(* SELECT owner_name ... LIMIT 1 returns any of the rows. *)
Register(t) ==
    /\ task[t] = "register"
    /\ pc[t] = "body"
    /\ \/ /\ draft.owners = {}
          /\ Goto(t, "body", "commit")
          /\ draft' = [draft EXCEPT !.owners = {OwnerName}]
          /\ UNCHANGED <<db, writer, lock, task, at, outcome, setbacks>>
       \/ /\ OwnerName \in draft.owners
          /\ Goto(t, "body", "commit")
          /\ UNCHANGED <<db, draft, writer, lock, task, at, outcome, setbacks>>
       \/ /\ draft.owners \ {OwnerName} # {}
          /\ Fail(t, "other_owner")
          /\ UNCHANGED setbacks

(* The insert of migration 1 alone, without its trigger. *)
Bug_MayInsertOwner(database) == database.schema[1] # Null

(* The trigger of migration 2 refuses a second row. *)
MayInsertOwner(database) ==
    /\ database.schema[1] # Null
    /\ database.schema[2] # Null => database.owners = {}

(* Some external tool registers a queue owner of its own. *)
RegisterOther(name) ==
    /\ writer = Null
    /\ MayInsertOwner(db)
    /\ name \notin db.owners
    /\ db' = [db EXCEPT !.owners = @ \cup {name}]
    /\ UNCHANGED <<draft, writer, lock, pc, task, at, outcome, setbacks>>

-----------------------------------------------------------------------------
Step(t) ==
    \/ Start(t) \/ Lock(t) \/ Begin(t) \/ CreateTable(t) \/ Commit(t)
    \/ Check(t) \/ ImplicitCommit(t) \/ ScriptBegin(t) \/ RunScript(t)
    \/ RecordVersion(t) \/ Register(t)

Next ==
    \/ \E t \in Thread : Step(t) \/ BeginTimesOut(t)
    \/ \E o \in OsProcess : Kill(o)
    \/ \E name \in OtherName : RegisterOther(name)

Spec == Init /\ [][Next]_vars

(* A start that failed is tried again, its steps go on, and a thread that  *)
(* waits for a lock gets it some time: SQLite's busy handler polls for     *)
(* seconds, a transaction here takes milliseconds.  At each label at most  *)
(* one of the steps of a thread is enabled, so this is fairness of each.   *)
Fairness == \A t \in Thread : SF_vars(Step(t))

FairSpec == Spec /\ Fairness

-----------------------------------------------------------------------------
(* Properties.                                                             *)

(* Every variable has its type.                                            *)
StartupTypeOK ==
    /\ db \in Database
    /\ draft \in Database \cup {Null}
    /\ writer \in Thread \cup {Null}
    /\ lock \in [OsProcess -> Thread \cup {Null}]
    /\ pc \in [Thread -> Label]
    /\ task \in [Thread -> Task]
    /\ at \in [Thread -> 1 .. LastVersion + 1]
    /\ outcome \in [Thread -> Failure \cup {"none"}]
    /\ setbacks \in 0 .. MaxSetbacks

(* "Schema and version record survive together": what is committed is      *)
(* always the first so many migrations of one release, each with its       *)
(* record, however many releases, processes and threads mixed their steps  *)
(* and wherever they died.                                                 *)
FirstMigrations(o, n) ==
    [v \in Version |-> IF v <= n THEN Migrations[o][v] ELSE Null]

DatabaseIsOfOneRelease ==
    \E o \in OsProcess : \E n \in 0 .. Len(Migrations[o]) :
        /\ db.record = FirstMigrations(o, n)
        /\ db.schema = FirstMigrations(o, n)

(* "Apply each numbered migration exactly once": a version that has been   *)
(* recorded keeps its checksum and its schema.                             *)
MigrationsAreKept ==
    [][\A v \in Version : db.record[v] # Null =>
        /\ db'.record[v] = db.record[v]
        /\ db'.schema[v] = db.schema[v]]_vars

(* A thread that has finished its start works on a database in which every *)
(* migration of its own release has taken effect and is recorded as its    *)
(* own, and whose only owner is the orchestrator.  Later versions may be   *)
(* there too, those of a longer release that begins with the same files.   *)
ReadyIsMigrated ==
    \A t \in Thread : pc[t] = "ready" =>
        /\ \A v \in 1 .. Len(Release(t)) :
              db.schema[v] = Release(t)[v] /\ db.record[v] = Release(t)[v]
        /\ db.owners = {OwnerName}

(* "The queue-owner registration is a database singleton": once the        *)
(* orchestrator is registered, there is no other owner, whatever tools     *)
(* registered before, between and after the migrations.                    *)
OwnerIsAlone == OwnerName \in db.owners => db.owners = {OwnerName}

(* A start that lost a race or a lock is only delayed: in the end every    *)
(* start succeeds, or fails for what a retry cannot mend, a changed        *)
(* migration or another owner.                                             *)
EveryStartEnds ==
    \A t \in Thread :
        <>(pc[t] = "ready" \/ outcome[t] \in {"changed", "other_owner"})

=============================================================================
