------------------------------- MODULE Backup -------------------------------
(***************************************************************************)
(* Backup and restore of the runtime database (storage/backup.py): what    *)
(* several processes leave in the files they back up to, while others      *)
(* commit to the database and any of them may fail or die at any step.     *)
(*                                                                         *)
(* A database is its history, so its content is the number of commits in   *)
(* it; a file sqlite3.connect has just created is the empty database, 0.   *)
(* The copy itself is one step: SQLite copies a snapshot, and a copy that  *)
(* fails half way is rolled back.                                          *)
(***************************************************************************)
EXTENDS Integers, FiniteSets

CONSTANTS
    Process,        \* whoever calls backup_database or restore_database
    Path,           \* resolved paths given as a destination or a backup
    MaxCommits,     \* bound on the commits to the runtime database
    MaxSetbacks,    \* bound on the calls that fail or die half way
    Null            \* no file, no call, no backup path

ASSUME BackupAssumption ==
    /\ Null \notin Nat /\ Null \notin Path
    /\ MaxCommits \in Nat /\ MaxSetbacks \in Nat

VARIABLES
    committed,      \* commits to the runtime database
    file,           \* [Path -> content, or Null when there is no file]
    call,           \* [Process -> the call it is in, or Null]
    returned,       \* the calls that returned: ghost
    contested,      \* destinations two calls had found free at once: ghost
    setbacks        \* calls cut short so far

backupVars == <<committed, file, call, returned, contested, setbacks>>

Content == 0 .. MaxCommits

(* before and since are what the source file and the database held when    *)
(* the call began, content what was copied; they are there for properties. *)
Call == [step : {"source", "target", "copy", "return"},
         source : Path \cup {Null},
         destination : Path,
         before : Content \cup {Null},
         since : Content,
         content : Content]

ASSUME NullIsNoCall == Null \notin Call

Returned == [source : Path \cup {Null}, destination : Path,
             before : Content \cup {Null}, since : Content,
             content : Content]

BackupInit ==
    /\ committed = 0
    /\ file = [d \in Path |-> Null]
    /\ call = [p \in Process |-> Null]
    /\ returned = {}
    /\ contested = {}
    /\ setbacks = 0

-----------------------------------------------------------------------------
(* An operator Bug_... is a plausible wrong version of the definition that *)
(* follows it; only the mutation runs use it.                              *)

Bug_IsFree(d) == TRUE

(* not destination.exists() *)
IsFree(d) == file[d] = Null

(* The file appears with the first write, as when SQLite opens it lazily.  *)
Bug_Connected(d) == file

(* sqlite3.connect, and the first statement on the connection.             *)
Connected(d) == [file EXCEPT ![d] = IF @ = Null THEN 0 ELSE @]

Writing(p, d) == call[p] # Null /\ call[p].destination = d

(* A destination that exists raises FileExistsError and changes nothing.   *)
Begin(p, b, d, step) ==
    /\ call[p] = Null
    /\ IsFree(d)
    /\ call' = [call EXCEPT ![p] =
           [step |-> step, source |-> b, destination |-> d,
            before |-> IF b = Null THEN Null ELSE file[b],
            since |-> committed, content |-> 0]]
    /\ contested' = IF \E q \in Process : Writing(q, d)
                    THEN contested \cup {d} ELSE contested
    /\ UNCHANGED <<committed, file, returned, setbacks>>

BeginBackup(p, d) == Begin(p, Null, d, "target")

(* A restore of a file onto itself is left out. *)
BeginRestore(p, b, d) == b # d /\ Begin(p, b, d, "source")

At(p, step) == call[p] # Null /\ call[p].step = step

OpenSource(p) ==
    /\ At(p, "source")
    /\ file' = Connected(call[p].source)
    /\ call' = [call EXCEPT ![p].step = "target"]
    /\ UNCHANGED <<committed, returned, contested, setbacks>>

OpenTarget(p) ==
    /\ At(p, "target")
    /\ file' = Connected(call[p].destination)
    /\ call' = [call EXCEPT ![p].step = "copy"]
    /\ UNCHANGED <<committed, returned, contested, setbacks>>

(* The copy starts anew from the database, not from the backup given.      *)
Bug_Copied(p) == committed

Copied(p) == IF call[p].source = Null THEN committed ELSE file[call[p].source]

Copy(p) ==
    /\ At(p, "copy")
    /\ file' = [file EXCEPT ![call[p].destination] = Copied(p)]
    /\ call' = [call EXCEPT ![p].step = "return", ![p].content = Copied(p)]
    /\ UNCHANGED <<committed, returned, contested, setbacks>>

Return(p) ==
    /\ At(p, "return")
    /\ returned' = returned \cup
           {[source |-> call[p].source, destination |-> call[p].destination,
             before |-> call[p].before, since |-> call[p].since,
             content |-> call[p].content]}
    /\ call' = [call EXCEPT ![p] = Null]
    /\ UNCHANGED <<committed, file, contested, setbacks>>

(* An exception, or the end of a process, whatever it is doing: what it    *)
(* created stays.                                                          *)
Abort(p) ==
    /\ setbacks < MaxSetbacks
    /\ setbacks' = setbacks + 1
    /\ call' = [call EXCEPT ![p] = Null]
    /\ UNCHANGED <<committed, file, returned, contested>>

(* Any write transaction on the runtime database. *)
Commit ==
    /\ committed < MaxCommits
    /\ committed' = committed + 1
    /\ UNCHANGED <<file, call, returned, contested, setbacks>>

Proceed(p) == OpenSource(p) \/ OpenTarget(p) \/ Copy(p) \/ Return(p)

BackupNext ==
    \/ \E p \in Process :
          \/ \E d \in Path : BeginBackup(p, d)
          \/ \E b \in Path : \E d \in Path : BeginRestore(p, b, d)
          \/ Proceed(p)
          \/ Abort(p)
    \/ Commit

BackupSpec == BackupInit /\ [][BackupNext]_backupVars

-----------------------------------------------------------------------------
(* The variables keep their types. *)
BackupTypeOK ==
    /\ committed \in Content
    /\ file \in [Path -> Content \cup {Null}]
    /\ call \in [Process -> Call \cup {Null}]
    /\ returned \subseteq Returned
    /\ contested \subseteq Path
    /\ setbacks \in 0 .. MaxSetbacks

(* A backup that was returned is a state the database had since the call  *)
(* began, and no later call, failed or killed, on this path or another,    *)
(* touches it, unless two calls had both found the path free (line 14).    *)
UndisturbedBackupIsKept ==
    \A r \in returned :
        /\ r.destination \notin contested => file[r.destination] = r.content
        /\ r.source = Null => r.content \in r.since .. committed

(* A restore of a file that held a database when it was called gives that  *)
(* database, and both stay equal.  An empty one is returned only for a     *)
(* backup that was missing or never finished (line 34).                    *)
RestoreGivesTheBackup ==
    \A r \in returned :
        /\ r.before \in Nat \ {0}
        /\ {r.source, r.destination} \cap contested = {}
        => file[r.source] = r.before /\ file[r.destination] = r.before

(* docs/runtime-state.md:49, and the comment of backup_database: a backup  *)
(* refuses to overwrite an existing destination.  It does not hold.        *)
ReturnedBackupIsKept == \A r \in returned : file[r.destination] = r.content
=============================================================================
