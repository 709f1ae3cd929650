---------------------------- MODULE BackupProofs ----------------------------
(***************************************************************************)
(* Theorems about Backup, for any number of processes, paths, commits and  *)
(* calls cut short.                                                        *)
(***************************************************************************)
EXTENDS Backup, TLAPS

-----------------------------------------------------------------------------
(* The inductive invariant.                                                *)

(* A call at work.  The file it writes to is empty until the copy, unless  *)
(* the path is contested; a source that held a database still holds it.    *)
CallOK(c) ==
    /\ c.source = Null => c.before = Null
    /\ c.since <= committed
    /\ c.step # "source" /\ c.source # Null => file[c.source] # Null
    /\ c.destination \notin contested /\ c.step # "return" => file[c.destination] \in {Null, 0}
    /\ c.destination \notin contested /\ c.step = "return" => file[c.destination] = c.content
    /\ c.before \in Nat \ {0} /\ c.source \notin contested =>
          /\ file[c.source] = c.before
          /\ c.step = "return" => c.content = c.before
    /\ c.step = "return" /\ c.source = Null => c.content \in c.since .. committed

(* A call that returned. *)
ReturnedOK(r) ==
    /\ r.source = Null => r.before = Null
    /\ r.destination \notin contested => file[r.destination] = r.content
    /\ r.before \in Nat \ {0} /\ r.source \notin contested =>
          file[r.source] = r.before /\ r.content = r.before
    /\ r.source = Null => r.content \in r.since .. committed

CallsOK == \A p \in Process : call[p] # Null => CallOK(call[p])

AllReturnedOK == \A r \in returned : ReturnedOK(r)

(* Two calls on one path, at work together or one after the other, only    *)
(* where both had found it free. *)
Alone ==
    \A p, q \in Process :
        p # q /\ call[p] # Null /\ call[q] # Null /\ call[p].destination = call[q].destination
        => call[p].destination \in contested

Fresh ==
    \A p \in Process, r \in returned :
        call[p] # Null /\ call[p].destination = r.destination => r.destination \in contested

BackupInv == BackupTypeOK /\ CallsOK /\ AllReturnedOK /\ Alone /\ Fresh

-----------------------------------------------------------------------------
(* What a step does to the calls it does not take.                         *)

LEMMA NullIsNoNumber == Null \notin Nat /\ Null \notin Content
<1> QED BY BackupAssumption DEF Content

(* sqlite3.connect disturbs no call and no file that holds a database. *)
LEMMA ConnectKeeps ==
    ASSUME NEW d, file \in [Path -> Content \cup {Null}],
           file' = Connected(d), UNCHANGED <<contested, committed>>
    PROVE  /\ file' \in [Path -> Content \cup {Null}]
           /\ \A x \in Path : file[x] # Null => file'[x] = file[x]
           /\ \A x \in Path : file[x] = Null => file'[x] \in {Null, 0}
           /\ d \in Path => file'[d] # Null
           /\ \A c \in Call : CallOK(c) => CallOK(c)'
           /\ \A r \in Returned : ReturnedOK(r) => ReturnedOK(r)'
<1>1. 0 \in Content /\ 0 # Null /\ Null \notin Nat /\ Null \notin Path
    BY BackupAssumption DEF Content
<1>2. file' \in [Path -> Content \cup {Null}]
    BY <1>1 DEF Connected
<1>3. \A x \in Path : file[x] # Null => file'[x] = file[x]
    BY DEF Connected
<1>4. \A x \in Path : file[x] = Null => file'[x] \in {Null, 0}
    BY DEF Connected
<1>5. d \in Path => file'[d] # Null
    BY <1>1 DEF Connected
<1>6. ASSUME NEW c \in Call, CallOK(c) PROVE CallOK(c)'
    <2>1. /\ c.source \in Path \cup {Null} /\ c.destination \in Path
          /\ c.content \in Content /\ c.before \in Content \cup {Null}
          /\ c.content # Null
        BY NullIsNoNumber DEF Call
    <2>2. c.before \in Nat \ {0} => c.source \in Path /\ c.before # Null
        BY <1>1, <1>6, <2>1 DEF CallOK
    <2>3. c.destination \notin contested /\ c.step # "return" => file'[c.destination] \in {Null, 0}
        BY <1>3, <1>4, <1>6, <2>1 DEF CallOK
    <2> QED BY <1>3, <1>6, <2>1, <2>2, <2>3 DEF CallOK
<1>7. ASSUME NEW r \in Returned, ReturnedOK(r) PROVE ReturnedOK(r)'
    <2>1. /\ r.source \in Path \cup {Null} /\ r.destination \in Path
          /\ r.content \in Content /\ r.content # Null
        BY NullIsNoNumber DEF Returned
    <2>2. r.before \in Nat \ {0} => r.source \in Path /\ r.before # Null
        BY <1>1, <1>7, <2>1 DEF ReturnedOK
    <2> QED BY <1>3, <1>7, <2>1, <2>2 DEF ReturnedOK
<1> QED BY <1>2, <1>3, <1>4, <1>5, <1>6, <1>7

(* A commit moves no file, and a path that becomes contested promises less.*)
LEMMA GrowthKeeps ==
    ASSUME committed \in Nat, committed' \in Nat, committed <= committed',
           contested \subseteq contested', file' = file
    PROVE  /\ \A c \in Call : CallOK(c) => CallOK(c)'
           /\ \A r \in Returned : ReturnedOK(r) => ReturnedOK(r)'
<1>1. ASSUME NEW c \in Call, CallOK(c) PROVE CallOK(c)'
    <2>1. c.since \in Nat /\ c.content \in Nat
        BY BackupAssumption DEF Call, Content
    <2> QED BY <1>1, <2>1 DEF CallOK
<1>2. ASSUME NEW r \in Returned, ReturnedOK(r) PROVE ReturnedOK(r)'
    <2>1. r.since \in Nat /\ r.content \in Nat
        BY BackupAssumption DEF Returned, Content
    <2> QED BY <1>2, <2>1 DEF ReturnedOK
<1> QED BY <1>1, <1>2

-----------------------------------------------------------------------------
(* One lemma per action.                                                   *)

LEMMA BackupInitOK == BackupInit => BackupInv
<1> SUFFICES ASSUME BackupInit PROVE BackupInv
    OBVIOUS
<1>1. BackupTypeOK
    BY BackupAssumption DEF BackupInit, BackupTypeOK, Content
<1>2. CallsOK /\ AllReturnedOK /\ Alone /\ Fresh
    BY DEF BackupInit, CallsOK, AllReturnedOK, Alone, Fresh
<1> QED BY <1>1, <1>2 DEF BackupInv

(* A call begins on a path that no returned call keeps a file at.          *)
LEMMA BeginKeeps ==
    ASSUME BackupInv, NEW p \in Process, NEW b \in Path \cup {Null}, NEW d \in Path,
           NEW step \in {"source", "target"}, b = Null => step = "target", b # Null => step = "source",
           Begin(p, b, d, step)
    PROVE  BackupInv'
<1> DEFINE c == [step |-> step, source |-> b, destination |-> d,
                 before |-> IF b = Null THEN Null ELSE file[b],
                 since |-> committed, content |-> 0]
<1>1. /\ file[d] = Null /\ call[p] = Null
      /\ call' = [call EXCEPT ![p] = c]
      /\ contested' = IF \E q \in Process : Writing(q, d) THEN contested \cup {d} ELSE contested
      /\ UNCHANGED <<committed, file, returned, setbacks>>
    BY DEF Begin, IsFree
<1>2. BackupTypeOK /\ CallsOK /\ AllReturnedOK /\ Alone /\ Fresh
    BY DEF BackupInv
<1>3. c \in Call /\ c # Null
    <2>1. 0 \in Content /\ committed \in Content
        BY <1>2, BackupAssumption DEF BackupTypeOK, Content
    <2>2. b # Null => file[b] \in Content \cup {Null}
        BY <1>2 DEF BackupTypeOK
    <2>3. c \in Call
        BY <2>1, <2>2 DEF Call
    <2> QED BY <2>3, NullIsNoCall
<1>4. BackupTypeOK'
    BY <1>1, <1>2, <1>3 DEF BackupTypeOK
<1>5. /\ \A x \in Call : CallOK(x) => CallOK(x)'
      /\ \A r \in Returned : ReturnedOK(r) => ReturnedOK(r)'
    <2>1. committed \in Nat
        BY <1>2, BackupAssumption DEF BackupTypeOK, Content
    <2> QED BY <1>1, <2>1, GrowthKeeps
<1>6. CallOK(c)'
    <2>1. committed \in Nat
        BY <1>2, BackupAssumption DEF BackupTypeOK, Content
    <2>2. c.before \in Nat \ {0} => file[c.source] = c.before
        BY BackupAssumption
    <2> QED BY <1>1, <2>1, <2>2, BackupAssumption DEF CallOK
<1>7. CallsOK'
    BY <1>1, <1>2, <1>5, <1>6 DEF CallsOK, BackupTypeOK
<1>8. AllReturnedOK'
    BY <1>1, <1>2, <1>5 DEF AllReturnedOK, BackupTypeOK
<1>9. Alone'
    BY <1>1, <1>2 DEF Alone, Writing, BackupTypeOK
<1>10. Fresh'
    <2>1. ASSUME NEW r \in returned, r.destination = d PROVE d \in contested
        <3>1. ReturnedOK(r) /\ r.content # Null
            BY <1>2, NullIsNoNumber DEF AllReturnedOK, BackupTypeOK, Returned
        <3> QED BY <1>1, <2>1, <3>1 DEF ReturnedOK
    <2> QED BY <1>1, <1>2, <2>1 DEF Fresh, BackupTypeOK
<1> QED BY <1>4, <1>7, <1>8, <1>9, <1>10 DEF BackupInv

(* Opening the source or the destination moves a call one step on.         *)
LEMMA OpenKeeps ==
    ASSUME BackupInv, NEW p \in Process, call[p] # Null,
           NEW next \in {"target", "copy"}, NEW d,
           next = "target" => d = call[p].source,
           next = "copy" => call[p].step = "target",
           call[p].step # "return",
           file' = Connected(d), call' = [call EXCEPT ![p].step = next],
           UNCHANGED <<committed, returned, contested, setbacks>>
    PROVE  BackupInv'
<1>1. BackupTypeOK /\ CallsOK /\ AllReturnedOK /\ Alone /\ Fresh
    BY DEF BackupInv
<1>2. /\ file' \in [Path -> Content \cup {Null}]
      /\ d \in Path => file'[d] # Null
      /\ \A x \in Call : CallOK(x) => CallOK(x)'
      /\ \A r \in Returned : ReturnedOK(r) => ReturnedOK(r)'
    BY <1>1, ConnectKeeps DEF BackupTypeOK
<1>a. PICK c \in Call : c = call[p]
    BY <1>1 DEF BackupTypeOK
<1>b. PICK n \in Call : n = [c EXCEPT !.step = next]
    BY <1>a DEF Call
<1>3. n # Null /\ call'[p] = n /\ \A q \in Process : q # p => call'[q] = call[q]
    BY <1>1, <1>a, <1>b, NullIsNoCall DEF BackupTypeOK
<1>4. BackupTypeOK'
    BY <1>1, <1>2, <1>3 DEF BackupTypeOK
<1>5. CallOK(n)'
    <2>1. CallOK(c)'
        BY <1>1, <1>2, <1>a DEF CallsOK
    <2>2. /\ n.source = c.source /\ n.destination = c.destination /\ n.before = c.before
          /\ n.since = c.since /\ n.content = c.content /\ n.step = next
        BY <1>a, <1>b DEF Call
    <2>3. n.source # Null => file'[n.source] # Null
        <3>1. CASE next = "target"
            BY <1>2, <1>a, <2>2, <3>1 DEF Call
        <3>2. CASE next = "copy"
            BY <1>a, <2>1, <2>2, <3>2 DEF Call, CallOK
        <3> QED BY <3>1, <3>2
    <2>4. c.step # "return"
        BY <1>a
    <2> QED BY <2>1, <2>2, <2>3, <2>4 DEF CallOK
<1>6. CallsOK'
    BY <1>1, <1>2, <1>3, <1>5 DEF CallsOK, BackupTypeOK
<1>7. AllReturnedOK'
    BY <1>1, <1>2 DEF AllReturnedOK, BackupTypeOK
<1>8. n.destination = call[p].destination
    BY <1>a, <1>b DEF Call
<1>9. Alone' /\ Fresh'
    BY <1>1, <1>3, <1>8 DEF Alone, Fresh
<1> QED BY <1>4, <1>6, <1>7, <1>9 DEF BackupInv

(* The copy replaces what is at its destination.  Nobody else's promise is *)
(* about that file, or the path is contested.                              *)
LEMMA CopyKeeps == ASSUME BackupInv, NEW p \in Process, Copy(p) PROVE BackupInv'
<1>1. BackupTypeOK /\ CallsOK /\ AllReturnedOK /\ Alone /\ Fresh
    BY DEF BackupInv
<1>a. PICK c \in Call : c = call[p]
    BY <1>1 DEF Copy, At, BackupTypeOK
<1>b. PICK d \in Path : d = c.destination
    BY <1>a DEF Call
<1>2. /\ call[p] = c /\ c # Null /\ c.step = "copy" /\ CallOK(c)
      /\ UNCHANGED <<committed, returned, contested, setbacks>>
    BY <1>1, <1>a DEF Copy, At, CallsOK
<1>c. PICK v \in Content : v = Copied(p)
    BY <1>1, <1>2 DEF Copied, CallOK, Call, BackupTypeOK
<1>3. v # Null /\ v = IF c.source = Null THEN committed ELSE file[c.source]
    BY <1>2, <1>c, NullIsNoNumber DEF Copied
<1>d. PICK n \in Call : n = [c EXCEPT !.step = "return", !.content = v]
    BY <1>a, <1>c DEF Call
<1>4. file' = [file EXCEPT ![d] = v] /\ file'[d] = v
    BY <1>1, <1>2, <1>b, <1>c DEF Copy, BackupTypeOK
<1>5. /\ n # Null /\ call'[p] = n /\ n.destination = d
      /\ n.source = c.source /\ n.before = c.before /\ n.since = c.since
      /\ n.content = v /\ n.step = "return"
      /\ \A q \in Process : q # p => call'[q] = call[q]
    BY <1>1, <1>2, <1>b, <1>c, <1>d, NullIsNoCall DEF Copy, BackupTypeOK, Call
<1>6. d \notin contested => file[d] \in {Null, 0}
    BY <1>2, <1>b DEF CallOK
<1>7. BackupTypeOK'
    BY <1>1, <1>2, <1>3, <1>4, <1>5 DEF Copy, BackupTypeOK
<1>8. \A x \in Path : file'[x] # file[x] => x = d
    BY <1>1, <1>4 DEF BackupTypeOK
<1>9. \A x \in Path : file[x] # Null => file'[x] # Null
    BY <1>1, <1>3, <1>4 DEF BackupTypeOK
<1>10. ASSUME NEW x \in Path, x \notin contested, file[x] \in Nat \ {0}
       PROVE  file'[x] = file[x]
    BY <1>6, <1>8, <1>10, NullIsNoNumber
<1>11. ASSUME NEW q \in Process, q # p, call[q] # Null PROVE CallOK(call[q])'
    <2>1. CallOK(call[q]) /\ call[q] \in Call /\ call'[q] = call[q]
        BY <1>1, <1>5, <1>11 DEF CallsOK, BackupTypeOK
    <2>2. call[q].destination \notin contested => call[q].destination # d
        BY <1>1, <1>2, <1>b, <1>11 DEF Alone
    <2>3. call[q].before \in Nat \ {0} => call[q].source \in Path
        BY <2>1, NullIsNoNumber DEF CallOK, Call
    <2> QED BY <1>2, <1>8, <1>9, <1>10, <2>1, <2>2, <2>3 DEF CallOK, Call
<1>12. CallOK(n)'
    <2>1. c.before \in Nat \ {0} => c.source \in Path /\ c.source # Null
        BY <1>2, BackupAssumption, NullIsNoNumber DEF CallOK, Call
    <2>2. c.before \in Nat \ {0} /\ c.source \notin contested =>
              file'[c.source] = c.before /\ v = c.before
        BY <1>2, <1>3, <1>10, <2>1 DEF CallOK
    <2>3. c.source # Null => file'[c.source] # Null
        BY <1>2, <1>9 DEF CallOK, Call
    <2>4. c.source = Null => v \in c.since .. committed
        <3>1. committed \in Nat /\ c.since \in Nat /\ c.since <= committed
            BY <1>1, <1>2, BackupAssumption DEF BackupTypeOK, Content, Call, CallOK
        <3> QED BY <1>3, <3>1
    <2> QED BY <1>2, <1>4, <1>5, <2>2, <2>3, <2>4 DEF CallOK
<1>13. CallsOK'
    BY <1>5, <1>11, <1>12 DEF CallsOK
<1>14. AllReturnedOK'
    <2> SUFFICES ASSUME NEW r \in returned PROVE ReturnedOK(r)'
        BY <1>2 DEF AllReturnedOK
    <2>1. ReturnedOK(r) /\ r \in Returned
        BY <1>1 DEF AllReturnedOK, BackupTypeOK
    <2>2. r.destination \notin contested => r.destination # d
        BY <1>1, <1>2, <1>b DEF Fresh
    <2>3. r.before \in Nat \ {0} => r.source \in Path
        BY <2>1, NullIsNoNumber DEF ReturnedOK, Returned
    <2> QED BY <1>2, <1>8, <1>10, <2>1, <2>2, <2>3 DEF ReturnedOK, Returned
<1>15. Alone' /\ Fresh'
    BY <1>1, <1>2, <1>5, <1>b DEF Alone, Fresh
<1> QED BY <1>7, <1>13, <1>14, <1>15 DEF BackupInv

(* What the call knew when it returned stays true of it.                   *)
LEMMA ReturnKeeps == ASSUME BackupInv, NEW p \in Process, Return(p) PROVE BackupInv'
<1>1. BackupTypeOK /\ CallsOK /\ AllReturnedOK /\ Alone /\ Fresh
    BY DEF BackupInv
<1>2. PICK c \in Call : c = call[p] /\ c # Null /\ c.step = "return" /\ CallOK(c)
    BY <1>1 DEF Return, At, BackupTypeOK, CallsOK
<1>3. PICK r \in Returned : r = [source |-> c.source, destination |-> c.destination,
                                 before |-> c.before, since |-> c.since,
                                 content |-> c.content]
    BY <1>2 DEF Call, Returned
<1>4. /\ returned' = returned \cup {r} /\ call'[p] = Null
      /\ \A q \in Process : q # p => call'[q] = call[q]
      /\ UNCHANGED <<committed, file, contested, setbacks>>
    BY <1>1, <1>2, <1>3 DEF Return, BackupTypeOK
<1>5. BackupTypeOK'
    BY <1>1, <1>4 DEF Return, BackupTypeOK
<1>6. ReturnedOK(r)
    BY <1>2, <1>3 DEF CallOK, ReturnedOK
<1>7. \A x : (CallOK(x) => CallOK(x)') /\ (ReturnedOK(x) => ReturnedOK(x)')
    BY <1>4 DEF CallOK, ReturnedOK
<1>8. CallsOK'
    BY <1>1, <1>4, <1>7 DEF CallsOK
<1>9. AllReturnedOK'
    BY <1>1, <1>4, <1>6, <1>7 DEF AllReturnedOK
<1>10. Alone'
    BY <1>1, <1>4 DEF Alone
<1>11. Fresh'
    BY <1>1, <1>2, <1>3, <1>4 DEF Fresh, Alone
<1> QED BY <1>5, <1>8, <1>9, <1>10, <1>11 DEF BackupInv

(* A call that ends half way leaves its file, which nobody was promised.   *)
LEMMA AbortKeeps == ASSUME BackupInv, NEW p \in Process, Abort(p) PROVE BackupInv'
<1>1. BackupTypeOK /\ CallsOK /\ AllReturnedOK /\ Alone /\ Fresh
    BY DEF BackupInv
<1>2. /\ call'[p] = Null /\ \A q \in Process : q # p => call'[q] = call[q]
      /\ UNCHANGED <<committed, file, returned, contested>>
    BY <1>1 DEF Abort, BackupTypeOK
<1>3. BackupTypeOK'
    BY <1>1, <1>2, BackupAssumption DEF Abort, BackupTypeOK
<1>4. \A x : (CallOK(x) => CallOK(x)') /\ (ReturnedOK(x) => ReturnedOK(x)')
    BY <1>2 DEF CallOK, ReturnedOK
<1>5. CallsOK' /\ AllReturnedOK'
    BY <1>1, <1>2, <1>4 DEF CallsOK, AllReturnedOK
<1>6. Alone' /\ Fresh'
    BY <1>1, <1>2 DEF Alone, Fresh
<1> QED BY <1>3, <1>5, <1>6 DEF BackupInv

LEMMA CommitKeeps == ASSUME BackupInv, Commit PROVE BackupInv'
<1>1. BackupTypeOK /\ CallsOK /\ AllReturnedOK /\ Alone /\ Fresh
    BY DEF BackupInv
<1>2. /\ committed \in Nat /\ committed' = committed + 1 /\ committed' \in Content
      /\ UNCHANGED <<file, call, returned, contested, setbacks>>
    BY <1>1, BackupAssumption DEF Commit, BackupTypeOK, Content
<1>3. BackupTypeOK'
    BY <1>1, <1>2 DEF BackupTypeOK
<1>4. /\ \A x \in Call : CallOK(x) => CallOK(x)'
      /\ \A r \in Returned : ReturnedOK(r) => ReturnedOK(r)'
    BY <1>2, GrowthKeeps
<1>5. CallsOK' /\ AllReturnedOK'
    BY <1>1, <1>2, <1>4 DEF CallsOK, AllReturnedOK, BackupTypeOK
<1>6. Alone' /\ Fresh'
    BY <1>1, <1>2 DEF Alone, Fresh
<1> QED BY <1>3, <1>5, <1>6 DEF BackupInv

LEMMA BackupStepOK == BackupInv /\ [BackupNext]_backupVars => BackupInv'
<1> SUFFICES ASSUME BackupInv, [BackupNext]_backupVars PROVE BackupInv'
    OBVIOUS
<1> USE BackupAssumption
<1>1. ASSUME NEW p \in Process, NEW d \in Path, BeginBackup(p, d) PROVE BackupInv'
    BY <1>1, BeginKeeps DEF BeginBackup
<1>2. ASSUME NEW p \in Process, NEW b \in Path, NEW d \in Path, BeginRestore(p, b, d)
      PROVE  BackupInv'
    BY <1>2, BeginKeeps DEF BeginRestore
<1>3. ASSUME NEW p \in Process, OpenSource(p) PROVE BackupInv'
    BY <1>3, OpenKeeps DEF OpenSource, At
<1>4. ASSUME NEW p \in Process, OpenTarget(p) PROVE BackupInv'
    BY <1>4, OpenKeeps DEF OpenTarget, At
<1>5. ASSUME NEW p \in Process, Copy(p) \/ Return(p) \/ Abort(p) PROVE BackupInv'
    BY <1>5, CopyKeeps, ReturnKeeps, AbortKeeps
<1>6. CASE Commit
    BY <1>6, CommitKeeps
<1>7. CASE UNCHANGED backupVars
    <2>1. UNCHANGED <<committed, file, call, returned, contested, setbacks>>
        BY <1>7 DEF backupVars
    <2> QED BY <2>1 DEF BackupInv, BackupTypeOK, CallsOK, CallOK, AllReturnedOK,
                        ReturnedOK, Alone, Fresh
<1> QED BY <1>1, <1>2, <1>3, <1>4, <1>5, <1>6, <1>7 DEF BackupNext, Proceed

LEMMA BackupInvariance == BackupSpec => []BackupInv
<1> QED BY BackupInitOK, BackupStepOK, PTL DEF BackupSpec

-----------------------------------------------------------------------------
(* The theorems.                                                           *)

(* The variables of the backup keep their types. *)
THEOREM BackupTypes == BackupSpec => []BackupTypeOK
<1>1. BackupInv => BackupTypeOK
    BY DEF BackupInv
<1> QED BY <1>1, BackupInvariance, PTL

(* However many backups and restores run, fail and die, a file that was    *)
(* returned is touched again only if two calls had both found its path     *)
(* free; a backup is a state the database had while it was made.           *)
THEOREM UndisturbedBackupsAreKept == BackupSpec => []UndisturbedBackupIsKept
<1>1. BackupInv => UndisturbedBackupIsKept
    BY DEF BackupInv, AllReturnedOK, ReturnedOK, UndisturbedBackupIsKept
<1> QED BY <1>1, BackupInvariance, PTL

(* Away from contested paths, restoring a file that held a database gives  *)
(* that database, and neither of the two changes any more.                 *)
THEOREM RestoresGiveTheBackup == BackupSpec => []RestoreGivesTheBackup
<1>1. ASSUME BackupInv PROVE RestoreGivesTheBackup
    <2> SUFFICES ASSUME NEW r \in returned, r.before \in Nat \ {0},
                        {r.source, r.destination} \cap contested = {}
                 PROVE  file[r.source] = r.before /\ file[r.destination] = r.before
        BY DEF RestoreGivesTheBackup
    <2>1. ReturnedOK(r) /\ r.source \notin contested /\ r.destination \notin contested
        BY <1>1 DEF BackupInv, AllReturnedOK
    <2> QED BY <2>1 DEF ReturnedOK
<1> QED BY <1>1, BackupInvariance, PTL
=============================================================================
