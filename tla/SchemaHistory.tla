---------------------------- MODULE SchemaHistory ----------------------------
(***************************************************************************)
(* What apply_migrations and the queue owner's registration promise of a   *)
(* database file, whoever opens it: one version after the other is added,  *)
(* each on top of the earlier ones of the same release, and the            *)
(* orchestrator is registered by one step, on a complete schema and only   *)
(* while nobody else is.                                                   *)
(* There are no threads, locks, transactions or deaths here.               *)
(***************************************************************************)
EXTENDS Integers, Sequences

CONSTANTS
    Version,        \* the numbers of the migration files
    Known,          \* the releases: sequences of contents
    Owner,          \* the name the orchestrator registers
    Other,          \* the names other tools may register
    Null

VARIABLES
    applied,        \* [Version -> the content applied, or Null]
    owners          \* the names registered

First(release, n) == [v \in Version |-> IF v <= n THEN release[v] ELSE Null]

HistoryInit ==
    /\ applied = [v \in Version |-> Null]
    /\ owners = {}

(* The next migration of a release whose earlier ones are all there.       *)
Migrate ==
    \E release \in Known : \E v \in 1 .. Len(release) :
        /\ applied = First(release, v - 1)
        /\ applied' = First(release, v)
        /\ UNCHANGED owners

(* The orchestrator is the first to register, and after the trigger of     *)
(* migration 2 that keeps it alone.                                        *)
RegisterOwner ==
    /\ applied[2] # Null
    /\ owners = {}
    /\ owners' = {Owner}
    /\ UNCHANGED applied

RegisterAnother ==
    /\ applied[1] # Null
    /\ applied[2] # Null => owners = {}
    /\ \E name \in Other \ owners : owners' = owners \cup {name}
    /\ UNCHANGED applied

HistoryNext == Migrate \/ RegisterOwner \/ RegisterAnother

HistorySpec == HistoryInit /\ [][HistoryNext]_<<applied, owners>>
=============================================================================
