---------------------------- MODULE JobLifecycle ----------------------------
(***************************************************************************)
(* What the detail-fetch queue promises about its jobs, without workers,   *)
(* leases or clocks: the transition diagram of docs/runtime-state.md.  A   *)
(* job is leased at most MaxAttempts times; when an attempt ends without   *)
(* success the job is pending again as long as attempts remain, and        *)
(* failed_exhausted otherwise.  Job creation is idempotent.                *)
(***************************************************************************)
EXTENDS Integers

CONSTANTS
    Jobs,
    MaxAttempts     \* [Jobs -> Nat \ {0}]

VARIABLES
    phase,      \* [Jobs -> Phase]
    used        \* [Jobs -> Nat]: attempts started

lifecycleVars == <<phase, used>>

Phase == {"absent", "pending", "processing", "succeeded", "failed_exhausted"}

LifecycleInit ==
    /\ phase = [j \in Jobs |-> "absent"]
    /\ used = [j \in Jobs |-> 0]

(* --create--> pending *)
Create(j) ==
    /\ phase[j] = "absent"
    /\ phase' = [phase EXCEPT ![j] = "pending"]
    /\ UNCHANGED used

(* pending --lease--> processing, counting the attempt. *)
Lease(j) ==
    /\ phase[j] = "pending"
    /\ used[j] < MaxAttempts[j]
    /\ phase' = [phase EXCEPT ![j] = "processing"]
    /\ used' = [used EXCEPT ![j] = @ + 1]

(* processing --success--> succeeded *)
Success(j) ==
    /\ phase[j] = "processing"
    /\ phase' = [phase EXCEPT ![j] = "succeeded"]
    /\ UNCHANGED used

AfterFailure(j) ==
    IF used[j] < MaxAttempts[j] THEN "pending" ELSE "failed_exhausted"

(* processing --failure or expired lease--> pending or failed_exhausted,   *)
(* for several jobs at once: recovery is one transaction.                  *)
GiveUp(J) ==
    /\ J # {}
    /\ \A j \in J : phase[j] = "processing"
    /\ phase' = [j \in Jobs |-> IF j \in J THEN AfterFailure(j) ELSE phase[j]]
    /\ UNCHANGED used

LifecycleNext ==
    \/ \E j \in Jobs : Create(j) \/ Lease(j) \/ Success(j)
    \/ \E J \in SUBSET Jobs : GiveUp(J)

LifecycleSpec == LifecycleInit /\ [][LifecycleNext]_lifecycleVars

(* Leasing and the end of an attempt are fair; creation is not.            *)
LifecycleFairness ==
    \A j \in Jobs :
        /\ WF_lifecycleVars(Lease(j))
        /\ WF_lifecycleVars(Success(j) \/ \E J \in SUBSET Jobs : j \in J /\ GiveUp(J))

FairLifecycleSpec == LifecycleSpec /\ LifecycleFairness

=============================================================================
