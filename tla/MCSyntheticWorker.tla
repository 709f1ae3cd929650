-------------------------- MODULE MCSyntheticWorker --------------------------
(***************************************************************************)
(* Small instances of SyntheticWorker.  Time is in whole seconds, and all  *)
(* processes use the worker's hard-coded name, as in the code.             *)
(***************************************************************************)
EXTENDS SyntheticWorker, TLC

MCWorkerId == [p \in Process |-> "synthetic-worker"]
MCPriority == [r \in Jobs |-> 0]
MCMaxAttempts == [r \in Jobs |-> 2]
MCInstants == {[sec |-> s, us |-> 0] : s \in 0 .. Horizon}

(* Both processes are given the same run, or each one of its own. *)
MCSameRun == [p \in Process |-> "r1"]
MCOwnRun == [p \in Process |-> IF p = "p1" THEN "r1" ELSE "r2"]

(* Processes that are given the same run differ in nothing. *)
MCSymmetry == Permutations(Process)

=============================================================================
