------------------------- MODULE MCDetailFetchQueue -------------------------
(***************************************************************************)
(* Small instances of DetailFetchQueue.                                    *)
(***************************************************************************)
EXTENDS DetailFetchQueue, TLC

(* Two jobs; the first has the higher priority and may be retried once. *)
MCPriority == [j \in Jobs |-> IF j = "j1" THEN 1 ELSE 0]
MCMaxAttempts == [j \in Jobs |-> IF j = "j1" THEN 2 ELSE 1]

(* Every process has a name of its own, or all use the same one, as the *)
(* synthetic worker does.                                               *)
MCOwnName == [p \in Process |-> IF p = "p1" THEN "w1" ELSE "w2"]
MCSharedName == [p \in Process |-> "w1"]

MCScheduleTimes == {[sec |-> 0, us |-> 0], [sec |-> 1, us |-> 1]}
MCOneScheduleTime == {[sec |-> 0, us |-> 0]}
=============================================================================
