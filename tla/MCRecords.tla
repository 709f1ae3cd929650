------------------------------ MODULE MCRecords ------------------------------
(***************************************************************************)
(* A small instance of Records.                                            *)
(***************************************************************************)
EXTENDS Records, TLC

(* Both partitions have the same key. *)
MCPartitionKey == [x \in Partition |-> "page-1"]

MCSymmetry ==
    UNION {Permutations(Run), Permutations(Partition), Permutations(Listing),
           Permutations(Job), Permutations(Batch), Permutations(Url)}
=============================================================================
