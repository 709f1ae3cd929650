--------------------------- MODULE RecordLifecycle ---------------------------
(***************************************************************************)
(* What docs/runtime-state.md promises of crawl runs, of partitions and of *)
(* parser runs: each moves along the arcs of its diagram, one at a time,   *)
(* from absent to an end it never leaves.                                  *)
(***************************************************************************)
CONSTANTS
    Item,
    Arc         \* the arcs of the diagram, as <<from, to>>

VARIABLE phase  \* [Item -> the node it is at]

LifecycleInit == phase = [i \in Item |-> "absent"]

Move(i, arc) ==
    /\ phase[i] = arc[1]
    /\ phase' = [phase EXCEPT ![i] = arc[2]]

LifecycleNext == \E i \in Item : \E arc \in Arc : Move(i, arc)

LifecycleSpec == LifecycleInit /\ [][LifecycleNext]_phase
=============================================================================
