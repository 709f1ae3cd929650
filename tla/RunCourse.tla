------------------------------ MODULE RunCourse ------------------------------
(***************************************************************************)
(* What the synthetic worker promises of its runs, without processes,      *)
(* leases, checkpoints or files: the course of a run is a set of           *)
(* milestones that only grows.  Each is reached once, never taken back,    *)
(* and only after the milestones it rests on, in whatever order the        *)
(* processes that carry the run are interrupted, restarted or interleaved. *)
(***************************************************************************)
CONSTANT Run

VARIABLE done   \* [Run -> SUBSET Milestone]

Milestone == {"discovered", "fetched", "snapshot", "manifest", "parsed", "records",
              "batch", "started", "opened", "partition", "run"}

(* What a milestone of a run rests on.  A run need not be started when its *)
(* partition is opened, nor its own job fetched when it is parsed.         *)
RestsOn(milestone) ==
    CASE milestone \in {"discovered", "started", "opened"} -> {}
      [] milestone \in {"fetched", "snapshot"} -> {"discovered"}
      [] milestone = "manifest" -> {"snapshot"}
      [] milestone = "parsed" -> {"manifest"}
      [] milestone = "records" -> {"parsed"}
      [] milestone = "batch" -> {"records"}
      [] milestone = "partition" -> {"batch", "started", "opened"}
      [] milestone = "run" -> {"partition"}

CourseInit == done = [r \in Run |-> {}]

(* A snapshot is parsed only after some job was fetched: the worker leases *)
(* the job that is next in the queue, whichever run it belongs to.         *)
Ready(r) ==
    LET reached == done[r]
    IN  {milestone \in Milestone \ reached :
            /\ RestsOn(milestone) \subseteq reached
            /\ milestone = "parsed" => \E other \in Run : "fetched" \in done[other]}

Reach(r, milestone) == done' = [done EXCEPT ![r] = @ \cup {milestone}]

CourseNext == \E r \in Run : \E milestone \in Ready(r) : Reach(r, milestone)

CourseSpec == CourseInit /\ [][CourseNext]_done

(* A run that is completed has left nothing out, but for the fetch of its  *)
(* own job: that of another run may have stood in for it.                  *)
NothingIsMissing ==
    \A r \in Run : "run" \in done[r] =>
        /\ Milestone \ {"fetched"} \subseteq done[r]
        /\ \E other \in Run : "fetched" \in done[other]
=============================================================================
