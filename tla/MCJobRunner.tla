----------------------------- MODULE MCJobRunner -----------------------------
(* Instance of JobRunner for TLC: two synced jobs on one drive, a synced    *)
(* job and a mounted one on another.                                       *)
EXTENDS JobRunner

OwnDrive == [j \in Jobs |-> IF j \in {"j1", "j2"} THEN "d1" ELSE "d2"]
Modes    == [j \in Jobs |-> IF j = "j4" THEN "mount" ELSE "sync_workspace"]
From(js, a, f) == [jobs |-> js, asks |-> a, faults |-> f]
SomeStarts ==
  {From({"j1"}, 1, 1), From({"j1", "j3"}, 0, 2)}
    \cup {From({"j1", j}, 1, 0) : j \in {"j2", "j3", "j4"}}
    \cup {From({"j1", j}, 0, 1) : j \in {"j2", "j4"}}
=============================================================================
