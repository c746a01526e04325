---------------------------- MODULE MCDownloadJob ----------------------------
(* DownloadJob on small instances: two jobs, two files. *)
EXTENDS DownloadJob

CONSTANTS j1, j2, r1, r2, f1, f2

(* Both jobs fetch from one repository, or each from its own. *)
SameRepo == [j \in Jobs |-> r1]
OwnRepo == [j \in Jobs |-> IF j = j1 THEN r1 ELSE r2]

(* The selections: j1 takes both files, j2 only the second; or one each. *)
Overlapping == [j \in Jobs |-> IF j = j1 THEN <<f1, f2>> ELSE <<f2>>]
OneEach == [j \in Jobs |-> IF j = j1 THEN <<f1>> ELSE <<f2>>]

(* A bound for the runs that do not look at .job.json: a persist loop only *)
(* makes its last tick.                                                    *)
LastTick == \A j \in Jobs : loop[j].pc \in {"snap", "write"} => worker[j].pc = "off"
==============================================================================
