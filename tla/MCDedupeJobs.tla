---------------------------- MODULE MCDedupeJobs ----------------------------
(* A small instance of DedupeJobs. *)
EXTENDS DedupeJobs, TLC

CONSTANTS pa, pb, w, e1

\* two pairs of duplicates, the first file of which is not on the disk, and an internal file
Prints5 == (1 :> pa) @@ (2 :> pb) @@ (3 :> pb) @@ (4 :> pa) @@ (5 :> pb)
Ranks5  == [f \in Files |-> IF f = 1 THEN 1 ELSE 0]
=============================================================================
