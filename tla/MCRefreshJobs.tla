----------------------------- MODULE MCRefreshJobs -----------------------------
(***************************************************************************)
(* Model-checking instances of RefreshJobs.  Workers are interchangeable   *)
(* in the safety runs; jobs are not (the lowest id is claimed first) and   *)
(* neither are stamps (FreshStamp chooses one).                            *)
(***************************************************************************)
EXTENDS RefreshJobs, TLC

WorkerSymmetry == Permutations(Workers)
=============================================================================
