-------------------------- MODULE MCShadowLearning --------------------------
(* A small instance of ShadowLearning. *)
EXTENDS ShadowLearning, TLC

CONSTANTS w, m, q1, k, n

KeyOfJob == [j \in 1..MaxJobs |-> IF j = 1 THEN k ELSE n]
=============================================================================
