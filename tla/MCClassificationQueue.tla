------------------------- MODULE MCClassificationQueue -------------------------
(***************************************************************************)
(* Model-checking instances of ClassificationQueue: files 1 and 2 are      *)
(* documents, file 3 is an image.                                          *)
(***************************************************************************)
EXTENDS ClassificationQueue, TLC

CONSTANTS w1, w2, api

WorkerSymmetry == Permutations(Workers)

Ranks == [f \in Files |-> IF f = 3 THEN 2 ELSE 0]
=============================================================================
