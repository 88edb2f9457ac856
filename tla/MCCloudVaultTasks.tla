-------------------------- MODULE MCCloudVaultTasks --------------------------
(***************************************************************************)
(* Model-checking instances of CloudVaultTasks: task 1 imports a folder of *)
(* three files in two chunks, the other tasks have one item.               *)
(***************************************************************************)
EXTENDS CloudVaultTasks

CONSTANTS worker, e1, k1

Sizes == [t \in Tasks |-> IF t = 1 THEN 3 ELSE 1]
=============================================================================
