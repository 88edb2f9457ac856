---------------------------- MODULE MCVaultNotes ----------------------------
(* A small instance of VaultNotes. *)
EXTENDS VaultNotes, TLC

CONSTANTS h1, h2, a, b, report, other

Names3   == (1 :> report) @@ (2 :> other) @@ (3 :> report)
TitleAll == [n \in Names |-> report]
CloseOff == [n \in Names |-> n]
\* a note for the second file under the name of the first, and one for the first
Requests2 == {[path |-> 2, name |-> report, folder |-> b], [path |-> 1, name |-> report, folder |-> a]}
Present3 == (1 :> h1) @@ (2 :> h2) @@ (3 :> None)
=============================================================================
