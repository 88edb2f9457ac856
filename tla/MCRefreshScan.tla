----------------------------- MODULE MCRefreshScan -----------------------------
(***************************************************************************)
(* Model-checking instances of RefreshScan: one file in the root folder    *)
(* and two in a folder below it, or one of each.                           *)
(***************************************************************************)
EXTENDS RefreshScan, TLC

CONSTANTS top, folder, a, b, c

\* The root holds the folder and file a; the folder holds the other files.
Tree == [e \in {folder, a, b, c} \cap (Files \cup Folders) |->
           IF e \in {folder, a} THEN top ELSE folder]
=============================================================================
