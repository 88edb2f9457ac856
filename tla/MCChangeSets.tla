----------------------------- MODULE MCChangeSets -----------------------------
(***************************************************************************)
(* Model-checking instances of ChangeSets.                                 *)
(***************************************************************************)
EXTENDS ChangeSets, TLC

CONSTANTS a, b, q, r1, r2, x1, x2, x3, c1, c2, c3, c4

\* Every file has its own name
OwnNames == [p \in Paths |-> p]

\* Copies that lie in different folders under the same name
SameNames == [p \in Paths |-> "name"]

\* A group of two files, and one that names a file twice: the rows of an import and of a crawl
Both == {<<a, b>>, <<b, b>>}

\* Requests, change set ids and copies are interchangeable
Symmetry == Permutations(Requests) \cup Permutations(Ids) \cup Permutations(Payloads)
=============================================================================
