----------------------------- MODULE MCTaskEffects -----------------------------
(***************************************************************************)
(* Model-checking instance of TaskEffects: two documents of one name, two  *)
(* files of one base name, and one kind of task per handler.               *)
(***************************************************************************)
EXTENDS TaskEffects

SameName == [d \in Docs |-> "report"]
OneBase  == [f \in Files |-> 1]

K(does, move, note) == [does |-> does, move |-> move, note |-> note, force |-> FALSE]

OneOfEach ==
  {K("import", FALSE, "none"), K("import", TRUE, "create"),
   K("importfile", FALSE, "create"), K("importfile", TRUE, "fallback"),
   K("search", FALSE, "create"), K("search", FALSE, "fallback"),
   K("file", FALSE, "create"), K("file", FALSE, "first"), K("external", FALSE, "create")}

Either == {[K("batch", FALSE, "fallback") EXCEPT !.force = f] : f \in BOOLEAN}
=============================================================================
