------------------------------- MODULE MCSync -------------------------------
(* Definitions are a narrow and a wide one.  The runs about tables overwrite  *)
(* a table, skip it, empty it for its data, or import data into one whose      *)
(* structure is not to change.  The runs about plans change structures only,   *)
(* where one definition is as good as another: there they are model values.    *)
EXTENDS Sync, TLC

Narrow == {"id"}
Wide == {"id", "name"}
MCDefs == {Narrow, Wide}
Whole(structure, data, strategy) ==
  [tables |-> Tables, structure |-> structure, data |-> data, strategy |-> strategy]
OverwriteRequests == {Whole(TRUE, FALSE, "recreate")}
StructureRequests == OverwriteRequests \cup {Whole(TRUE, FALSE, "append")}
DataRequests == {Whole(TRUE, TRUE, "recreate"), Whole(TRUE, TRUE, "skip"),
                 Whole(FALSE, TRUE, "recreate"), Whole(FALSE, TRUE, "truncate")}
Symmetry == Permutations(Tables) \cup Permutations(Runs) \cup Permutations(Defs)
=============================================================================
