---------------------------- MODULE MCOperations ----------------------------
(* Two calls over three ids, the same or different ones, and a registry that  *)
(* two entries fill, so that tombstones can crowd out a call.  Or two of the  *)
(* commands that write files, which share nothing with the registry but the   *)
(* token that cancels an export: a file at the server and one on this         *)
(* computer, and a folder to be made at each.                                 *)
EXTENDS Operations, FileWrites

CONSTANTS Parts, Original

VARIABLE part   \* what runs; the other part rests in its initial state

MCCap == 2
MCMaxLate == 3

MCPlaces == {"f", "e", "e/a", "e/b", "l", "L", "L/x"}
MCInside ==
  [p \in MCPlaces |-> CASE p \in {"e/a", "e/b"} -> "e" [] p = "L/x" -> "L" [] OTHER -> None]
MCFirstFiles == {[p \in MCPlaces |-> IF p \in {"f", "l"} THEN Original ELSE None]}
Writes(kind, root, targets) == [kind |-> kind, root |-> root, targets |-> targets]
MCRequests ==
  {Writes("save", None, {"f"}), Writes("entries", None, {"e/a", "e/b"}),
   Writes("upload-tree", "e", {"e/a", "e/b"}), Writes("download-tree", "L", {"L/x"}),
   Writes("export", None, {"l"}), Writes("dump", None, {"l"})}

MCInit ==
  /\ part \in Parts /\ Init /\ WritesInit
  /\ part # "registry" => id = [c \in Calls |-> CHOOSE i \in Ids : TRUE]
MCNext ==
  /\ UNCHANGED part
  /\ \/ part = "registry" /\ Next /\ UNCHANGED writesVars
     \/ part = "writes" /\ WritesNext /\ UNCHANGED vars
MCSpec == MCInit /\ [][MCNext]_<<part, vars, writesVars>> /\ Fairness
=============================================================================
