--------------------------- MODULE FileReplacement --------------------------
(***************************************************************************)
(* What the commands that write files promise, without saying how: a file  *)
(* is replaced as a whole, each command replaces each of its files at most *)
(* once, an upload replaces nothing, and who is told that a command is     *)
(* done, or that the original was preserved, can rely on it.               *)
(***************************************************************************)
CONSTANTS Jobs,       \* invocations of commands that write files
          Places,     \* where a file or a folder may be
          Inside,     \* the folder a place is in, or None
          FirstFiles, \* what may be there at first
          Requests,   \* what may be asked for: a kind, and the places to write
          Nothing, Folder,
          NoRequest   \* what a job that was not asked for anything has been asked

VARIABLES asked,     \* job -> the request, or NoRequest
          contents,  \* place -> its whole contents, named by who wrote them
          replaced,  \* pairs of a job and a place it has written
          told       \* job -> what its caller has been told

replacementVars == <<asked, contents, replaced, told>>

ReplacementInit ==
  /\ asked = [j \in Jobs |-> NoRequest] /\ contents \in FirstFiles
  /\ replaced = {} /\ told = [j \in Jobs |-> "nothing"]

\* An upload must not write over anything, the others only not over a folder.
MayTakePlace(kind, there) ==
  IF kind \in {"upload", "entries", "upload-tree"} THEN there = Nothing ELSE there # Folder

Request(j) ==
  /\ asked[j] = NoRequest /\ asked'[j] \in Requests /\ asked' = [asked EXCEPT ![j] = asked'[j]]
  /\ UNCHANGED <<contents, replaced, told>>

\* A command whose answer was lost, and a dump that goes on after it was cancelled, may
\* still write; one that is done or has preserved the original does not.
Replace(j, n) ==
  /\ n \in asked[j].targets /\ <<j, n>> \notin replaced
  /\ told[j] \in {"nothing", "failed"} \/ (told[j] = "cancelled" /\ asked[j].kind = "dump")
  /\ MayTakePlace(asked[j].kind, contents[n])
  /\ contents' = [contents EXCEPT ![n] = <<j, n>>] /\ replaced' = replaced \cup {<<j, n>>}
  /\ UNCHANGED <<asked, told>>

Tell(j, what) ==
  /\ told[j] = "nothing" /\ asked[j] # NoRequest
  /\ what = "done" => \A n \in asked[j].targets : <<j, n>> \in replaced
  /\ what = "preserved" => \A n \in Places : <<j, n>> \notin replaced
  /\ told' = [told EXCEPT ![j] = what]
  /\ UNCHANGED <<asked, contents, replaced>>

\* Folders are made where nothing is, and deleted when they hold nothing; a file is
\* deleted, or moved to where nothing is.
MakeFolder(n) == contents[n] = Nothing /\ contents' = [contents EXCEPT ![n] = Folder]
Delete(n) ==
  /\ contents[n] = Folder => \A m \in Places : Inside[m] = n => contents[m] = Nothing
  /\ contents' = [contents EXCEPT ![n] = Nothing]
Move(n, m) ==
  /\ contents[n] \notin {Nothing, Folder} /\ contents[m] = Nothing
  /\ contents' = [contents EXCEPT ![n] = Nothing, ![m] = contents[n]]
Arrange ==
  /\ contents' # contents /\ UNCHANGED <<asked, replaced, told>>
  /\ \E n \in Places : MakeFolder(n) \/ Delete(n) \/ \E m \in Places : Move(n, m)

ReplacementNext ==
  \/ \E j \in Jobs :
       \/ \E what \in {"done", "preserved", "failed", "cancelled"} : Tell(j, what)
       \/ \E n \in Places : Replace(j, n)
       \/ Request(j)
  \/ Arrange

ReplacementSpec == ReplacementInit /\ [][ReplacementNext]_replacementVars
=============================================================================
