------------------------------ MODULE FileWrites ------------------------------
(***************************************************************************)
(* The commands that write files, at the SSH server (ssh/sftp.rs,          *)
(* ssh/sftp_atomic.rs) and on this computer (export_import/mod.rs,         *)
(* mysqldump.rs): each file is written under a name of its own and then    *)
(* renamed.  The renderer has a file picked, makes the call with the       *)
(* selection and, when the call is refused for an unknown host key that    *)
(* the user then trusts, makes it once again (lib/tauri-api.ts).           *)
(*                                                                         *)
(* Kinds: a save of the editor; an upload of a file, of picked entries, of *)
(* a tree; a download of a file, of a tree; an export by the driver; and a *)
(* dump, an export by a program in a thread that outlives its cancelled    *)
(* call.  What a rename replaces is decided where the file is: version 3   *)
(* of the protocol refuses a plain rename to a name that is taken, which   *)
(* is all that uploads and moves ask for.                                  *)
(***************************************************************************)
EXTENDS FileGrants

CONSTANTS Jobs, Places, ServerPlaces, Inside, FirstFiles, Folder, Torn,
          Requests,    \* [kind, root, targets]: the folder a tree makes, the files it writes
          MaxEntries,  \* entries of a tree (100,000 in the code)
          MaxMoves     \* how often files are deleted, moved or folders made

Single == {"save", "upload", "download", "export", "dump"}
Uploads == {"upload", "entries", "upload-tree"}
AtServer == Uploads \cup {"save"}
Trees == {"upload-tree", "download-tree"}
Exports == {"export", "dump"}
Kinds == Single \cup AtServer \cup Trees

ASSUME PlacesAssumption ==
  /\ None \notin Places /\ Folder # None /\ ServerPlaces \subseteq Places
  /\ Inside \in [Places -> Places \cup {None}]
  /\ \A f \in FirstFiles : DOMAIN f = Places
ASSUME RequestsAssumption ==
  /\ Requests \subseteq [kind : Kinds, root : Places \cup {None}, targets : SUBSET Places]
  /\ \A r \in Requests : /\ IsFiniteSet(r.targets)
                         /\ r.kind \in Single => \E n \in Places : r.targets = {n}
                         /\ r.kind \in Trees => r.root \in Places

VARIABLES
  doing,      \* job -> its request, its selections and how far it is
  contents,   \* place -> who wrote them, Folder, Torn, or None
  unfinished, \* the files under a name of their own: by whom, for which place, whole or not
  replaced,   \* history: pairs of a job and a place it has written
  moves

writesVars == <<grants, drawn, spent, doing, contents, unfinished, replaced, moves>>

NoRequest == [kind |-> "none", root |-> None, targets |-> {}]
NotAsked == [request |-> NoRequest, picked |-> {}, stage |-> "idle", again |-> FALSE,
             todo |-> {}, at |-> None, rename |-> "none", told |-> "nothing"]
WritesInit ==
  /\ GrantsInit
  /\ doing = [j \in Jobs |-> NotAsked] /\ contents \in FirstFiles /\ unfinished = {}
  /\ replaced = {} /\ moves = 0

Kind(j) == doing[j].request.kind
Reached(j, stage) == doing[j].stage = stage
Goto(j, stage) == doing' = [doing EXCEPT ![j].stage = stage, ![j].again = FALSE]
\* The call ends; who was told of a cancel is told nothing more.
EndJob(j, what) ==
  doing' = [doing EXCEPT ![j].stage = "over", ![j].again = FALSE,
                       ![j].told = IF doing[j].told = "nothing" THEN what ELSE doing[j].told]
\* What a failed write leaves is removed, unless that fails as well.
Clean(j) == unfinished' = {p \in unfinished : p.by # j} \/ UNCHANGED unfinished

-----------------------------------------------------------------------------
(* The call: a selection, a session, and the selection spent               *)

Asked(r, ids) ==
  [NotAsked EXCEPT !.request = r, !.picked = ids, !.stage = "asked", !.todo = r.targets]
Picks(r) == IF r.kind = "entries" THEN Cardinality(r.targets) ELSE 1
Pick(j, r) ==
  /\ Reached(j, "idle") /\ r.kind # "save"
  /\ IF RoomFor(Picks(r))
     THEN IssueMany(Picks(r), r.kind) /\ doing' = [doing EXCEPT ![j] = Asked(r, Drawn(Picks(r)))]
     ELSE IssueNone /\ UNCHANGED doing
  /\ UNCHANGED <<contents, unfinished, replaced, moves>>
SaveFile(j, r) ==
  /\ Reached(j, "idle") /\ r.kind = "save" /\ doing' = [doing EXCEPT ![j] = Asked(r, {})]
  /\ UNCHANGED <<grantVars, contents, unfinished, replaced, moves>>

FirstStage(kind) == IF kind \in Trees THEN "ready" ELSE "next"
\* The session comes first, so that a call that is refused for its host key has spent
\* nothing and can be made again.
Connect(j) ==
  /\ Reached(j, "asked") /\ Goto(j, IF Kind(j) = "save" THEN "next" ELSE "session")
  /\ UNCHANGED <<grantVars, contents, unfinished, replaced, moves>>
Challenged(j) ==
  /\ Reached(j, "asked") /\ ~doing[j].again /\ Goto(j, "challenged")
  /\ UNCHANGED <<grantVars, contents, unfinished, replaced, moves>>
HostTrusted(j) ==
  /\ Reached(j, "challenged") /\ doing' = [doing EXCEPT ![j].stage = "asked", ![j].again = TRUE]
  /\ UNCHANGED <<grantVars, contents, unfinished, replaced, moves>>
\* Also a second challenge, and one that is declined.
ConnectFails(j) ==
  /\ doing[j].stage \in {"asked", "challenged"} /\ EndJob(j, "failed")
  /\ UNCHANGED <<grantVars, contents, unfinished, replaced, moves>>
Spend(j) ==
  /\ Reached(j, "session")
  /\ IF MayConsume(doing[j].picked, Kind(j))
     THEN ConsumeMany(doing[j].picked) /\ Goto(j, FirstStage(Kind(j)))
     ELSE EndJob(j, "failed") /\ UNCHANGED grantVars
  /\ UNCHANGED <<contents, unfinished, replaced, moves>>

-----------------------------------------------------------------------------
(* One file after the other: written aside, then renamed                   *)

MayTakePlace(kind, there) == IF kind \in Uploads THEN there = None ELSE there # Folder
HasHome(n) == Inside[n] # None => contents[Inside[n]] = Folder
MakeRoot(j) ==
  LET root == doing[j].request.root
  IN  /\ Reached(j, "ready") /\ contents[root] = None /\ HasHome(root)
      /\ contents' = [contents EXCEPT ![root] = Folder] /\ Goto(j, "next")
      /\ UNCHANGED <<grantVars, unfinished, replaced, moves>>
\* What is at the place when its turn comes; a rename looks again.
MayOpen(kind, there) ==
  CASE kind \in {"upload", "entries"} -> there = None
    [] kind = "save" -> there \notin {None, Folder}
    [] OTHER -> TRUE
OpenPart(j, n) ==
  /\ Reached(j, "next") /\ n \in doing[j].todo
  /\ Kind(j) \in Trees => Cardinality(doing[j].request.targets \ doing[j].todo) < MaxEntries
  /\ MayOpen(Kind(j), contents[n])
  /\ IF HasHome(n) THEN UNCHANGED contents
     ELSE /\ Kind(j) = "entries" /\ contents[Inside[n]] = None
          /\ contents' = [contents EXCEPT ![Inside[n]] = Folder]
  /\ unfinished' = unfinished \cup {[by |-> j, at |-> n, whole |-> FALSE]}
  /\ doing' = [doing EXCEPT ![j].stage = "copying", ![j].at = n]
  /\ UNCHANGED <<grantVars, replaced, moves>>
\* The part of the file that is being written.
Landing(j) == {p \in unfinished : p.by = j /\ p.at = doing[j].at}
RenameEarly(j) ==
  /\ Reached(j, "copying") /\ Goto(j, "checked")
  /\ UNCHANGED <<grantVars, contents, unfinished, replaced, moves>>
\* A saved file also has the permissions of the original by now.
Copied(j) ==
  /\ Reached(j, "copying") /\ Goto(j, IF Kind(j) = "dump" THEN "copied" ELSE "checked")
  /\ unfinished' = {IF p \in Landing(j) THEN [p EXCEPT !.whole = TRUE] ELSE p : p \in unfinished}
  /\ UNCHANGED <<grantVars, contents, replaced, moves>>
\* The thread of a dump looks at the token for the last time.
NotCancelled(j) ==
  /\ Reached(j, "copied") /\ doing[j].told = "nothing" /\ Goto(j, "checked")
  /\ UNCHANGED <<grantVars, contents, unfinished, replaced, moves>>

\* The part of a job takes its place, with what it holds.
Lands(j) ==
  LET n == doing[j].at
  IN  /\ MayTakePlace(Kind(j), contents[n])
      /\ \E p \in Landing(j) :
           /\ contents' = [contents EXCEPT ![n] = IF p.whole THEN <<j, n>> ELSE Torn]
           /\ unfinished' = unfinished \ {p}
      /\ replaced' = replaced \cup {<<j, n>>}
NextFile(j) ==
  [doing[j] EXCEPT !.stage = "next", !.todo = @ \ {doing[j].at}, !.at = None, !.rename = "none"]
RenameHere(j) ==
  /\ Reached(j, "checked") /\ Kind(j) \notin AtServer /\ Lands(j)
  /\ doing' = [doing EXCEPT ![j] = NextFile(j)]
  /\ UNCHANGED <<grantVars, moves>>
AskToRename(j) ==
  /\ Reached(j, "checked") /\ Kind(j) \in AtServer
  /\ doing' = [doing EXCEPT ![j].stage = "renaming", ![j].rename = "sent"]
  /\ UNCHANGED <<grantVars, contents, unfinished, replaced, moves>>
\* The server does not know whether anyone waits for the answer.
ServerRenames(j) ==
  /\ doing[j].rename = "sent" /\ Lands(j) /\ doing' = [doing EXCEPT ![j].rename = "done"]
  /\ UNCHANGED <<grantVars, moves>>
ServerRefuses(j) ==
  /\ doing[j].rename = "sent" /\ doing' = [doing EXCEPT ![j].rename = "refused"]
  /\ UNCHANGED <<grantVars, contents, unfinished, replaced, moves>>
Renamed(j) ==
  /\ Reached(j, "renaming") /\ doing[j].rename = "done"
  /\ doing' = [doing EXCEPT ![j] = NextFile(j)]
  /\ UNCHANGED <<grantVars, contents, unfinished, replaced, moves>>

AllDone(j) == Reached(j, "next") /\ doing[j].todo = {}
Finish(j) ==
  /\ AllDone(j) /\ EndJob(j, "done")
  /\ UNCHANGED <<grantVars, contents, unfinished, replaced, moves>>
\* Any call to the server or the disk may fail, and an answer may be lost.
Fail(j) ==
  /\ doing[j].stage \in {"ready", "next", "copying", "copied", "checked", "renaming"}
  /\ ~AllDone(j) /\ EndJob(j, "failed") /\ Clean(j)
  /\ UNCHANGED <<grantVars, contents, replaced, moves>>
\* The permissions cannot be kept, the server cannot replace a file, or refuses to.
Preserved(j) ==
  /\ Kind(j) = "save" /\ ~AllDone(j)
  /\ \/ doing[j].stage \in {"next", "copying", "checked"}
     \/ Reached(j, "renaming") /\ doing[j].rename = "refused"
  /\ EndJob(j, "preserved") /\ Clean(j)
  /\ UNCHANGED <<grantVars, contents, replaced, moves>>

-----------------------------------------------------------------------------
(* What comes in between                                                   *)

\* The thread of a dump goes on until it looks; the rest of a call ends at once.  An
\* export renames and answers in one go, a dump's answer is still awaited.
CancelExport(j) ==
  /\ Kind(j) \in Exports /\ doing[j].told = "nothing" /\ doing[j].stage \notin {"idle", "over"}
  /\ IF Kind(j) = "dump" /\ doing[j].stage \notin {"asked", "challenged", "session"}
     THEN doing' = [doing EXCEPT ![j].told = "cancelled"] /\ UNCHANGED unfinished
     ELSE ~AllDone(j) /\ EndJob(j, "cancelled") /\ Clean(j)
  /\ UNCHANGED <<grantVars, contents, replaced, moves>>
Quit ==
  /\ \E j \in Jobs : doing[j].stage \notin {"idle", "over"}
  /\ doing' = [j \in Jobs |-> IF Reached(j, "idle") THEN doing[j]
                             ELSE [doing[j] EXCEPT !.stage = "over"]]
  /\ grants' = <<>> /\ UNCHANGED <<drawn, spent, contents, unfinished, replaced, moves>>

\* The other commands of the file manager: a folder is deleted only when it is empty, of
\* parts as well; a file is moved only to where nothing is.
Arrange ==
  moves < MaxMoves /\ moves' = moves + 1 /\ UNCHANGED <<grantVars, doing, unfinished, replaced>>
DeletePath(n) ==
  /\ contents[n] # None
  /\ contents[n] = Folder => /\ \A m \in Places : Inside[m] = n => contents[m] = None
                          /\ \A p \in unfinished : Inside[p.at] # n
  /\ contents' = [contents EXCEPT ![n] = None] /\ Arrange
MovePath(n, m) ==
  /\ contents[n] \notin {None, Folder} /\ contents[m] = None /\ HasHome(m)
  /\ contents' = [contents EXCEPT ![n] = None, ![m] = contents[n]] /\ Arrange
CreateDirectory(n) ==
  /\ contents[n] = None /\ HasHome(n) /\ contents' = [contents EXCEPT ![n] = Folder] /\ Arrange

Calling(j) ==
  \/ \E r \in Requests : Pick(j, r) \/ SaveFile(j, r)
  \/ Connect(j) \/ Challenged(j) \/ HostTrusted(j) \/ ConnectFails(j) \/ Spend(j)
Writing(j) ==
  \/ MakeRoot(j) \/ (\E n \in Places : OpenPart(j, n)) \/ Copied(j) \/ NotCancelled(j)
  \/ RenameHere(j) \/ AskToRename(j) \/ ServerRenames(j) \/ ServerRefuses(j) \/ Renamed(j)
  \/ Finish(j) \/ Fail(j) \/ Preserved(j) \/ CancelExport(j)
Arranging ==
  \E n \in ServerPlaces :
    DeletePath(n) \/ CreateDirectory(n) \/ \E m \in ServerPlaces : MovePath(n, m)
WritesNext ==
  \/ \E j \in Jobs : Calling(j) \/ Writing(j)
  \/ Quit \/ Arranging
  \/ /\ \E g \in DOMAIN grants : Expire(g)
     /\ UNCHANGED <<doing, contents, unfinished, replaced, moves>>

WritesSpec == WritesInit /\ [][WritesNext]_writesVars

-----------------------------------------------------------------------------
\* A call that is refused for its host key has not spent its selection, so that it can
\* be made again (commands/ssh.rs:58); a batch is spent as one (file_grants.rs:37), and
\* what is not used up stays within its limit.
SelectionsHold ==
  /\ \A j \in Jobs :
       \/ doing[j].picked \cap spent = {}
       \/ /\ doing[j].picked \subseteq spent
          /\ doing[j].stage \notin {"asked", "challenged", "session"}
  /\ Cardinality(DOMAIN grants) <= MaxGrants

Requested == [j \in Jobs |-> doing[j].request]
Told == [j \in Jobs |-> doing[j].told]
R == INSTANCE FileReplacement WITH asked <- Requested, told <- Told, Nothing <- None

\* Files are replaced as a whole, once, and as the callers are told (sftp_atomic.rs:62,
\* sftp.rs:514, export_import/mod.rs:36): the steps are those of FileReplacement; and
\* the selections hold for as long as the calls need them.
FilesAreReplacedWhole == R!ReplacementSpec /\ []SelectionsHold
=============================================================================
