------------------------------- MODULE SSHFiles ----------------------------
(***************************************************************************)
(* Remote files over SFTP (renderer/components/ssh): the listing of one    *)
(* folder (useSSHFileListing.ts), what the manager does with its entries   *)
(* (SSHFileManager.tsx) and the editor of one file (SSHFileEditor.tsx).    *)
(* Answers come in any order; the server changes only by what is asked.    *)
(*                                                                         *)
(* A path is a sequence of names; the root is <<>>.                        *)
(***************************************************************************)
EXTENDS Unset, FiniteSets, Sequences, SequencesExt

CONSTANTS Remote,       \* file systems to start with: path -> "directory" or text
          FileTexts,
          Dropped,      \* trees that may be dropped on the view
          Edited,       \* the path of the file in the editor
          MaxLists, MaxOps, MaxReads

VARIABLES
  remote,      \* the server
  folder,      \* currentPath
  draftPath,   \* pathDraft while editingPath, else None
  listing,     \* the entries shown, or None: each a path that was a folder or not
  selected,
  lists,       \* requests for a listing: number -> path and answer
  listSeq,     \* requestSeq of the listing
  listError,
  busy,
  running,     \* what runAction runs: each asks, then lists its folder
  dialog,      \* the dialog that is open
  dragging,    \* files are dragged over the view
  filter,      \* the filter hides everything
  ops,
  editor       \* the editor; overlap is history: its last read and a write went on together

fileVars == <<remote, folder, draftPath, listing, selected, lists, listSeq, listError,
              busy, running, dialog, dragging, filter, ops, editor>>
managerVars == <<folder, draftPath, listing, selected, lists, listSeq, listError, busy,
                 running, dialog, dragging, filter, ops>>

Put(f, k, v) == [x \in DOMAIN f \cup {k} |-> IF x = k THEN v ELSE f[x]]
Leaving(f, ks) == [x \in DOMAIN f \ ks |-> f[x]]
IsDir(path) == path = <<>> \/ (path \in DOMAIN remote /\ remote[path] = "directory")
Children(path) == {[path |-> p, dir |-> remote[p] = "directory"] :
                     p \in {q \in DOMAIN remote : q # <<>> /\ Front(q) = path}}
Under(path) == {p \in DOMAIN remote : IsPrefix(path, p)}
Parent(path) == IF path = <<>> THEN None ELSE Front(path)
Quiet == [kind |-> "none"]
NoWrite == [text |-> None, stage |-> "none"]

FilesInit ==
  /\ remote \in Remote
  /\ folder = <<>> /\ draftPath = None /\ listing = None /\ selected = None
  /\ lists = [n \in {1} |-> [path |-> <<>>, answer |-> None]] /\ listSeq = 1 /\ listError = FALSE
  /\ busy = FALSE /\ running = {} /\ dialog = Quiet /\ dragging = FALSE /\ filter = FALSE /\ ops = 0
  /\ editor = [content |-> None, original |-> None, reads |-> [n \in {1} |-> None], seq |-> 1,
               write |-> NoWrite, intent |-> None, failed |-> FALSE, overlap |-> FALSE]

-----------------------------------------------------------------------------
(* The listing                                                             *)

ListLoading == listSeq \in DOMAIN lists
LoadFiles(path) ==
  /\ listSeq < MaxLists /\ listSeq' = listSeq + 1
  /\ lists' = Put(lists, listSeq + 1, [path |-> path, answer |-> None])

\* The entries, or {None} for an error.
ServerLists(n) ==
  /\ lists[n].answer = None
  /\ \E found \in {{None}} \cup {Children(p) : p \in {q \in {lists[n].path} : IsDir(q)}} :
       lists' = [lists EXCEPT ![n].answer = found]
  /\ UNCHANGED <<remote, folder, draftPath, listing, selected, listSeq, listError, busy, running,
                 dialog, dragging, filter, ops, editor>>
\* Only the answer to the last request counts; an error leaves what is shown.
Listed(n) ==
  LET found == lists[n].answer
  IN  /\ found # None /\ lists' = Leaving(lists, {n})
      /\ IF n # listSeq THEN UNCHANGED <<folder, draftPath, listing, selected, listError>>
         ELSE IF found = {None}
         THEN listError' = TRUE /\ UNCHANGED <<folder, draftPath, listing, selected>>
         ELSE /\ listing' = found /\ listError' = FALSE /\ folder' = lists[n].path
              /\ draftPath' = None /\ selected' = None
      /\ UNCHANGED <<remote, listSeq, busy, running, dialog, dragging, filter, ops, editor>>

-----------------------------------------------------------------------------
(* What the toolbar, its menu, the table and the dialogs offer             *)

Disabled == ListLoading \/ busy
Breadcrumbs == {SubSeq(folder, 1, n) : n \in 0..Len(folder)}
ToolbarOffers ==
  {"edit-path", "new-folder"}
  \cup {d \in {"refresh", "upload", "upload-folder"} : ~Disabled}
  \cup {d \in {"download"} : ~Disabled /\ selected # None}
  \cup {d \in {"parent"} : ~Disabled /\ listing # None /\ folder # <<>>}
  \cup {d \in {"open"} : selected # None /\ ~selected.dir}
  \cup {d \in {"move", "delete"} : selected # None}
\* The rows, or the error in their place, or the hint of an empty folder.
TableShows == [rows |-> IF listing = None \/ filter THEN {} ELSE listing,
               failed |-> listError /\ listing = None,
               empty |-> listing = {} \/ filter]
\* The menu of a row does not ask whether anything runs.
EntryMenu(entry) == {"download", "move", "delete"} \cup {d \in {"open"} : ~entry.dir}
NoDialog == dialog.kind = "none"

Navigate(path) ==
  /\ LoadFiles(path)
  /\ UNCHANGED <<remote, folder, draftPath, listing, selected, listError, busy, running, dialog,
                 dragging, filter, ops, editor>>
\* Its key works while a listing is on its way, the button does not.
Refresh == NoDialog /\ ~busy /\ Navigate(folder)
GoParent == NoDialog /\ "parent" \in ToolbarOffers /\ Navigate(Parent(folder))
Retry == NoDialog /\ TableShows.failed /\ Navigate(folder)
Breadcrumb(path) == NoDialog /\ ~Disabled /\ draftPath = None /\ path \in Breadcrumbs /\ Navigate(path)
StartPathEdit ==
  /\ NoDialog /\ draftPath = None /\ draftPath' \in DOMAIN remote \cup {folder}
  /\ UNCHANGED <<remote, folder, listing, selected, lists, listSeq, listError, busy, running, dialog,
                 dragging, filter, ops, editor>>
SubmitPath == NoDialog /\ draftPath # None /\ ~Disabled /\ Navigate(draftPath)
CancelPathEdit ==
  /\ draftPath # None /\ draftPath' = None
  /\ UNCHANGED <<remote, folder, listing, selected, lists, listSeq, listError, busy, running, dialog,
                 dragging, filter, ops, editor>>
SelectEntry(entry) ==
  /\ NoDialog /\ entry \in TableShows.rows /\ selected' = entry
  /\ UNCHANGED <<remote, folder, draftPath, listing, lists, listSeq, listError, busy, running, dialog,
                 dragging, filter, ops, editor>>
\* A double click selects, and opens a folder.
OpenEntry(entry) ==
  /\ NoDialog /\ entry \in TableShows.rows /\ ~Disabled
  /\ selected' = entry
  /\ IF entry.dir THEN LoadFiles(entry.path) ELSE UNCHANGED <<lists, listSeq>>
  /\ UNCHANGED <<remote, folder, draftPath, listing, listError, busy, running, dialog, dragging,
                 filter, ops, editor>>
SetFilter ==
  /\ NoDialog /\ filter' = ~filter
  /\ UNCHANGED <<remote, folder, draftPath, listing, selected, lists, listSeq, listError, busy, running,
                 dialog, dragging, ops, editor>>

-----------------------------------------------------------------------------
(* Actions: the server answers, then the folder at the start is listed     *)

RunAction(what) ==
  /\ ops < MaxOps /\ ops' = ops + 1
  /\ busy' = TRUE /\ running' = running \cup {[what |-> what, at |-> folder, n |-> 0, id |-> ops]}
Chosen == TableShows.rows \cup ({selected} \ {None})
OpenFileDialog(d) ==
  /\ NoDialog /\ dialog' = d
  /\ UNCHANGED <<remote, folder, draftPath, listing, selected, lists, listSeq, listError, busy, running,
                 dragging, filter, ops, editor>>
AskDelete(entry) == entry \in Chosen /\ OpenFileDialog([kind |-> "delete", path |-> entry.path])
AskMove(entry) == entry \in Chosen /\ OpenFileDialog([kind |-> "move", path |-> entry.path])
AskNewFolder == OpenFileDialog([kind |-> "folder", path |-> folder])
\* Their buttons to cancel wait for what runs, but Escape does not; the question
\* whether to move an open file goes back to the form.
DismissDialog ==
  /\ ~NoDialog
  /\ dialog' = IF dialog.kind = "move-open" THEN [kind |-> "move", path |-> dialog.path] ELSE Quiet
  /\ UNCHANGED <<remote, folder, draftPath, listing, selected, lists, listSeq, listError, busy, running,
                 dragging, filter, ops, editor>>
\* The question closes at once, the two forms when an action of theirs has ended well.
ConfirmDelete ==
  /\ dialog.kind = "delete" /\ dialog' = Quiet /\ RunAction([do |-> "delete", path |-> dialog.path])
  /\ UNCHANGED <<remote, folder, draftPath, listing, selected, lists, listSeq, listError,
                 dragging, filter, editor>>
PerformMove(to) ==
  /\ dialog' = [kind |-> "move", path |-> dialog.path]
  /\ RunAction([do |-> "move", path |-> dialog.path, to |-> to])
\* It asks first if an editor of the file has changes that are not saved.
SubmitMove(dir) ==
  /\ dialog.kind = "move" /\ ~busy
  /\ LET to == Append(dir, Last(dialog.path))
     IN  \/ PerformMove(to)
         \/ /\ dialog' = [kind |-> "move-open", path |-> dialog.path, to |-> to]
            /\ UNCHANGED <<busy, running, ops>>
  /\ UNCHANGED <<remote, folder, draftPath, listing, selected, lists, listSeq, listError,
                 dragging, filter, editor>>
ConfirmOpenMove ==
  /\ dialog.kind = "move-open" /\ PerformMove(dialog.to)
  /\ UNCHANGED <<remote, folder, draftPath, listing, selected, lists, listSeq, listError,
                 dragging, filter, editor>>
SubmitFolder(name) ==
  /\ dialog.kind = "folder" /\ ~busy
  /\ RunAction([do |-> "create", path |-> Append(folder, name)])
  /\ UNCHANGED <<remote, folder, draftPath, listing, selected, lists, listSeq, listError, dialog,
                 dragging, filter, editor>>
Download(entry) ==
  /\ NoDialog
  /\ (entry = selected /\ "download" \in ToolbarOffers)
     \/ (entry \in TableShows.rows /\ "download" \in EntryMenu(entry))
  /\ RunAction([do |-> "download", path |-> entry.path])
  /\ UNCHANGED <<remote, folder, draftPath, listing, selected, lists, listSeq, listError, dialog,
                 dragging, filter, editor>>
UploadChosen(entry) ==
  /\ NoDialog
  /\ \/ (IF entry.type = "directory" THEN "upload-folder" ELSE "upload") \in ToolbarOffers
     \/ entry.type = "file" /\ listing = {} /\ ~filter
  /\ RunAction([do |-> "upload", entries |-> {entry}, path |-> folder])
  /\ UNCHANGED <<remote, folder, draftPath, listing, selected, lists, listSeq, listError, dialog,
                 dragging, filter, editor>>
DragOver ==
  /\ ~Disabled /\ dragging' = ~dragging
  /\ UNCHANGED <<remote, folder, draftPath, listing, selected, lists, listSeq, listError, busy, running,
                 dialog, filter, ops, editor>>
\* A tree of files: what cannot be read is left out, and no path goes up twice.
UploadEntries(tree) == {e \in tree : e.type = "directory" \/ e.readable}
DropFiles(tree) ==
  /\ dragging /\ ~Disabled /\ dragging' = FALSE
  /\ RunAction([do |-> "upload", entries |-> UploadEntries(tree), path |-> folder])
  /\ UNCHANGED <<remote, folder, draftPath, listing, selected, lists, listSeq, listError, dialog,
                 filter, editor>>

Uploaded(what) ==
  [p \in DOMAIN remote \cup {what.path \o e.path : e \in what.entries} |->
     IF \E e \in what.entries : p = what.path \o e.path
     THEN LET e == CHOOSE x \in what.entries : p = what.path \o x.path
          IN  IF e.type = "directory" THEN "directory" ELSE "dropped"
     ELSE remote[p]]
Moved(from, to) ==
  LET target(p) == to \o SubSeq(p, Len(from) + 1, Len(p))
  IN  [q \in (DOMAIN remote \ Under(from)) \cup {target(p) : p \in Under(from)} |->
         IF \E p \in Under(from) : q = target(p)
         THEN remote[CHOOSE p \in Under(from) : q = target(p)] ELSE remote[q]]
\* What the server does: all of it, or nothing and an error.
Possible(what) ==
  CASE what.do = "delete" -> what.path \in DOMAIN remote
    [] what.do = "move" -> /\ what.path \in DOMAIN remote /\ what.to \notin DOMAIN remote
                           /\ ~IsPrefix(what.path, what.to) /\ IsDir(Front(what.to))
    [] what.do = "create" -> what.path \notin DOMAIN remote /\ IsDir(Front(what.path))
    [] what.do = "download" -> what.path \in DOMAIN remote
    [] OTHER -> what.entries # {} /\ IsDir(what.path)
Effect(what) ==
  CASE what.do = "delete" -> Leaving(remote, Under(what.path))
    [] what.do = "move" -> Moved(what.path, what.to)
    [] what.do = "create" -> Put(remote, what.path, "directory")
    [] what.do = "upload" -> Uploaded(what)
    [] OTHER -> remote
End(a, b) == busy' = FALSE /\ running' = (running \ {a}) \cup b
FormsOf(do) ==
  CASE do = "move" -> {"move", "move-open"} [] do = "create" -> {"folder"} [] OTHER -> {}
ActionDone(a) ==
  /\ a.n = 0 /\ Possible(a.what)
  /\ remote' = Effect(a.what)
  /\ dialog' = IF dialog.kind \in FormsOf(a.what.do) THEN Quiet ELSE dialog
  /\ IF a.what.do = "download" THEN End(a, {}) /\ UNCHANGED <<lists, listSeq>>
     ELSE LoadFiles(a.at) /\ running' = (running \ {a}) \cup {[a EXCEPT !.n = listSeq + 1]} /\ UNCHANGED busy
  /\ UNCHANGED <<folder, draftPath, listing, selected, listError, dragging, filter, ops, editor>>
\* An error, or a file dialog of the system that was cancelled.
ActionFailed(a) ==
  /\ a.n = 0 /\ End(a, {})
  /\ UNCHANGED <<remote, folder, draftPath, listing, selected, lists, listSeq, listError, dialog,
                 dragging, filter, ops, editor>>
\* It ends when that listing has been answered, in whatever way; the end of the
\* first of two makes the view idle.
ActionListed(a) ==
  /\ a.n # 0 /\ a.n \notin DOMAIN lists /\ End(a, {})
  /\ UNCHANGED <<remote, folder, draftPath, listing, selected, lists, listSeq, listError, dialog,
                 dragging, filter, ops, editor>>

-----------------------------------------------------------------------------
(* The editor                                                              *)

EditorLoading == editor.seq \in DOMAIN editor.reads
Saving == editor.write.stage # "none"
Unsaved == editor.content # editor.original
EditorVars == UNCHANGED managerVars

ServerReads(n) ==
  /\ editor.reads[n] = None /\ Edited \in DOMAIN remote /\ remote[Edited] # "directory"
  /\ editor' = [editor EXCEPT !.reads[n] = remote[Edited]]
  /\ UNCHANGED remote /\ EditorVars
\* The answer to the last request fills the editor.
FileIsRead(n) ==
  /\ editor.reads[n] # None
  /\ editor' = IF n = editor.seq
               THEN [editor EXCEPT !.reads = Leaving(@, {n}), !.content = editor.reads[n],
                                   !.original = editor.reads[n], !.failed = FALSE]
               ELSE [editor EXCEPT !.reads = Leaving(@, {n})]
  /\ UNCHANGED remote /\ EditorVars
ReadFailed(n) ==
  /\ editor' = [editor EXCEPT !.reads = Leaving(@, {n}), !.failed = @ \/ n = editor.seq]
  /\ UNCHANGED remote /\ EditorVars

LoadFile ==
  /\ editor.seq < MaxReads
  /\ editor' = [editor EXCEPT !.seq = @ + 1, !.reads = Put(@, editor.seq + 1, None),
                              !.failed = FALSE, !.intent = None,
                              !.overlap = Saving]
\* The menu offers to reload while a save runs too; the shortcut does not.
ReloadFile ==
  /\ editor.intent = None
  /\ IF Unsaved THEN editor' = [editor EXCEPT !.intent = "reload"] ELSE LoadFile
  /\ UNCHANGED remote /\ EditorVars
DiscardChanges ==
  /\ editor.intent = "reload" /\ LoadFile
  /\ UNCHANGED remote /\ EditorVars
KeepChanges ==
  /\ editor.intent # None /\ editor' = [editor EXCEPT !.intent = None]
  /\ UNCHANGED remote /\ EditorVars
TypeText(text) ==
  /\ editor.intent = None /\ ~EditorLoading /\ ~Saving
  /\ editor.content # None /\ editor.content # text
  /\ editor' = [editor EXCEPT !.content = text]
  /\ UNCHANGED remote /\ EditorVars
\* Its button waits for a reload, its key does not.
SaveFile ==
  /\ ~Saving /\ Unsaved /\ editor.intent = None
  /\ editor' = [editor EXCEPT !.write = [text |-> editor.content, stage |-> "asked"], !.failed = FALSE,
                              !.overlap = EditorLoading]
  /\ UNCHANGED remote /\ EditorVars
ServerWrites ==
  /\ editor.write.stage = "asked"
  /\ remote' = Put(remote, Edited, editor.write.text)
  /\ editor' = [editor EXCEPT !.write.stage = "done"]
  /\ EditorVars
FileWritten ==
  /\ editor.write.stage = "done"
  /\ editor' = [editor EXCEPT !.write = NoWrite, !.original = editor.write.text]
  /\ UNCHANGED remote /\ EditorVars
\* The error may come although the server has written.
WriteFailed ==
  /\ Saving /\ editor' = [editor EXCEPT !.write = NoWrite, !.failed = TRUE]
  /\ UNCHANGED remote /\ EditorVars

-----------------------------------------------------------------------------
Listings == \E n \in DOMAIN lists : ServerLists(n) \/ Listed(n)
Navigation ==
  \/ Refresh \/ GoParent \/ Retry \/ StartPathEdit \/ SubmitPath \/ CancelPathEdit \/ SetFilter
  \/ \E p \in Breadcrumbs : Breadcrumb(p)
  \/ \E e \in TableShows.rows : SelectEntry(e) \/ OpenEntry(e)
FileActions ==
  \/ \E e \in Chosen : AskDelete(e) \/ AskMove(e) \/ Download(e)
  \/ AskNewFolder \/ DismissDialog \/ ConfirmDelete \/ ConfirmOpenMove
  \/ (\E d \in {q \in DOMAIN remote : IsDir(q)} \cup {<<>>} : SubmitMove(d)) \/ SubmitFolder("new")
  \/ (\E tree \in Dropped : \E e \in tree : UploadChosen(e))
  \/ DragOver \/ (\E tree \in Dropped : DropFiles(tree))
  \/ \E a \in running : ActionDone(a) \/ ActionFailed(a) \/ ActionListed(a)
Editing ==
  \/ \E n \in DOMAIN editor.reads : ServerReads(n) \/ FileIsRead(n) \/ ReadFailed(n)
  \/ ReloadFile \/ DiscardChanges \/ KeepChanges \/ (\E text \in FileTexts : TypeText(text))
  \/ SaveFile \/ ServerWrites \/ FileWritten \/ WriteFailed
\* The manager and the editor of one connection are two tabs; what one does the
\* other sees only at the server.
FilesNext == Listings \/ Navigation \/ FileActions
EditorNext == Editing
FilesSpec == FilesInit /\ [][FilesNext]_fileVars
EditorSpec == FilesInit /\ [][EditorNext]_fileVars

-----------------------------------------------------------------------------
\* An editor that says "saved" shows what the server has: of overlapping reloads
\* the last one fills it, and a save is not undone by an older read.  Not if a
\* reload and a save were on their way together, nor after a failed write, which
\* may have been done (SSHFileEditor.tsx:113, 125, 146, 182).
SavedShowsTheFile ==
  ~Unsaved /\ ~EditorLoading /\ ~Saving /\ ~editor.overlap /\ ~editor.failed
    => editor.content = remote[Edited]

\* The rows on show are those of the folder that the path names, and what is selected
\* is among them, however many listings are on their way (useSSHFileListing.ts:28).
RowsAreOfTheFolder ==
  /\ listing # None => \A e \in listing : Front(e.path) = folder
  /\ selected # None => listing # None /\ selected \in listing
=============================================================================
