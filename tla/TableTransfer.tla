----------------------------- MODULE TableTransfer -----------------------------
(***************************************************************************)
(* The dialogs that export a table to a file (ExportTableDialog.tsx, from  *)
(* the explorer and from the view of the rows) and import a file into it   *)
(* (ImportTableDialog.tsx, from the explorer).  A dialog is taken away     *)
(* when it is closed, but the transfer it began goes on and answers.       *)
(***************************************************************************)
EXTENDS Unset, FiniteSets

CONSTANTS Formats, Files, LargeFiles,
          Scopes,          \* what the view of the rows may export
          MaxDialogs       \* bound on the dialogs opened

Outcomes == {"done", "cancelled", "failed"}
ASSUME OutcomesAssumption == None \notin Outcomes \cup {"rereading"}

VARIABLES
  panel,      \* the dialog that is open
  readings,   \* files being read
  transfers,  \* the calls that are not answered yet, and those that read the tree again
  dialogs,    \* dialogs opened so far
  rowsIn,     \* the files that were imported into the table
  listedRows, \* the files whose rows the tree was read again for
  missed      \* history: files imported by transfers that had been told to cancel

transferVars == <<panel, readings, transfers, dialogs, rowsIn, listedRows, missed>>

PanelKinds == {"export", "export-rows", "import"}
ScopesOf(kind) == IF kind = "export-rows" THEN Scopes ELSE {"all"}
StartPanel(kind, id, scope) ==
  [kind |-> kind, id |-> id, format |-> IF kind = "import" THEN "csv" ELSE "sql", scope |-> scope,
   structure |-> TRUE, data |-> TRUE, file |-> None, busy |-> FALSE]
TransferInit ==
  panel = None /\ readings = {} /\ transfers = {} /\ dialogs = 0 /\ rowsIn = {} /\ listedRows = {} /\ missed = {}

OpenDialog(kind) ==
  /\ panel = None /\ dialogs < MaxDialogs /\ dialogs' = dialogs + 1
  /\ \E scope \in ScopesOf(kind) : panel' = StartPanel(kind, dialogs + 1, scope)
  /\ UNCHANGED <<readings, transfers, rowsIn, listedRows, missed>>
Change(p) == p # panel /\ panel' = p /\ UNCHANGED <<readings, transfers, dialogs, rowsIn, listedRows, missed>>
Exporting == panel # None /\ panel.kind # "import"
\* The file was chosen for another format.
SetFormat(f) == panel # None /\ Change([panel EXCEPT !.format = f, !.file = None])
SetScope(s) == Exporting /\ s \in ScopesOf(panel.kind) /\ Change([panel EXCEPT !.scope = s])
SetStructure == Exporting /\ panel.format = "sql" /\ Change([panel EXCEPT !.structure = ~@])
SetData == Exporting /\ panel.format = "sql" /\ Change([panel EXCEPT !.data = ~@])
\* An export's fields go back to their first values whenever the list of scopes is a
\* new one or rows are selected: the explorer makes a new list each time it is drawn.
ResetFields ==
  /\ Exporting
  /\ \E scope \in ScopesOf(panel.kind) :
       Change([StartPanel(panel.kind, panel.id, scope) EXCEPT !.busy = panel.busy])

ReadFile(f) ==
  /\ panel # None /\ panel.kind = "import" /\ f \notin LargeFiles
  /\ readings' = readings \cup {[id |-> panel.id, file |-> f]}
  /\ UNCHANGED <<panel, transfers, dialogs, rowsIn, listedRows, missed>>
\* The dialog that asked for it takes it, whatever format is set by now; a file that
\* cannot be read changes nothing.
ImportFileRead(r) ==
  /\ readings' = readings \ {r}
  /\ \/ panel' = IF panel # None /\ panel.id = r.id THEN [panel EXCEPT !.file = r.file] ELSE panel
     \/ UNCHANGED panel
  /\ UNCHANGED <<transfers, dialogs, rowsIn, listedRows, missed>>

MaySubmit == IF panel.kind = "import" THEN panel.file # None
             ELSE panel.format = "sql" => panel.structure \/ panel.data
Submit ==
  /\ panel # None /\ ~panel.busy /\ MaySubmit
  /\ panel' = [panel EXCEPT !.busy = TRUE]
  /\ transfers' = transfers \cup {[id |-> panel.id, kind |-> panel.kind, file |-> panel.file,
                                cancelled |-> FALSE, answer |-> None]}
  /\ UNCHANGED <<readings, dialogs, rowsIn, listedRows, missed>>
Becomes(x, answer) == (transfers \ {x}) \cup {[x EXCEPT !.answer = answer]}
TransferEnds(x) ==
  /\ x.answer = None
  /\ \/ (\E a \in {"cancelled", "failed"} : transfers' = Becomes(x, a)) /\ UNCHANGED rowsIn
     \/ /\ transfers' = Becomes(x, "done")
        /\ rowsIn' = IF x.kind = "import" THEN rowsIn \cup {x.file} ELSE rowsIn
  /\ UNCHANGED <<panel, readings, dialogs, listedRows, missed>>
Awaited(x) == panel # None /\ panel.id = x.id
Freed(x) == IF Awaited(x) THEN [panel EXCEPT !.busy = FALSE] ELSE panel
\* The host closes the dialog of the kind that is open, whichever began the transfer.
HostCloses(x) == IF panel # None /\ panel.kind = x.kind THEN None ELSE panel
Told(x) == x.answer = "done" /\ ~x.cancelled
RereadsIfOpen(x) == Told(x) /\ x.kind = "import" /\ Awaited(x)
Rereads(x) == Told(x) /\ x.kind = "import"
\* What was done is told and closes the dialog, but an import has the tree read again
\* first; a transfer that was told to cancel only makes its dialog free again, even if
\* it was done.
TransferAnswered(x) ==
  /\ x.answer \in Outcomes
  /\ IF Rereads(x)
     THEN transfers' = Becomes(x, "rereading") /\ UNCHANGED panel
     ELSE transfers' = transfers \ {x} /\ panel' = IF Told(x) THEN HostCloses(x) ELSE Freed(x)
  /\ missed' = IF x.answer = "done" /\ x.cancelled /\ x.kind = "import" THEN missed \cup {x.file} ELSE missed
  /\ UNCHANGED <<readings, dialogs, rowsIn, listedRows>>
\* The tree shows what is there by now, or why it could not be read; a newer reading
\* takes the place of one that is under way.
TreeReread(x) ==
  /\ x.answer = "rereading" /\ transfers' = transfers \ {x}
  /\ listedRows' = rowsIn /\ panel' = HostCloses(x)
  /\ UNCHANGED <<readings, dialogs, rowsIn, missed>>
\* The button cancels what runs, and closes the dialog when nothing does.
CancelTransfer ==
  /\ panel # None /\ panel.busy
  /\ transfers' = {IF x.id = panel.id THEN [x EXCEPT !.cancelled = TRUE] ELSE x : x \in transfers}
  /\ UNCHANGED <<panel, readings, dialogs, rowsIn, listedRows, missed>>
\* Escape and a press outside close it at any time.
CloseDialog == panel # None /\ Change(None)

TransferNext ==
  \/ SetStructure \/ SetData \/ ResetFields \/ Submit \/ CancelTransfer \/ CloseDialog
  \/ \E kind \in PanelKinds : OpenDialog(kind)
  \/ \E f \in Formats : SetFormat(f)
  \/ \E s \in Scopes : SetScope(s)
  \/ \E f \in Files : ReadFile(f)
  \/ \E r \in readings : ImportFileRead(r)
  \/ \E x \in transfers : TransferEnds(x) \/ TransferAnswered(x) \/ TreeReread(x)

TransferSpec == TransferInit /\ [][TransferNext]_transferVars

-----------------------------------------------------------------------------
\* Rows that were imported are in the tree once the import has been answered, even if
\* its dialog was closed in the meantime; unless the import was told to cancel and was
\* done all the same (ImportTableDialog.tsx:108-117, SidebarOverlays.tsx:156).
ImportsAreShown ==
  \A f \in rowsIn \ listedRows :
    f \in missed \/ \E x \in transfers : x.kind = "import" /\ x.file = f /\ x.answer \in {"done", "rereading"}
=============================================================================
