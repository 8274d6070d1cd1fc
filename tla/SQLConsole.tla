------------------------------ MODULE SQLConsole ------------------------------
(***************************************************************************)
(* The SQL console of a database (components/sql/SQLQueryView.tsx): the    *)
(* text and what is selected of it, one statement at a time that may be    *)
(* cancelled, the results (SQLResultPanel.tsx), and a history that lasts   *)
(* as long as the window.                                                  *)
(***************************************************************************)
EXTENDS Unset, Sequences, SequencesExt

CONSTANTS Statements,   \* what may be typed, selected or loaded
          Placeholder, Empty,
          DriverAnswers,  \* what the driver may answer
          CanExplain,
          MaxHistory,   \* 20 in the code
          MaxRuns       \* bound on the statements run

VARIABLES
  console,     \* the tab: open, what it asks, what is folded
  text, selectedSQL,
  sqlResult, error,
  op,          \* operationRef: the statement under way
  statements,  \* the calls that are not answered yet
  cancels,     \* the cancellations that are not answered yet
  files,       \* files being read
  history,     \* sessionHistory
  ran          \* statements run so far

resultVars == <<sqlResult, error>>
inputVars == <<text, selectedSQL, files>>
runVars == <<op, statements, cancels, ran>>
consoleVars == <<console, history, resultVars, inputVars, runVars>>

ClosedConsole == [open |-> FALSE, discard |-> FALSE, historyOpen |-> FALSE, folded |-> FALSE]
ConsoleInit ==
  /\ console = [ClosedConsole EXCEPT !.open = TRUE]
  /\ text = Placeholder /\ selectedSQL = Empty /\ sqlResult = None /\ error = None
  /\ op = None /\ statements = {} /\ cancels = {} /\ files = {} /\ history = <<>> /\ ran = 0

-----------------------------------------------------------------------------
(* normalizeResult                                                         *)

\* A part of an answer has rows or says how many rows it changed.
OfPart(p) == IF p.shape = "affected" THEN "mutation" ELSE IF p.rows = 0 THEN "empty" ELSE "rows"
\* A list of rows, of lists of rows or of changes.
OfList(parts) ==
  IF parts = <<>> THEN "empty"
  ELSE IF \A i \in DOMAIN parts : parts[i].shape = "affected" THEN "batch" ELSE "rows"
\* Of several results the first with rows is shown; what has none of these shapes
\* says only that it was done.
Normalize(raw) ==
  LET withRows == {i \in DOMAIN raw.parts : raw.parts[i].shape = "rows"}
  IN  CASE raw.shape \in {"rows", "affected"} -> OfPart(raw)
        [] raw.shape = "list" -> OfList(raw.parts)
        [] raw.shape = "results" ->
             IF withRows = {} THEN OfList(raw.parts)
             ELSE OfPart(raw.parts[CHOOSE i \in withRows : \A j \in withRows : i <= j])
        [] OTHER -> "empty"

-----------------------------------------------------------------------------
(* Typing                                                                  *)

\* Both dialogs are modal.
Here == console.open /\ ~console.discard /\ ~console.historyOpen
\* The editor selects nothing of a text that takes the place of another.
SetSQL(s) == text' = s /\ selectedSQL' = IF s = text THEN selectedSQL ELSE Empty
Type(s) == /\ Here /\ SetSQL(s)
           /\ UNCHANGED <<console, files, history>> /\ UNCHANGED resultVars /\ UNCHANGED runVars
Select(s) == /\ Here /\ text # Empty /\ selectedSQL' = s
             /\ UNCHANGED <<console, text, files, history>> /\ UNCHANGED resultVars /\ UNCHANGED runVars
\* A file may be dropped at any time, and is shown when it has been read, if it can
\* be.  The tab may be hidden by then, and without an editor keeps its selection.
DropFile(s) == /\ Here /\ files' = files \cup {s}
               /\ UNCHANGED <<console, text, selectedSQL, history>> /\ UNCHANGED resultVars /\ UNCHANGED runVars
FileRead(s) == /\ files' = files \ {s}
               /\ \/ SetSQL(s)
                  \/ text' = s /\ UNCHANGED selectedSQL
                  \/ UNCHANGED <<text, selectedSQL>>
               /\ UNCHANGED <<console, history>> /\ UNCHANGED resultVars /\ UNCHANGED runVars
Reset == op = None /\ Type(Placeholder)

-----------------------------------------------------------------------------
(* Running                                                                 *)

\* Nothing is run while a statement is under way.
Run(kind, s) ==
  /\ op = None /\ s # Empty /\ ran < MaxRuns /\ ran' = ran + 1
  /\ op' = [id |-> ran + 1, cancelled |-> FALSE, cancelling |-> FALSE]
  /\ statements' = statements \cup {[id |-> ran + 1, kind |-> kind, sql |-> s, answer |-> None]}
  /\ error' = None /\ console' = [console EXCEPT !.folded = FALSE, !.historyOpen = FALSE]
  /\ UNCHANGED <<sqlResult, cancels, history>> /\ UNCHANGED inputVars
WhatToRun == IF selectedSQL # Empty THEN selectedSQL ELSE text
RunSQL == Here /\ Run("sql", WhatToRun)
RunSelection == Here /\ selectedSQL # Empty /\ Run("sql", selectedSQL)
RunExplain == Here /\ CanExplain /\ Run("explain", WhatToRun)
Serve(c) ==
  /\ c.answer = None
  /\ \E a \in {[ok |-> TRUE, raw |-> r] : r \in DriverAnswers} \cup {[ok |-> FALSE]} :
       statements' = (statements \ {c}) \cup {[c EXCEPT !.answer = a]}
  /\ UNCHANGED <<console, op, cancels, history, ran>> /\ UNCHANGED resultVars /\ UNCHANGED inputVars
\* The newest first, each once.
Remember(s) ==
  LET entries == <<s>> \o Remove(history, s)
  IN  SubSeq(entries, 1, IF Len(entries) < MaxHistory THEN Len(entries) ELSE MaxHistory)
NeverStale(c) == FALSE
Stale(c) == op = None \/ op.id # c.id \/ op.cancelled
Answered(c) ==
  /\ c.answer # None /\ statements' = statements \ {c}
  /\ op' = IF op # None /\ op.id = c.id THEN None ELSE op
  /\ IF Stale(c) THEN UNCHANGED <<sqlResult, error, history>>
     ELSE IF c.answer.ok
     THEN /\ sqlResult' = [of |-> c.id, kind |-> IF c.kind = "explain" THEN "explain" ELSE Normalize(c.answer.raw)]
          /\ history' = Remember(c.sql) /\ UNCHANGED error
     ELSE error' = c.id /\ UNCHANGED <<sqlResult, history>>
  /\ UNCHANGED <<console, cancels, ran>> /\ UNCHANGED inputVars
\* The button stays off until the cancellation is answered, even if another
\* statement runs by then.  A statement that was cancelled stays so, even if it is
\* cancelled again and that fails.
CancelOperation ==
  /\ Here /\ op # None /\ cancels = {}
  /\ cancels' = {op.id} /\ op' = [op EXCEPT !.cancelling = TRUE]
  /\ UNCHANGED <<console, statements, history, ran>> /\ UNCHANGED resultVars /\ UNCHANGED inputVars
CancelAnswered(id) ==
  /\ cancels' = cancels \ {id}
  /\ \E ok \in BOOLEAN :
       op' = IF op # None /\ op.id = id THEN [op EXCEPT !.cancelling = FALSE, !.cancelled = @ \/ ok] ELSE op
  /\ UNCHANGED <<console, statements, history, ran>> /\ UNCHANGED resultVars /\ UNCHANGED inputVars

-----------------------------------------------------------------------------
(* The history and the tab                                                 *)

Turn(c) == /\ c # console /\ console' = c
           /\ UNCHANGED history /\ UNCHANGED resultVars /\ UNCHANGED inputVars /\ UNCHANGED runVars
InHistory == console.open /\ ~console.discard /\ console.historyOpen
OpenHistory == Here /\ history # <<>> /\ Turn([console EXCEPT !.historyOpen = TRUE])
CloseHistory == InHistory /\ Turn([console EXCEPT !.historyOpen = FALSE])
ToggleResults == console.open /\ Turn([console EXCEPT !.folded = ~@])
LoadHistory(i) ==
  /\ InHistory /\ i \in DOMAIN history
  /\ SetSQL(history[i]) /\ console' = [console EXCEPT !.historyOpen = FALSE]
  /\ UNCHANGED <<files, history>> /\ UNCHANGED resultVars /\ UNCHANGED runVars
\* While a statement is under way it only closes the dialog.
RunFromHistory(i) ==
  /\ InHistory /\ i \in DOMAIN history
  /\ IF op = None THEN Run("sql", history[i]) ELSE Turn([console EXCEPT !.historyOpen = FALSE])
ClearHistory ==
  /\ (Here \/ InHistory) /\ history # <<>> /\ history' = <<>>
  /\ UNCHANGED console /\ UNCHANGED resultVars /\ UNCHANGED inputVars /\ UNCHANGED runVars
\* A tab that goes cancels what runs; what it held is gone.
Leave ==
  /\ console' = ClosedConsole /\ op' = None
  /\ text' = Placeholder /\ selectedSQL' = Empty /\ sqlResult' = None /\ error' = None
  /\ cancels' = {} /\ files' = {}
  /\ UNCHANGED <<statements, history, ran>>
CloseConsole == console.open /\ text = Placeholder /\ Leave
AskToDiscard == console.open /\ text # Placeholder /\ Turn([console EXCEPT !.discard = TRUE])
\* The database was dropped or the connection closed; its tabs are not asked.
TakenAway == console.open /\ Leave
KeepText == console.discard /\ Turn([console EXCEPT !.discard = FALSE])
DiscardText == console.discard /\ Leave
OpenConsole == ~console.open /\ Turn([ClosedConsole EXCEPT !.open = TRUE])

ConsoleNext ==
  \/ Reset \/ RunSQL \/ RunSelection \/ RunExplain \/ CancelOperation
  \/ OpenHistory \/ CloseHistory \/ ToggleResults \/ ClearHistory
  \/ CloseConsole \/ TakenAway \/ AskToDiscard \/ KeepText \/ DiscardText \/ OpenConsole
  \/ \E s \in Statements : Type(s) \/ DropFile(s)
  \/ \E s \in Statements \cup {Empty} : Select(s)
  \/ \E s \in files : FileRead(s)
  \/ \E c \in statements : Serve(c) \/ Answered(c)
  \/ \E id \in cancels : CancelAnswered(id)
  \/ \E i \in 1..MaxHistory : RunFromHistory(i) \/ LoadHistory(i)

ConsoleSpec == ConsoleInit /\ [][ConsoleNext]_consoleVars

-----------------------------------------------------------------------------
\* The results are never those of a statement that came before the one whose failure
\* is shown or that still runs in this console: answers are taken in the order of the
\* runs, whichever arrives first (SQLQueryView.tsx:219-257).
ResultsAreInOrder ==
  /\ sqlResult # None /\ error # None => sqlResult.of < error
  /\ sqlResult # None /\ op # None => sqlResult.of < op.id
=============================================================================
