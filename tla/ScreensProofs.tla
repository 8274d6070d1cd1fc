----------------------------- MODULE ScreensProofs -----------------------------
(***************************************************************************)
(* Theorems of the screens that work through requests of their own: the    *)
(* dialogs that export and import a table (TableTransfer), the SQL console *)
(* (SQLConsole), the views of a remote shell and of remote files           *)
(* (SSHTerminal, SSHFiles), and of the workspace that holds them           *)
(* (Workspace), for any inputs, sizes and numbers of requests and          *)
(* documents.                                                              *)
(***************************************************************************)
EXTENDS TableTransfer, SQLConsole, SSHTerminal, SSHFiles, Workspace, FiniteSetTheorems,
        SequenceTheorems, TLAPS

-----------------------------------------------------------------------------
(* Export and import: types                                                *)

Panel == [kind : PanelKinds, id : Nat, format : Formats \cup {"csv", "sql"},
          scope : Scopes \cup {"all"}, structure : BOOLEAN, data : BOOLEAN,
          file : Files \cup {None}, busy : BOOLEAN]
Transfer == [id : Nat, kind : PanelKinds, file : Files \cup {None}, cancelled : BOOLEAN,
             answer : Outcomes \cup {"rereading", None}]

\* What the dialog, the files being read and the calls under way are.
TransferTypes ==
  /\ panel \in Panel \cup {None}
  /\ readings \subseteq [id : Nat, file : Files]
  /\ transfers \subseteq Transfer
  /\ dialogs \in Nat

LEMMA StartPanelType ==
  ASSUME NEW kind \in PanelKinds, NEW id \in Nat, NEW scope \in ScopesOf(kind)
  PROVE  StartPanel(kind, id, scope) \in Panel
BY DEF StartPanel, Panel, ScopesOf

LEMMA BecomesType ==
  ASSUME transfers \subseteq Transfer, NEW x \in transfers, NEW a \in Outcomes \cup {"rereading"}
  PROVE  Becomes(x, a) \subseteq Transfer
BY DEF Becomes, Transfer

LEMMA TransferTypesStep ==
  ASSUME TransferTypes, [TransferNext]_transferVars
  PROVE  TransferTypes'
<1> USE DEF TransferTypes
<1>1. CASE UNCHANGED transferVars
  BY <1>1 DEF transferVars
<1>2. ASSUME NEW kind \in PanelKinds, OpenDialog(kind) PROVE TransferTypes'
  BY <1>2, StartPanelType DEF OpenDialog
<1>3. CASE SetStructure \/ SetData
  BY <1>3 DEF SetStructure, SetData, Exporting, Change, Panel
<1>4. ASSUME NEW f \in Formats, SetFormat(f) PROVE TransferTypes'
  BY <1>4 DEF SetFormat, Change, Panel
<1>5. ASSUME NEW s \in Scopes, SetScope(s) PROVE TransferTypes'
  BY <1>5 DEF SetScope, Exporting, Change, Panel
<1>6. CASE ResetFields
  <2>1. panel \in Panel
    BY <1>6 DEF ResetFields, Exporting
  <2>2. PICK scope \in ScopesOf(panel.kind) :
          Change([StartPanel(panel.kind, panel.id, scope) EXCEPT !.busy = panel.busy])
    BY <1>6 DEF ResetFields
  <2>3. StartPanel(panel.kind, panel.id, scope) \in Panel
    BY <2>1, <2>2, StartPanelType DEF Panel
  <2>4. [StartPanel(panel.kind, panel.id, scope) EXCEPT !.busy = panel.busy] \in Panel
    BY <2>1, <2>3 DEF Panel
  <2> QED
    BY <2>2, <2>4 DEF Change
<1>7. ASSUME NEW f \in Files, ReadFile(f) PROVE TransferTypes'
  BY <1>7 DEF ReadFile, Panel
<1>8. ASSUME NEW r \in readings, ImportFileRead(r) PROVE TransferTypes'
  BY <1>8 DEF ImportFileRead, Panel
<1>9. CASE Submit
  <2>1. [id |-> panel.id, kind |-> panel.kind, file |-> panel.file,
         cancelled |-> FALSE, answer |-> None] \in Transfer
    BY <1>9 DEF Submit, Panel, Transfer
  <2>2. [panel EXCEPT !.busy = TRUE] \in Panel
    BY <1>9 DEF Submit, Panel
  <2> QED
    BY <1>9, <2>1, <2>2 DEF Submit
<1>10. ASSUME NEW x \in transfers, TransferEnds(x) PROVE TransferTypes'
  BY <1>10, BecomesType DEF TransferEnds, Outcomes
<1>11. ASSUME NEW x \in transfers, TransferAnswered(x) \/ TreeReread(x) PROVE TransferTypes'
  <2>1. HostCloses(x) \in Panel \cup {None} /\ Freed(x) \in Panel \cup {None}
    BY DEF HostCloses, Freed, Awaited, Panel
  <2> QED
    BY <1>11, <2>1, BecomesType DEF TransferAnswered, TreeReread, Outcomes
<1>12. CASE CancelTransfer
  BY <1>12 DEF CancelTransfer, Transfer
<1>13. CASE CloseDialog
  BY <1>13 DEF CloseDialog, Change
<1> QED
  BY <1>1, <1>2, <1>3, <1>4, <1>5, <1>6, <1>7, <1>8, <1>9, <1>10, <1>11, <1>12, <1>13
  DEF TransferNext

-----------------------------------------------------------------------------
(* Export and import: what was imported                                    *)

LEMMA ImportsStep ==
  ASSUME TransferTypes, ImportsAreShown, [TransferNext]_transferVars
  PROVE  ImportsAreShown'
<1> DEFINE Owed(x, f) == x.kind = "import" /\ x.file = f /\ x.answer \in {"done", "rereading"}
<1> SUFFICES ASSUME NEW f \in (rowsIn \ listedRows)', f \notin missed'
             PROVE  \E x \in transfers' : Owed(x, f)
  BY DEF ImportsAreShown
<1>1. ASSUME UNCHANGED <<transfers, rowsIn, listedRows, missed>>
      PROVE  \E x \in transfers' : Owed(x, f)
  BY <1>1 DEF ImportsAreShown
<1>2. CASE Submit
  BY <1>2 DEF Submit, ImportsAreShown
\* A new answer leaves the answers that are there, and is the one that is owed if the
\* file was not imported before.
<1>3. ASSUME NEW x \in transfers, TransferEnds(x) PROVE \E y \in transfers' : Owed(y, f)
  <2>1. x.answer \notin {"done", "rereading"}
    BY <1>3, OutcomesAssumption DEF TransferEnds, Outcomes
  <2>2. CASE f \in rowsIn
    <3>1. PICK y \in transfers : Owed(y, f)
      BY <1>3, <2>2 DEF TransferEnds, ImportsAreShown
    <3>2. y \in transfers'
      BY <1>3, <2>1, <3>1 DEF TransferEnds, Becomes
    <3> QED
      BY <3>1, <3>2
  <2>3. CASE f \notin rowsIn
    <3> DEFINE y == [x EXCEPT !.answer = "done"]
    <3>1. y \in transfers' /\ x.kind = "import" /\ x.file = f
      BY <1>3, <2>3 DEF TransferEnds, Becomes
    <3>2. Owed(y, f)
      BY <3>1 DEF TransferTypes, Transfer
    <3> QED
      BY <3>1, <3>2
  <2> QED
    BY <2>2, <2>3
\* An answer that is told has the tree read again; one that is not leaves its file
\* among those missed.
<1>4. ASSUME NEW x \in transfers, TransferAnswered(x) PROVE \E y \in transfers' : Owed(y, f)
  <2>1. PICK y \in transfers : Owed(y, f)
    BY <1>4 DEF TransferAnswered, Outcomes, ImportsAreShown
  <2>2. CASE y # x
    BY <1>4, <2>1, <2>2 DEF TransferAnswered, Becomes
  <2>3. CASE y = x
    <3>1. x.answer = "done" /\ Rereads(x)
      BY <1>4, <2>1, <2>3 DEF TransferAnswered, Outcomes, Rereads, Told
    <3> DEFINE z == [x EXCEPT !.answer = "rereading"]
    <3>2. z \in transfers'
      BY <1>4, <3>1 DEF TransferAnswered, Becomes
    <3>3. Owed(z, f)
      BY <2>1, <2>3 DEF TransferTypes, Transfer
    <3> QED
      BY <3>2, <3>3
  <2> QED
    BY <2>2, <2>3
<1>5. ASSUME NEW x \in transfers, TreeReread(x) PROVE \E y \in transfers' : Owed(y, f)
  BY <1>5 DEF TreeReread
<1>6. CASE CancelTransfer
  <2>1. PICK y \in transfers : Owed(y, f)
    BY <1>6 DEF CancelTransfer, ImportsAreShown
  <2> DEFINE z == IF y.id = panel.id THEN [y EXCEPT !.cancelled = TRUE] ELSE y
  <2>2. z \in transfers'
    BY <1>6, <2>1 DEF CancelTransfer
  <2>3. Owed(z, f)
    BY <2>1 DEF TransferTypes, Transfer
  <2> QED
    BY <2>2, <2>3
<1>7. CASE \/ SetStructure \/ SetData \/ ResetFields \/ CloseDialog
           \/ \E kind \in PanelKinds : OpenDialog(kind)
           \/ \E g \in Formats : SetFormat(g)
           \/ \E s \in Scopes : SetScope(s)
           \/ \E g \in Files : ReadFile(g)
           \/ \E r \in readings : ImportFileRead(r)
  BY <1>1, <1>7 DEF SetStructure, SetData, ResetFields, CloseDialog, Change, OpenDialog, SetFormat,
     SetScope, ReadFile, ImportFileRead
<1> QED
  BY <1>1, <1>2, <1>3, <1>4, <1>5, <1>6, <1>7 DEF TransferNext, transferVars

\* Whatever dialogs are closed and opened while imports are under way, and in whatever
\* order these are answered, the rows of each file are read again once its import was
\* answered, unless that import had been told to cancel (ImportTableDialog.tsx:108).
THEOREM ImportsShown == TransferSpec => []ImportsAreShown
<1>1. TransferInit => TransferTypes /\ ImportsAreShown
  BY DEF TransferInit, TransferTypes, ImportsAreShown
<1>2. TransferTypes /\ ImportsAreShown /\ [TransferNext]_transferVars
      => TransferTypes' /\ ImportsAreShown'
  BY TransferTypesStep, ImportsStep
<1> QED
  BY <1>1, <1>2, PTL DEF TransferSpec

-----------------------------------------------------------------------------
(* The console                                                             *)

Operation == [id : Nat, cancelled : BOOLEAN, cancelling : BOOLEAN]

\* Runs are numbered as they begin; while one is under way there is no error, and the
\* results are of an earlier one.
Numbered ==
  /\ ran \in Nat
  /\ op # None => op \in Operation /\ op.id <= ran /\ error = None
  /\ sqlResult # None => sqlResult.of \in Nat /\ sqlResult.of <= ran
  /\ error # None => error \in Nat
Ordered == Numbered /\ ResultsAreInOrder

LEMMA KeepsOrder ==
  ASSUME Ordered, UNCHANGED <<resultVars, op, ran>>
  PROVE  Ordered'
BY DEF Ordered, Numbered, ResultsAreInOrder, resultVars

\* A run has a number of its own, above that of any result.
LEMMA RunKeepsOrder ==
  ASSUME Ordered, NEW kind, NEW s, Run(kind, s)
  PROVE  Ordered'
<1>1. op' \in Operation /\ op'.id = ran + 1 /\ ran' = ran + 1
  BY DEF Run, Operation, Ordered, Numbered
<1>2. error' = None /\ sqlResult' = sqlResult
  BY DEF Run
<1> QED
  BY <1>1, <1>2 DEF Ordered, Numbered, ResultsAreInOrder

\* Only the answer of the run under way is taken, and it ends the run.
LEMMA AnsweredKeepsOrder ==
  ASSUME Ordered, NEW c \in statements, Answered(c)
  PROVE  Ordered'
<1> USE DEF Ordered, Numbered, ResultsAreInOrder
<1>1. ran' = ran /\ op' = IF op # None /\ op.id = c.id THEN None ELSE op
  BY DEF Answered
<1>2. CASE Stale(c)
  <2>1. sqlResult' = sqlResult /\ error' = error
    BY <1>2 DEF Answered
  <2> QED
    BY <1>1, <2>1
<1>3. CASE ~Stale(c)
  <2>1. op # None /\ op.id = c.id /\ op' = None /\ op \in Operation
    BY <1>1, <1>3 DEF Stale
  <2>2. c.id \in Nat /\ c.id <= ran /\ error = None
    BY <2>1 DEF Operation
  <2>3. CASE c.answer.ok
    <3>1. error' = error /\ (sqlResult' # None => sqlResult'.of = c.id)
      BY <1>3, <2>3 DEF Answered
    <3> QED
      BY <1>1, <2>1, <2>2, <3>1
  <2>4. CASE ~c.answer.ok
    <3>1. error' = c.id /\ sqlResult' = sqlResult
      BY <1>3, <2>4 DEF Answered
    <3> QED
      BY <1>1, <2>1, <2>2, <3>1
  <2> QED
    BY <2>3, <2>4
<1> QED
  BY <1>2, <1>3

\* A cancellation changes what becomes of the answer, not which run it is.
LEMMA CancelKeepsOrder ==
  ASSUME Ordered, CancelOperation \/ \E id \in cancels : CancelAnswered(id)
  PROVE  Ordered'
<1> USE DEF Ordered, Numbered, ResultsAreInOrder
<1>1. sqlResult' = sqlResult /\ error' = error /\ ran' = ran
  BY DEF CancelOperation, CancelAnswered, resultVars
<1>2. CASE CancelOperation
  <2>1. op # None /\ op \in Operation /\ op' = [op EXCEPT !.cancelling = TRUE]
    BY <1>2 DEF CancelOperation
  <2>2. op' \in Operation /\ op'.id = op.id
    BY <2>1 DEF Operation
  <2> QED
    BY <1>1, <2>1, <2>2
<1>3. ASSUME NEW id \in cancels, CancelAnswered(id) PROVE Ordered'
  <2>1. PICK ok \in BOOLEAN :
          op' = IF op # None /\ op.id = id
                THEN [op EXCEPT !.cancelling = FALSE, !.cancelled = op.cancelled \/ ok] ELSE op
    BY <1>3 DEF CancelAnswered
  <2>2. op' # None => op # None /\ op' \in Operation /\ op'.id = op.id
    <3>1. op # None => op \in Operation /\ (op.cancelled \/ ok) \in BOOLEAN
      BY DEF Operation
    <3> QED
      BY <2>1, <3>1 DEF Operation
  <2> QED
    BY <1>1, <2>2
<1> QED
  BY <1>2, <1>3

LEMMA OrderedStep == ASSUME Ordered, [ConsoleNext]_consoleVars PROVE Ordered'
<1> USE DEF runVars, inputVars
<1>1. CASE UNCHANGED consoleVars
  BY <1>1, KeepsOrder DEF consoleVars
<1>2. CASE RunSQL \/ RunSelection \/ RunExplain
  BY <1>2, RunKeepsOrder DEF RunSQL, RunSelection, RunExplain
<1>3. CASE \E i \in 1..MaxHistory : RunFromHistory(i)
  BY <1>3, RunKeepsOrder, KeepsOrder DEF RunFromHistory, Turn
<1>4. CASE \E c \in statements : Answered(c)
  BY <1>4, AnsweredKeepsOrder
<1>5. CASE CancelOperation \/ \E id \in cancels : CancelAnswered(id)
  BY <1>5, CancelKeepsOrder
<1>6. CASE CloseConsole \/ TakenAway \/ DiscardText
  BY <1>6 DEF CloseConsole, TakenAway, DiscardText, Leave, Ordered, Numbered, ResultsAreInOrder
<1>7. CASE \/ Reset
           \/ \E s \in Statements : Type(s) \/ DropFile(s)
           \/ \E s \in Statements \cup {Empty} : Select(s)
           \/ \E s \in files : FileRead(s)
           \/ \E c \in statements : Serve(c)
  BY <1>7, KeepsOrder DEF Reset, Type, Select, DropFile, FileRead, Serve
<1>8. CASE OpenHistory \/ CloseHistory \/ ToggleResults \/ AskToDiscard \/ KeepText \/ OpenConsole
  BY <1>8, KeepsOrder DEF OpenHistory, CloseHistory, ToggleResults, AskToDiscard, KeepText,
     OpenConsole, Turn
<1>9. CASE ClearHistory \/ \E i \in 1..MaxHistory : LoadHistory(i)
  BY <1>9, KeepsOrder DEF ClearHistory, LoadHistory
<1> QED
  BY <1>1, <1>2, <1>3, <1>4, <1>5, <1>6, <1>7, <1>8, <1>9 DEF ConsoleNext

\* Whatever is run, cancelled, closed and opened again, and in whatever order the
\* statements are answered, the results are of a statement before the one whose failure
\* is shown or that runs (SQLQueryView.tsx:219).
THEOREM ResultsOrdered == ConsoleSpec => []ResultsAreInOrder
<1>1. ConsoleInit => Ordered
  BY DEF ConsoleInit, Ordered, Numbered, ResultsAreInOrder
<1>2. Ordered /\ [ConsoleNext]_consoleVars => Ordered'
  BY OrderedStep
<1>3. Ordered => ResultsAreInOrder
  BY DEF Ordered
<1> QED
  BY <1>1, <1>2, <1>3, PTL DEF ConsoleSpec

-----------------------------------------------------------------------------
(* The shells                                                              *)

\* What is on its way belongs to generations that were begun, and what is known of a
\* shell agrees with what was answered.
Accounted ==
  /\ gen \in Nat
  /\ DOMAIN asks \subseteq 1..gen /\ DOMAIN shells \subseteq 1..gen
  /\ \A g \in DOMAIN asks : g \in DOMAIN shells <=> asks[g] = "ready"
  /\ closes \subseteq DOMAIN shells
  /\ \A g \in exits : g \in DOMAIN shells /\ shells[g] = "ended"

\* A session is that of the newest generation, which waits for no answer any more.
Newest ==
  session # None => mounted /\ session = gen /\ gen \in DOMAIN shells \ DOMAIN asks

-----------------------------------------------------------------------------
(* The shells: the generations                                             *)

LEMMA AccountedStep ==
  ASSUME Accounted, Newest, [TermNext]_termVars
  PROVE  Accounted' /\ Newest'
<1> USE DEF Accounted, Newest
<1>1. CASE UNCHANGED termVars
  BY <1>1 DEF termVars
<1>2. ASSUME NEW g \in 1..gen, OpenShell(g) PROVE Accounted' /\ Newest'
  BY <1>2 DEF OpenShell, TermPut
<1>3. ASSUME NEW g \in 1..gen, RefuseShell(g) PROVE Accounted' /\ Newest'
  BY <1>3 DEF RefuseShell
<1>4. ASSUME NEW g \in 1..gen, ShellEnds(g) \/ CloseShell(g) PROVE Accounted' /\ Newest'
  BY <1>4 DEF ShellEnds, CloseShell
<1>5. ASSUME NEW g \in 1..gen, ShellAnswered(g) PROVE Accounted' /\ Newest'
  BY <1>5 DEF ShellAnswered
<1>6. ASSUME NEW g \in 1..gen, Refused(g) \/ Exited(g) PROVE Accounted' /\ Newest'
  BY <1>6 DEF Refused, Exited
<1>7. CASE Reconnect
  BY <1>7 DEF Reconnect, Dispose, TermPut
<1>8. CASE Unmount
  BY <1>8 DEF Unmount, Dispose
<1>9. CASE OnData \/ FitTimer \/ \E b \in BoxSizes : ResizeBox(b)
  BY <1>9 DEF OnData, FitTimer, ResizeBox
<1> QED
  BY <1>1, <1>2, <1>3, <1>4, <1>5, <1>6, <1>7, <1>8, <1>9 DEF TermNext

-----------------------------------------------------------------------------
(* The shells: who closes them                                             *)

Owned == \A g \in DOMAIN shells : shells[g] = "open" =>
           (mounted /\ session = g) \/ g \in closes \/ g \in DOMAIN asks
Fitted == session # None /\ ~timer /\ box # 0 => cols[session] = box

LEMMA OwnedStep ==
  ASSUME Accounted, Newest, Owned, [TermNext]_termVars
  PROVE  Owned'
<1> USE DEF Accounted, Newest, Owned
<1>1. CASE UNCHANGED termVars
  BY <1>1 DEF termVars
<1>2. ASSUME NEW g \in 1..gen, OpenShell(g) \/ RefuseShell(g) PROVE Owned'
  BY <1>2 DEF OpenShell, RefuseShell, TermPut
<1>3. ASSUME NEW g \in 1..gen, ShellEnds(g) \/ CloseShell(g) PROVE Owned'
  BY <1>3 DEF ShellEnds, CloseShell
\* The answer makes the shell the session's, and there was none, or has it closed.
<1>4. ASSUME NEW g \in 1..gen, ShellAnswered(g) PROVE Owned'
  BY <1>4, UnsetAssumption DEF ShellAnswered
<1>5. ASSUME NEW g \in 1..gen, Refused(g) \/ Exited(g) PROVE Owned'
  BY <1>5 DEF Refused, Exited
\* The shell that was on show is told to close.
<1>6. CASE Reconnect \/ Unmount
  BY <1>6, UnsetAssumption DEF Reconnect, Unmount, Dispose, TermPut
<1>7. CASE OnData \/ FitTimer \/ \E b \in BoxSizes : ResizeBox(b)
  BY <1>7 DEF OnData, FitTimer, ResizeBox
<1> QED
  BY <1>1, <1>2, <1>3, <1>4, <1>5, <1>6, <1>7 DEF TermNext

LEMMA FittedStep ==
  ASSUME Accounted, Newest, Fitted, [TermNext]_termVars
  PROVE  Fitted'
<1> USE DEF Accounted, Newest, Fitted
<1>1. CASE UNCHANGED termVars
  BY <1>1 DEF termVars
<1>2. ASSUME NEW g \in 1..gen,
             OpenShell(g) \/ RefuseShell(g) \/ ShellEnds(g) \/ CloseShell(g) \/ Refused(g) \/ Exited(g)
      PROVE  Fitted'
  BY <1>2 DEF OpenShell, RefuseShell, ShellEnds, CloseShell, Refused, Exited
<1>3. ASSUME NEW g \in 1..gen, ShellAnswered(g) PROVE Fitted'
  BY <1>3, UnsetAssumption DEF ShellAnswered, FitAndResize, TermPut
<1>4. CASE Reconnect \/ Unmount
  BY <1>4 DEF Reconnect, Unmount
<1>5. CASE OnData \/ \E b \in BoxSizes : ResizeBox(b)
  BY <1>5 DEF OnData, ResizeBox
<1>6. CASE FitTimer
  BY <1>6 DEF FitTimer, FitAndResize, TermPut
<1> QED
  BY <1>1, <1>2, <1>3, <1>4, <1>5, <1>6 DEF TermNext

\* However often the view reconnects, whenever it goes away and in whatever order the
\* answers come, each shell that runs at the server is the one on show or is being
\* answered or closed, and the one on show knows the size of its container.
THEOREM TerminalsOwned == TermSpec => []TerminalsAreOwned
<1>1. TermInit => Accounted /\ Newest /\ Owned /\ Fitted
  BY DEF TermInit, Accounted, Newest, Owned, Fitted
<1>2. Accounted /\ Newest /\ Owned /\ Fitted /\ [TermNext]_termVars
      => Accounted' /\ Newest' /\ Owned' /\ Fitted'
  BY AccountedStep, OwnedStep, FittedStep
<1>3. Owned /\ Fitted => TerminalsAreOwned
  BY DEF Owned, Fitted, TerminalsAreOwned
<1> QED
  BY <1>1, <1>2, <1>3, PTL DEF TermSpec
-----------------------------------------------------------------------------
(* The workspace: what a sequence has at some places                       *)

LEMMA LeastNumber ==
  ASSUME NEW T, T \subseteq Nat, T # {}
  PROVE  \E m \in T : \A i \in T : m <= i
<1>1. PICK m \in T : \A i \in T : ~ (<<i, m>> \in OpToRel(<, Nat))
  BY NatLessThanWellFounded, WFMin
<1>2. \A i \in T : ~ (i < m)
  BY <1>1 DEF OpToRel
<1> QED
  BY <1>2

LEMMA UpToHas == \A places, i, j : j \in UpTo(places, i) <=> j \in places /\ j <= i
BY DEF UpTo

LEMMA PlacesFinite ==
  ASSUME NEW n \in Nat, NEW places, places \subseteq 1..n
  PROVE  /\ IsFiniteSet(places) /\ Cardinality(places) \in Nat
         /\ \A i : IsFiniteSet(UpTo(places, i)) /\ Cardinality(UpTo(places, i)) \in Nat
<1>1. IsFiniteSet(1..n)
  BY FS_Interval
<1>2. IsFiniteSet(places) /\ \A i : IsFiniteSet(UpTo(places, i))
  BY <1>1, FS_Subset DEF UpTo
<1> QED
  BY <1>2, FS_CardinalityType

\* The k-th place is the first with k places up to it.
LEMMA NthExists ==
  ASSUME NEW n \in Nat, NEW places, places \subseteq 1..n, NEW k \in 1..Cardinality(places)
  PROVE  Nth(places, k) \in places /\ Cardinality(UpTo(places, Nth(places, k))) = k
<1> DEFINE Far == {i \in Nat : Cardinality(UpTo(places, i)) >= k}
<1>0. Cardinality(places) \in Nat /\ \A i : Cardinality(UpTo(places, i)) \in Nat
  BY PlacesFinite
<1>p. \A j \in places : j \in Nat /\ 1 <= j /\ j <= n
  OBVIOUS
<1>1. n \in Far
  <2>1. UpTo(places, n) = places
    BY <1>p DEF UpTo
  <2> QED
    BY <1>0, <2>1
<1>2. PICK m \in Far : \A i \in Far : m <= i
  BY <1>1, LeastNumber
<1>3. m # 0
  <2>1. UpTo(places, 0) = {}
    <3>1. \A j : j \notin UpTo(places, 0)
      <4>1. \A j \in places : ~ (j <= 0)
        BY <1>p
      <4> QED
        BY <4>1, UpToHas
    <3> QED
      BY <3>1
  <2>2. Cardinality(UpTo(places, 0)) = 0
    BY <2>1, FS_EmptySet
  <2> QED
    BY <1>0, <2>2
<1>4. m - 1 \in Nat /\ ~ (Cardinality(UpTo(places, m - 1)) >= k)
  BY <1>2, <1>3
<1>5. m \in places
  <2>1. CASE m \notin places
    <3>0. \A j : j \in UpTo(places, m) <=> j \in UpTo(places, m - 1)
      <4>1. \A j \in places : j <= m <=> j <= m - 1
        BY <1>p, <1>2, <2>1
      <4> QED
        BY <4>1, UpToHas
    <3>1. UpTo(places, m) = UpTo(places, m - 1)
      BY <3>0
    <3> QED
      BY <1>4, <3>1
  <2> QED
    BY <2>1
<1>6. Cardinality(UpTo(places, m)) = Cardinality(UpTo(places, m - 1)) + 1
  <2>1. UpTo(places, m) = UpTo(places, m - 1) \cup {m} /\ m \notin UpTo(places, m - 1)
    <3>1. \A j \in places : j <= m <=> j <= m - 1 \/ j = m
      BY <1>p, <1>2
    <3>2. m <= m /\ ~ (m <= m - 1)
      BY <1>2
    <3>3. \A j : j \in UpTo(places, m) <=> j \in UpTo(places, m - 1) \/ j = m
      BY <1>5, <3>1, <3>2, UpToHas
    <3> QED
      BY <3>2, <3>3, UpToHas
  <2>2. IsFiniteSet(UpTo(places, m - 1))
    BY PlacesFinite
  <2> QED
    BY <2>1, <2>2, FS_AddElement
<1>7. Cardinality(UpTo(places, m)) = k
  BY <1>0, <1>4, <1>6
<1> QED
  BY <1>5, <1>7 DEF Nth

\* Two places have different numbers of places up to them.
LEMMA PlacesDiffer ==
  ASSUME NEW n \in Nat, NEW places, places \subseteq 1..n, NEW i \in places, NEW j \in places, i < j
  PROVE  Cardinality(UpTo(places, i)) < Cardinality(UpTo(places, j))
<1>p. \A l \in places : l \in Nat
  OBVIOUS
<1>1. UpTo(places, i) \subseteq UpTo(places, j) /\ j \in UpTo(places, j) /\ j \notin UpTo(places, i)
  <2>1. (\A l \in places : l <= i => l <= j) /\ j <= j /\ ~ (j <= i)
    BY <1>p
  <2> QED
    BY <2>1, UpToHas
<1>2. /\ IsFiniteSet(UpTo(places, j))
      /\ Cardinality(UpTo(places, i)) \in Nat /\ Cardinality(UpTo(places, j)) \in Nat
  BY PlacesFinite
<1>3. /\ Cardinality(UpTo(places, i)) <= Cardinality(UpTo(places, j))
      /\ Cardinality(UpTo(places, j)) # Cardinality(UpTo(places, i))
  BY <1>1, <1>2, FS_Subset
<1> QED
  BY <1>2, <1>3

LEMMA NthReaches ==
  ASSUME NEW n \in Nat, NEW places, places \subseteq 1..n, NEW i \in places
  PROVE  \E k \in 1..Cardinality(places) : Nth(places, k) = i
<1> DEFINE k == Cardinality(UpTo(places, i))
<1>p. \A j \in places : j \in Nat
  OBVIOUS
<1>q. Cardinality(places) \in Nat /\ k \in Nat
  BY PlacesFinite
<1>1. k \in 1..Cardinality(places)
  <2>1. UpTo(places, i) \subseteq places /\ i \in UpTo(places, i)
    BY <1>p DEF UpTo
  <2>2. k <= Cardinality(places)
    BY <2>1, PlacesFinite, FS_Subset
  <2>3. k # 0
    BY <2>1, PlacesFinite, FS_EmptySet
  <2> HIDE DEF k
  <2> QED
    BY <1>q, <2>2, <2>3
<1>2. Nth(places, k) \in places /\ Cardinality(UpTo(places, Nth(places, k))) = k
  BY <1>1, NthExists
<1>3. Nth(places, k) = i
  <2>1. ~ (Nth(places, k) < i)
    <3>1. CASE Nth(places, k) < i
      <4>1. Cardinality(UpTo(places, Nth(places, k))) < k
        BY <1>2, <3>1, PlacesDiffer
      <4> HIDE DEF k
      <4> QED
        BY <1>q, <1>2, <4>1
    <3> QED
      BY <3>1
  <2>2. ~ (i < Nth(places, k))
    <3>1. CASE i < Nth(places, k)
      <4>1. k < Cardinality(UpTo(places, Nth(places, k)))
        BY <1>2, <3>1, PlacesDiffer
      <4> HIDE DEF k
      <4> QED
        BY <1>q, <1>2, <4>1
    <3> QED
      BY <3>1
  <2>3. Nth(places, k) \in Nat /\ i \in Nat
    BY <1>p, <1>2
  <2> HIDE DEF k
  <2> QED
    BY <2>1, <2>2, <2>3
<1> QED
  BY <1>1, <1>3

\* A part of a sequence has what was at its places, each once.
LEMMA KeptParts ==
  ASSUME NEW S, NEW seq \in Seq(S), NEW places, places \subseteq DOMAIN seq
  PROVE  /\ Kept(seq, places) \in Seq(S)
         /\ DOMAIN Kept(seq, places) = 1..Cardinality(places)
         /\ \A k \in DOMAIN Kept(seq, places) :
              Nth(places, k) \in places /\ Kept(seq, places)[k] = seq[Nth(places, k)]
         /\ \A k, l \in DOMAIN Kept(seq, places) : Nth(places, k) = Nth(places, l) => k = l
         /\ \A i \in places : \E k \in DOMAIN Kept(seq, places) :
              Nth(places, k) = i /\ Kept(seq, places)[k] = seq[i]
<1> DEFINE n == Len(seq)
           c == Cardinality(places)
<1>1. n \in Nat /\ DOMAIN seq = 1..n /\ places \subseteq 1..n /\ c \in Nat
  BY LenProperties, PlacesFinite
<1> HIDE DEF n, c
<1>2. \A k \in 1..c : Nth(places, k) \in places /\ Cardinality(UpTo(places, Nth(places, k))) = k
  BY <1>1, NthExists DEF c
<1>3. \A i \in places : \E k \in 1..c : Nth(places, k) = i
  BY <1>1, NthReaches DEF c
<1>4. Kept(seq, places) = [k \in 1..c |-> seq[Nth(places, k)]]
  BY DEF Kept, c
<1>5. \A k \in 1..c : seq[Nth(places, k)] \in S
  BY <1>1, <1>2, LenProperties DEF n
<1>6. Kept(seq, places) \in Seq(S)
  BY <1>1, <1>4, <1>5, SeqDef
<1> QED
  BY <1>2, <1>3, <1>4, <1>6 DEF c

\* The first places of the tabs: every tab has one, and no two have the same.
LEMMA FirstsAreOnce ==
  ASSUME NEW S, NEW seq \in Seq(S)
  PROVE  /\ Firsts(seq) \subseteq DOMAIN seq
         /\ \A i, j \in Firsts(seq) : seq[i].id = seq[j].id => i = j
         /\ \A i \in DOMAIN seq : \E j \in Firsts(seq) : seq[j].id = seq[i].id
<1>1. DOMAIN seq = 1..Len(seq) /\ Len(seq) \in Nat
  BY LenProperties
<1>2. Firsts(seq) \subseteq DOMAIN seq
  BY DEF Firsts
<1>3. ASSUME NEW i \in Firsts(seq), NEW j \in Firsts(seq), seq[i].id = seq[j].id PROVE i = j
  <2>1. ~ (i < j) /\ ~ (j < i)
    BY <1>1, <1>3 DEF Firsts
  <2>2. i \in Nat /\ j \in Nat
    BY <1>1, <1>2
  <2> QED
    BY <2>1, <2>2
<1>4. ASSUME NEW i \in DOMAIN seq PROVE \E j \in Firsts(seq) : seq[j].id = seq[i].id
  <2> DEFINE Same == {j \in DOMAIN seq : seq[j].id = seq[i].id}
  <2>1. PICK m \in Same : \A j \in Same : m <= j
    <3>1. Same \subseteq Nat /\ i \in Same
      BY <1>1
    <3> QED
      BY <3>1, LeastNumber
  <2>2. \A j \in 1..(m - 1) : seq[j].id # seq[m].id
    <3>1. \A j \in 1..(m - 1) : j \in DOMAIN seq /\ ~ (m <= j)
      BY <1>1
    <3> QED
      BY <2>1, <3>1
  <2>3. m \in Firsts(seq)
    BY <2>2 DEF Firsts
  <2> QED
    BY <2>3
<1> QED
  BY <1>2, <1>3, <1>4

-----------------------------------------------------------------------------
(* The workspace: tabs and the one on show                                 *)

TabSet == {t \in [id : TabIds, view : View] : t.id = TabId(t.view)}
Moves == [conn : STRING, old : Seq(STRING), new : Seq(STRING), asks : BOOLEAN, known : SUBSET TabIds]

\* Whatever else, a tab is known by its view and the one on show is open.
Good(seq, a, r) ==
  seq \in Seq(TabSet) /\ a \in Ids(seq) \cup {None} /\ r \in View \cup {EmptyView}
Once(seq) == \A i, j \in DOMAIN seq : seq[i].id = seq[j].id => i = j
OnShow(seq, a, r) ==
  /\ a = None => r = EmptyView
  /\ a # None => \E i \in DOMAIN seq : seq[i].id = a /\ seq[i].view = r
Sound(seq, a, r) == Once(seq) /\ OnShow(seq, a, r)

WSTypes ==
  /\ Good(tabs, active, right)
  /\ dirty \cup asking \subseteq Ids(tabs)
  /\ moving \in Moves \cup {None}
WSInv == WSTypes /\ (~clash => Sound(tabs, active, right))

LEMMA TabTypes ==
  ASSUME NEW v \in View
  PROVE  TabId(v) \in TabIds /\ TabId(v) # None /\ Tab(v) \in TabSet /\ Tab(v).id = TabId(v)
<1>1. TabId(v) \in TabIds
  BY DEF TabId, TabIds, View
<1> QED
  BY <1>1, TabIdsAssumption DEF Tab, TabSet

LEMMA PlacesOfTabs ==
  ASSUME NEW seq \in Seq(TabSet)
  PROVE  /\ DOMAIN seq = 1..Len(seq) /\ Len(seq) \in Nat
         /\ \A i \in DOMAIN seq : /\ seq[i] \in TabSet /\ seq[i].id \in TabIds /\ seq[i].id # None
                                  /\ seq[i].view \in View /\ seq[i].id = TabId(seq[i].view)
         /\ Ids(seq) \subseteq TabIds
<1>1. /\ DOMAIN seq = 1..Len(seq) /\ Len(seq) \in Nat
      /\ \A i \in DOMAIN seq : seq[i] \in TabSet
  BY LenProperties
<1>2. \A i \in DOMAIN seq : /\ seq[i].id \in TabIds /\ seq[i].view \in View
                            /\ seq[i].id = TabId(seq[i].view)
  BY <1>1 DEF TabSet
<1> QED
  BY <1>1, <1>2, TabIdsAssumption DEF Ids

LEMMA FindIs ==
  ASSUME NEW seq \in Seq(TabSet), NEW id, HasTab(seq, id)
  PROVE  /\ IndexOf(seq, id) \in DOMAIN seq
         /\ seq[IndexOf(seq, id)] = Find(seq, id)
         /\ Find(seq, id) \in TabSet /\ Find(seq, id).id = id /\ Find(seq, id).view \in View
         /\ TabId(Find(seq, id).view) = id
<1>1. \E i \in DOMAIN seq : seq[i].id = id
  BY DEF HasTab, Ids
<1>2. IndexOf(seq, id) \in DOMAIN seq /\ seq[IndexOf(seq, id)].id = id
  BY <1>1 DEF IndexOf
<1> QED
  BY <1>2, PlacesOfTabs DEF Find

LEMMA ShowPlace ==
  ASSUME NEW seq \in Seq(TabSet), NEW i \in DOMAIN seq, Show(seq[i].id, seq[i].view)
  PROVE  Good(seq, active', right') /\ OnShow(seq, active', right')
BY PlacesOfTabs DEF Show, Good, OnShow, Ids

LEMMA ShowFound ==
  ASSUME NEW seq \in Seq(TabSet), NEW id, HasTab(seq, id), Show(Find(seq, id).id, Find(seq, id).view)
  PROVE  Good(seq, active', right') /\ OnShow(seq, active', right')
BY FindIs, ShowPlace

LEMMA ShowNothing ==
  ASSUME NEW seq \in Seq(TabSet), Show(None, EmptyView)
  PROVE  Good(seq, active', right') /\ OnShow(seq, active', right')
BY DEF Show, Good, OnShow

LEMMA PickedByPlace ==
  ASSUME NEW seq \in Seq(TabSet), NEW n \in Int, PickActiveState(seq, n)
  PROVE  Good(seq, active', right') /\ OnShow(seq, active', right')
<1>1. CASE seq = <<>>
  BY <1>1, ShowNothing DEF PickActiveState
<1>2. CASE seq # <<>>
  <2>1. Len(seq) \in Nat \ {0} /\ DOMAIN seq = 1..Len(seq)
    BY <1>2, EmptySeq, PlacesOfTabs
  <2>2. Clamp(n, Len(seq)) \in DOMAIN seq
    BY <2>1 DEF Clamp
  <2> QED
    BY <1>2, <2>2, ShowPlace DEF PickActiveState
<1> QED
  BY <1>1, <1>2

LEMMA PickedById ==
  ASSUME NEW seq \in Seq(TabSet), NEW id, NEW preferred, PickActiveById(seq, id, preferred)
  PROVE  Good(seq, active', right') /\ OnShow(seq, active', right')
<1>1. CASE seq = <<>>
  BY <1>1, ShowNothing DEF PickActiveById
<1>2. CASE seq # <<>>
  <2>1. 1 \in DOMAIN seq
    BY <1>2, EmptySeq, PlacesOfTabs
  <2>2. CASE preferred # None /\ HasTab(seq, preferred)
    BY <1>2, <2>2, ShowFound DEF PickActiveById
  <2>3. CASE ~ (preferred # None /\ HasTab(seq, preferred)) /\ HasTab(seq, id)
    BY <1>2, <2>3, ShowFound DEF PickActiveById
  <2>4. CASE ~ (preferred # None /\ HasTab(seq, preferred)) /\ ~HasTab(seq, id)
    <3>1. Show(seq[1].id, seq[1].view)
      BY <1>2, <2>4 DEF PickActiveById
    <3> QED
      BY <2>1, <3>1, ShowPlace
  <2> QED
    BY <2>2, <2>3, <2>4
<1> QED
  BY <1>1, <1>2

\* What is left of the tabs is some of them, each as it was.
LEMMA KeptTabs ==
  ASSUME NEW seq \in Seq(TabSet), NEW places, places \subseteq DOMAIN seq
  PROVE  /\ Kept(seq, places) \in Seq(TabSet)
         /\ Once(seq) => Once(Kept(seq, places))
         /\ \A i \in places : \E k \in DOMAIN Kept(seq, places) : Kept(seq, places)[k] = seq[i]
         /\ Ids(Kept(seq, places)) = {seq[i].id : i \in places}
         /\ \A a, r : OnShow(seq, a, r) /\ (a # None => \A i \in DOMAIN seq : seq[i].id = a => i \in places)
                        => OnShow(Kept(seq, places), a, r)
<1> DEFINE kept == Kept(seq, places)
<1>1. /\ kept \in Seq(TabSet)
      /\ \A k \in DOMAIN kept : Nth(places, k) \in places /\ kept[k] = seq[Nth(places, k)]
      /\ \A k, l \in DOMAIN kept : Nth(places, k) = Nth(places, l) => k = l
      /\ \A i \in places : \E k \in DOMAIN kept : kept[k] = seq[i]
  BY KeptParts
<1> HIDE DEF kept
<1>2. Once(seq) => Once(kept)
  BY SMTT(60), <1>1 DEF Once
<1>3. Ids(kept) = {seq[i].id : i \in places}
  BY <1>1 DEF Ids
<1>4. \A a, r : OnShow(seq, a, r) /\ (a # None => \A i \in DOMAIN seq : seq[i].id = a => i \in places)
                  => OnShow(kept, a, r)
  BY <1>1 DEF OnShow
<1> QED
  BY <1>1, <1>2, <1>3, <1>4 DEF kept

LEMMA FirstTabs ==
  ASSUME NEW seq \in Seq(TabSet)
  PROVE  /\ Kept(seq, Firsts(seq)) \in Seq(TabSet)
         /\ Once(Kept(seq, Firsts(seq)))
         /\ Ids(Kept(seq, Firsts(seq))) = Ids(seq)
<1> DEFINE places == Firsts(seq)
           kept == Kept(seq, places)
<1>1. /\ places \subseteq DOMAIN seq
      /\ \A i, j \in places : seq[i].id = seq[j].id => i = j
      /\ \A i \in DOMAIN seq : \E j \in places : seq[j].id = seq[i].id
  BY FirstsAreOnce
<1> HIDE DEF places
<1>2. /\ kept \in Seq(TabSet)
      /\ \A k \in DOMAIN kept : Nth(places, k) \in places /\ kept[k] = seq[Nth(places, k)]
      /\ \A k, l \in DOMAIN kept : Nth(places, k) = Nth(places, l) => k = l
  BY <1>1, KeptParts
<1>3. Ids(kept) = {seq[i].id : i \in places}
  BY <1>1, KeptTabs
<1> HIDE DEF kept
<1>4. Once(kept)
  BY <1>1, <1>2 DEF Once
<1>5. Ids(kept) = Ids(seq)
  <2>1. Ids(kept) \subseteq Ids(seq)
    BY <1>1, <1>3 DEF Ids
  <2>2. ASSUME NEW i \in DOMAIN seq PROVE seq[i].id \in Ids(kept)
    <3>1. PICK j \in places : seq[j].id = seq[i].id
      BY <1>1
    <3> QED
      BY <1>3, <3>1
  <2> QED
    BY <2>1, <2>2 DEF Ids
<1> QED
  BY <1>2, <1>4, <1>5 DEF kept, places

-----------------------------------------------------------------------------
(* The workspace: the steps                                                *)

LEMMA Reached ==
  ASSUME Good(tabs', active', right'), dirty' \cup asking' \subseteq Ids(tabs'),
         moving' \in Moves \cup {None}, ~clash' => Sound(tabs', active', right')
  PROVE  WSInv'
BY DEF WSInv, WSTypes

\* A step that leaves the tabs alone.
LEMMA SameTabs ==
  ASSUME WSInv, UNCHANGED <<tabs, active, right, clash>>,
         dirty' \cup asking' \subseteq Ids(tabs), moving' \in Moves \cup {None}
  PROVE  WSInv'
<1>1. Ids(tabs') = Ids(tabs)
  OBVIOUS
<1> QED
  BY <1>1 DEF WSInv, WSTypes

LEMMA RenderedGuards == ASSUME Rendered PROVE dirty' \cup asking' \subseteq Ids(tabs')
BY DEF Rendered

LEMMA SetRightViewKeeps ==
  ASSUME WSInv, NEW v \in View, SetRightView(v)
  PROVE  WSInv' /\ Ids(tabs) \subseteq Ids(tabs')
<1> DEFINE id == TabId(v)
           old == HasTab(tabs, id)
           next == IF old THEN MergeTableTab(v, Find(tabs, id).view) ELSE v
<1>0. tabs \in Seq(TabSet)
  BY DEF WSInv, WSTypes, Good
<1>1. next \in View /\ TabId(next) = id
  <2>1. CASE old
    <3>1. Find(tabs, id).view \in View
      BY <1>0, <2>1, FindIs
    <3> QED
      BY <2>1, <3>1 DEF MergeTableTab, View, TabId
  <2>2. CASE ~old
    BY <2>2
  <2> QED
    BY <2>1, <2>2
<1> HIDE DEF next
<1>2. /\ tabs' = IF old THEN [i \in DOMAIN tabs |-> IF tabs[i].id = id THEN Tab(next) ELSE tabs[i]]
                 ELSE Append(tabs, Tab(next))
      /\ Show(id, next) /\ Rendered /\ Strip /\ clash' = clash
  BY DEF SetRightView, next
<1>3. id # None /\ Tab(next) \in TabSet /\ Tab(next).id = id /\ Tab(next).view = next
  BY <1>1, TabTypes DEF Tab
<1> HIDE DEF id
<1>4. DOMAIN tabs = 1..Len(tabs) /\ Len(tabs) \in Nat /\ \A i \in DOMAIN tabs : tabs[i] \in TabSet
  BY <1>0, PlacesOfTabs
<1>5. \E i \in DOMAIN tabs' : tabs'[i] = Tab(next)
  <2>1. CASE old
    <3>1. PICK i \in DOMAIN tabs : tabs[i].id = id
      BY <2>1 DEF HasTab, Ids
    <3> QED
      BY <1>2, <2>1, <3>1
  <2>2. CASE ~old
    BY <1>0, <1>2, <1>3, <2>2, AppendProperties
  <2> QED
    BY <2>1, <2>2
<1>6. tabs' \in Seq(TabSet)
  <2>1. CASE old
    <3>1. tabs' \in [1..Len(tabs) -> TabSet]
      BY <1>2, <1>3, <1>4, <2>1
    <3> QED
      BY <1>4, <3>1, SeqDef
  <2>2. CASE ~old
    BY <1>0, <1>2, <1>3, <2>2, AppendProperties
  <2> QED
    BY <2>1, <2>2
<1>7. Once(tabs) => Once(tabs')
  <2>1. CASE old
    <3>1. DOMAIN tabs' = DOMAIN tabs /\ \A i \in DOMAIN tabs : tabs'[i].id = tabs[i].id
      BY <1>2, <1>3, <2>1
    <3> QED
      BY <3>1 DEF Once
  <2>2. CASE ~old
    <3>1. \A i \in DOMAIN tabs : tabs[i].id # id
      BY <2>2 DEF HasTab, Ids
    <3>2. /\ Len(tabs') = Len(tabs) + 1 /\ tabs'[Len(tabs) + 1] = Tab(next)
          /\ \A i \in 1..Len(tabs) : tabs'[i] = tabs[i]
      BY <1>0, <1>2, <1>3, <2>2, AppendProperties
    <3>3. DOMAIN tabs' = 1..(Len(tabs) + 1)
      BY <1>6, <3>2, LenProperties
    <3> QED
      BY <1>3, <1>4, <3>1, <3>2, <3>3 DEF Once
  <2> QED
    BY <2>1, <2>2
<1>8. Good(tabs', active', right') /\ OnShow(tabs', active', right')
  <2>1. active' = Tab(next).id /\ right' = Tab(next).view
    BY <1>2, <1>3 DEF Show
  <2> QED
    BY <1>5, <1>6, <2>1, ShowPlace DEF Show
<1>9. Ids(tabs) \subseteq Ids(tabs')
  <2>1. CASE old
    <3>1. DOMAIN tabs' = DOMAIN tabs /\ \A i \in DOMAIN tabs : tabs'[i].id = tabs[i].id
      BY <1>2, <1>3, <2>1
    <3> QED
      BY <3>1 DEF Ids
  <2>2. CASE ~old
    <3>1. Len(tabs') = Len(tabs) + 1 /\ \A i \in 1..Len(tabs) : tabs'[i] = tabs[i]
      BY <1>0, <1>2, <1>3, <2>2, AppendProperties
    <3>2. \A i \in DOMAIN tabs : i \in DOMAIN tabs'
      BY <1>4, <1>6, <3>1, LenProperties
    <3> QED
      BY <1>4, <3>1, <3>2 DEF Ids
  <2> QED
    BY <2>1, <2>2
<1> QED
  BY <1>2, <1>7, <1>8, <1>9, RenderedGuards, Reached DEF Sound, WSInv, WSTypes, Strip

LEMMA SetActiveTabKeeps == ASSUME WSInv, NEW id, SetActiveTab(id) PROVE WSInv'
<1>1. /\ tabs' = tabs /\ HasTab(tabs, id) /\ Show(id, Find(tabs, id).view) /\ clash' = clash
      /\ Rendered /\ moving' = moving
  BY DEF SetActiveTab, Strip
<1>2. tabs \in Seq(TabSet)
  BY DEF WSInv, WSTypes, Good
<1>3. Good(tabs, active', right') /\ OnShow(tabs, active', right')
  BY <1>1, <1>2, FindIs, ShowFound
<1> QED
  BY <1>1, <1>3, RenderedGuards, Reached DEF Sound, WSInv, WSTypes

LEMMA SetTableTabKeeps ==
  ASSUME WSInv, NEW id, NEW sub \in TableViewTabKind, SetTableTab(id, sub)
  PROVE  WSInv' /\ Ids(tabs) \subseteq Ids(tabs')
<1> DEFINE next == [Find(tabs, id).view EXCEPT !.sub = sub]
<1>0. tabs \in Seq(TabSet) /\ HasTab(tabs, id) /\ Find(tabs, id).view.kind = "table"
  BY DEF WSInv, WSTypes, Good, SetTableTab
<1>1. next \in View /\ TabId(next) = id
  <2>1. Find(tabs, id).view \in View /\ TabId(Find(tabs, id).view) = id
    BY <1>0, FindIs
  <2> QED
    BY <1>0, <2>1 DEF View, TabId
<1> HIDE DEF next
<1>2. /\ tabs' = [i \in DOMAIN tabs |-> IF tabs[i].id = id THEN [tabs[i] EXCEPT !.view = next] ELSE tabs[i]]
      /\ Show(active, IF active = id THEN next ELSE right)
      /\ Rendered /\ moving' = moving /\ clash' = clash
  BY DEF SetTableTab, next, Strip
<1>3. DOMAIN tabs = 1..Len(tabs) /\ Len(tabs) \in Nat /\ \A i \in DOMAIN tabs : tabs[i] \in TabSet
  BY <1>0, PlacesOfTabs
<1>4. /\ DOMAIN tabs' = DOMAIN tabs
      /\ \A i \in DOMAIN tabs : /\ tabs'[i] \in TabSet /\ tabs'[i].id = tabs[i].id
                                /\ tabs'[i].view = IF tabs[i].id = id THEN next ELSE tabs[i].view
  BY <1>1, <1>2, <1>3 DEF TabSet
<1>5. tabs' \in Seq(TabSet)
  <2>1. tabs' \in [1..Len(tabs) -> TabSet]
    BY <1>2, <1>3, <1>4
  <2> QED
    BY <1>3, <2>1, SeqDef
<1>6. Ids(tabs') = Ids(tabs)
  BY <1>4 DEF Ids
<1>7. Good(tabs', active', right')
  BY <1>1, <1>2, <1>5, <1>6 DEF Good, Show, WSInv, WSTypes
<1>8. Once(tabs) => Once(tabs')
  BY <1>4 DEF Once
<1>9. id # None
  BY <1>1, TabTypes
<1>10. OnShow(tabs, active, right) => OnShow(tabs', active', right')
  BY <1>2, <1>4, <1>9 DEF OnShow, Show
<1> QED
  BY <1>2, <1>6, <1>7, <1>8, <1>10, RenderedGuards, Reached DEF Sound, WSInv, WSTypes

\* What is closed is closed whole, and what is on show is open.
LEMMA CloseLeaves ==
  ASSUME WSInv, NEW gone, Close(gone)
  PROVE  /\ Good(tabs', active', right') /\ dirty' \cup asking' \subseteq Ids(tabs')
         /\ ~clash => Sound(tabs', active', right')
<1> DEFINE places == DOMAIN tabs \ gone
<1>1. tabs' = Kept(tabs, places) /\ Rendered
  BY DEF Close
<1>2. tabs \in Seq(TabSet)
  BY DEF WSInv, WSTypes, Good
<1>3. /\ tabs' \in Seq(TabSet) /\ Ids(tabs') = {tabs[i].id : i \in places}
      /\ Once(tabs) => Once(tabs')
      /\ \A a, r : OnShow(tabs, a, r) /\ (a # None => \A i \in DOMAIN tabs : tabs[i].id = a => i \in places)
                     => OnShow(tabs', a, r)
  <2>1. places \subseteq DOMAIN tabs
    OBVIOUS
  <2> HIDE DEF places
  <2> QED
    BY <1>1, <1>2, <2>1, KeptTabs
<1>4. CASE active # None /\ IndexOf(tabs, active) \in gone
  <2>1. IndexOf(tabs, active) - 1 \in Int
    <3>1. IndexOf(tabs, active) \in DOMAIN tabs
      BY <1>2, <1>4, FindIs DEF WSInv, WSTypes, Good, HasTab
    <3> QED
      BY <1>2, <3>1, PlacesOfTabs
  <2>2. PickActiveState(tabs', IndexOf(tabs, active) - 1)
    BY <1>4 DEF Close
  <2>3. Good(tabs', active', right') /\ OnShow(tabs', active', right')
    BY <1>3, <2>1, <2>2, PickedByPlace
  <2> QED
    BY <1>1, <1>3, <2>3, RenderedGuards DEF WSInv, Sound
<1>5. CASE ~ (active # None /\ IndexOf(tabs, active) \in gone)
  <2>1. active' = active /\ right' = right
    BY <1>5 DEF Close, Show
  <2>2. active # None => IndexOf(tabs, active) \in places /\ tabs[IndexOf(tabs, active)].id = active
    BY <1>2, <1>5, FindIs DEF WSInv, WSTypes, Good, HasTab
  <2>3. Good(tabs', active', right')
    BY <1>3, <2>1, <2>2 DEF Good, WSInv, WSTypes
  <2>4. Once(tabs) => (active # None => \A i \in DOMAIN tabs : tabs[i].id = active => i \in places)
    BY <2>2 DEF Once
  <2>5. ~clash => Sound(tabs', active', right')
    BY <1>3, <2>1, <2>4 DEF WSInv, Sound
  <2> QED
    BY <1>1, <2>3, <2>5, RenderedGuards
<1> QED
  BY <1>4, <1>5

LEMMA CloseKeeps ==
  ASSUME WSInv, NEW gone, Close(gone), moving' = moving, clash' = clash
  PROVE  WSInv'
BY CloseLeaves, Reached DEF WSInv, WSTypes

LEMMA CloseTabKeeps == ASSUME WSInv, NEW id, CloseTab(id) PROVE WSInv'
<1>1. CASE CanClose(id)
  BY <1>1, CloseKeeps DEF CloseTab
<1>2. CASE ~CanClose(id)
  BY <1>2, SameTabs DEF CloseTab, HasTab, WSInv, WSTypes
<1> QED
  BY <1>1, <1>2

LEMMA DiscardKeeps ==
  ASSUME WSInv, NEW id, ConfirmDiscard(id) \/ DismissDiscard(id)
  PROVE  WSInv'
<1>1. CASE ConfirmDiscard(id)
  BY <1>1, CloseKeeps DEF ConfirmDiscard, Strip
<1>2. CASE DismissDiscard(id)
  BY <1>2, SameTabs DEF DismissDiscard, Strip, WSInv, WSTypes
<1> QED
  BY <1>1, <1>2

LEMMA KeepAtKeeps ==
  ASSUME WSInv, NEW places, places \subseteq DOMAIN tabs, KeepAt(places),
         Good(tabs', active', right'), ~clash => OnShow(tabs', active', right')
  PROVE  WSInv'
<1>1. tabs \in Seq(TabSet)
  BY DEF WSInv, WSTypes, Good
<1>2. Once(tabs) => Once(tabs')
  BY <1>1, KeptTabs DEF KeepAt
<1> QED
  BY <1>2, RenderedGuards, Reached DEF KeepAt, WSInv, WSTypes, Sound

\* What is kept of the tabs by their places.
LEMMA KeptOf ==
  ASSUME WSInv, NEW places, places \subseteq DOMAIN tabs, KeepAt(places)
  PROVE  tabs' \in Seq(TabSet) /\ Ids(tabs') = {tabs[i].id : i \in places}
BY KeptTabs DEF KeepAt, WSInv, WSTypes, Good

LEMMA CloseOtherTabsKeeps == ASSUME WSInv, NEW id, CloseOtherTabs(id) PROVE WSInv'
<1> DEFINE places == PlacesOf(id) \cup NotClean
<1>0. places \subseteq DOMAIN tabs
  BY DEF PlacesOf, NotClean
<1>1. tabs \in Seq(TabSet) /\ HasTab(tabs, id) /\ KeepAt(places) /\ Show(id, Find(tabs, id).view)
  BY DEF CloseOtherTabs, WSInv, WSTypes, Good
<1>2. IndexOf(tabs, id) \in places /\ tabs[IndexOf(tabs, id)] = Find(tabs, id) /\ Find(tabs, id).id = id
  BY <1>1, FindIs DEF PlacesOf
<1> HIDE DEF places
<1>3. tabs' \in Seq(TabSet) /\ \E k \in DOMAIN tabs' : tabs'[k] = Find(tabs, id)
  BY <1>0, <1>1, <1>2, KeptTabs DEF KeepAt
<1>4. Good(tabs', active', right') /\ OnShow(tabs', active', right')
  BY <1>1, <1>2, <1>3, ShowPlace DEF Show
<1> QED
  BY <1>0, <1>1, <1>4, KeepAtKeeps

LEMMA CloseTabsToRightKeeps == ASSUME WSInv, NEW id, CloseTabsToRight(id) PROVE WSInv'
<1> DEFINE places == 1..IndexOf(tabs, id) \cup NotClean
<1>1. tabs \in Seq(TabSet) /\ HasTab(tabs, id)
  BY DEF CloseTabsToRight, WSInv, WSTypes, Good
<1>2. places \subseteq DOMAIN tabs
  BY <1>1, FindIs, PlacesOfTabs DEF NotClean
<1>3. KeepAt(places) /\ PickActiveById(tabs', active, IF HasTab(tabs', active) THEN None ELSE id)
  BY DEF CloseTabsToRight
<1> HIDE DEF places
<1>4. Good(tabs', active', right') /\ OnShow(tabs', active', right')
  BY <1>2, <1>3, KeptOf, PickedById
<1> QED
  BY <1>2, <1>3, <1>4, KeepAtKeeps

LEMMA CloseAllTabsKeeps == ASSUME WSInv, CloseAllTabs PROVE WSInv'
<1>1. NotClean \subseteq DOMAIN tabs /\ KeepAt(NotClean) /\ PickActiveById(tabs', active, None)
  BY DEF CloseAllTabs, NotClean
<1>2. Good(tabs', active', right') /\ OnShow(tabs', active', right')
  BY <1>1, KeptOf, PickedById
<1> QED
  BY <1>1, <1>2, KeepAtKeeps

\* A tab that is moved changes its place with those between: where the k-th was when
\* the i-th went to j.
Origin(k, i, j) == IF k = j THEN i
                   ELSE LET l == IF k < j THEN k ELSE k - 1 IN IF l < i THEN l ELSE l + 1
LEMMA MovedInSequence ==
  ASSUME NEW S, NEW seq \in Seq(S), NEW i \in DOMAIN seq, NEW j \in DOMAIN seq
  PROVE  /\ InsertAt(RemoveAt(seq, i), j, seq[i]) \in Seq(S)
         /\ DOMAIN InsertAt(RemoveAt(seq, i), j, seq[i]) = DOMAIN seq
         /\ \A k \in DOMAIN seq :
              /\ Origin(k, i, j) \in DOMAIN seq
              /\ InsertAt(RemoveAt(seq, i), j, seq[i])[k] = seq[Origin(k, i, j)]
<1> DEFINE n == Len(seq)
           rest == RemoveAt(seq, i)
           moved == InsertAt(rest, j, seq[i])
<1>1. n \in Nat /\ DOMAIN seq = 1..n /\ \A k \in 1..n : seq[k] \in S
  BY LenProperties
<1> HIDE DEF n
<1>2. /\ rest \in Seq(S) /\ Len(rest) = n - 1
      /\ \A k \in 1..(n - 1) : rest[k] = IF k < i THEN seq[k] ELSE seq[k + 1]
  <2> DEFINE a == SubSeq(seq, 1, i - 1)
             b == SubSeq(seq, i + 1, n)
  <2>1. a \in Seq(S) /\ Len(a) = i - 1 /\ \A k \in 1..(i - 1) : a[k] = seq[k]
    BY <1>1, SubSeqProperties
  <2>2. b \in Seq(S) /\ Len(b) = n - i /\ \A k \in 1..(n - i) : b[k] = seq[k + i]
    BY <1>1, SubSeqProperties
  <2>3. rest = a \o b
    BY DEF RemoveAt, n
  <2> HIDE DEF a, b, rest
  <2>4. /\ rest \in Seq(S) /\ Len(rest) = Len(a) + Len(b)
        /\ \A k \in 1..Len(a) + Len(b) : rest[k] = IF k <= Len(a) THEN a[k] ELSE b[k - Len(a)]
    BY <2>1, <2>2, <2>3, ConcatProperties
  <2>5. ASSUME NEW k \in 1..(n - 1) PROVE rest[k] = IF k < i THEN seq[k] ELSE seq[k + 1]
    <3>1. k \in 1..Len(a) + Len(b) /\ i \in 1..n
      BY <1>1, <2>1, <2>2
    <3>2. CASE k < i
      <4>1. k <= Len(a) /\ k \in 1..(i - 1)
        BY <1>1, <2>1, <3>1, <3>2
      <4> QED
        BY <2>1, <2>4, <3>1, <3>2, <4>1
    <3>3. CASE ~ (k < i)
      <4>1. ~ (k <= Len(a)) /\ k - Len(a) \in 1..(n - i) /\ k - Len(a) + i = k + 1
        BY SMTT(60), <1>1, <2>1, <3>1, <3>3
      <4> QED
        BY <2>2, <2>4, <3>1, <3>3, <4>1
    <3> QED
      BY <3>2, <3>3
  <2> QED
    BY SMTT(60), <1>1, <2>1, <2>2, <2>4, <2>5
<1> HIDE DEF rest
<1>3. /\ moved \in Seq(S) /\ Len(moved) = n
      /\ \A k \in 1..n : moved[k] = IF k < j THEN rest[k] ELSE IF k = j THEN seq[i] ELSE rest[k - 1]
  <2> DEFINE a == SubSeq(rest, 1, j - 1)
             b == SubSeq(rest, j, n - 1)
             m == <<seq[i]>>
  <2>0. \A k \in 1..(n - 1) : rest[k] \in S
    BY <1>1, <1>2, LenProperties
  <2>1. a \in Seq(S) /\ Len(a) = j - 1 /\ \A k \in 1..(j - 1) : a[k] = rest[k]
    BY <1>1, <2>0, SubSeqProperties
  <2>2. b \in Seq(S) /\ Len(b) = n - j /\ \A k \in 1..(n - j) : b[k] = rest[k + j - 1]
    BY <1>1, <2>0, SubSeqProperties
  <2>3. m \in Seq(S) /\ Len(m) = 1 /\ m[1] = seq[i]
    BY <1>1
  <2>4. moved = (a \o m) \o b
    BY <1>2 DEF InsertAt
  <2> HIDE DEF a, b, m, moved
  <2>5. /\ a \o m \in Seq(S) /\ Len(a \o m) = j
        /\ \A k \in 1..j : (a \o m)[k] = IF k < j THEN a[k] ELSE seq[i]
    <3>1. /\ a \o m \in Seq(S) /\ Len(a \o m) = Len(a) + Len(m)
          /\ \A k \in 1..Len(a) + Len(m) : (a \o m)[k] = IF k <= Len(a) THEN a[k] ELSE m[k - Len(a)]
      BY <2>1, <2>3, ConcatProperties
    <3> QED
      BY <1>1, <2>1, <2>3, <3>1
  <2> DEFINE am == a \o m
  <2> HIDE DEF am
  <2>6. /\ moved \in Seq(S) /\ Len(moved) = j + Len(b)
        /\ \A k \in 1..j + Len(b) : moved[k] = IF k <= j THEN am[k] ELSE b[k - j]
    <3>1. am \in Seq(S) /\ Len(am) = j /\ moved = am \o b
      BY <2>4, <2>5 DEF am
    <3>2. /\ am \o b \in Seq(S) /\ Len(am \o b) = Len(am) + Len(b)
          /\ \A k \in 1..Len(am) + Len(b) : (am \o b)[k] = IF k <= Len(am) THEN am[k] ELSE b[k - Len(am)]
      BY <2>2, <3>1, ConcatProperties
    <3> QED
      BY <3>1, <3>2
  <2>7. Len(moved) = n
    BY <1>1, <2>2, <2>6
  <2>8. ASSUME NEW k \in 1..n
        PROVE  moved[k] = IF k < j THEN rest[k] ELSE IF k = j THEN seq[i] ELSE rest[k - 1]
    <3>1. j \in 1..n /\ k \in 1..j + Len(b)
      BY <1>1, <2>2
    <3>2. CASE k <= j
      <4>1. moved[k] = am[k] /\ k \in 1..j
        BY <2>6, <3>1, <3>2
      <4>2. am[k] = IF k < j THEN a[k] ELSE seq[i]
        BY <2>5, <4>1 DEF am
      <4>3. k < j => k \in 1..(j - 1)
        BY <3>1
      <4>4. k < j \/ k = j
        BY <3>1, <3>2
      <4> QED
        BY <2>1, <4>1, <4>2, <4>3, <4>4
    <3>3. CASE ~ (k <= j)
      <4>1. moved[k] = b[k - j]
        BY <2>6, <3>1, <3>3
      <4>2. k - j \in 1..(n - j) /\ k - j + j - 1 = k - 1 /\ ~ (k < j) /\ k # j
        BY <3>1, <3>3, <1>1
      <4> QED
        BY <2>2, <4>1, <4>2
    <3> QED
      BY <3>2, <3>3
  <2> QED
    BY <2>6, <2>7, <2>8
<1>4. DOMAIN moved = 1..n
  BY <1>3, LenProperties
<1> HIDE DEF moved
<1>5. \A k \in 1..n : Origin(k, i, j) \in 1..n /\ moved[k] = seq[Origin(k, i, j)]
  <2> SUFFICES ASSUME NEW k \in 1..n
               PROVE  Origin(k, i, j) \in 1..n /\ moved[k] = seq[Origin(k, i, j)]
    OBVIOUS
  <2> USE DEF Origin
  <2>1. i \in 1..n /\ j \in 1..n
    BY <1>1
  <2>2. CASE k = j
    BY <1>1, <1>3, <2>1, <2>2
  <2>3. CASE k < j
    <3>1. k \in 1..(n - 1) /\ k # j /\ (k < i => k \in 1..n) /\ k + 1 \in 1..n
      BY <1>1, <2>1, <2>3
    <3>2. moved[k] = rest[k] /\ rest[k] = IF k < i THEN seq[k] ELSE seq[k + 1]
      BY <1>2, <1>3, <2>3, <3>1
    <3> QED
      BY <2>3, <3>1, <3>2
  <2>4. CASE j < k
    <3>1. k - 1 \in 1..(n - 1) /\ k # j /\ ~ (k < j) /\ (k - 1) + 1 = k /\ k - 1 \in 1..n
      BY <1>1, <2>1, <2>4
    <3>2. moved[k] = rest[k - 1] /\ rest[k - 1] = IF k - 1 < i THEN seq[k - 1] ELSE seq[(k - 1) + 1]
      BY <1>2, <1>3, <3>1
    <3> QED
      BY <3>1, <3>2
  <2> QED
    BY <2>1, <2>2, <2>3, <2>4
<1> QED
  BY <1>1, <1>3, <1>4, <1>5 DEF moved, rest

LEMMA MoveTabKeeps ==
  ASSUME WSInv, NEW id, NEW target, MoveTab(id, target), moving' = moving, clash' = clash
  PROVE  WSInv' /\ Ids(tabs) \subseteq Ids(tabs')
<1> DEFINE i == IndexOf(tabs, id)
           t == IndexOf(tabs, target)
           j == IF i < t THEN t - 1 ELSE t
<1>1. /\ tabs \in Seq(TabSet) /\ HasTab(tabs, id) /\ HasTab(tabs, target)
      /\ tabs' = InsertAt(RemoveAt(tabs, i), j, tabs[i])
      /\ Show(active, right) /\ Rendered
  BY DEF MoveTab, WSInv, WSTypes, Good
<1>2. DOMAIN tabs = 1..Len(tabs) /\ Len(tabs) \in Nat /\ i \in DOMAIN tabs /\ t \in DOMAIN tabs
  BY <1>1, FindIs, PlacesOfTabs
<1> HIDE DEF i, t
<1>3. j \in DOMAIN tabs
  BY <1>2
<1> HIDE DEF j
<1>4. /\ tabs' \in Seq(TabSet) /\ DOMAIN tabs' = DOMAIN tabs
      /\ \A k \in DOMAIN tabs : Origin(k, i, j) \in DOMAIN tabs /\ tabs'[k] = tabs[Origin(k, i, j)]
  <2> DEFINE moved == InsertAt(RemoveAt(tabs, i), j, tabs[i])
  <2>1. /\ moved \in Seq(TabSet) /\ DOMAIN moved = DOMAIN tabs
        /\ \A k \in DOMAIN tabs : Origin(k, i, j) \in DOMAIN tabs /\ moved[k] = tabs[Origin(k, i, j)]
    <3>1. tabs \in Seq(TabSet) /\ i \in DOMAIN tabs /\ j \in DOMAIN tabs
      BY <1>1, <1>2, <1>3
    <3> QED
      BY ONLY <3>1, MovedInSequence DEF moved
  <2>2. tabs' = moved
    BY <1>1
  <2> HIDE DEF moved
  <2> QED
    BY <2>1, <2>2
<1>5. \A k, l \in DOMAIN tabs : Origin(k, i, j) = Origin(l, i, j) => k = l
  BY SMTT(60), <1>2, <1>3 DEF Origin
<1>6. \A m \in DOMAIN tabs : \E k \in DOMAIN tabs : Origin(k, i, j) = m
  <2> SUFFICES ASSUME NEW m \in DOMAIN tabs PROVE \E k \in DOMAIN tabs : Origin(k, i, j) = m
    OBVIOUS
  <2> DEFINE k == IF m = i THEN j
                  ELSE LET l == IF m < i THEN m ELSE m - 1 IN IF l < j THEN l ELSE l + 1
  <2>1. k \in DOMAIN tabs /\ Origin(k, i, j) = m
    BY SMTT(60), <1>2, <1>3 DEF Origin
  <2> QED
    BY <2>1
<1>7. Ids(tabs') = Ids(tabs)
  <2>1. \A k \in DOMAIN tabs' : tabs'[k].id \in Ids(tabs)
    BY <1>4 DEF Ids
  <2>2. \A m \in DOMAIN tabs : tabs[m].id \in Ids(tabs')
    BY <1>4, <1>6 DEF Ids
  <2> QED
    BY <2>1, <2>2 DEF Ids
<1>8. Once(tabs) => Once(tabs')
  BY <1>4, <1>5 DEF Once
<1>9. Good(tabs', active', right') /\ (OnShow(tabs, active, right) => OnShow(tabs', active', right'))
  BY <1>1, <1>4, <1>6, <1>7 DEF Good, OnShow, Show, WSInv, WSTypes
<1> QED
  BY <1>1, <1>7, <1>8, <1>9, RenderedGuards, Reached DEF Sound, WSInv, WSTypes

\* Tabs that take another name, each its own.
LEMMA EachInPlace ==
  ASSUME NEW seq \in Seq(TabSet), NEW next,
         DOMAIN next = DOMAIN seq, next = [i \in DOMAIN seq |-> next[i]],
         \A i \in DOMAIN seq : next[i] \in TabSet
  PROVE  next \in Seq(TabSet)
<1>1. DOMAIN seq = 1..Len(seq) /\ Len(seq) \in Nat
  BY PlacesOfTabs
<1>2. next \in [1..Len(seq) -> TabSet]
  BY <1>1
<1> QED
  BY <1>1, <1>2, SeqDef

LEMMA RenameTableTabsKeeps ==
  ASSUME WSInv, NEW end \in STRING \X STRING, NEW old, NEW new \in STRING, new # None,
         RenameTableTabs(end, old, new)
  PROVE  WSInv'
<1> DEFINE oldId == TableTab(end, old)
           newId == TableTab(end, new)
           Renamed(t) == Tab([t.view EXCEPT !.at = TableAt(end, new)])
           gone == {i \in DOMAIN tabs : tabs[i].view.kind = "table-compare" /\ OfTable(tabs[i].view, end, old)}
           next == [i \in DOMAIN tabs |-> IF tabs[i].id = oldId THEN Renamed(tabs[i]) ELSE tabs[i]]
           places == DOMAIN tabs \ gone
<1>1. /\ tabs' = Kept(next, places)
      /\ IF active = oldId /\ HasTab(tabs, oldId) THEN Show(newId, Renamed(Find(tabs, oldId)).view)
         ELSE IF active # None /\ IndexOf(tabs, active) \in gone
              THEN PickActiveState(tabs', IndexOf(tabs, active) - 1) ELSE Show(active, right)
      /\ clash' = (clash \/ (HasTab(tabs, oldId) /\ HasTab(tabs, newId)))
      /\ Rendered /\ moving' = moving
  BY DEF RenameTableTabs, Strip
<1>2. /\ tabs \in Seq(TabSet)
      /\ \A i \in DOMAIN tabs : /\ tabs[i] \in TabSet /\ tabs[i].id # None /\ tabs[i].view \in View
                                /\ tabs[i].id = TabId(tabs[i].view)
  BY PlacesOfTabs DEF WSInv, WSTypes, Good
<1>3. ASSUME NEW t \in TabSet, t.id = oldId
      PROVE  /\ Renamed(t) \in TabSet /\ Renamed(t).id = newId
             /\ Renamed(t).view = [t.view EXCEPT !.at = TableAt(end, new)]
             /\ t.view.kind = "table"
  <2>1. t.view \in View /\ t.view.kind = "table"
    BY <1>3 DEF TabSet, TabId, TableTab
  <2>2. TableAt(end, new) \in Place
    BY DEF TableAt, Place
  <2>3. TableAt(end, new).ends # <<>> /\ TableAt(end, new).table # None
    BY DEF TableAt
  <2>4. [t.view EXCEPT !.at = TableAt(end, new)] \in View
    BY <2>1, <2>2, <2>3 DEF View
  <2>5. TabId([t.view EXCEPT !.at = TableAt(end, new)]) = newId
    BY <2>1 DEF TabId, TableTab, View
  <2> QED
    BY <2>1, <2>4, <2>5, TabTypes DEF Tab
<1> HIDE DEF Renamed, gone
<1>4. /\ DOMAIN next = DOMAIN tabs /\ next \in Seq(TabSet)
      /\ \A i \in DOMAIN tabs : next[i] = IF tabs[i].id = oldId THEN Renamed(tabs[i]) ELSE tabs[i]
  BY <1>2, <1>3, EachInPlace
<1>5. \A i \in gone : i \in DOMAIN tabs /\ tabs[i].id # oldId
  BY <1>2, <1>3 DEF gone
<1> HIDE DEF next, oldId, newId
<1>6. places \subseteq DOMAIN next
  BY <1>4
<1> HIDE DEF places
<1>7. /\ tabs' \in Seq(TabSet) /\ Ids(tabs') = {next[i].id : i \in places}
      /\ Once(next) => Once(tabs')
      /\ \A i \in places : \E k \in DOMAIN tabs' : tabs'[k] = next[i]
      /\ \A a, r : OnShow(next, a, r) /\ (a # None => \A i \in DOMAIN next : next[i].id = a => i \in places)
                     => OnShow(tabs', a, r)
  BY <1>1, <1>4, <1>6, KeptTabs
\* Two tabs would be of one document only if another had the new name.
<1>8. ~clash' => Once(tabs')
  <2>1. ASSUME ~clash', NEW i \in DOMAIN tabs, NEW j \in DOMAIN tabs, next[i].id = next[j].id
        PROVE  i = j
    <3>1. tabs[i].id = oldId \/ tabs[j].id = oldId => ~HasTab(tabs, newId)
      BY <1>1, <2>1 DEF HasTab, Ids
    <3>2. tabs[i].id = tabs[j].id
      <4>1. next[i].id = IF tabs[i].id = oldId THEN newId ELSE tabs[i].id
        BY <1>2, <1>3, <1>4
      <4>2. next[j].id = IF tabs[j].id = oldId THEN newId ELSE tabs[j].id
        BY <1>2, <1>3, <1>4
      <4>3. tabs[i].id = oldId \/ tabs[j].id = oldId => tabs[i].id # newId /\ tabs[j].id # newId
        BY <3>1 DEF HasTab, Ids
      <4> QED
        BY <2>1, <4>1, <4>2, <4>3
    <3> QED
      BY <1>1, <2>1, <3>2 DEF WSInv, Sound, Once
  <2> QED
    BY <1>4, <1>7, <2>1 DEF Once
<1>9. CASE active = oldId /\ HasTab(tabs, oldId)
  <2> DEFINE i == IndexOf(tabs, oldId)
  <2>1. i \in DOMAIN tabs /\ tabs[i] = Find(tabs, oldId) /\ tabs[i].id = oldId
    BY <1>2, <1>9, FindIs
  <2>2. i \in places /\ next[i] = Renamed(Find(tabs, oldId))
    BY <1>4, <1>5, <2>1 DEF places
  <2>3. PICK k \in DOMAIN tabs' : tabs'[k] = Renamed(Find(tabs, oldId))
    BY <1>7, <2>2
  <2>4. Show(tabs'[k].id, tabs'[k].view)
    BY ZenonT(60), <1>1, <1>2, <1>3, <1>9, <2>1, <2>3
  <2>5. Good(tabs', active', right') /\ OnShow(tabs', active', right')
    BY <1>7, <2>4, ShowPlace
  <2> QED
    BY <1>1, <1>8, <2>5, RenderedGuards, Reached DEF Sound, WSInv, WSTypes
<1>10. CASE ~ (active = oldId /\ HasTab(tabs, oldId)) /\ active # None /\ IndexOf(tabs, active) \in gone
  <2>1. IndexOf(tabs, active) - 1 \in Int
    BY <1>2, <1>5, <1>10, PlacesOfTabs
  <2>2. Good(tabs', active', right') /\ OnShow(tabs', active', right')
    BY <1>1, <1>7, <1>10, <2>1, PickedByPlace
  <2> QED
    BY <1>1, <1>8, <2>2, RenderedGuards, Reached DEF Sound, WSInv, WSTypes
<1>11. CASE /\ ~ (active = oldId /\ HasTab(tabs, oldId))
            /\ ~ (active # None /\ IndexOf(tabs, active) \in gone)
  <2>1. active' = active /\ right' = right
    BY <1>1, <1>11 DEF Show
  <2>2. active # None => /\ HasTab(tabs, active) /\ active # oldId
                         /\ IndexOf(tabs, active) \in places /\ next[IndexOf(tabs, active)].id = active
    <3>1. active # None => HasTab(tabs, active)
      BY DEF WSInv, WSTypes, Good, HasTab
    <3>2. active # None => active # oldId
      BY <1>11, <3>1
    <3> QED
      BY <1>2, <1>4, <1>11, <3>1, <3>2, FindIs DEF places
  <2>3. Good(tabs', active', right')
    BY <1>7, <2>1, <2>2 DEF Good, WSInv, WSTypes
  <2>4. ~clash' => OnShow(tabs', active', right')
    <3> SUFFICES ASSUME ~clash' PROVE OnShow(tabs', active, right)
      BY <2>1
    <3>1. Once(tabs) /\ OnShow(tabs, active, right)
      BY <1>1 DEF WSInv, Sound
    <3>2. CASE active = None
      BY <3>1, <3>2 DEF OnShow
    <3>3. CASE active # None
      <4>1. PICK i \in DOMAIN tabs : tabs[i].id = active /\ tabs[i].view = right
        BY <3>1, <3>3 DEF OnShow
      <4>2. i = IndexOf(tabs, active)
        BY <1>2, <2>2, <3>1, <3>3, <4>1, FindIs DEF Once
      <4>3. i \in places /\ next[i] = tabs[i]
        BY <1>4, <2>2, <3>3, <4>1, <4>2
      <4> QED
        BY <1>7, <3>3, <4>1, <4>3 DEF OnShow
    <3> QED
      BY <3>2, <3>3
  <2> QED
    BY <1>1, <1>8, <2>3, <2>4, RenderedGuards, Reached DEF Sound, WSInv, WSTypes
<1> QED
  BY <1>9, <1>10, <1>11

\* Of the tabs that share a name once some have moved, the first stays.
LEMMA MoveSSHPathTabsKeeps ==
  ASSUME WSInv, NEW c, NEW old \in Seq(STRING), NEW new \in Seq(STRING),
         MoveSSHPathTabs(c, old, new), moving' \in Moves \cup {None}, clash' = clash
  PROVE  WSInv'
<1> DEFINE Affected(t) == Below(t.view, c, old)
           MovedTab(t) == Tab([t.view EXCEPT !.at.path = new \o SubSeq(@, Len(old) + 1, Len(@))])
           next == [i \in DOMAIN tabs |-> IF Affected(tabs[i]) THEN MovedTab(tabs[i]) ELSE tabs[i]]
           follows == active # None /\ Affected(Find(tabs, active))
<1>1. /\ tabs' = Kept(next, Firsts(next)) /\ Rendered
      /\ IF ~follows THEN Show(active, right)
         ELSE Show(Find(tabs', MovedTab(Find(tabs, active)).id).id, Find(tabs', MovedTab(Find(tabs, active)).id).view)
  BY DEF MoveSSHPathTabs
<1>2. /\ tabs \in Seq(TabSet)
      /\ \A i \in DOMAIN tabs : tabs[i] \in TabSet /\ tabs[i].id # None
  BY PlacesOfTabs DEF WSInv, WSTypes, Good
<1>3. ASSUME NEW t \in TabSet, Affected(t)
      PROVE  MovedTab(t) \in TabSet /\ MovedTab(t).view.kind = "ssh-editor"
  <2> DEFINE path == t.view.at.path
             moved == new \o SubSeq(path, Len(old) + 1, Len(path))
             w == [t.view EXCEPT !.at.path = moved]
  <2>1. t.view \in View /\ t.view.kind = "ssh-editor" /\ path \in Seq(STRING)
    BY <1>3 DEF TabSet, Below, View, Place
  <2>2. moved \in Seq(STRING)
    <3>1. Len(old) + 1 \in Nat /\ Len(path) \in Nat /\ \A i \in (Len(old) + 1)..Len(path) : path[i] \in STRING
      BY <2>1, LenProperties
    <3>2. SubSeq(path, Len(old) + 1, Len(path)) \in Seq(STRING)
      BY <3>1, SubSeqProperties
    <3> QED
      BY <3>2, ConcatProperties
  <2> HIDE DEF moved
  <2>3. w \in View /\ w.kind = "ssh-editor"
    BY <2>1, <2>2 DEF View, Place
  <2>4. MovedTab(t) = Tab(w)
    BY DEF moved
  <2> HIDE DEF w, MovedTab
  <2>5. Tab(w).view = w
    BY DEF Tab
  <2> QED
    BY <2>3, <2>4, <2>5, TabTypes
<1> HIDE DEF Affected, MovedTab
<1>4. /\ DOMAIN next = DOMAIN tabs /\ next \in Seq(TabSet)
      /\ \A i \in DOMAIN tabs : next[i] = IF Affected(tabs[i]) THEN MovedTab(tabs[i]) ELSE tabs[i]
  BY <1>2, <1>3, EachInPlace
<1> HIDE DEF next
<1>5. tabs' \in Seq(TabSet) /\ Once(tabs') /\ Ids(tabs') = Ids(next)
  BY <1>1, <1>4, FirstTabs
<1>6. CASE follows
  <2> DEFINE i == IndexOf(tabs, active)
             id == MovedTab(Find(tabs, active)).id
  <2>1. i \in DOMAIN tabs /\ tabs[i] = Find(tabs, active)
    BY <1>2, <1>6, FindIs DEF WSInv, WSTypes, Good, HasTab
  <2>2. next[i].id = id
    BY <1>4, <1>6, <2>1
  <2>3. HasTab(tabs', id)
    BY <1>4, <1>5, <2>1, <2>2 DEF HasTab, Ids
  <2>4. Good(tabs', active', right') /\ OnShow(tabs', active', right')
    BY <1>1, <1>5, <1>6, <2>3, ShowFound
  <2> QED
    BY <1>1, <1>5, <2>4, RenderedGuards, Reached DEF Sound
<1>7. CASE ~follows
  <2>1. active' = active /\ right' = right
    BY <1>1, <1>7 DEF Show
  <2>2. active # None => active \in Ids(tabs')
    <3> DEFINE i == IndexOf(tabs, active)
    <3>1. active # None => i \in DOMAIN tabs /\ tabs[i] = Find(tabs, active) /\ tabs[i].id = active
      BY <1>2, FindIs DEF WSInv, WSTypes, Good, HasTab
    <3>2. active # None => next[i].id = active
      BY <1>4, <1>7, <3>1
    <3> QED
      BY <1>4, <1>5, <3>1, <3>2 DEF Ids
  <2>3. Good(tabs', active', right')
    BY <1>5, <2>1, <2>2 DEF Good, WSInv, WSTypes
\* The one on show may have given its place to a tab moved to its path: views of one
\* path are the same.
  <2>4. ~clash => OnShow(tabs', active', right')
    <3> SUFFICES ASSUME ~clash PROVE OnShow(tabs', active, right)
      BY <2>1
    <3>1. Once(tabs) /\ OnShow(tabs, active, right)
      BY DEF WSInv, Sound
    <3>2. CASE active = None
      BY <3>1, <3>2 DEF OnShow
    <3>3. CASE active # None
      <4>1. PICK i \in DOMAIN tabs : tabs[i].id = active /\ tabs[i].view = right
        BY <3>1, <3>3 DEF OnShow
      <4>2. tabs[i] = Find(tabs, active)
        BY <1>2, <3>1, <3>3, <4>1, FindIs DEF WSInv, WSTypes, Good, HasTab, Once
      <4>3. next[i] = tabs[i] /\ ~Affected(tabs[i])
        BY <1>4, <1>7, <3>3, <4>1, <4>2
      <4>4. PICK k \in DOMAIN tabs' : tabs'[k].id = active
        BY <2>2, <3>3 DEF Ids
      <4>5. PICK j \in DOMAIN next : tabs'[k] = next[j]
        <5>1. Firsts(next) \subseteq DOMAIN next
          BY DEF Firsts
        <5>2. \A l \in DOMAIN Kept(next, Firsts(next)) :
                 Nth(Firsts(next), l) \in Firsts(next) /\ Kept(next, Firsts(next))[l] = next[Nth(Firsts(next), l)]
          BY <1>4, <5>1, KeptParts
        <5> QED
          BY <1>1, <4>4, <5>1, <5>2
      <4>6. CASE ~Affected(tabs[j])
        <5>1. tabs[j] = next[j] /\ tabs[j].id = active
          BY <1>4, <4>4, <4>5, <4>6
        <5>2. j = i
          BY <1>4, <3>1, <4>1, <5>1 DEF Once
        <5> QED
          BY <3>3, <4>1, <4>3, <4>4, <4>5, <5>2 DEF OnShow
      <4>7. CASE Affected(tabs[j])
        <5>1. /\ next[j] \in TabSet /\ next[j].id = active /\ next[j].view \in View
              /\ tabs[i] \in TabSet /\ tabs[i].view \in View
          BY <1>2, <1>4, <4>4, <4>5, PlacesOfTabs
        <5>2. TabId(next[j].view) = TabId(tabs[i].view)
          BY <4>1, <5>1 DEF TabSet
        <5>3. next[j].view.kind = "ssh-editor"
          BY <1>2, <1>3, <1>4, <4>7
        <5>4. next[j].view = tabs[i].view
          BY SMTT(60), <5>1, <5>2, <5>3 DEF TabId, View
        <5> QED
          BY <3>3, <4>1, <4>4, <4>5, <5>4 DEF OnShow
      <4> QED
        BY <4>6, <4>7
    <3> QED
      BY <3>2, <3>3
  <2> QED
    BY <1>1, <1>5, <2>3, <2>4, RenderedGuards, Reached DEF Sound
<1> QED
  BY <1>6, <1>7

LEMMA MoveDoneKeeps == ASSUME WSInv, MoveDone PROVE WSInv'
<1>1. moving \in Moves /\ moving' = None /\ clash' = clash
  BY DEF MoveDone, WSInv, WSTypes
<1>2. CASE MoveSSHPathTabs(moving.conn, moving.old, moving.new)
  BY <1>1, <1>2, MoveSSHPathTabsKeeps DEF Moves
<1>3. CASE UNCHANGED <<tabs, active, right, dirty, asking>>
  BY <1>1, <1>3, SameTabs DEF WSInv, WSTypes
<1> QED
  BY <1>2, <1>3 DEF MoveDone

\* What is restored of stored views, whether they are sound or damaged.
LEMMA RestoredIsGood ==
  ASSUME NEW views \in Seq(View \cup {Broken})
  PROVE  /\ RestoredTabs(views) \in Seq(TabSet) /\ Once(RestoredTabs(views))
         /\ \A i \in DOMAIN views : IsRestorable(views[i])
              => TabId(NormalizeRestored(views[i])) \in Ids(RestoredTabs(views))
<1> DEFINE places == {i \in DOMAIN views : IsRestorable(views[i])}
           good == Kept(views, places)
           all == [i \in DOMAIN good |-> Tab(NormalizeRestored(good[i]))]
<1>1. places \subseteq DOMAIN views
  OBVIOUS
<1>2. /\ good \in Seq(View \cup {Broken}) /\ DOMAIN good = 1..Len(good) /\ Len(good) \in Nat
      /\ \A k \in DOMAIN good : \E i \in places : good[k] = views[i]
      /\ \A i \in places : \E k \in DOMAIN good : good[k] = views[i]
  <2> HIDE DEF places
  <2>1. /\ good \in Seq(View \cup {Broken})
        /\ \A k \in DOMAIN good : \E i \in places : good[k] = views[i]
        /\ \A i \in places : \E k \in DOMAIN good : good[k] = views[i]
    BY <1>1, KeptParts
  <2> QED
    BY <2>1, LenProperties
<1>3. \A i \in places : views[i] \in View
  <2>1. \A i \in DOMAIN views : views[i] \in View \cup {Broken}
    BY LenProperties
  <2> QED
    BY <2>1 DEF IsRestorable
<1>4. \A v \in View : NormalizeRestored(v) \in View
  BY DEF NormalizeRestored, View
<1> HIDE DEF places, good
<1>5. all \in Seq(TabSet)
  <2>1. \A i \in DOMAIN good : Tab(NormalizeRestored(good[i])) \in TabSet
    BY <1>2, <1>3, <1>4, TabTypes
  <2>2. all \in [1..Len(good) -> TabSet]
    BY <1>2, <2>1
  <2> QED
    BY <1>2, <2>2, SeqDef
<1>6. \A i \in places : TabId(NormalizeRestored(views[i])) \in Ids(all)
  <2> SUFFICES ASSUME NEW i \in places PROVE TabId(NormalizeRestored(views[i])) \in Ids(all)
    OBVIOUS
  <2>1. PICK k \in DOMAIN good : good[k] = views[i]
    BY <1>2
  <2>2. k \in DOMAIN all /\ all[k] = Tab(NormalizeRestored(views[i]))
    BY <2>1
  <2>3. all[k].id = TabId(NormalizeRestored(views[i]))
    BY <2>2, <1>3, <1>4, TabTypes
  <2> QED
    BY <2>2, <2>3 DEF Ids
<1> HIDE DEF all
<1>7. RestoredTabs(views) = Kept(all, Firsts(all))
  BY DEF RestoredTabs, all, good, places
<1> QED
  BY <1>5, <1>6, <1>7, FirstTabs DEF places

LEMMA RestoredShows ==
  ASSUME NEW seq \in Seq(TabSet), Once(seq), NEW id, NEW a, NEW r,
         a = RestoredActive(seq, id), r = ViewOn(seq, a)
  PROVE  Good(seq, a, r) /\ Sound(seq, a, r)
<1>1. CASE a = None
  BY <1>1 DEF ViewOn, Good, Sound, OnShow
<1>2. CASE a # None
  <2>1. HasTab(seq, a)
    <3>1. seq # <<>> => 1 \in DOMAIN seq
      BY EmptySeq, PlacesOfTabs
    <3> QED
      BY <1>2, <3>1 DEF RestoredActive, HasTab, Ids
  <2>2. r = Find(seq, a).view
    BY <1>2 DEF ViewOn
  <2>3. IndexOf(seq, a) \in DOMAIN seq /\ seq[IndexOf(seq, a)] = Find(seq, a) /\ Find(seq, a).id = a
        /\ r \in View
    BY <2>1, <2>2, FindIs
  <2> QED
    BY <1>2, <2>1, <2>2, <2>3 DEF Good, Sound, OnShow, HasTab
<1> QED
  BY <1>1, <1>2

LEMMA RestartKeeps ==
  ASSUME NEW views \in Seq(View \cup {Broken}), NEW id, Restart(views, id)
  PROVE  WSInv'
<1>1. /\ tabs' = RestoredTabs(views) /\ active' = RestoredActive(tabs', id)
      /\ right' = ViewOn(tabs', active') /\ dirty' = {} /\ asking' = {} /\ moving' = None
  BY DEF Restart, Show
<1>2. tabs' \in Seq(TabSet) /\ Once(tabs')
  BY <1>1, RestoredIsGood
<1>3. Good(tabs', active', right') /\ Sound(tabs', active', right')
  BY <1>1, <1>2, RestoredShows
<1> QED
  BY <1>1, <1>3, Reached

\* What is restored are the views of the tabs, one more at the head.
LEMMA StoredViewsAre ==
  ASSUME WSInv, NEW v \in View \cup {Broken}
  PROVE  /\ StoredViews \in Seq(View \cup {Broken}) /\ <<v>> \o StoredViews \in Seq(View \cup {Broken})
         /\ DOMAIN StoredViews = DOMAIN tabs /\ \A i \in DOMAIN tabs : StoredViews[i] = tabs[i].view
         /\ \A i \in DOMAIN tabs : \E k \in DOMAIN (<<v>> \o StoredViews) :
              (<<v>> \o StoredViews)[k] = tabs[i].view
<1>1. /\ tabs \in Seq(TabSet) /\ DOMAIN tabs = 1..Len(tabs) /\ Len(tabs) \in Nat
      /\ \A i \in DOMAIN tabs : tabs[i].view \in View
  BY PlacesOfTabs DEF WSInv, WSTypes, Good
<1> DEFINE stored == StoredViews
           V == View \cup {Broken}
<1>2. DOMAIN stored = DOMAIN tabs /\ \A i \in DOMAIN tabs : stored[i] = tabs[i].view
  BY DEF StoredViews
<1>3. stored \in Seq(V) /\ Len(stored) = Len(tabs)
  <2>1. stored \in [1..Len(tabs) -> V]
    BY <1>1 DEF StoredViews
  <2> HIDE DEF stored, V
  <2>2. stored \in Seq(V)
    BY <1>1, <2>1, SeqDef
  <2>3. DOMAIN stored = 1..Len(stored) /\ Len(stored) \in Nat
    BY <2>2, LenProperties
  <2> QED
    BY <1>1, <1>2, <2>2, <2>3
<1> HIDE DEF stored
<1>4. <<v>> \in Seq(V) /\ Len(<<v>>) = 1
  OBVIOUS
<1> HIDE DEF V
<1>5. /\ <<v>> \o stored \in Seq(V) /\ Len(<<v>> \o stored) = 1 + Len(stored)
      /\ \A k \in 1..1 + Len(stored) : (<<v>> \o stored)[k] = IF k <= 1 THEN <<v>>[k] ELSE stored[k - 1]
  BY <1>3, <1>4, ConcatProperties
<1>6. DOMAIN (<<v>> \o stored) = 1..1 + Len(tabs)
  BY <1>3, <1>5, LenProperties
<1>7. ASSUME NEW i \in DOMAIN tabs
      PROVE  \E k \in DOMAIN (<<v>> \o stored) : (<<v>> \o stored)[k] = tabs[i].view
  <2>1. i + 1 \in 1..1 + Len(tabs) /\ ~ (i + 1 <= 1) /\ (i + 1) - 1 = i
    BY <1>1
  <2>2. (<<v>> \o stored)[i + 1] = stored[i]
    BY <1>3, <1>5, <2>1
  <2> QED
    BY <1>2, <1>6, <2>1, <2>2
<1> QED
  BY <1>2, <1>3, <1>5, <1>7 DEF stored, V

LEMMA WSRestartKeeps == ASSUME WSInv, WSRestart PROVE WSInv'
<1>1. ASSUME NEW id, Restart(StoredViews, id) PROVE WSInv'
  BY <1>1, StoredViewsAre, RestartKeeps
<1>2. ASSUME NEW id, NEW v \in Openable \cup {Broken}, Restart(<<v>> \o StoredViews, id) PROVE WSInv'
  <2>1. v \in View \cup {Broken}
    BY OpenableAssumption
  <2> QED
    BY <1>2, <2>1, StoredViewsAre, RestartKeeps
<1> QED
  BY <1>1, <1>2 DEF WSRestart

LEMMA OpeningKeeps == ASSUME WSInv, Opening PROVE WSInv' /\ Ids(tabs) \subseteq Ids(tabs')
<1>1. ASSUME NEW v \in Openable, SetRightView(v) PROVE WSInv' /\ Ids(tabs) \subseteq Ids(tabs')
  BY <1>1, OpenableAssumption, SetRightViewKeeps
<1>2. CASE OpenSQLConsole
  <2> DEFINE at == [ends |-> <<right.at.ends[1]>>, table |-> None, path |-> <<>>]
             v == [kind |-> "sql", sub |-> None, engine |-> right.engine, at |-> at]
  <2>1. right \in View /\ right.kind \in {"table", "database", "sql"}
    BY <1>2 DEF OpenSQLConsole, WSInv, WSTypes, Good, EmptyView
  <2>2. right.at.ends \in Seq(STRING \X STRING) /\ right.at.ends # <<>> /\ right.engine \in STRING \cup {None}
    BY <2>1 DEF View, Place
  <2>3. right.at.ends[1] \in STRING \X STRING
    BY <2>2, EmptySeq, ElementOfSeq
  <2>4. at \in Place /\ at.ends # <<>>
    BY <2>3 DEF Place
  <2> HIDE DEF at
  <2>5. v \in View
    BY <2>2, <2>4 DEF View, ViewKinds
  <2>6. SetRightView(v)
    BY <1>2 DEF OpenSQLConsole, at
  <2> QED
    BY <2>5, <2>6, SetRightViewKeeps
<1>3. ASSUME NEW sub \in TableViewTabKind, SetTableTab(active, sub) PROVE WSInv' /\ Ids(tabs) \subseteq Ids(tabs')
  BY <1>3, SetTableTabKeeps
<1> QED
  BY <1>1, <1>2, <1>3 DEF Opening

LEMMA ChoosingKeeps == ASSUME WSInv, Choosing PROVE WSInv'
<1>1. ASSUME NEW id, OpenMenu(id) \/ Drag(id) PROVE WSInv'
  BY <1>1, SameTabs DEF OpenMenu, Drag, Touch, WSInv, WSTypes
<1>2. ASSUME NEW id, Drop(id) PROVE WSInv'
  <2>1. CASE MoveTab(strip.id, id)
    BY <1>2, <2>1, MoveTabKeeps DEF Drop
  <2>2. CASE UNCHANGED <<tabs, active, right, dirty, asking>>
    BY <1>2, <2>2, SameTabs DEF Drop, WSInv, WSTypes
  <2> QED
    BY <1>2, <2>1, <2>2 DEF Drop
<1>3. CASE CloseMenu
  BY <1>3, SameTabs DEF CloseMenu, WSInv, WSTypes
<1>4. CASE ChooseInMenu
  BY <1>4, CloseTabKeeps, CloseOtherTabsKeeps, CloseTabsToRightKeeps, CloseAllTabsKeeps DEF ChooseInMenu
<1>5. ASSUME NEW id, SetActiveTab(id) \/ CloseTab(id) \/ ConfirmDiscard(id) \/ DismissDiscard(id)
      PROVE  WSInv'
  BY <1>5, SetActiveTabKeeps, CloseTabKeeps, DiscardKeeps
<1> QED
  BY <1>1, <1>2, <1>3, <1>4, <1>5 DEF Choosing

LEMMA KeyboardKeeps == ASSUME WSInv, Keyboard PROVE WSInv'
BY SetActiveTabKeeps, CloseTabKeeps DEF Keyboard, CycleTab, JumpToTab, ArrowKeys, CloseByKey

LEMMA GuardsKeep == ASSUME WSInv, Guards PROVE WSInv'
<1>1. ASSUME NEW id \in Ids(tabs), Edit(id) PROVE WSInv'
  <2>1. id \in TabIds
    BY PlacesOfTabs DEF WSInv, WSTypes, Good
  <2>2. moving' \in Moves \cup {None}
    BY <1>1, <2>1 DEF Edit, WSInv, WSTypes, Moves
  <2> QED
    BY <1>1, <2>2, SameTabs DEF Edit, WSInv, WSTypes
<1>2. ASSUME NEW id \in Ids(tabs), Save(id) PROVE WSInv'
  BY <1>2, SameTabs DEF Save, Strip, WSInv, WSTypes
<1> QED
  BY <1>1, <1>2 DEF Guards

LEMMA ObjectsOfViews ==
  /\ \A end \in OpenableEnds : end \in STRING \X STRING
  /\ \A name \in Names : name \in STRING /\ name # None
  /\ \A f \in Folders : f[1] \in STRING /\ f[2] \in Seq(STRING)
<1>1. ASSUME NEW v \in Openable, NEW end \in Ends(v) PROVE end \in STRING \X STRING
  <2>1. v.at.ends \in Seq(STRING \X STRING)
    BY OpenableAssumption DEF View, Place
  <2>2. end \in ToSet(v.at.ends)
    BY <1>1 DEF Ends
  <2> QED
    BY <2>1, <2>2, LenProperties DEF ToSet
<1>2. ASSUME NEW v \in Openable, TableOf(v) # None PROVE TableOf(v) \in STRING
  BY <1>2, OpenableAssumption DEF TableOf, View, Place
<1>3. ASSUME NEW v \in EditorViews, NEW n \in DOMAIN v.at.path
      PROVE  v.at.ends[1][1] \in STRING /\ SubSeq(v.at.path, 1, n) \in Seq(STRING)
  <2>1. /\ v.at.ends \in Seq(STRING \X STRING) /\ v.at.ends # <<>>
        /\ v.at.path \in Seq(STRING)
    BY OpenableAssumption DEF EditorViews, View, Place
  <2>2. v.at.ends[1] \in STRING \X STRING
    BY <2>1, EmptySeq, ElementOfSeq
  <2>3. n \in Nat /\ \A i \in 1..n : v.at.path[i] \in STRING
    BY <2>1, LenProperties
  <2> QED
    BY <2>2, <2>3, SubSeqProperties
<1>4. \A end \in OpenableEnds : end \in STRING \X STRING
  BY <1>1 DEF OpenableEnds
<1>5. \A name \in Names : name \in STRING /\ name # None
  BY <1>2 DEF Names
<1>6. ASSUME NEW f \in Folders PROVE f[1] \in STRING /\ f[2] \in Seq(STRING)
  <2>1. PICK v \in EditorViews : f \in {<<v.at.ends[1][1], SubSeq(v.at.path, 1, n)>> : n \in DOMAIN v.at.path}
    BY <1>6 DEF Folders
  <2>2. PICK n \in DOMAIN v.at.path : f = <<v.at.ends[1][1], SubSeq(v.at.path, 1, n)>>
    BY <2>1
  <2> QED
    BY <1>3, <2>2
<1> QED
  BY <1>4, <1>5, <1>6

LEMMA ObjectsKeep == ASSUME WSInv, Objects PROVE WSInv'
<1>1. ASSUME NEW end \in OpenableEnds,
             \/ CloseDatabaseTabs(end) \/ CloseConnectionDatabaseTabs(end[1])
             \/ \E old \in Names : CloseTableTabs(end, old)
      PROVE  WSInv'
  BY <1>1, CloseKeeps DEF CloseDatabaseTabs, CloseConnectionDatabaseTabs, CloseTableTabs, CloseWhere, Strip
<1>2. ASSUME NEW end \in OpenableEnds, NEW old \in Names, NEW new \in Names, RenameTableTabs(end, old, new)
      PROVE  WSInv'
  BY <1>2, ObjectsOfViews, RenameTableTabsKeeps
<1>3. ASSUME NEW f \in Folders, NEW g \in Folders, f[1] = g[1], StartMove(f[1], f[2], g[2])
      PROVE  WSInv'
  <2>1. UnsavedBelow(f[1], f[2]) \in SUBSET TabIds /\ HasUnsavedSSHPathTabs(f[1], f[2]) \in BOOLEAN
    BY PlacesOfTabs DEF UnsavedBelow, HasUnsavedSSHPathTabs, WSInv, WSTypes, Good
  <2>2. moving' \in Moves
    BY <1>3, <2>1, ObjectsOfViews DEF StartMove, Moves
  <2> QED
    BY <1>3, <2>2, SameTabs DEF StartMove, WSInv, WSTypes
<1>4. CASE ConfirmMove \/ MoveDropped
  BY <1>4, SameTabs DEF ConfirmMove, MoveDropped, Moves, WSInv, WSTypes
<1>5. CASE MoveDone
  BY <1>5, MoveDoneKeeps
<1> QED
  BY <1>1, <1>2, <1>3, <1>4, <1>5 DEF Objects

LEMMA WSInvInit == ASSUME WSInit PROVE WSInv
<1>1. PICK n \in 0..(MaxTabs - 1) : \E views \in [1..n -> Openable] : tabs = RestoredTabs(views)
  BY DEF WSInit
<1>2. PICK views \in [1..n -> Openable] : tabs = RestoredTabs(views)
  BY <1>1
<1>3. views \in Seq(View \cup {Broken})
  <2>1. views \in [1..n -> View \cup {Broken}] /\ n \in Nat
    BY OpenableAssumption, <1>2
  <2> QED
    BY <2>1, SeqDef
<1>4. tabs \in Seq(TabSet) /\ Once(tabs)
  BY <1>2, <1>3, RestoredIsGood
<1>5. Good(tabs, active, right) /\ Sound(tabs, active, right)
  <2>1. PICK id : active = RestoredActive(tabs, id)
    BY DEF WSInit
  <2> QED
    BY <1>4, <2>1, RestoredShows DEF WSInit
<1> QED
  BY <1>5 DEF WSInit, WSInv, WSTypes

LEMMA WSInvStep == ASSUME WSInv, [WSNext]_wsVars PROVE WSInv'
<1>1. CASE UNCHANGED wsVars
  BY <1>1 DEF wsVars, WSInv, WSTypes, Good, Sound, Once, OnShow, Ids
<1>2. CASE WSNext
  BY <1>2, OpeningKeeps, ChoosingKeeps, KeyboardKeeps, GuardsKeep, ObjectsKeep, WSRestartKeeps DEF WSNext
<1> QED
  BY <1>1, <1>2

\* The tabs, the active one, the view on show and the questions asked agree after any
\* sequence of opening, closing, renaming, moving and restarting, of any number of tabs
\* (ui-store.ts:284).
THEOREM TabsAlwaysAgree == WSSpec => []TabsAgree
<1>1. WSInit => WSInv
  BY WSInvInit
<1>2. WSInv /\ [WSNext]_wsVars => WSInv'
  BY WSInvStep
<1>3. WSInv => TabsAgree
  BY PlacesOfTabs DEF WSInv, WSTypes, Good, Sound, Once, OnShow, TabsAgree
<1> QED
  BY <1>1, <1>2, <1>3, PTL DEF WSSpec

-----------------------------------------------------------------------------
(* The workspace: unsaved edits of remote files                            *)

\* What a move will carry off without its question having been about it was not unsaved
\* when the move began, and is known since it was edited.
KnownToMove ==
  moving # None =>
    \A id \in dirty : id.kind = "ssh-editor" /\ id.at.ends[1][1] = moving.conn /\ IsPrefix(moving.old, id.at.path)
                        => id \in moving.known
Stays(id) == id \in asking \/ id \in Ids(tabs') \/ (moving # None /\ id \in moving.known)

LEMMA BelowById ==
  ASSUME WSInv, NEW id, HasTab(tabs, id), NEW c, NEW old
  PROVE  Below(Find(tabs, id).view, c, old)
           <=> id.kind = "ssh-editor" /\ id.at.ends[1][1] = c /\ IsPrefix(old, id.at.path)
<1>1. TabId(Find(tabs, id).view) = id
  BY FindIs DEF WSInv, WSTypes, Good
<1>2. id.kind = Find(tabs, id).view.kind /\ id.at = Find(tabs, id).view.at
  BY <1>1 DEF TabId
<1> QED
  BY <1>2 DEF Below

LEMMA KnownToMoveStep == ASSUME WSInv, KnownToMove, [WSNext]_wsVars PROVE KnownToMove'
<1>1. ASSUME dirty' \subseteq dirty, moving' = moving \/ moving' = None PROVE KnownToMove'
  BY <1>1 DEF KnownToMove
<1>2. CASE UNCHANGED wsVars
  BY <1>1, <1>2 DEF wsVars
<1>3. CASE Opening
  BY <1>1, <1>3 DEF Opening, SetRightView, OpenSQLConsole, SetTableTab, Rendered, Strip
<1>4. CASE Choosing
  <2>1. ASSUME NEW id, OpenMenu(id) \/ Drag(id) \/ Drop(id) PROVE KnownToMove'
    BY <1>1, <2>1 DEF OpenMenu, Drag, Drop, Touch, MoveTab, Rendered
  <2>2. CASE CloseMenu \/ ChooseInMenu
    BY <1>1, <2>2 DEF CloseMenu, ChooseInMenu, CloseTab, CloseOtherTabs, CloseTabsToRight, CloseAllTabs,
       KeepAt, Close, Rendered
  <2>3. ASSUME NEW id, SetActiveTab(id) \/ CloseTab(id) \/ ConfirmDiscard(id) \/ DismissDiscard(id)
        PROVE  KnownToMove'
    BY <1>1, <2>3 DEF SetActiveTab, CloseTab, ConfirmDiscard, DismissDiscard, Close, Rendered, Strip
  <2> QED
    BY <1>4, <2>1, <2>2, <2>3 DEF Choosing
<1>5. CASE Keyboard
  BY <1>1, <1>5 DEF Keyboard, CycleTab, JumpToTab, ArrowKeys, CloseByKey, SetActiveTab, CloseTab,
     Close, Rendered, Strip
<1>6. ASSUME NEW id \in Ids(tabs), Edit(id) PROVE KnownToMove'
  <2>1. CASE moving = None
    BY <1>6, <2>1 DEF Edit, KnownToMove
  <2>2. CASE moving # None
    <3>1. moving \in Moves
      BY <2>2 DEF WSInv, WSTypes
    <3>2. /\ moving'.conn = moving.conn /\ moving'.old = moving.old
          /\ moving'.known = moving.known \cup {id} /\ dirty' = dirty \cup {id}
      BY <1>6, <2>2, <3>1 DEF Edit, Moves
    <3> QED
      BY <2>2, <3>2 DEF KnownToMove
  <2> QED
    BY <2>1, <2>2
<1>7. ASSUME NEW id \in Ids(tabs), Save(id) PROVE KnownToMove'
  BY <1>1, <1>7 DEF Save, Strip
<1>8. ASSUME NEW f \in Folders, NEW g \in Folders, StartMove(f[1], f[2], g[2]) PROVE KnownToMove'
  <2>1. /\ dirty' = dirty /\ moving'.conn = f[1] /\ moving'.old = f[2]
        /\ moving'.known = {id \in dirty : Below(Find(tabs, id).view, f[1], f[2])}
    BY <1>8 DEF StartMove, UnsavedBelow
  <2>2. \A id \in dirty : Below(Find(tabs, id).view, f[1], f[2])
          <=> id.kind = "ssh-editor" /\ id.at.ends[1][1] = f[1] /\ IsPrefix(f[2], id.at.path)
    BY BelowById DEF WSInv, WSTypes, HasTab
  <2> QED
    BY <2>1, <2>2 DEF KnownToMove
<1>9. CASE ConfirmMove
  <2>1. /\ moving \in Moves /\ dirty' = dirty /\ moving'.conn = moving.conn /\ moving'.old = moving.old
        /\ moving'.known = moving.known /\ moving # None
    BY <1>9 DEF ConfirmMove, WSInv, WSTypes, Moves
  <2> QED
    BY <2>1 DEF KnownToMove
<1>10. CASE MoveDropped \/ MoveDone
  BY <1>10 DEF MoveDropped, MoveDone, KnownToMove
<1>11. ASSUME NEW end \in OpenableEnds,
              \/ CloseDatabaseTabs(end) \/ CloseConnectionDatabaseTabs(end[1])
              \/ \E old \in Names : CloseTableTabs(end, old)
              \/ \E old, new \in Names : RenameTableTabs(end, old, new)
       PROVE  KnownToMove'
  BY <1>1, <1>11 DEF CloseDatabaseTabs, CloseConnectionDatabaseTabs, CloseTableTabs, CloseWhere, Close,
     RenameTableTabs, Rendered, Strip
<1>12. CASE WSRestart
  BY <1>12 DEF WSRestart, Restart, KnownToMove
<1> QED
  BY <1>2, <1>3, <1>4, <1>5, <1>6, <1>7, <1>8, <1>9, <1>10, <1>11, <1>12 DEF WSNext, Guards, Objects

\* A close takes an editor's tab only if the tab is at one of the places closed.
LEMMA CloseSpares ==
  ASSUME WSInv, NEW gone, Close(gone), NEW id \in dirty,
         \A i \in DOMAIN tabs : tabs[i].id = id => i \notin gone
  PROVE  id \in Ids(tabs')
<1>1. PICK i \in DOMAIN tabs : tabs[i].id = id
  BY DEF WSInv, WSTypes, Ids
<1>2. Ids(tabs') = {tabs[j].id : j \in DOMAIN tabs \ gone}
  BY KeptTabs DEF Close, WSInv, WSTypes, Good
<1> QED
  BY <1>1, <1>2

\* Whatever else is closed, what is not clean is kept.
LEMMA KeepAtSpares ==
  ASSUME WSInv, NEW places, places \subseteq DOMAIN tabs, NotClean \subseteq places, KeepAt(places),
         NEW id \in dirty
  PROVE  id \in Ids(tabs')
<1>1. PICK i \in DOMAIN tabs : tabs[i].id = id
  BY DEF WSInv, WSTypes, Ids
<1>2. i \in NotClean
  BY <1>1 DEF NotClean, CanClose
<1> QED
  BY <1>1, <1>2, KeptOf

LEMMA CloseTabSpares ==
  ASSUME WSInv, NEW id0, CloseTab(id0), NEW id \in dirty \ dirty'
  PROVE  id \in Ids(tabs')
<1>1. CanClose(id0) /\ Close(PlacesOf(id0))
  BY DEF CloseTab
<1>2. \A i \in DOMAIN tabs : tabs[i].id = id => i \notin PlacesOf(id0)
  BY <1>1 DEF CanClose, PlacesOf
<1> QED
  BY <1>1, <1>2, CloseSpares

LEMMA BulkSpares ==
  ASSUME WSInv, NEW id \in dirty, NEW id0,
         CloseOtherTabs(id0) \/ CloseTabsToRight(id0) \/ CloseAllTabs
  PROVE  id \in Ids(tabs')
<1>1. CASE CloseOtherTabs(id0)
  <2>1. PlacesOf(id0) \cup NotClean \subseteq DOMAIN tabs
    BY DEF PlacesOf, NotClean
  <2> QED
    BY <1>1, <2>1, KeepAtSpares DEF CloseOtherTabs
<1>2. CASE CloseTabsToRight(id0)
  <2>1. 1..IndexOf(tabs, id0) \cup NotClean \subseteq DOMAIN tabs
    BY <1>2, FindIs, PlacesOfTabs DEF CloseTabsToRight, NotClean, WSInv, WSTypes, Good
  <2> QED
    BY <1>2, <2>1, KeepAtSpares DEF CloseTabsToRight
<1>3. CASE CloseAllTabs
  BY <1>3, KeepAtSpares DEF CloseAllTabs, NotClean
<1> QED
  BY <1>1, <1>2, <1>3

LEMMA KindOfTab ==
  ASSUME WSInv, NEW i \in DOMAIN tabs
  PROVE  tabs[i].view.kind = tabs[i].id.kind
<1>1. tabs[i].id = TabId(tabs[i].view)
  BY PlacesOfTabs DEF WSInv, WSTypes, Good
<1> QED
  BY <1>1 DEF TabId

\* An editor's tab is of no database and no table.
LEMMA ObjectsSpare ==
  ASSUME WSInv, NEW id \in dirty, id.kind = "ssh-editor", NEW end \in OpenableEnds,
         \/ CloseDatabaseTabs(end) \/ CloseConnectionDatabaseTabs(end[1])
         \/ \E old \in Names : CloseTableTabs(end, old)
  PROVE  id \in Ids(tabs')
<1>1. \A i \in DOMAIN tabs : tabs[i].id = id => tabs[i].view.kind = "ssh-editor"
  BY KindOfTab
<1>2. \A i \in DOMAIN tabs : tabs[i].id = id => Ends(tabs[i].view) = {}
  BY <1>1 DEF Ends
<1>3. \A gone : Close(gone) /\ (\A i \in gone : Ends(tabs[i].view) # {}) => id \in Ids(tabs')
  BY <1>2, CloseSpares
<1>4. CASE CloseDatabaseTabs(end)
  BY <1>3, <1>4 DEF CloseDatabaseTabs, CloseWhere, OfDatabase
<1>5. CASE CloseConnectionDatabaseTabs(end[1])
  BY <1>3, <1>5 DEF CloseConnectionDatabaseTabs, CloseWhere, OfConnection
<1>6. ASSUME NEW old \in Names, CloseTableTabs(end, old) PROVE id \in Ids(tabs')
  BY <1>3, <1>6 DEF CloseTableTabs, CloseWhere, OfTable
<1> QED
  BY <1>4, <1>5, <1>6

LEMMA RenameSpares ==
  ASSUME WSInv, NEW id \in dirty, id.kind = "ssh-editor", NEW end \in OpenableEnds,
         NEW old \in Names, NEW new \in Names, RenameTableTabs(end, old, new)
  PROVE  id \in Ids(tabs')
<1> DEFINE oldId == TableTab(end, old)
           gone == {i \in DOMAIN tabs : tabs[i].view.kind = "table-compare" /\ OfTable(tabs[i].view, end, old)}
           next == [i \in DOMAIN tabs |->
                      IF tabs[i].id = oldId THEN Tab([tabs[i].view EXCEPT !.at = TableAt(end, new)]) ELSE tabs[i]]
           places == DOMAIN tabs \ gone
<1>1. tabs' = Kept(next, places)
  BY DEF RenameTableTabs
<1>2. PICK i \in DOMAIN tabs : tabs[i].id = id /\ tabs[i].view.kind = "ssh-editor"
  BY KindOfTab DEF WSInv, WSTypes, Ids
<1>3. i \in places /\ next[i] = tabs[i]
  BY <1>2 DEF TableTab
<1>4. DOMAIN next = 1..Len(tabs) /\ Len(tabs) \in Nat /\ places \subseteq 1..Len(tabs)
  BY PlacesOfTabs DEF WSInv, WSTypes, Good
<1> HIDE DEF next, places
<1>5. \E k \in 1..Cardinality(places) : Nth(places, k) = i
  BY <1>3, <1>4, NthReaches
<1>6. tabs' = [k \in 1..Cardinality(places) |-> next[Nth(places, k)]]
  BY <1>1 DEF Kept
<1> QED
  BY <1>2, <1>3, <1>5, <1>6 DEF Ids

\* A tab that no move concerns keeps its name.
LEMMA MoveSpares ==
  ASSUME WSInv, KnownToMove, NEW id \in dirty, id.kind = "ssh-editor", MoveDone
  PROVE  id \in Ids(tabs') \/ id \in moving.known
<1> DEFINE c == moving.conn
           old == moving.old
           new == moving.new
           Affected(t) == Below(t.view, c, old)
           next == [i \in DOMAIN tabs |->
                      IF Affected(tabs[i]) THEN Tab([tabs[i].view EXCEPT !.at.path = new \o SubSeq(@, Len(old) + 1, Len(@))])
                      ELSE tabs[i]]
<1>1. HasTab(tabs, id) /\ tabs \in Seq(TabSet)
  BY DEF HasTab, WSInv, WSTypes, Good
<1>2. CASE UNCHANGED tabs
  BY <1>1, <1>2 DEF HasTab
<1>3. CASE MoveSSHPathTabs(c, old, new)
  <2> SUFFICES ASSUME id \notin moving.known PROVE id \in Ids(tabs')
    OBVIOUS
  <2> DEFINE i == IndexOf(tabs, id)
  <2>1. i \in DOMAIN tabs /\ tabs[i] = Find(tabs, id) /\ tabs[i].id = id
    BY <1>1, FindIs
  <2>2. ~Affected(tabs[i])
    BY <1>1, <2>1, BelowById DEF KnownToMove, MoveDone
  <2>3. next[i] = tabs[i]
    BY <2>1, <2>2
  <2>4. tabs' = Kept(next, Firsts(next))
    BY <1>3 DEF MoveSSHPathTabs
  <2> DEFINE Tabs == {next[j] : j \in DOMAIN next}
  <2>5. next \in Seq(Tabs) /\ i \in DOMAIN next
    <3>1. DOMAIN tabs = 1..Len(tabs) /\ Len(tabs) \in Nat
      BY <1>1, PlacesOfTabs
    <3>2. next \in [1..Len(tabs) -> Tabs]
      BY <3>1
    <3>0. i \in DOMAIN next
      BY <2>1
    <3> HIDE DEF Tabs, next
    <3>3. next \in Seq(Tabs)
      BY <3>1, <3>2, SeqDef
    <3> QED
      BY <3>0, <3>3
  <2> HIDE DEF next, Tabs, i
  <2>6. PICK j \in Firsts(next) : next[j].id = id
    BY <2>1, <2>3, <2>5, FirstsAreOnce
  <2>7. \E k \in DOMAIN tabs' : tabs'[k] = next[j]
    BY <2>4, <2>5, <2>6, FirstsAreOnce, KeptParts
  <2> QED
    BY <2>6, <2>7 DEF Ids
<1> QED
  BY <1>2, <1>3 DEF MoveDone

\* What is open is stored, and what is stored of a remote file is restored.
LEMMA RestartSpares ==
  ASSUME WSInv, NEW id \in dirty, id.kind = "ssh-editor", WSRestart
  PROVE  id \in Ids(tabs')
<1>1. PICK i \in DOMAIN tabs : tabs[i].id = id
  BY DEF WSInv, WSTypes, Ids
<1>2. /\ tabs[i].view \in View /\ tabs[i].view.kind = "ssh-editor" /\ id = TabId(tabs[i].view)
  BY <1>1, KindOfTab, PlacesOfTabs DEF WSInv, WSTypes, Good
<1>3. IsRestorable(tabs[i].view) /\ NormalizeRestored(tabs[i].view) = tabs[i].view
  BY <1>2, OpenableAssumption DEF IsRestorable, Volatile, NormalizeRestored
<1>4. ASSUME NEW views \in Seq(View \cup {Broken}), \E k \in DOMAIN views : views[k] = tabs[i].view,
             NEW a, Restart(views, a)
      PROVE  id \in Ids(tabs')
  <2>1. tabs' = RestoredTabs(views)
    BY <1>4 DEF Restart
  <2>2. TabId(NormalizeRestored(tabs[i].view)) \in Ids(RestoredTabs(views))
    BY <1>3, <1>4, RestoredIsGood
  <2> QED
    BY <1>2, <1>3, <2>1, <2>2
<1>5. ASSUME NEW a, Restart(StoredViews, a) PROVE id \in Ids(tabs')
  <2>1. StoredViews \in Seq(View \cup {Broken}) /\ \E k \in DOMAIN StoredViews : StoredViews[k] = tabs[i].view
    BY StoredViewsAre
  <2> QED
    BY <1>4, <1>5, <2>1
<1>6. ASSUME NEW a, NEW v \in Openable \cup {Broken}, Restart(<<v>> \o StoredViews, a)
      PROVE  id \in Ids(tabs')
  <2>1. v \in View \cup {Broken}
    BY OpenableAssumption
  <2>2. /\ <<v>> \o StoredViews \in Seq(View \cup {Broken})
        /\ \E k \in DOMAIN (<<v>> \o StoredViews) : (<<v>> \o StoredViews)[k] = tabs[i].view
    BY <2>1, StoredViewsAre
  <2> QED
    BY <1>4, <1>6, <2>2
<1> QED
  BY <1>5, <1>6 DEF WSRestart

LEMMA UnsavedStep ==
  ASSUME WSInv, KnownToMove, WSNext, NEW id \in dirty \ dirty', id.kind = "ssh-editor"
  PROVE  Stays(id)
<1>0. id \in Ids(tabs)
  BY DEF WSInv, WSTypes
<1>1. CASE Ids(tabs) \subseteq Ids(tabs')
  BY <1>0, <1>1 DEF Stays
<1>2. ASSUME UNCHANGED tabs PROVE Stays(id)
  BY <1>1, <1>2
<1>3. ASSUME NEW id0, SetActiveTab(id0) \/ CloseTab(id0) PROVE Stays(id)
  BY <1>2, <1>3, CloseTabSpares DEF SetActiveTab, Stays
<1>4. CASE Opening
  BY <1>1, <1>4, OpeningKeeps
<1>5. CASE Choosing
  <2>1. ASSUME NEW id0, OpenMenu(id0) \/ Drag(id0) PROVE Stays(id)
    BY <1>2, <2>1 DEF OpenMenu, Drag, Touch
  <2>2. ASSUME NEW id0, Drop(id0) PROVE Stays(id)
    BY <1>1, <1>2, <2>2, MoveTabKeeps DEF Drop
  <2>3. CASE CloseMenu
    BY <1>2, <2>3 DEF CloseMenu
  <2>4. CASE ChooseInMenu
    BY <1>3, <2>4, BulkSpares DEF ChooseInMenu, Stays
  <2>5. ASSUME NEW id0 \in asking, ConfirmDiscard(id0) PROVE Stays(id)
    <3>1. CASE id = id0
      BY <2>5, <3>1 DEF Stays
    <3>2. CASE id # id0
      BY <2>5, <3>2, CloseSpares DEF ConfirmDiscard, PlacesOf, Stays
    <3> QED
      BY <3>1, <3>2
  <2>6. ASSUME NEW id0, DismissDiscard(id0) PROVE Stays(id)
    BY <1>2, <2>6 DEF DismissDiscard
  <2> QED
    BY <1>3, <1>5, <2>1, <2>2, <2>3, <2>4, <2>5, <2>6 DEF Choosing
<1>6. CASE Keyboard
  BY <1>3, <1>6 DEF Keyboard, CycleTab, JumpToTab, ArrowKeys, CloseByKey
<1>7. CASE Guards
  BY <1>2, <1>7 DEF Guards, Edit, Save
<1>8. CASE Objects
  <2>1. ASSUME NEW f, NEW g, StartMove(f[1], f[2], g[2]) PROVE Stays(id)
    BY <1>2, <2>1 DEF StartMove
  <2>2. CASE ConfirmMove \/ MoveDropped
    BY <1>2, <2>2 DEF ConfirmMove, MoveDropped
  <2>3. CASE MoveDone
    BY <2>3, MoveSpares DEF MoveDone, Stays
  <2> QED
    BY <1>8, <2>1, <2>2, <2>3, ObjectsSpare, RenameSpares DEF Objects, Stays
<1>9. CASE WSRestart
  BY <1>9, RestartSpares DEF Stays
<1> QED
  BY <1>4, <1>5, <1>6, <1>7, <1>8, <1>9 DEF WSNext

\* No bulk close, no drop or rename of an object and no restart takes the tab of a remote
\* file that is not clean, and no move of its folder loses what was typed before the move
\* was begun or while it was asked about (ui-store.ts:478, SSHFileManager.tsx:190).
THEOREM UnsavedTabsAlwaysStay == WSSpec => UnsavedTabsStay
<1> DEFINE Spared == \A id \in dirty \ dirty' : id.kind = "ssh-editor" =>
                       id \in asking \/ id \in Ids(tabs') \/ (moving # None /\ id \in moving.known)
<1>1. WSInit => WSInv /\ KnownToMove
  BY WSInvInit DEF WSInit, KnownToMove
<1>2. WSInv /\ KnownToMove /\ [WSNext]_wsVars => WSInv' /\ KnownToMove'
  BY WSInvStep, KnownToMoveStep
<1>3. WSInv /\ KnownToMove /\ [WSNext]_wsVars => [Spared]_wsVars
  BY UnsavedStep DEF Stays
<1> QED
  BY <1>1, <1>2, <1>3, PTL DEF WSSpec, UnsavedTabsStay

-----------------------------------------------------------------------------
(* Remote files: the listing                                               *)

\* A listing that was answered holds entries of the folder it was asked for.
OfFolder(rows, path) == \A e \in rows : Front(e.path) = path
ListingsInv ==
  /\ \A n \in DOMAIN lists :
       /\ DOMAIN lists[n] = {"path", "answer"}
       /\ lists[n].answer \notin {None, {None}} => OfFolder(lists[n].answer, lists[n].path)
  /\ RowsAreOfTheFolder

LEMMA AskedListing ==
  ASSUME ListingsInv, NEW path, LoadFiles(path)
  PROVE  \A n \in DOMAIN lists' :
           /\ DOMAIN lists'[n] = {"path", "answer"}
           /\ lists'[n].answer \notin {None, {None}} => OfFolder(lists'[n].answer, lists'[n].path)
<1> DEFINE new == [path |-> path, answer |-> None]
<1>1. lists' = [x \in DOMAIN lists \cup {listSeq + 1} |-> IF x = listSeq + 1 THEN new ELSE lists[x]]
  BY DEF LoadFiles, Put
<1>2. DOMAIN new = {"path", "answer"} /\ new.answer = None
  OBVIOUS
<1> HIDE DEF new
<1> QED
  BY <1>1, <1>2 DEF ListingsInv

\* Enough to keep it: what is shown stays, requests are added, and what is selected is a row.
LEMMA ListingsKeep ==
  ASSUME ListingsInv, UNCHANGED <<folder, listing>>,
         UNCHANGED lists \/ \E path : LoadFiles(path),
         selected' \in {selected, None} \cup TableShows.rows
  PROVE  ListingsInv'
<1>1. \A n \in DOMAIN lists' :
           /\ DOMAIN lists'[n] = {"path", "answer"}
           /\ lists'[n].answer \notin {None, {None}} => OfFolder(lists'[n].answer, lists'[n].path)
  BY AskedListing DEF ListingsInv
<1>2. \A e \in TableShows.rows : listing # None /\ e \in listing
  BY DEF TableShows
<1>3. RowsAreOfTheFolder'
  BY <1>2 DEF ListingsInv, RowsAreOfTheFolder
<1> QED
  BY <1>1, <1>3 DEF ListingsInv, OfFolder

LEMMA AnsweredListing ==
  ASSUME ListingsInv, NEW n \in DOMAIN lists, ServerLists(n) \/ Listed(n)
  PROVE  ListingsInv'
<1>0. DOMAIN lists[n] = {"path", "answer"}
  BY DEF ListingsInv
<1>1. CASE ServerLists(n)
  <2>1. PICK found \in {{None}} \cup {Children(p) : p \in {q \in {lists[n].path} : IsDir(q)}} :
          lists' = [lists EXCEPT ![n].answer = found]
    BY <1>1 DEF ServerLists
  <2>2. found # {None} => OfFolder(found, lists[n].path)
    BY <2>1 DEF Children, OfFolder
  <2>3. /\ lists'[n].path = lists[n].path /\ lists'[n].answer = found
        /\ DOMAIN lists'[n] = {"path", "answer"}
    BY <1>0, <2>1
  <2>4. DOMAIN lists' = DOMAIN lists /\ \A m \in DOMAIN lists : m # n => lists'[m] = lists[m]
    BY <2>1
  <2>5. RowsAreOfTheFolder'
    BY <1>1 DEF ListingsInv, RowsAreOfTheFolder, ServerLists
  <2> QED
    BY <2>2, <2>3, <2>4, <2>5 DEF ListingsInv
<1>2. CASE Listed(n)
  <2> DEFINE found == lists[n].answer
  <2>1. /\ found # None /\ lists' = [x \in DOMAIN lists \ {n} |-> lists[x]]
        /\ \/ UNCHANGED <<folder, listing, selected>>
           \/ /\ found # {None} /\ listing' = found /\ folder' = lists[n].path
              /\ selected' = None
    BY <1>2 DEF Listed, Leaving
  <2>2. RowsAreOfTheFolder'
    BY <2>1 DEF ListingsInv, RowsAreOfTheFolder, OfFolder
  <2> QED
    BY <2>1, <2>2 DEF ListingsInv
<1> QED
  BY <1>1, <1>2

LEMMA ListingsStep == ASSUME ListingsInv, [FilesNext]_fileVars PROVE ListingsInv'
<1>1. CASE UNCHANGED fileVars
  BY <1>1, ListingsKeep DEF fileVars
<1>2. CASE Listings
  BY <1>2, AnsweredListing DEF Listings
<1>3. CASE Navigation
  <2>1. ASSUME NEW path, Navigate(path) PROVE ListingsInv'
    BY <2>1, ListingsKeep DEF Navigate
  <2>2. CASE Refresh \/ GoParent \/ Retry \/ SubmitPath \/ \E p \in Breadcrumbs : Breadcrumb(p)
    BY <2>1, <2>2 DEF Refresh, GoParent, Retry, SubmitPath, Breadcrumb
  <2>3. CASE StartPathEdit \/ CancelPathEdit \/ SetFilter
    BY <2>3, ListingsKeep DEF StartPathEdit, CancelPathEdit, SetFilter
  <2>4. ASSUME NEW e \in TableShows.rows, SelectEntry(e) \/ OpenEntry(e) PROVE ListingsInv'
    BY <2>4, ListingsKeep DEF SelectEntry, OpenEntry
  <2> QED
    BY <1>3, <2>2, <2>3, <2>4 DEF Navigation
<1>4. CASE FileActions
  <2>1. CASE \/ \E e \in Chosen : AskDelete(e) \/ AskMove(e) \/ Download(e)
             \/ AskNewFolder \/ DismissDialog \/ ConfirmDelete \/ ConfirmOpenMove
    BY <2>1, ListingsKeep DEF AskDelete, AskMove, AskNewFolder, OpenFileDialog, Download,
                              DismissDialog, ConfirmDelete, ConfirmOpenMove
  <2>2. CASE \/ \E d \in {q \in DOMAIN remote : IsDir(q)} \cup {<<>>} : SubmitMove(d)
             \/ SubmitFolder("new")
             \/ (\E tree \in Dropped : \E e \in tree : UploadChosen(e))
             \/ DragOver \/ (\E tree \in Dropped : DropFiles(tree))
    BY <2>2, ListingsKeep DEF SubmitMove, SubmitFolder, UploadChosen, DragOver, DropFiles
  <2>3. ASSUME NEW a \in running, ActionDone(a) \/ ActionFailed(a) \/ ActionListed(a)
        PROVE  ListingsInv'
    BY <2>3, ListingsKeep DEF ActionDone, ActionFailed, ActionListed
  <2> QED
    BY <1>4, <2>1, <2>2, <2>3 DEF FileActions
<1> QED
  BY <1>1, <1>2, <1>3, <1>4 DEF FilesNext

\* The rows on show are those of the folder that the path names, and what is selected is
\* among them, however many listings are on their way (useSSHFileListing.ts:28).
THEOREM RowsAreOfFolders == FilesSpec => []RowsAreOfTheFolder
<1>1. FilesInit => ListingsInv
  BY DEF FilesInit, ListingsInv, RowsAreOfTheFolder
<1>2. ListingsInv => RowsAreOfTheFolder
  BY DEF ListingsInv
<1> QED
  BY <1>1, <1>2, ListingsStep, PTL DEF FilesSpec

-----------------------------------------------------------------------------
(* Remote files: the editor                                                *)

EditorShape ==
  /\ DOMAIN editor = {"content", "original", "reads", "seq", "write", "intent", "failed", "overlap"}
  /\ editor.seq \in Nat
  /\ editor.failed \in BOOLEAN /\ editor.overlap \in BOOLEAN
  /\ DOMAIN editor.write = {"text", "stage"} /\ editor.write.stage \in {"none", "asked", "done"}

\* Unless the last read and a write went on together: what was read for the editor, and what
\* was written for it, is what the server has; and so is what the editor was last filled with
\* or saved.
EditorInv ==
  /\ EditorShape
  /\ ~editor.overlap =>
       /\ ~(Saving /\ EditorLoading)
       /\ EditorLoading /\ editor.reads[editor.seq] # None
            => editor.reads[editor.seq] = remote[Edited]
       /\ editor.write.stage = "done" => remote[Edited] = editor.write.text
       /\ ~Saving /\ ~EditorLoading /\ ~editor.failed => editor.original = remote[Edited]

LEMMA EditorStep == ASSUME EditorInv, [EditorNext]_fileVars PROVE EditorInv'
<1> USE DEF EditorInv, EditorShape, EditorLoading, Saving
<1>1. CASE UNCHANGED fileVars
  BY <1>1 DEF fileVars
<1>2. ASSUME NEW n \in DOMAIN editor.reads, ServerReads(n) PROVE EditorInv'
  BY <1>2 DEF ServerReads
<1>3. ASSUME NEW n \in DOMAIN editor.reads, FileIsRead(n) PROVE EditorInv'
  BY <1>3 DEF FileIsRead, Leaving
<1>4. ASSUME NEW n \in DOMAIN editor.reads, ReadFailed(n) PROVE EditorInv'
  BY <1>4 DEF ReadFailed, Leaving
<1>5. ASSUME LoadFile, remote' = remote PROVE EditorInv'
  <2> DEFINE reads == Put(editor.reads, editor.seq + 1, None)
             overlap == editor.write.stage # "none"
  <2>1. editor' = [editor EXCEPT !.seq = editor.seq + 1, !.reads = reads, !.failed = FALSE,
                                 !.intent = None, !.overlap = overlap]
    BY <1>5 DEF LoadFile
  <2>2. /\ editor.seq + 1 \in DOMAIN reads /\ reads[editor.seq + 1] = None /\ overlap \in BOOLEAN
        /\ overlap <=> Saving
    BY DEF Put
  <2> HIDE DEF reads, overlap
  <2>3. /\ DOMAIN editor' = DOMAIN editor /\ editor'.seq = editor.seq + 1 /\ editor'.reads = reads
        /\ editor'.failed = FALSE /\ editor'.write = editor.write
    BY <2>1
  <2>4. editor'.overlap = overlap
    BY <2>1
  <2>5. EditorShape'
    <3>0. editor.seq + 1 \in Nat
      OBVIOUS
    <3>4. editor'.overlap \in BOOLEAN
      BY <2>2, <2>4
    <3>1. editor'.seq \in Nat /\ editor'.failed \in BOOLEAN
      BY <2>3, <3>0
    <3>2. DOMAIN editor'.write = {"text", "stage"} /\ editor'.write.stage \in {"none", "asked", "done"}
      BY <2>3
    <3>3. DOMAIN editor' = {"content", "original", "reads", "seq", "write", "intent", "failed", "overlap"}
      BY <2>3
    <3> QED
      BY <3>1, <3>2, <3>3, <3>4
  <2>6. EditorLoading' /\ editor'.reads[editor'.seq] = None /\ (~editor'.overlap => ~Saving')
    BY <2>2, <2>3, <2>4
  <2> QED
    BY <2>3, <2>5, <2>6
<1>6. ASSUME ReloadFile \/ DiscardChanges PROVE EditorInv'
  BY <1>5, <1>6 DEF ReloadFile, DiscardChanges
<1>7. ASSUME KeepChanges PROVE EditorInv'
  BY <1>7 DEF KeepChanges
<1>8. ASSUME NEW typing, TypeText(typing) PROVE EditorInv'
  <2>1. /\ editor' = [editor EXCEPT !.content = typing] /\ remote' = remote
        /\ ~EditorLoading /\ ~Saving
    BY <1>8 DEF TypeText
  <2> QED
    BY <2>1
<1>9. ASSUME SaveFile PROVE EditorInv'
  <2> DEFINE write == [text |-> editor.content, stage |-> "asked"]
             overlap == editor.seq \in DOMAIN editor.reads
  <2>1. editor' = [editor EXCEPT !.write = write, !.failed = FALSE, !.overlap = overlap]
    BY <1>9 DEF SaveFile
  <2>2. /\ DOMAIN write = {"text", "stage"} /\ write.stage = "asked" /\ overlap \in BOOLEAN
        /\ overlap <=> EditorLoading
    OBVIOUS
  <2> HIDE DEF write, overlap
  <2>3. /\ DOMAIN editor' = DOMAIN editor /\ editor'.seq = editor.seq
        /\ editor'.reads = editor.reads /\ editor'.failed = FALSE /\ editor'.write = write
    BY <2>1
  <2>4. editor'.overlap = overlap
    BY <2>1
  <2>5. remote' = remote
    BY <1>9 DEF SaveFile
  <2>6. EditorShape'
    BY <2>2, <2>3, <2>4
  <2>7. Saving' /\ editor'.write.stage = "asked" /\ (~editor'.overlap => ~EditorLoading')
    BY <2>2, <2>3, <2>4
  <2> QED
    BY <2>6, <2>7
<1>10. ASSUME ServerWrites PROVE EditorInv'
  BY <1>10 DEF ServerWrites, Put
<1>11. ASSUME FileWritten PROVE EditorInv'
  BY <1>11 DEF FileWritten, NoWrite
<1>12. ASSUME WriteFailed PROVE EditorInv'
  BY <1>12 DEF WriteFailed, NoWrite
<1> QED
  BY <1>1, <1>2, <1>3, <1>4, <1>6, <1>7, <1>8, <1>9, <1>10, <1>11, <1>12 DEF EditorNext, Editing

\* An editor that says "saved" shows what the server has: of overlapping reloads the last one
\* fills it, and a save is not undone by an older read (SSHFileEditor.tsx:113, 125, 146).
THEOREM SavedIsTheFile == EditorSpec => []SavedShowsTheFile
<1>1. FilesInit => EditorInv
  BY DEF FilesInit, NoWrite, EditorInv, EditorShape, EditorLoading, Saving
<1>2. EditorInv => SavedShowsTheFile
  BY DEF EditorInv, SavedShowsTheFile, Unsaved
<1> QED
  BY <1>1, <1>2, EditorStep, PTL DEF EditorSpec
=============================================================================
