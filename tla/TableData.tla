------------------------------- MODULE TableData ------------------------------
(***************************************************************************)
(* The rows of one table (renderer/components/table-view): what is asked   *)
(* for and read (table-data-query-hooks.ts), the rows chosen, edited and   *)
(* deleted (table-data-row-hooks.ts, RowEditDialog.tsx) and what the view  *)
(* offers (TableDataView.tsx and its toolbar, grid, footer and dialogs).   *)
(*                                                                         *)
(* A row is its key, a number; keys are also the default order.  The       *)
(* server answers a page by OFFSET, or by the key it comes after.          *)
(***************************************************************************)
EXTENDS Unset, Integers, FiniteSets

CONSTANTS Keys, InitialKeys,
          Wheres,               \* condition -> the keys it lets through
          Sizes, PageDrafts,    \* page sizes; numbers typed for a page
          Columns, KeyColumn,
          MaxReads, MaxEdits, MaxCancels, MaxForeign

\* The server looks after a key as it counts places: in the order of numbers.
TableAssumption ==
  /\ InitialKeys \in SUBSET Int /\ IsFiniteSet(InitialKeys)
  /\ Sizes \in SUBSET (Nat \ {0}) /\ Sizes # {} /\ PageDrafts \in SUBSET (Int \cup {None})
  /\ None # "DESC"

VARIABLES
  stored, version,      \* the server: the keys, and how often they changed
  foreign,              \* by another view
  exact,                \* the engine counts its rows: Redis
  query,                \* page, pageSize, whereApplied, orderBy, visibleColumns
  columnsKnown,         \* schemaColumnsRef
  hiddenColumns,        \* of localStorage
  cursors,              \* cursorCache: page -> the key it comes after
  result,               \* queryState
  reads, readSeq, cancelling,
  chosen, anchorRow,    \* selected
  pendingDelete, editing,
  edits, acked          \* writes under way; the last version this view waited for

dataVars == <<stored, version, foreign, exact, query, columnsKnown, hiddenColumns, cursors, result, reads,
              readSeq, cancelling, chosen, anchorRow, pendingDelete, editing, edits, acked>>
queryVars == <<query, columnsKnown, hiddenColumns, cursors, result, reads, readSeq, cancelling>>
choiceVars == <<chosen, anchorRow, pendingDelete, editing>>
serverVars == <<stored, version, foreign, exact>>

-----------------------------------------------------------------------------
(* What the server answers                                                 *)

Position(S, order, k) == Cardinality({j \in S : IF order = "DESC" THEN j > k ELSE j < k})
\* The rows of a page, by their place on it.
PageOf(S, order, page, size) ==
  LET on == {k \in S : Position(S, order, k) \in ((page - 1) * size)..(page * size - 1)}
  IN  [i \in 1..Cardinality(on) |-> CHOOSE k \in on : Position(on, order, k) = i - 1]
Found(S, r) ==
  LET matching == S \cap Wheres[r.where]
      after == IF r.after = None THEN matching ELSE {k \in matching : k > r.after}
      page == IF r.after = None THEN r.page ELSE 1
      rows == PageOf(after, r.order, page, r.size)
      n == Cardinality(DOMAIN rows)
      more == Cardinality(after) > page * r.size
      offset == IF r.after = None THEN (r.page - 1) * r.size ELSE 0
  IN  [ok |-> TRUE, rows |-> rows, more |-> more,
       total |-> IF exact THEN Cardinality(matching) ELSE IF n = 0 THEN 0 ELSE offset + n + (IF more THEN 1 ELSE 0),
       isExact |-> exact \/ (r.after = None /\ ~more /\ (offset = 0 \/ n > 0)),
       next |-> IF more /\ r.order = None /\ ~exact THEN rows[n] ELSE None]

-----------------------------------------------------------------------------
(* What is asked for                                                       *)

Projected(q, known) == IF known /\ q.columns # {} /\ q.columns # Columns THEN q.columns ELSE None
Request(q, known, cs) ==
  [page |-> q.page, size |-> q.size, order |-> q.order, where |-> q.where, columns |-> Projected(q, known),
   after |-> IF q.order = None /\ q.page > 1 /\ q.page \in DOMAIN cs THEN cs[q.page] ELSE None]
\* Cursors are of one listing: its size, order, condition and columns.
Scope(q, known) == <<q.size, q.order, q.where, Projected(q, known)>>
NoResult(r) == [request |-> r, rows |-> None, found |-> None, error |-> FALSE, loading |-> TRUE, cancelled |-> FALSE, at |-> 0]
Read(id, r) == [id |-> id, request |-> r, live |-> TRUE, cancelled |-> FALSE, answer |-> None, at |-> 0]

\* What follows a change of the query, or a wish to read it again: a new request
\* cancels the one under way, and rows are shown for their own request only.
Ask(q, known, kept, reload) ==
  LET cs == IF reload \/ Scope(q, known) # Scope(query, columnsKnown) THEN <<>> ELSE kept
      r == Request(q, known, cs)
  IN  /\ query' = q /\ columnsKnown' = known /\ cursors' = cs
      /\ IF r = result.request /\ ~reload
         THEN UNCHANGED <<reads, readSeq>>
         ELSE /\ readSeq < MaxReads /\ readSeq' = readSeq + 1
              /\ reads' = {[c EXCEPT !.live = FALSE] : c \in reads} \cup {Read(readSeq + 1, r)}
Refreshed(r) == IF r = result.request THEN [result EXCEPT !.error = FALSE, !.loading = TRUE, !.cancelled = FALSE]
                ELSE NoResult(r)
\* The edit of a row lasts; its fields are read anew when the columns are, and with
\* no rows to show its form is taken down and put up again.
FieldsAnew(e) == IF e = None THEN None ELSE [e EXCEPT !.busy = FALSE]
TakenDown(e) == IF e = None THEN None ELSE [e EXCEPT !.busy = FALSE, !.sent = {}]
Requery(q, reload) ==
  /\ Ask(q, columnsKnown, cursors, reload)
  /\ result' = IF readSeq' = readSeq THEN result ELSE Refreshed(Request(q, columnsKnown, cursors'))
  /\ editing' = IF result'.rows = None THEN TakenDown(editing) ELSE editing
  /\ UNCHANGED <<hiddenColumns, cancelling>>

Start == [page |-> 1, size |-> CHOOSE s \in Sizes : TRUE, where |-> None, order |-> None, columns |-> {}]
DataInit ==
  /\ stored = InitialKeys /\ version = 0 /\ foreign = 0 /\ exact \in BOOLEAN
  /\ query = Start /\ columnsKnown = FALSE /\ hiddenColumns \in {{}, Columns \ {KeyColumn}} /\ cursors = <<>>
  /\ result = NoResult(Request(Start, FALSE, <<>>))
  /\ reads = {Read(1, Request(Start, FALSE, <<>>))} /\ readSeq = 1 /\ cancelling = {}
  /\ chosen = {} /\ anchorRow = None /\ pendingDelete = None /\ editing = None /\ edits = {} /\ acked = 0

Serve(c) ==
  /\ c.answer = None
  /\ \E ok \in BOOLEAN : reads' = (reads \ {c}) \cup
       {[c EXCEPT !.answer = IF ok THEN Found(stored, c.request) ELSE [ok |-> FALSE], !.at = IF ok THEN version ELSE 0]}
  /\ UNCHANGED <<query, columnsKnown, hiddenColumns, cursors, result, readSeq, cancelling, edits, acked>>
  /\ UNCHANGED serverVars /\ UNCHANGED choiceVars
IgnoredIfCancelled(c) == c.cancelled
Ignored(c) == ~c.live \/ c.cancelled
ReadIgnored(c) ==
  /\ c.answer # None /\ Ignored(c) /\ reads' = reads \ {c}
  /\ UNCHANGED <<query, columnsKnown, hiddenColumns, cursors, result, readSeq, cancelling, edits, acked>>
  /\ UNCHANGED serverVars /\ UNCHANGED choiceVars
ReadFailed(c) ==
  /\ c.answer # None /\ ~c.answer.ok /\ ~Ignored(c) /\ reads' = reads \ {c}
  /\ result' = [result EXCEPT !.error = TRUE, !.loading = FALSE]
  /\ UNCHANGED <<query, columnsKnown, hiddenColumns, cursors, readSeq, cancelling, edits, acked>>
  /\ UNCHANGED serverVars /\ UNCHANGED choiceVars

TotalPages(found, q) ==
  LET full == (found.total + q.size - 1) \div q.size
      least == IF found.isExact THEN 1 ELSE q.page
  IN  IF full < least THEN least ELSE full
\* New rows: nothing is chosen of them, the columns that are not hidden are shown,
\* and a page beyond a counted end becomes the last; both may ask anew.
RowsRead(c) ==
  LET found == c.answer
      shownColumns == IF Columns \ hiddenColumns = {} THEN Columns ELSE Columns \ hiddenColumns
      last == TotalPages(found, query)
      page == IF found.isExact /\ query.page > last THEN last ELSE query.page
      cs == IF found.next = None THEN cursors
            ELSE [p \in DOMAIN cursors \cup {query.page + 1} |-> IF p = query.page + 1 THEN found.next ELSE cursors[p]]
      q == [query EXCEPT !.columns = shownColumns, !.page = page]
      r == Request(q, TRUE, IF Scope(q, TRUE) # Scope(query, columnsKnown) THEN <<>> ELSE cs)
      here == [request |-> c.request, rows |-> found.rows, found |-> found, error |-> FALSE, loading |-> FALSE,
               cancelled |-> FALSE, at |-> c.at]
  IN  /\ query' = q /\ columnsKnown' = TRUE
      /\ cursors' = IF Scope(q, TRUE) # Scope(query, columnsKnown) THEN <<>> ELSE cs
      /\ IF r = c.request THEN reads' = reads \ {c} /\ result' = here /\ UNCHANGED readSeq
         ELSE /\ readSeq < MaxReads /\ readSeq' = readSeq + 1
              /\ reads' = (reads \ {c}) \cup {Read(readSeq + 1, r)} /\ result' = NoResult(r)
      /\ chosen' = {} /\ anchorRow' = None /\ pendingDelete' = None
      /\ editing' = IF r = c.request THEN FieldsAnew(editing) ELSE TakenDown(editing)
RowsArrive(c) ==
  /\ c.answer # None /\ c.answer.ok /\ ~Ignored(c) /\ RowsRead(c)
  /\ UNCHANGED <<hiddenColumns, cancelling, edits, acked>> /\ UNCHANGED serverVars

-----------------------------------------------------------------------------
(* The toolbar, the footer and the columns                                 *)

Modal == pendingDelete # None \/ (editing # None /\ result.rows # None)
KeepChoices == UNCHANGED <<chosen, anchorRow, pendingDelete, edits, acked>> /\ UNCHANGED serverVars
Browse(q) == ~Modal /\ Requery(q, FALSE) /\ KeepChoices
\* A filter is offered for SQL: what was typed is applied, or cleared.
ApplyWhere(w) == ~exact /\ w # query.where /\ Browse([query EXCEPT !.where = w, !.page = 1])
ClearWhere == ~exact /\ query.where # None /\ Browse([query EXCEPT !.where = None, !.page = 1])
OnSort ==
  /\ ~exact /\ result.rows # None
  /\ Browse([query EXCEPT !.page = 1,
       !.order = IF query.order = None THEN "ASC" ELSE IF query.order = "ASC" THEN "DESC" ELSE None])
OnPageSizeChange(s) == Browse([query EXCEPT !.size = s, !.page = 1])
\* The footer is there with the rows; the next page when there are more.
Within(p) == LET last == TotalPages(result.found, query)
             IN  IF p < 1 THEN 1 ELSE IF result.found.isExact /\ p > last THEN last ELSE p
GoToPage(p) == result.rows # None /\ Browse([query EXCEPT !.page = Within(p)])
NextPage == result.rows # None /\ result.found.more /\ GoToPage(query.page + 1)
PreviousPage == query.page > 1 /\ GoToPage(query.page - 1)
\* What was typed is no number: the page it is on.
SubmitPageDraft(p) == GoToPage(IF p = None THEN query.page ELSE p)
\* Not the last of them; what is hidden is kept for the next time.
SetVisibleColumns(shown) ==
  /\ ~Modal /\ result.rows # None /\ shown # query.columns /\ shown # {}
  /\ Ask([query EXCEPT !.columns = shown, !.page = 1], columnsKnown, cursors, FALSE)
  /\ result' = IF readSeq' = readSeq THEN result ELSE Refreshed(Request(query', columnsKnown, cursors'))
  /\ hiddenColumns' = Columns \ shown /\ UNCHANGED <<cancelling, editing>> /\ KeepChoices
Refresh == ~Modal /\ Requery(query, TRUE) /\ KeepChoices
\* Another view has written to the table, and says so: tableReloadTokens.
ReloadTable ==
  /\ foreign < MaxForeign /\ foreign' = foreign + 1 /\ version' = version + 1
  /\ \E k \in Keys : stored' = (stored \ {k}) \cup ({k} \ stored)
  /\ Requery(query, TRUE) /\ UNCHANGED <<exact, chosen, anchorRow, pendingDelete, edits, acked>>
\* Cancel is offered while it loads; the answer to it stops what is shown.
Cancel ==
  /\ ~Modal /\ result.loading /\ Cardinality(cancelling) < MaxCancels
  /\ \E c \in reads : c.live /\ ~c.cancelled /\ c.id \notin {x.id : x \in cancelling}
                      /\ cancelling' = cancelling \cup {[id |-> c.id, request |-> c.request]}
  /\ UNCHANGED <<query, columnsKnown, hiddenColumns, cursors, result, reads, readSeq, editing>> /\ KeepChoices
Cancelled(x) ==
  /\ cancelling' = cancelling \ {x}
  /\ \/ /\ reads' = {IF c.id = x.id THEN [c EXCEPT !.cancelled = TRUE] ELSE c : c \in reads}
        /\ result' = IF result.request = x.request THEN [result EXCEPT !.loading = FALSE, !.cancelled = TRUE] ELSE result
     \/ UNCHANGED <<reads, result>>
  /\ UNCHANGED <<query, columnsKnown, hiddenColumns, cursors, readSeq, editing>> /\ KeepChoices

-----------------------------------------------------------------------------
(* Choosing rows                                                           *)

RowCount == IF result.rows = None THEN 0 ELSE Cardinality(DOMAIN result.rows)
KeepQuery == UNCHANGED queryVars /\ UNCHANGED serverVars
ToggleRow(i, shift) ==
  /\ ~Modal /\ i <= RowCount /\ anchorRow' = i
  /\ chosen' = IF shift /\ anchorRow # None
               THEN chosen \cup {j \in 1..RowCount : (anchorRow <= j /\ j <= i) \/ (i <= j /\ j <= anchorRow)}
               ELSE (chosen \ {i}) \cup ({i} \ chosen)
  /\ KeepQuery /\ UNCHANGED <<pendingDelete, editing, edits, acked>>
TogglePage ==
  /\ ~Modal /\ RowCount > 0
  /\ IF Cardinality(chosen) = RowCount THEN chosen' = {} /\ anchorRow' = None
     ELSE chosen' = 1..RowCount /\ anchorRow' = 1
  /\ KeepQuery /\ UNCHANGED <<pendingDelete, editing, edits, acked>>
ClearSelection ==
  /\ ~Modal /\ chosen # {} /\ chosen' = {} /\ anchorRow' = None
  /\ KeepQuery /\ UNCHANGED <<pendingDelete, editing, edits, acked>>

-----------------------------------------------------------------------------
(* Deleting and editing                                                    *)

KeysAt(places) == {result.rows[i] : i \in places \cap (1..RowCount)}
RequestDelete(places) ==
  /\ ~Modal /\ places # {} /\ result.rows # None
  /\ pendingDelete' = [places |-> places, asked |-> KeysAt(places)]
  /\ KeepQuery /\ UNCHANGED <<chosen, anchorRow, editing, edits, acked>>
\* The button of the toolbar waits for the rows; the menu of a row is on the row.
DeleteSelected == ~result.loading /\ RequestDelete(chosen)
CancelDelete ==
  /\ pendingDelete # None /\ pendingDelete' = None
  /\ KeepQuery /\ UNCHANGED <<chosen, anchorRow, editing, edits, acked>>
NextEdit == CHOOSE n \in 1..(MaxEdits + 1) : \A e \in edits : e.id # n
Edit(kind, keys, asked) ==
  /\ Cardinality(edits) + version - foreign < MaxEdits
  /\ edits' = edits \cup {[id |-> NextEdit, kind |-> kind, keys |-> keys, asked |-> asked, done |-> None]}
ConfirmDelete ==
  /\ pendingDelete # None /\ result.rows # None /\ KeysAt(pendingDelete.places) # {}
  /\ Edit("delete", KeysAt(pendingDelete.places), pendingDelete.asked) /\ pendingDelete' = None
  /\ KeepQuery /\ UNCHANGED <<chosen, anchorRow, editing, acked>>
OpenEditor(mode, i) ==
  /\ ~Modal /\ result.rows # None
  /\ IF mode = "insert" THEN ~result.loading \/ (RowCount = 0 /\ query.where = None) ELSE i <= RowCount
  /\ editing' = [mode |-> mode, key |-> IF mode = "insert" THEN None ELSE result.rows[i],
                 busy |-> FALSE, sent |-> {}]
  /\ KeepQuery /\ UNCHANGED <<chosen, anchorRow, pendingDelete, edits, acked>>
EditorOpen == editing # None /\ result.rows # None
\* Its button to cancel waits for a save, but Escape does not.
CloseEditor ==
  /\ EditorOpen /\ editing' = None
  /\ KeepQuery /\ UNCHANGED <<chosen, anchorRow, pendingDelete, edits, acked>>
\* What was changed is sent, under the key that was read.
SubmitEditor ==
  /\ EditorOpen /\ ~editing.busy
  /\ \E k \in IF editing.mode = "insert" THEN Keys ELSE {editing.key} : Edit(editing.mode, {k}, {k})
  /\ editing' = [editing EXCEPT !.busy = TRUE, !.sent = @ \cup {NextEdit}]
  /\ KeepQuery /\ UNCHANGED <<chosen, anchorRow, pendingDelete, acked>>
\* A document of a cell is saved into the row it is shown in.
SaveJsonCell(i) ==
  /\ ~Modal /\ i <= RowCount /\ Edit("json", {result.rows[i]}, {result.rows[i]})
  /\ KeepQuery /\ UNCHANGED choiceVars /\ UNCHANGED acked

EditServed(e) ==
  /\ e.done = None
  /\ \/ /\ e.kind = "insert" => e.keys \cap stored = {}
        /\ stored' = (IF e.kind = "delete" THEN stored \ e.keys ELSE IF e.kind = "insert" THEN stored \cup e.keys ELSE stored)
        /\ version' = version + 1 /\ edits' = (edits \ {e}) \cup {[e EXCEPT !.done = version + 1]}
     \/ edits' = (edits \ {e}) \cup {[e EXCEPT !.done = 0]} /\ UNCHANGED <<stored, version>>
  /\ UNCHANGED <<foreign, exact, acked>> /\ UNCHANGED queryVars /\ UNCHANGED choiceVars
\* What was done is read again; the form that is open then is closed, whichever it is.
EditDone(e) ==
  /\ e.done \notin {None, 0} /\ edits' = edits \ {e} /\ acked' = (IF e.done > acked THEN e.done ELSE acked)
  /\ Ask(query, columnsKnown, cursors, TRUE) /\ result' = Refreshed(Request(query, columnsKnown, cursors'))
  /\ editing' = IF e.kind \in {"insert", "edit"} THEN None
                ELSE IF result'.rows = None THEN TakenDown(editing) ELSE editing
  /\ UNCHANGED <<hiddenColumns, cancelling, chosen, anchorRow, pendingDelete>> /\ UNCHANGED serverVars
EditFailed(e) ==
  /\ e.done = 0 /\ edits' = edits \ {e}
  /\ editing' = IF editing # None /\ e.id \in editing.sent THEN [editing EXCEPT !.busy = FALSE] ELSE editing
  /\ KeepQuery /\ UNCHANGED <<chosen, anchorRow, pendingDelete, acked>>

-----------------------------------------------------------------------------
Reading == \E c \in reads : Serve(c) \/ ReadIgnored(c) \/ ReadFailed(c) \/ RowsArrive(c)
Choosing ==
  \/ TogglePage \/ ClearSelection
  \/ \E i \in 1..RowCount, shift \in BOOLEAN : ToggleRow(i, shift)
Querying ==
  \/ ClearWhere \/ OnSort \/ NextPage \/ PreviousPage
  \/ Refresh \/ ReloadTable \/ Cancel
  \/ \E w \in DOMAIN Wheres : ApplyWhere(w)
  \/ \E s \in Sizes : OnPageSizeChange(s)
  \/ \E p \in PageDrafts : SubmitPageDraft(p)
  \/ \E shown \in SUBSET Columns : SetVisibleColumns(shown)
  \/ \E x \in cancelling : Cancelled(x)
Editing ==
  \/ DeleteSelected \/ CancelDelete \/ ConfirmDelete \/ CloseEditor \/ SubmitEditor
  \/ OpenEditor("insert", 0)
  \/ \E i \in 1..RowCount : RequestDelete({i}) \/ OpenEditor("edit", i) \/ SaveJsonCell(i)
  \/ \E e \in edits : EditServed(e) \/ EditDone(e) \/ EditFailed(e)
DataNext == Reading \/ Choosing \/ Querying \/ Editing
DataSpec == DataInit /\ [][DataNext]_dataVars

-----------------------------------------------------------------------------
\* What is deleted are the rows the question was asked about, by their keys, though
\* they are kept as places on a page that may be read again in the meantime
\* (table-data-row-hooks.ts:71-76, 147-171).
DeletesTheRowsAsked == \A e \in edits : e.keys = e.asked

\* A view that says it is done shows what its own writes have left, however the reads
\* around them were answered (table-data-query-hooks.ts:148-194).
SettledRowsHaveMyWrites ==
  ~result.loading /\ ~result.error /\ ~result.cancelled /\ result.rows # None => result.at >= acked

\* Pages fit together whether they are read by OFFSET or after a key that was
\* remembered: while nothing is written, each is its part of the listing
\* (table-data-query-hooks.ts:93-96, 171).
PagesFitTogether ==
  version = 0 /\ result.rows # None =>
    result.rows = PageOf(stored \cap Wheres[query.where], query.order, query.page, query.size)
=============================================================================
