----------------------------- MODULE TableCompare ---------------------------
(***************************************************************************)
(* The rows of one table side by side (renderer/components/diff:           *)
(* TableCompareView.tsx, table-compare-data-hooks.ts, -page.ts, -diff.ts   *)
(* and -selection.ts): pages of both tables, completed with the rows that  *)
(* only the other page shows, the differences drawn from them, a selection *)
(* on each side, and copying, deleting and overwriting rows meanwhile.     *)
(*                                                                         *)
(* The tables are functions from keys to values; only this view writes     *)
(* them.  A load reads both pages one after the other in either order.     *)
(***************************************************************************)
EXTENDS Unset, FiniteSets, Sequences, SequencesExt

CONSTANTS RowKeys,    \* primary keys: numbers
          Values,
          Tables,     \* pairs of tables to start with
          PageSizes,
          MaxLoads,   \* bound on loads
          MaxSteps    \* bound on actions of the user

TCSides == {"source", "target"}
NoRows == [k \in {} |-> None]
Keys(rows) == DOMAIN rows
Peer(side) == IF side = "source" THEN "target" ELSE "source"

PairsAssumption ==
  /\ RowKeys \in SUBSET Nat /\ IsFiniteSet(RowKeys)
  /\ PageSizes \in SUBSET (Nat \ {0})
  /\ \A t \in Tables : DOMAIN t = TCSides /\ \A side \in TCSides : Keys(t[side]) \subseteq RowKeys

VARIABLES
  server,    \* the tables: side -> key -> value
  page, pageSize, draft,
  loads,     \* loads on their way: number -> what they have read; live until disposed
  loaded,    \* loads begun
  pane,      \* sourceState, targetState
  picked,    \* selectedRows: side -> key -> the row as it was when selected
  anchor,    \* selectionAnchorKeyRef
  confirm,   \* pendingConfirm
  work,      \* the copy, delete or overwrite that runs: copying, deletingSide, overwriting
  steps,
  stale      \* history: the panes were left as they are on purpose, or by a failure

tcVars == <<server, page, pageSize, draft, loads, loaded, pane, picked, anchor, confirm, work, steps, stale>>

Only(rows, ks) == [k \in Keys(rows) \cap ks |-> rows[k]]
Merge(f, g) == [k \in Keys(f) \cup Keys(g) |-> IF k \in Keys(f) THEN f[k] ELSE g[k]]
Ascending(ks) == SetToSortSeq(ks, <)
Least(m, n) == IF m < n THEN m ELSE n

\* A page of a table in the order of its key.  Its total counts the rows up to the page, and
\* one more if there are more; it is the table's on its last page only, and 0 beyond that.
Place(ks, k) == Cardinality({j \in ks : j < k})
PageOf(rows, p, size) ==
  LET on == {k \in Keys(rows) : Place(Keys(rows), k) \in ((p - 1) * size)..(p * size - 1)}
      more == Cardinality(Keys(rows)) > p * size
  IN  [rows |-> Only(rows, on), shown |-> Ascending(on),
       total |-> IF on = {} THEN 0 ELSE (p - 1) * size + Cardinality(on) + IF more THEN 1 ELSE 0,
       exact |-> ~more /\ (p = 1 \/ on # {})]

PaneLoading == \E side \in TCSides : pane[side].loading
TCBusy == work.kind # "none"
Settled == ~PaneLoading /\ \A side \in TCSides : pane[side].data # None
Idle == [kind |-> "none"]
Unread == [side \in TCSides |-> None]

\* A new load: the effect's cleanup disposes the former one and cancels its reads.
Disposed == [n \in DOMAIN loads |-> [loads[n] EXCEPT !.live = FALSE]]
NewLoad(p, size) ==
  [live |-> TRUE, page |-> p, size |-> size, pages |-> Unread, extra |-> Unread]
LoadPage(p, size) ==
  /\ loaded < MaxLoads /\ loaded' = loaded + 1
  /\ loads' = [n \in DOMAIN loads \cup {loaded + 1} |->
                 IF n = loaded + 1 THEN NewLoad(p, size) ELSE Disposed[n]]
  /\ page' = p /\ draft' = p /\ pageSize' = size
  /\ stale' = FALSE
StartLoading == pane' = [side \in TCSides |-> [pane[side] EXCEPT !.loading = TRUE, !.error = FALSE]]

TCInit ==
  /\ server \in Tables
  /\ page = 1 /\ draft = 1 /\ pageSize \in PageSizes
  /\ loads = [n \in {1} |-> NewLoad(1, pageSize)] /\ loaded = 1
  /\ pane = [side \in TCSides |-> [data |-> None, loading |-> TRUE, error |-> FALSE]]
  /\ picked = [side \in TCSides |-> NoRows] /\ anchor = [side \in TCSides |-> None]
  /\ confirm = None /\ work = Idle /\ steps = 0 /\ stale = FALSE

User == steps < MaxSteps /\ steps' = steps + 1

-----------------------------------------------------------------------------
(* Loading and completing a page                                           *)

ReadPage(n, side) ==
  /\ loads[n].pages[side] = None
  /\ loads' = [loads EXCEPT ![n].pages[side] = PageOf(server[side], loads[n].page, loads[n].size)]
  /\ UNCHANGED <<server, page, pageSize, draft, loaded, pane, picked, anchor, confirm, work, steps, stale>>

NoKeysMissing(own, other) == {}

\* completeComparisonPage: the keys a side lacks are looked up in its whole table,
\* unless the page is the whole table.
MissingKeys(own, other) ==
  IF Cardinality(Keys(own.rows)) = own.total THEN {} ELSE Keys(other.rows) \ Keys(own.rows)
BothRead(n) == \A side \in TCSides : loads[n].pages[side] # None
LookUp(n, side) ==
  LET own == loads[n].pages[side]
      found == Only(server[side], MissingKeys(own, loads[n].pages[Peer(side)]))
  IN  /\ BothRead(n) /\ loads[n].live /\ loads[n].extra[side] = None
      /\ loads' = [loads EXCEPT ![n].extra[side] = found]
      /\ UNCHANGED <<server, page, pageSize, draft, loaded, pane, picked, anchor, confirm, work, steps, stale>>

Complete(n, side) ==
  LET own == loads[n].pages[side]
      more == loads[n].extra[side]
  IN  [rows |-> Merge(own.rows, more), shown |-> own.shown \o Ascending(Keys(more)),
       total |-> own.total, exact |-> own.exact]
TotalRows(p) ==
  LET totals == {p[side].data.total : side \in {s \in TCSides : p[s].data # None}}
  IN  IF totals = {} THEN 0 ELSE CHOOSE m \in totals : \A k \in totals : k <= m
TotalIsExact(p) == \A side \in TCSides : p[side].data # None /\ p[side].data.exact
LastPage(p) ==
  LET full == (TotalRows(p) + pageSize - 1) \div pageSize
  IN  IF full = 0 THEN 1 ELSE full
\* Page effects: a page after the last one is left for it, if the totals are exact.
Clamped(n, p) == IF TotalIsExact(p) THEN Least(n, LastPage(p)) ELSE n
Forget(n) == [m \in DOMAIN loads \ {n} |-> loads[m]]

Loaded(n) ==
  LET next == [side \in TCSides |-> [data |-> Complete(n, side), loading |-> FALSE, error |-> FALSE]]
      here == Clamped(page, next)
  IN  /\ BothRead(n) /\ loads[n].live /\ \A side \in TCSides : loads[n].extra[side] # None
      /\ IF here # page
         THEN /\ pane' = [side \in TCSides |-> [next[side] EXCEPT !.loading = TRUE]]
              /\ LoadPage(here, pageSize)
         ELSE /\ pane' = next /\ loads' = Forget(n)
              /\ UNCHANGED <<page, draft, pageSize, loaded, stale>>
      /\ UNCHANGED <<server, picked, anchor, confirm, work, steps>>

LoadFailed(n) ==
  /\ loads' = Forget(n)
  /\ pane' = IF loads[n].live
             THEN [side \in TCSides |-> [data |-> None, loading |-> FALSE, error |-> TRUE]] ELSE pane
  /\ UNCHANGED <<server, page, pageSize, draft, loaded, picked, anchor, confirm, work, steps, stale>>

\* A disposed load ends whatever it has read.
LoadIgnored(n) ==
  /\ ~loads[n].live /\ loads' = Forget(n)
  /\ UNCHANGED <<server, page, pageSize, draft, loaded, pane, picked, anchor, confirm, work, steps, stale>>

\* Cancel: what was shown before stays.
MayCancelLoading == PaneLoading /\ ~TCBusy
CancelLoading ==
  /\ User /\ MayCancelLoading /\ confirm = None
  /\ loads' = Disposed
  /\ pane' = [side \in TCSides |-> [pane[side] EXCEPT !.loading = FALSE, !.error = (pane[side].data = None)]]
  /\ stale' = TRUE
  /\ UNCHANGED <<server, page, pageSize, draft, loaded, picked, anchor, confirm, work>>

\* The menu's "reload" is there while rows are written too; Mod+R is not.
Reload ==
  /\ User /\ confirm = None /\ LoadPage(page, pageSize) /\ StartLoading
  /\ UNCHANGED <<server, picked, anchor, confirm, work>>
GoToPage(p) ==
  /\ User /\ confirm = None /\ \E side \in TCSides : pane[side].data # None
  /\ Clamped(p, pane) # page
  /\ LoadPage(Clamped(p, pane), pageSize) /\ StartLoading
  /\ UNCHANGED <<server, picked, anchor, confirm, work>>
SetPageSize(size) ==
  /\ User /\ confirm = None /\ size # pageSize
  /\ LoadPage(1, size) /\ StartLoading
  /\ UNCHANGED <<server, picked, anchor, confirm, work>>

-----------------------------------------------------------------------------
(* Differences                                                             *)

RowDiffStatus(side, k) ==
  LET own == pane[side].data.rows
      other == pane[Peer(side)].data.rows
  IN  IF k \notin Keys(other) THEN IF side = "source" THEN "source-only" ELSE "target-only"
      ELSE IF own[k] = other[k] THEN "identical" ELSE "modified"
\* One line per key, with one sign on both sides.
AlignedKeys == UNION {Keys(pane[side].data.rows) : side \in TCSides}
RowDiffKind(status) ==
  CASE status = "source-only" -> "add" [] status = "target-only" -> "del"
    [] status = "modified" -> "mod" [] OTHER -> "same"
LineKind(k) ==
  LET side == IF k \in Keys(pane["source"].data.rows) THEN "source" ELSE "target"
  IN  RowDiffKind(RowDiffStatus(side, k))
PaneRows(side) ==
  IF pane[side].data = None THEN {}
  ELSE IF Settled THEN AlignedKeys ELSE Keys(pane[side].data.rows)
AllVisibleSelected(side) ==
  /\ pane[side].data # None /\ pane[side].data.rows # NoRows
  /\ Keys(pane[side].data.rows) \subseteq Keys(picked[side])

\* TableComparePane: its lines by their key, with a box to tick where the side has the row.
PaneLine(side, k) ==
  LET has == k \in Keys(pane[side].data.rows)
  IN  [row |-> IF has THEN pane[side].data.rows[k] ELSE None,
       kind |-> IF Settled THEN LineKind(k) ELSE "same",
       selected |-> has /\ k \in Keys(picked[side])]
PaneView(side) ==
  [lines |-> [k \in PaneRows(side) |-> PaneLine(side, k)],
   ticked |-> AllVisibleSelected(side),
   spinner |-> pane[side].loading,
   retry |-> pane[side].error /\ ~pane[side].loading]
Panes == [side \in TCSides |-> PaneView(side)]
Boxes(side) == {k \in DOMAIN Panes[side].lines : Panes[side].lines[k].row # None}

-----------------------------------------------------------------------------
(* Selecting rows                                                          *)

Select(side, ks) == Merge(Only(pane[side].data.rows, ks), picked[side])
Unselect(side, ks) == Only(picked[side], Keys(picked[side]) \ ks)

ToggleRow(side, k) ==
  /\ User /\ confirm = None /\ k \in Boxes(side)
  /\ picked' = [picked EXCEPT ![side] = IF k \in Keys(@) THEN Unselect(side, {k}) ELSE Select(side, {k})]
  /\ anchor' = [anchor EXCEPT ![side] = k]
  /\ UNCHANGED <<server, page, pageSize, draft, loads, loaded, pane, confirm, work, stale>>

\* With Shift, all rows up to the last one clicked, in the order they were fetched.
Between(seq, x, y) ==
  LET i == SelectInSeq(seq, LAMBDA e : e = x)
      j == SelectInSeq(seq, LAMBDA e : e = y)
  IN  ToSet(SubSeq(seq, Least(i, j), IF i < j THEN j ELSE i))
ToggleRange(side, k) ==
  LET shown == pane[side].data.shown
      range == Between(shown, anchor[side], k)
  IN  /\ User /\ confirm = None /\ k \in Boxes(side)
      /\ anchor[side] \in ToSet(shown) /\ k \in ToSet(shown)
      /\ picked' = [picked EXCEPT ![side] = IF k \in Keys(@) THEN Unselect(side, range) ELSE Select(side, range)]
      /\ anchor' = [anchor EXCEPT ![side] = k]
      /\ UNCHANGED <<server, page, pageSize, draft, loads, loaded, pane, confirm, work, stale>>

ToggleAllVisible(side) ==
  /\ User /\ confirm = None /\ pane[side].data # None
  /\ LET all == Keys(pane[side].data.rows)
     IN  picked' = [picked EXCEPT ![side] =
                      IF AllVisibleSelected(side) THEN Unselect(side, all) ELSE Select(side, all)]
  /\ UNCHANGED <<server, page, pageSize, draft, loads, loaded, pane, anchor, confirm, work, stale>>

-----------------------------------------------------------------------------
(* Copying, deleting, overwriting                                          *)

CopyEnabled ==
  ~TCBusy /\ Keys(picked.source) # {} /\ pane.target.data # None /\ ~pane.target.loading
OffersDelete(side) == ~TCBusy /\ picked[side] # NoRows
\* What the toolbar and its menu offer; reloading and the page size always.
ToolbarOffers ==
  {"reload", "page-size"}
  \cup {d \in {"copy"} : CopyEnabled}
  \cup {d \in {"overwrite-target"} : ~TCBusy}
  \cup {d \in {"delete-source"} : OffersDelete("source")}
  \cup {d \in {"delete-target"} : OffersDelete("target")}

Copy ==
  /\ User /\ confirm = None /\ "copy" \in ToolbarOffers
  /\ work' = [kind |-> "copy", todo |-> picked.source, failed |-> {}, all |-> Keys(picked.source)]
  /\ UNCHANGED <<server, page, pageSize, draft, loads, loaded, pane, picked, anchor, confirm, stale>>
\* One insert after the other, as they were selected; a key that is there already is refused.
CopyRow(k, ok) ==
  /\ work.kind = "copy" /\ k \in Keys(work.todo)
  /\ ok => k \notin Keys(server.target)
  /\ server' = IF ok THEN [server EXCEPT !.target = Merge(Only(work.todo, {k}), @)] ELSE server
  /\ work' = [work EXCEPT !.todo = Only(@, Keys(@) \ {k}), !.failed = IF ok THEN @ ELSE @ \cup {k}]
  /\ UNCHANGED <<page, pageSize, draft, loads, loaded, pane, picked, anchor, confirm, steps, stale>>
CopyDone ==
  /\ work.kind = "copy" /\ work.todo = NoRows
  /\ IF work.all # work.failed
     THEN LoadPage(page, pageSize) /\ StartLoading
     ELSE UNCHANGED <<page, pageSize, draft, loads, loaded, pane, stale>>
  /\ picked' = [picked EXCEPT !.source = Only(@, (Keys(@) \ work.all) \cup work.failed)]
  /\ work' = Idle
  /\ UNCHANGED <<server, anchor, confirm, steps>>

AskAboutPage(side) ==
  /\ User /\ confirm = None /\ OffersDelete(side)
  /\ confirm' = [kind |-> "delete-rows", side |-> side, count |-> Cardinality(Boxes(side))]
  /\ UNCHANGED <<server, page, pageSize, draft, loads, loaded, pane, picked, anchor, work, stale>>
RequestDelete(side) ==
  /\ User /\ confirm = None /\ OffersDelete(side)
  /\ confirm' = [kind |-> "delete-rows", side |-> side, count |-> Cardinality(Keys(picked[side]))]
  /\ UNCHANGED <<server, page, pageSize, draft, loads, loaded, pane, picked, anchor, work, stale>>
RequestOverwrite ==
  /\ User /\ confirm = None /\ "overwrite-target" \in ToolbarOffers
  /\ confirm' = [kind |-> "overwrite-target", side |-> "target", count |-> 0]
  /\ UNCHANGED <<server, page, pageSize, draft, loads, loaded, pane, picked, anchor, work, stale>>
DismissConfirm ==
  /\ confirm # None /\ work.kind # "delete" /\ confirm' = None
  /\ UNCHANGED <<server, page, pageSize, draft, loads, loaded, pane, picked, anchor, work, steps, stale>>

\* The question stays open until the delete has been answered.
ConfirmDelete ==
  /\ confirm # None /\ confirm.kind = "delete-rows" /\ ~TCBusy
  /\ pane[confirm.side].data # None
  /\ work' = [kind |-> "delete", side |-> confirm.side, keys |-> Keys(picked[confirm.side]), affected |-> None]
  /\ UNCHANGED <<server, page, pageSize, draft, loads, loaded, pane, picked, anchor, confirm, steps, stale>>
DeleteApplied ==
  /\ work.kind = "delete" /\ work.affected = None
  /\ server' = [server EXCEPT ![work.side] = Only(@, Keys(@) \ work.keys)]
  /\ work' = [work EXCEPT !.affected = Cardinality(work.keys \cap Keys(server[work.side]))]
  /\ UNCHANGED <<page, pageSize, draft, loads, loaded, pane, picked, anchor, confirm, steps, stale>>
\* The rows may be gone all the same, if it is the answer that was lost.
DeleteFailed ==
  /\ work.kind = "delete"
  /\ work' = Idle /\ confirm' = None /\ stale' = (stale \/ work.affected # None)
  /\ UNCHANGED <<server, page, pageSize, draft, loads, loaded, pane, picked, anchor, steps>>
\* The rows are taken off the page, which may be after the last one then, and both are read anew.
Deleted(data) ==
  [data EXCEPT !.rows = Only(@, Keys(@) \ work.keys), !.shown = SelectSeq(@, LAMBDA k : k \notin work.keys),
               !.total = @ - Least(@, work.affected)]
DeleteAnswered ==
  /\ work.kind = "delete" /\ work.affected # None
  /\ picked' = [picked EXCEPT ![work.side] = NoRows] /\ anchor' = [anchor EXCEPT ![work.side] = None]
  /\ pane' = [side \in TCSides |->
       LET p == [pane[side] EXCEPT !.loading = TRUE, !.error = FALSE]
       IN  IF side # work.side \/ p.data = None THEN p ELSE [p EXCEPT !.data = Deleted(@)]]
  /\ LoadPage(Clamped(page, pane'), pageSize)
  /\ work' = Idle /\ confirm' = None
  /\ UNCHANGED <<server, steps>>

\* Overwriting runs as a job that can be cancelled, and the question is closed.
ConfirmOverwrite ==
  /\ confirm # None /\ confirm.kind = "overwrite-target" /\ ~TCBusy
  /\ confirm' = None
  /\ work' = IF pane.source.data = None THEN Idle
             ELSE [kind |-> "overwrite", stage |-> "running", cancelled |-> FALSE]
  /\ UNCHANGED <<server, page, pageSize, draft, loads, loaded, pane, picked, anchor, steps, stale>>
OverwriteApplied(rows) ==
  /\ work.kind = "overwrite" /\ work.stage = "running"
  /\ rows \in {server.source, NoRows, server.target}
  /\ server' = [server EXCEPT !.target = rows]
  /\ work' = [work EXCEPT !.stage = "applied"]
  /\ UNCHANGED <<page, pageSize, draft, loads, loaded, pane, picked, anchor, confirm, steps, stale>>
CancelOverwrite ==
  /\ work.kind = "overwrite" /\ ~work.cancelled
  /\ work' = [work EXCEPT !.cancelled = TRUE]
  /\ UNCHANGED <<server, page, pageSize, draft, loads, loaded, pane, picked, anchor, confirm, steps, stale>>
\* A plan that ran, with or without errors, is followed by a reload; so is a
\* failure after a cancellation, but not a failure alone.
OverwriteReturned ==
  /\ work.kind = "overwrite" /\ work.stage = "applied"
  /\ picked' = [side \in TCSides |-> NoRows] /\ anchor' = [side \in TCSides |-> None]
  /\ LoadPage(page, pageSize) /\ StartLoading
  /\ work' = Idle
  /\ UNCHANGED <<server, confirm, steps>>
OverwriteThrew ==
  /\ work.kind = "overwrite" /\ work.stage = "applied"
  /\ IF work.cancelled THEN LoadPage(page, pageSize) /\ StartLoading
     ELSE stale' = TRUE /\ UNCHANGED <<page, pageSize, draft, loads, loaded, pane>>
  /\ work' = Idle
  /\ UNCHANGED <<server, picked, anchor, confirm, steps>>

-----------------------------------------------------------------------------
Loads ==
  \E n \in DOMAIN loads :
    \/ \E side \in TCSides : ReadPage(n, side) \/ LookUp(n, side)
    \/ Loaded(n) \/ LoadFailed(n) \/ LoadIgnored(n)
UserChoices ==
  \/ CancelLoading \/ Reload
  \/ \E p \in 1..Cardinality(RowKeys) : GoToPage(p)
  \/ \E size \in PageSizes : SetPageSize(size)
  \/ \E side \in TCSides :
       \/ \E k \in RowKeys : ToggleRow(side, k) \/ ToggleRange(side, k)
       \/ ToggleAllVisible(side) \/ RequestDelete(side)
  \/ Copy \/ RequestOverwrite \/ DismissConfirm
Writes ==
  \/ \E k \in RowKeys, ok \in BOOLEAN : CopyRow(k, ok)
  \/ CopyDone
  \/ ConfirmDelete \/ DeleteApplied \/ DeleteFailed \/ DeleteAnswered
  \/ ConfirmOverwrite \/ (\E rows \in {server.source, NoRows, server.target} : OverwriteApplied(rows))
  \/ CancelOverwrite \/ OverwriteReturned \/ OverwriteThrew
TCNext == Loads \/ UserChoices \/ Writes
TCSpec == TCInit /\ [][TCNext]_tcVars

-----------------------------------------------------------------------------
TrueKind(k) ==
  IF k \notin Keys(server.target) THEN "add" ELSE IF k \notin Keys(server.source) THEN "del"
  ELSE IF server.source[k] = server.target[k] THEN "same" ELSE "mod"
\* What the two panes say of a row is true of the whole tables, not of the pages
\* alone, once nothing loads or is written: its values, and whether it is added,
\* deleted, changed or the same.  Not after a load was cancelled, nor after an
\* overwrite that failed, which leave the former rows; nor on a page after the last one
\* of one table, whose total of 0 is taken for that of a table that has been read whole
\* (table-compare-page.ts:12, 26, TableCompareView.tsx:378).
BeyondItsEnd(side) == page > 1 /\ Keys(pane[side].data.rows) = {}
SettledDiffIsTrue ==
  Settled /\ ~TCBusy /\ ~stale /\ (\A side \in TCSides : ~BeyondItsEnd(side)) =>
    \A side \in TCSides : \A k \in DOMAIN Panes[side].lines :
      /\ Panes[side].lines[k].kind = TrueKind(k)
      /\ Panes[side].lines[k].row = IF k \in Keys(server[side]) THEN server[side][k] ELSE None

\* Deleting takes exactly the rows that the question counted, however the pages
\* changed since they were selected (TableCompareView.tsx:271, 289).
DeletesWhatWasAsked ==
  [][work.kind # "delete" /\ work'.kind = "delete" => Cardinality(work'.keys) = confirm.count]_tcVars
=============================================================================
