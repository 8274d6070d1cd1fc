------------------------------ MODULE DiffScreen ----------------------------
(***************************************************************************)
(* What the compare panel shows in each of its states and which controls   *)
(* it offers (renderer/components/diff: the toolbar, the setup section and *)
(* the result tabs).  Compare says what a control does; here a control can *)
(* be used only while it is on the screen and enabled.                     *)
(***************************************************************************)
EXTENDS Compare

ShowIdleNotice == phase = "idle" /\ ~HasDiff
ShowResult == HasDiff
HasErrors == \E t \in DOMAIN entries : entries[t].status = "error"

IdenticalNotice == IF ~FullyIdentical THEN None ELSE IF prefs.data THEN "all" ELSE "schema"
SkippedNotice ==
  /\ HasDiff /\ prefs.data /\ TableDiffs(entries) = {} /\ ~FullyIdentical
  /\ \E t \in RowComparisons(entries) : entries[t].rows = "skipped"

TabItems == {"tables", "status", "schema"} \cup (IF prefs.data THEN {"data"} ELSE {})

\* The counts behind the toolbar's badges, and when rows are called identical.
Skipped == {t \in RowComparisons(entries) : entries[t].rows = "skipped"}
ToolbarSummary ==
  IF ~HasDiff THEN None
  ELSE [structure |-> Cardinality(TableDiffs(entries)),
        checked |-> Cardinality(RowComparisons(entries)),
        changed |-> Cardinality(ChangedRows(entries)), skipped |-> Cardinality(Skipped),
        rowsIdentical |-> phase = "done" /\ ChangedRows(entries) = {} /\ Skipped = {}]
SummaryBadges ==
  IF ToolbarSummary = None THEN {}
  ELSE LET s == ToolbarSummary
       IN  {"structure"}
           \cup (IF ~prefs.data \/ s.checked = 0 THEN {}
                 ELSE {"checked", IF s.rowsIdentical THEN "rows-identical" ELSE "changed"})
           \cup (IF prefs.data /\ s.skipped > 0 THEN {"skipped"} ELSE {})

PhaseStatus ==
  CASE Loading -> "running" [] phase \in {"done", "cancelled"} -> phase [] OTHER -> "idle"
PhaseText ==
  LET s == SharedStats(entries)
  IN  CASE phase = "loading-tables" -> [text |-> "loading-tables"]
        [] phase = "comparing" -> [text |-> "comparing", done |-> s.done, total |-> s.total,
                                   pending |-> s.pending]
        [] phase = "cancelled" \/ (phase = "done" /\ s.total > 0) ->
             [text |-> phase, done |-> s.done, total |-> s.total]
        [] phase = "done" /\ s.total = 0 -> [text |-> "no-shared"]
        [] OTHER -> [text |-> "ready"]
CompareLabel == IF Loading THEN PhaseText ELSE [text |-> "compare"]
Progress ==
  LET s == SharedStats(entries)
  IN  IF ~Loading THEN None
      ELSE [count |-> IF s.total > 0 THEN <<s.done, s.total>> ELSE None, detail |-> s.pending]

SetupSummary ==
  IF form = EmptyForm THEN "empty"
  ELSE [source |-> form.source, target |-> form.target, data |-> prefs.data]
DatabaseOptions(side) ==
  CASE form[side].conn = None -> "select-connection-first"
    [] form[side].conn # None /\ lists[side].loading -> "loading"
    [] OTHER -> IF lists[side].of = None THEN {} ELSE Databases

\* The tables tab says of each table whether the other side has it.
Presence(side, t) ==
  IF \A s \in Sides : t \in tables[s] THEN "shared"
  ELSE IF side = "source" THEN "source-only" ELSE "target-only"
TablePanel(side) ==
  IF tables[side] = {} THEN IF phase = "loading-tables" THEN "skeleton" ELSE "empty"
  ELSE [t \in tables[side] |-> Presence(side, t)]

\* Which sign a column or index of a table's difference gets on each side, and
\* what is merged into one list in the details.
LineSign(kind, side) ==
  CASE kind = "only-in-source" /\ side = "source" -> "add"
    [] kind = "only-in-target" /\ side = "target" -> "del"
    [] kind = "modified" -> "mod"
    [] OTHER -> "same"
LineShown(kind, side) ==
  ~(kind = "only-in-source" /\ side = "target") /\ ~(kind = "only-in-target" /\ side = "source")
DetailLines(kinds) ==
  {[kind |-> k, sign |-> LineSign(k, IF k = "only-in-target" THEN "target" ELSE "source")] : k \in kinds}
DetailSummary(e) ==
  CASE e.status = "error" -> {"retry-hint"}
    [] e.status # "error" /\ ~e.source -> {"target-only"}
    [] e.status # "error" /\ ~e.target -> {"source-only"}
    [] OTHER -> LET parts == (IF e.schema # "none" THEN {"columns", "indexes"} ELSE {})
                             \cup (IF e.rows = "none" THEN {} ELSE {"rows-" \o e.rows})
                IN  IF parts = {} THEN {"no-differences"} ELSE parts

RowSign(e) == IF e.rows = "changed" THEN "mod" ELSE "same"
RowBadge(e) == CASE e.rows = "skipped" -> "skipped" [] e.rows = "same" -> "identical"
                 [] OTHER -> "different"

-----------------------------------------------------------------------------
(* Controls                                                                *)

Matching(S) == S \cap prefs.search
VisibleRows ==
  Matching(IF browse.showAll THEN RowComparisons(entries) ELSE ChangedRows(entries))

\* A table's buttons on the status tab, the schema tab and the content tab.
StatusOffers(t) == IF browse.selected = t THEN DetailActions(entries[t]) ELSE {}
SchemaOffers(t) ==
  IF t \notin Matching(TableDiffs(entries)) THEN {}
  ELSE (IF entries[t].schema = "modified" THEN {"compare"} ELSE {})
       \cup (IF entries[t].schema # "only-in-target" THEN {"open-source"} ELSE {})
       \cup (IF entries[t].schema # "only-in-source" THEN {"open-target"} ELSE {})
DataOffers(t) == IF t \in VisibleRows THEN {"compare", "open-source", "open-target"} ELSE {}
Offers(t) ==
  CASE ~ShowResult \/ prefs.tab = "tables" -> {}
    [] ShowResult /\ prefs.tab = "status" -> StatusOffers(t)
    [] ShowResult /\ prefs.tab = "schema" -> SchemaOffers(t)
    [] OTHER -> IF HasRowResults(entries, prefs) THEN DataOffers(t) ELSE {}

HasSearch ==
  /\ ShowResult
  /\ \/ prefs.tab = "status"
     \/ prefs.tab = "schema" /\ TableDiffs(entries) # {}
     \/ prefs.tab = "data" /\ HasRowResults(entries, prefs)
\* The empty tabs offer a way out: clearing the search, or the filter.
MayClearSearch == HasSearch \/ (ShowResult /\ prefs.tab = "schema")
StatusBody ==
  IF DOMAIN entries # {} THEN "list" ELSE IF Loading THEN "skeleton" ELSE "empty"
HasShowAll ==
  /\ ShowResult /\ prefs.tab = "data" /\ HasRowResults(entries, prefs)
  /\ \/ RowComparisons(entries) # ChangedRows(entries)
     \/ VisibleRows = {} /\ prefs.search = Names /\ ~browse.showAll
DatabaseEnabled(side) == form[side].conn # None /\ ~lists[side].loading
SetupOffers ==
  IF ~prefs.setup THEN {"toggle"}
  ELSE {"toggle", "connection", "database"}
       \cup (IF prefs.history # <<>> THEN {"history"} ELSE {})
       \cup (IF SelectedHistory # {} THEN {"forget-selected"} ELSE {})

\* The toolbar's buttons and its menu.
Toolbar ==
  {"compare-rows"}
  \cup (IF Loading THEN {"cancel"} ELSE {})
  \cup (IF ~Loading THEN {"compare", "concurrency"} ELSE {})
  \cup (IF ~Loading /\ HasDiff THEN {"rerun"} ELSE {})
  \cup (IF MaySwap THEN {"swap"} ELSE {})
  \cup (IF prefs.data /\ ChangedRows(entries) # {} THEN {"show-row-diffs"} ELSE {})
  \cup (IF HasDiff THEN {"export-report"} ELSE {})
  \cup (IF CanPlanSync THEN {"plan-sync"} ELSE {})
  \cup (IF prefs.history # <<>> THEN {"clear-history"} ELSE {})
\* What the tab without row results offers instead.
EmptyDataOffers ==
  IF ShowResult /\ prefs.tab = "data" /\ ~HasRowResults(entries, prefs)
  THEN IF prefs.data THEN {"compare"} ELSE {"compare-rows"} ELSE {}
NoticeOffers ==
  (IF (ShowIdleNotice \/ IdenticalNotice # None) /\ ~Loading THEN {"compare"} ELSE {})
  \cup (IF SkippedNotice THEN {"show-row-tab"} ELSE {})
Offered == Toolbar \cup EmptyDataOffers \cup NoticeOffers

-----------------------------------------------------------------------------
ScreenInit == CompareInit

UserActions ==
  \/ "compare" \in Offered /\ RunCompare
  \/ "cancel" \in Offered /\ CancelCompareJob(job)
  \/ "swap" \in Offered /\ SwapEndpoints
  \/ "compare-rows" \in Offered /\ ToggleCompareRows
  \/ "concurrency" \in Offered /\ \E n \in Options : SetConcurrency(n)
  \/ "show-row-diffs" \in Offered /\ ShowRowDiffs
  \/ "show-row-tab" \in Offered /\ SelectTab("data")
  \/ "clear-history" \in Offered /\ ForgetHistory(ToSet(prefs.history))
  \/ HasShowAll /\ ToggleShowAll
  \/ ShowResult /\ \E tab \in TabItems : SelectTab(tab)
  \/ ShowResult /\ prefs.tab = "status" /\ \E f \in StatusFilters : SetFilter(f)
  \/ HasSearch /\ \E t \in Names : SetSearch({t})
  \/ MayClearSearch /\ SetSearch(Names)
  \/ ShowResult /\ prefs.tab = "status" /\ \E t \in Names : SelectTable(t)
  \/ \E t \in DOMAIN entries : "retry" \in Offers(t) /\ RetryTable(t)
  \/ "toggle" \in SetupOffers /\ ToggleSetup
  \/ "connection" \in SetupOffers
     /\ \E side \in Sides, c \in Connections \cup {None} : ChooseConnection(side, c)
  \/ "database" \in SetupOffers
     /\ \E side \in Sides, d \in Databases \cup {None} :
          DatabaseEnabled(side) /\ ChooseDatabase(side, d)
  \/ "history" \in SetupOffers /\ \E h \in ToSet(prefs.history) : PickHistory(h)
  \/ "forget-selected" \in SetupOffers /\ ForgetHistory(SelectedHistory)

\* What comes from elsewhere: answers, and the workspace.
OtherEvents ==
  \/ Answers
  \/ \E q \in fetches, ok \in BOOLEAN : DatabasesListed(q, ok)
  \/ ConnectionsReady
  \/ \E c \in Connections, d \in Databases : Prefill(c, d)
  \/ \E t \in Names, at \in Endpoints : TableDropped(at, t)
  \/ CloseTab

ScreenNext == UserActions \/ OtherEvents
ScreenSpec == ScreenInit /\ [][ScreenNext]_compareVars

-----------------------------------------------------------------------------
\* What the results offer to open was listed on that side and has not been dropped
\* since: a dropped table leaves the lists and the results together
\* (diff-panel-hooks.ts:197).
OpensWhatIsListed ==
  \A t \in DOMAIN entries :
    /\ Offers(t) \cap {"open-source", "compare"} # {} => t \in tables["source"]
    /\ Offers(t) \cap {"open-target", "compare"} # {} => t \in tables["target"]
=============================================================================
