-------------------------------- MODULE MCViews --------------------------------
(***************************************************************************)
(* The screens that only read and write through requests of their own, one *)
(* after the other: view says which one runs, the others rest in one state *)
(* they may start in.  They share nothing but the server, which each of    *)
(* them models as far as it shows; the comparison's way to a sync, which   *)
(* they do share, is the run compare_sync.                                 *)
(***************************************************************************)
EXTENDS Workspace, SQLConsole, TableTransfer, SSHTerminal, SidebarWidth, TLC

CONSTANT Views

VARIABLES
  view,
  form, setup, lists, fetches, prefs, browse, phase, context, tables, entries, showSync,
  runs, runId, retries, jobs, seq, job, mountedAt,                          \* DiffScreen
  cached, cachedBytes, pending, operations, scopeVersions, saved, cancelledAt, \* CompareCache
  server, page, pageSize, draft, loads, loaded, pane, picked, anchor, confirm, work, steps,
  stale,                                                                   \* TableCompare
  remote, folder, draftPath, listing, highlighted, listings, listSeq, listError, busy,
  running, dialog, dragging, filter, ops, editor,                          \* SSHFiles
  engine, catalog, deleted, node, treeFilters, curBases, current, scanOps, timers, calls,
  callSeq, ask, rename, sqlDialog, credential, keyDialog, actionBusy, todo, \* Sidebar
  forest, keyword, foldedKeys, activeKey, viewport, width, drag, rail,     \* SidebarRows
  stored, version, foreign, exact, query, columnsKnown, hiddenColumns, cursors, result, reads,
  readSeq, cancelling, chosen, anchorRow, pendingDelete, editing, edits, acked, \* TableData
  dialect, structure, schema, schemaError, schemaLoading, schemaLoads, schemaAsked, settled,
  columnDraft, indexDraft, pendingAction, executing, alter, fieldEdits     \* TableStructure

diffVars == <<form, setup, lists, fetches, prefs, browse, phase, context, tables, entries,
              showSync, runs, runId, retries, jobs, seq, job, mountedAt>>
cacheVars == <<cached, cachedBytes, pending, operations, scopeVersions, saved, cancelledAt>>
tcVars == <<server, page, pageSize, draft, loads, loaded, pane, picked, anchor, confirm,
            work, steps, stale>>
fileVars == <<remote, folder, draftPath, listing, highlighted, listings, listSeq,
              listError, busy, running, dialog, dragging, filter, ops, editor>>
sideVars == <<engine, catalog, deleted, node, treeFilters, curBases, current, scanOps,
              timers, calls, callSeq, ask, rename, sqlDialog, credential, keyDialog,
              actionBusy, todo>>
rowVars == <<forest, keyword, foldedKeys, activeKey, viewport, width, drag, rail>>
structVars == <<dialect, structure, schema, schemaError, schemaLoading, schemaLoads,
                schemaAsked, settled, columnDraft, indexDraft, pendingAction, executing, alter,
                fieldEdits>>
dataVars == <<stored, version, foreign, exact, query, columnsKnown, hiddenColumns,
              cursors, result, reads, readSeq, cancelling, chosen, anchorRow,
              pendingDelete, editing, edits, acked>>

-----------------------------------------------------------------------------
(* Two tables, compared once, with changes to the form.                    *)
Selection == [source |-> [conn |-> "c1", db |-> "d"], target |-> [conn |-> "c2", db |-> "d"]]
Remembered == [data |-> TRUE, limit |-> 1,
         raw |-> [filter |-> "all", concurrency |-> 5, tab |-> "data", legacyTables |-> FALSE,
                  search |-> {"a"}, history |-> <<Selection>>]]
Order == <<"a">>
D == INSTANCE DiffScreen WITH
       RowResults <- {"changed"}, MaxHistory <- 1, Connections <- {"c1", "c2"},
       Databases <- {"d"}, Stored <- {Remembered},
       Listings <- {[source |-> {"a"}, target |-> {"a"}]}, MaxRuns <- 2, MaxEdits <- 1, MaxBrowses <- 1

(* Two views of two pages each, and room for two results.                  *)
Cache == INSTANCE CompareCache WITH
           Scopes <- {"v1", "v2"}, Pages <- {1, 2}, MaxCached <- 2, MaxReads <- 2, MaxWrites <- 1,
           written <- saved

(* Rows that are equal, changed or missing, listed on different pages.     *)
Pairs == {[source |-> (1 :> "x" @@ 3 :> "x"), target |-> (1 :> "x" @@ 2 :> "x" @@ 3 :> "y")]}
TC == INSTANCE TableCompare WITH
        RowKeys <- 1..3, Values <- {"x", "y"}, Tables <- Pairs, PageSizes <- {1, 2},
        MaxLoads <- 3, MaxSteps <- 3

(* Tables, consoles and remote files that may be opened in three tabs.     *)
ViewAt(kind, ends, table, path) ==
  [kind |-> kind, at |-> [ends |-> ends, table |-> table, path |-> path],
   sub |-> None, engine |-> IF kind \in {"table", "sql"} THEN "mysql" ELSE None]
E1 == <<"c1", "d1">>
E2 == <<"c2", "d1">>
MCOpenable == {ViewAt("table", <<E1>>, "t1", <<>>), ViewAt("table", <<E1>>, "t2", <<>>),
             ViewAt("table-compare", <<E1, E2>>, "t1", <<>>), ViewAt("sql", <<E1>>, None, <<>>),
             ViewAt("ssh-editor", <<E1>>, None, <<"x", "y">>),
             ViewAt("ssh-editor", <<E1>>, None, <<"z", "y">>),
             ViewAt("database-export", <<E2>>, None, <<>>)}
MCBroken == ViewAt("table", <<E2>>, None, <<>>)

(* A folder with a file, a file beside it, and a folder that is dropped.   *)
Remote == {(<<"a">> :> "directory") @@ (<<"f">> :> "t1") @@ (<<"a", "g">> :> "t1")}
Dropped == {{[type |-> "directory", path |-> <<"d">>, readable |-> FALSE],
             [type |-> "file", path |-> <<"d", "x">>, readable |-> TRUE]}}
F == INSTANCE SSHFiles WITH
       FileTexts <- {"t1", "t2"}, Edited <- <<"f">>, MaxLists <- 2, MaxOps <- 1, MaxReads <- 3,
       selected <- highlighted, lists <- listings

(* One database: three tables in two schemas, or three keys.               *)
SchemaOf == "a" :> "public" @@ "b" :> "s2" @@ "c" :> "public"
BatchOf == "a" :> 0 @@ "b" :> 1 @@ "c" :> 2
Matching == None :> {"a", "b", "c"} @@ "fa" :> {"a"}
KeyForms == {[type |-> "zset", named |-> TRUE, ttl |-> TRUE, parts |-> p] :
               p \in {{"member"}, {"member", "score"}}}
SB == INSTANCE Sidebar WITH
        Engines <- {"postgres", "redis"}, DBs <- {"d"}, Tables <- {"a", "b", "c"},
        MaxKeys <- 2, MaxCalls <- 3, MaxTodo <- 1

(* Two connections whose databases, tables and key folders come and go.    *)
Node(redis, dbs, shown, names, pend, visible) ==
  [open |-> TRUE, loading |-> FALSE, redis |-> redis, dbs |-> dbs, shown |-> shown,
   lists |-> names, busy |-> pend, errors |-> {}, visible |-> visible, schemas |-> <<>>]
RedisKeys == {<<1, 2>>, <<1, 2, 3>>, <<1>>}
Forests ==
  {1 :> a @@ 2 :> b :
     a \in {None, Node(FALSE, {1, 2}, {1}, 1 :> {1, 2}, {}, {1, 2}),
            Node(FALSE, {1, 2}, {1}, 1 :> {1, 2}, {}, {2}),
            Node(FALSE, {1}, {1}, 1 :> {1, 2}, {1}, {1, 2}),
            Node(FALSE, {2}, {}, <<>>, {}, {})},
     b \in {None, Node(TRUE, {1}, {1}, 1 :> RedisKeys, {}, RedisKeys),
            Node(TRUE, {1}, {1}, 1 :> {<<1>>}, {}, RedisKeys),
            Node(TRUE, {1}, {}, <<>>, {}, {})}}
SR == INSTANCE SidebarRows WITH
        GroupOf <- <<1, 2>>, Keywords <- None :> {1, 2} @@ "k" :> {2}

(* A table that is written, and one that is paged through.                 *)
All == None :> 1..4
TE == INSTANCE TableData WITH
        Keys <- {1, 2}, InitialKeys <- {2}, Wheres <- All, Sizes <- {2}, PageDrafts <- {None},
        Columns <- {"id"}, KeyColumn <- "id",
        MaxReads <- 3, MaxEdits <- 1, MaxCancels <- 0, MaxForeign <- 1
TP == INSTANCE TableData WITH
        Keys <- 1..3, InitialKeys <- 1..3, Wheres <- All @@ "odd" :> {1, 3}, Sizes <- {1, 2},
        PageDrafts <- {3}, Columns <- {"id", "v"}, KeyColumn <- "id",
        MaxReads <- 3, MaxEdits <- 0, MaxCancels <- 1, MaxForeign <- 0

(* A table with a key and an index, whose fields are changed twice.        *)
Key(d) == IF d = "mysql" THEN "PRIMARY" ELSE "t_pkey"
Literal(w) == [text |-> [word |-> w, quotes |-> 0], literal |-> TRUE]
Column(type, nullable, default, comment) ==
  [type |-> type, nullable |-> nullable, default |-> default, comment |-> comment]
S == INSTANCE TableStructure WITH
       Dialects <- {"mysql", "postgres"}, ColumnNames <- {"c"}, IndexNames <- {"j"},
       Types <- {"text"}, DefaultWords <- {"5"}, Comments <- {""},
       FirstStructure <- [d \in {"mysql", "postgres"} |->
         [columns |-> "a" :> Column("int", FALSE, None, "") @@ "b" :> Column("text", TRUE, Literal("x"), "m"),
          indexes |-> Key(d) :> [unique |-> TRUE, columns |-> <<"a">>]
                      @@ "i" :> [unique |-> FALSE, columns |-> <<"b">>]]],
       MaxSchemaLoads <- 2, MaxFieldEdits <- 2

ASSUME TE!TableAssumption /\ TP!TableAssumption /\ TC!PairsAssumption /\ S!StructureAssumption
       /\ SR!ForestAssumption

(* An answer with rows, and one with several results.                      *)
Rows1 == [shape |-> "rows", rows |-> 1]
Changed == [shape |-> "affected"]
MCAnswers == {Rows1, [shape |-> "results", parts |-> <<Changed, Rows1>>]}

-----------------------------------------------------------------------------
\* What rests rests in one state.
Rests(v) == view # v
Init ==
  /\ view \in Views
  /\ D!ScreenInit /\ Cache!CacheInit /\ TransferInit /\ ConsoleInit /\ F!FilesInit
  /\ TC!TCInit /\ pageSize = 2
  /\ WSInit /\ (Rests("workspace") => tabs = <<>>)
  /\ TermInit /\ (Rests("terminal") => box = 1)
  /\ SB!SideInit /\ (Rests("sidebar") => engine = "redis")
  /\ SR!RowsInit /\ (Rests("rows") => viewport = 6 /\ \A c \in DOMAIN forest : forest[c] = None)
  /\ S!StructInit /\ (Rests("structure") => dialect = "mysql")
  /\ IF view = "pages" THEN TP!DataInit ELSE TE!DataInit
  /\ ~exact /\ (Rests("pages") => hiddenColumns = {})

\* Only the variables of view v may change.
Only(v) ==
  /\ view = v /\ UNCHANGED view
  /\ IF v = "diff" THEN TRUE ELSE UNCHANGED diffVars
  /\ IF v = "cache" THEN TRUE ELSE UNCHANGED cacheVars
  /\ IF v = "table-compare" THEN TRUE ELSE UNCHANGED tcVars
  /\ IF v = "workspace" THEN TRUE ELSE UNCHANGED wsVars
  /\ IF v \in {"files", "editor"} THEN TRUE ELSE UNCHANGED fileVars
  /\ IF v = "terminal" THEN TRUE ELSE UNCHANGED termVars
  /\ IF v = "sidebar" THEN TRUE ELSE UNCHANGED sideVars
  /\ IF v = "rows" THEN TRUE ELSE UNCHANGED rowVars
  /\ IF v \in {"edits", "pages"} THEN TRUE ELSE UNCHANGED dataVars
  /\ IF v = "structure" THEN TRUE ELSE UNCHANGED structVars
  /\ IF v = "transfer" THEN TRUE ELSE UNCHANGED transferVars
  /\ IF v = "console" THEN TRUE ELSE UNCHANGED consoleVars
Next ==
  \/ view = "diff" /\ D!ScreenNext /\ Only("diff")
  \/ view = "cache" /\ Cache!CacheNext /\ Only("cache")
  \/ view = "table-compare" /\ TC!TCNext /\ Only("table-compare")
  \/ view = "workspace" /\ WSNext /\ Only("workspace")
  \/ view = "files" /\ F!FilesNext /\ Only("files")
  \/ view = "editor" /\ F!EditorNext /\ Only("editor")
  \/ view = "terminal" /\ TermNext /\ Only("terminal")
  \/ view = "sidebar" /\ SB!SideNext /\ Only("sidebar")
  \/ view = "rows" /\ SR!RowsNext /\ Only("rows")
  \/ view = "edits" /\ TE!DataNext /\ Only("edits")
  \/ view = "pages" /\ TP!DataNext /\ Only("pages")
  \/ view = "structure" /\ S!StructNext /\ Only("structure")
  \/ view = "transfer" /\ TransferNext /\ Only("transfer")
  \/ view = "console" /\ ConsoleNext /\ Only("console")

-----------------------------------------------------------------------------
\* What a comparison shows is current: the lists of databases are those of the
\* connections chosen, what the cache holds was read since its view last cancelled,
\* and the panes say of each row what is true of the whole tables
\* (diff-panel-hooks.ts:115, table-compare-data-cache.ts:96, table-compare-page.ts:12).
ComparisonsAreCurrent ==
  /\ D!ListsFollowTheForm /\ D!OpensWhatIsListed
  /\ Cache!CacheFollowsCancels
  /\ TC!SettledDiffIsTrue

\* A question to delete rows counts the rows that confirming it deletes
\* (TableCompareView.tsx:271, 289).
DeletesWhatWasAsked == TC!DeletesWhatWasAsked

\* What the SSH views show is what the server has, and what the server runs is shown:
\* the listing is of the folder named, a saved file is the one at the server, and each
\* shell belongs to a tab (useSSHFileListing.ts:28, SSHFileEditor.tsx:113,
\* SSHTerminalView.tsx:129).
RemoteViewsAgree ==
  F!RowsAreOfTheFolder /\ F!SavedShowsTheFile /\ TerminalsAreOwned

\* The explorer lists what its filter and schema ask for, what spins is being loaded,
\* it leaves room for the work beside it, and the keyboard focus stays on its row or
\* moves to the nearest one around it (sidebar-actions.ts:221, sidebar-store.ts:46,
\* SidebarTree.tsx:151).
ExplorerAgrees ==
  /\ [](SB!TreeShowsWhatWasAsked /\ SB!SpinnersEnd /\ SR!RoomForWork)
  /\ SR!FocusStaysNear

\* A table view shows what its own writes have left and deletes the rows it was asked
\* to, and while nothing is written its pages are the parts of the listing
\* (table-data-query-hooks.ts:93, 148, table-data-row-hooks.ts:147); the view of the
\* structure shows what its statements have left, and these are the ones that were
\* reviewed and do what the form says (TableStructureView.tsx:211, table-structure-sql.ts:7).
TablesAreCurrent ==
  /\ IF view = "pages" THEN TP!PagesFitTogether
     ELSE TE!SettledRowsHaveMyWrites /\ TE!DeletesTheRowsAsked
  /\ S!StructureIsCurrent /\ S!RunsWhatWasReviewed /\ S!ReviewedDoesWhatItSays
=============================================================================
