-------------------------------- MODULE Sidebar -------------------------------
(***************************************************************************)
(* The explorer of one connection (renderer/components/layout): what the   *)
(* tree has loaded (sidebar-store.ts, sidebar-actions.ts, Sidebar.tsx),    *)
(* what its menus offer (sidebar-menus.ts) and its dialogs.  A request     *)
(* counts while no later one of its database has replaced it, whoever      *)
(* asked.  Tabs are opened, renamed and closed in Workspace.               *)
(***************************************************************************)
EXTENDS Unset, Naturals, FiniteSets

CONSTANTS Engines, DBs, Tables,
          SchemaOf,     \* table -> schema
          BatchOf,      \* key -> the batch of a scan that finds it: 0, 1
          Matching,     \* filter -> the tables and keys it lets through
          MaxKeys,      \* listed keys of a scan at which it stops
          KeyForms,     \* what may be filled in for a new key
          MaxCalls, MaxTodo

VARIABLES
  engine, catalog,  \* the server: database -> tables
  deleted,          \* the connection is gone
  node,             \* what the tree holds of the connection, or None
  treeFilters,      \* tableFilters: database -> filter
  curBases, current, \* the request that counts, 0 if none
  scanOps, timers,  \* redisOperations, redisFilterTimers
  calls, callSeq,
  ask,              \* pendingConfirm and whether it runs
  rename,           \* inlineRename
  sqlDialog, credential, keyDialog,
  actionBusy, todo  \* withBusy, and the actions under it

sideVars == <<engine, catalog, deleted, node, treeFilters, curBases, current, scanOps, timers,
              calls, callSeq, ask, rename, sqlDialog, credential, keyDialog, actionBusy, todo>>
dialogVars == <<ask, rename, sqlDialog, credential, keyDialog>>
loadVars == <<node, current, scanOps, timers, calls, callSeq>>

SPut(f, k, v) == [x \in DOMAIN f \cup {k} |-> IF x = k THEN v ELSE f[x]]
SDrop(f, ks) == [x \in DOMAIN f \ ks |-> f[x]]
NewNode == [open |-> TRUE, loading |-> TRUE, failed |-> FALSE, dbs |-> None, shown |-> {},
            lists |-> <<>>, busy |-> {}, errors |-> {}, schema |-> <<>>, scans |-> <<>>]
FilterOf(db) == IF db \in DOMAIN treeFilters THEN treeFilters[db] ELSE None
Redis == engine = "redis"

SideInit ==
  /\ engine \in Engines /\ deleted = FALSE
  /\ catalog = [db \in DBs |-> {t \in Tables : BatchOf[t] < 2}]
  /\ node = None /\ treeFilters = <<>> /\ curBases = 0 /\ current = [db \in DBs |-> 0]
  /\ scanOps = [db \in DBs |-> 0] /\ timers = {} /\ calls = {} /\ callSeq = 0
  /\ ask = None /\ rename = None /\ sqlDialog = None /\ credential = None /\ keyDialog = None
  /\ actionBusy = FALSE /\ todo = {}

-----------------------------------------------------------------------------
(* Requests                                                                *)

Send(kind, db, arg, reset, w) ==
  /\ callSeq < MaxCalls /\ callSeq' = callSeq + 1
  /\ calls' = calls \cup {[id |-> callSeq + 1, kind |-> kind, db |-> db, arg |-> arg,
                           reset |-> reset, for |-> w, answer |-> None]}

\* cancelSidebarRedisScans: what runs or is due no longer counts.
CancelledScans(nd, dbs) ==
  IF nd = None THEN None
  ELSE [nd EXCEPT !.scans = [db \in DOMAIN @ |-> IF db \in dbs THEN [@[db] EXCEPT !.loading = FALSE] ELSE @[db]]]
Bumped(dbs) == [db \in DBs |-> IF db \in dbs /\ (db \in timers \/ scanOps[db] # 0) THEN 0 ELSE current[db]]
CancelScans(dbs) ==
  /\ current' = Bumped(dbs) /\ timers' = timers \ dbs
  /\ scanOps' = [db \in DBs |-> IF db \in dbs THEN 0 ELSE scanOps[db]]

LoadBatch(nd, db, reset, w) ==
  LET scan == IF nd # None /\ db \in DOMAIN nd.scans THEN nd.scans[db] ELSE None
      cursor == IF reset \/ scan = None THEN 0 ELSE scan.cursor
      base == IF reset THEN CancelledScans(nd, {db}) ELSE nd
  IN  /\ ~(~reset /\ scan # None /\ (scan.loading \/ scan.complete \/ scan.limited))
      /\ Send("batch", db, [cursor |-> cursor, filter |-> FilterOf(db)], reset, w)
      /\ current' = [current EXCEPT ![db] = callSeq + 1]
      /\ scanOps' = [scanOps EXCEPT ![db] = callSeq + 1]
      /\ timers' = IF reset THEN timers \ {db} ELSE timers
      /\ node' = IF base = None THEN None
                 ELSE [base EXCEPT !.lists = IF reset THEN SPut(@, db, {}) ELSE @, !.errors = @ \ {db},
                                   !.scans = SPut(@, db, [cursor |-> cursor, filter |-> FilterOf(db),
                                      complete |-> FALSE, limited |-> FALSE, loading |-> TRUE, shut |-> db \notin base.shown])]
LoadTables(nd, db, schema, w) ==
  IF Redis THEN LoadBatch(nd, db, TRUE, w)
  ELSE /\ Send(IF engine = "postgres" THEN "schemas" ELSE "tables", db, schema, FALSE, w)
       /\ current' = [current EXCEPT ![db] = callSeq + 1]
       /\ node' = IF nd = None THEN None ELSE [nd EXCEPT !.busy = @ \cup {db}, !.errors = @ \ {db}]
       /\ UNCHANGED <<scanOps, timers>>
LoadDatabases(nd) ==
  /\ Send("bases", None, None, FALSE, 0) /\ curBases' = callSeq + 1
  /\ node' = [(IF nd = None THEN NewNode ELSE nd) EXCEPT !.loading = TRUE, !.failed = FALSE]

\* The server answers with what it has, or with an error.
AnswerTo(c) ==
  CASE c.kind = "bases" -> DOMAIN catalog
    [] c.kind = "schemas" -> {SchemaOf[t] : t \in catalog[c.db]}
    [] c.kind = "tables" -> {t \in catalog[c.db] : c.arg = None \/ SchemaOf[t] = c.arg}
    [] c.kind = "batch" -> {t \in catalog[c.db] \cap Matching[c.arg.filter] : BatchOf[t] % 2 = c.arg.cursor}
    [] OTHER -> {}
ServerAnswers(c) ==
  /\ c.answer = None
  /\ \E answer \in {[ok |-> FALSE, found |-> {}]}
                   \cup {[ok |-> TRUE, found |-> AnswerTo(x)] : x \in {y \in {c} : c.kind = "bases" \/ c.db \in DOMAIN catalog}} :
       calls' = (calls \ {c}) \cup {[c EXCEPT !.answer = answer]}
  /\ UNCHANGED <<engine, catalog, deleted, node, treeFilters, curBases, current, scanOps, timers,
                 callSeq, actionBusy, todo>> /\ UNCHANGED dialogVars

Answered(c, kind) == c.kind = kind /\ c.answer # None
DatabasesListed(c) ==
  /\ Answered(c, "bases") /\ calls' = calls \ {c}
  /\ node' = IF c.id # curBases \/ node = None THEN node
             ELSE IF c.answer.ok THEN [node EXCEPT !.loading = FALSE, !.dbs = c.answer.found]
             ELSE [node EXCEPT !.loading = FALSE, !.failed = TRUE]
  /\ UNCHANGED <<engine, catalog, deleted, treeFilters, curBases, current, scanOps, timers,
                 callSeq, actionBusy, todo>> /\ UNCHANGED dialogVars
IsLoaded(c) == node # None
IsCurrent(c) == current[c.db] = c.id /\ node # None
Settled(nd, db) == [nd EXCEPT !.busy = @ \ {db}]
\* The schema stays if it is still there; else "public", else any.
ChosenSchema(c) ==
  LET previous == IF c.arg # None THEN c.arg
                  ELSE IF c.db \in DOMAIN node.schema THEN node.schema[c.db] ELSE None
      found == c.answer.found
  IN  IF previous \in found THEN previous ELSE IF "public" \in found THEN "public" ELSE CHOOSE s \in found : TRUE
SchemasListed(c) ==
  /\ Answered(c, "schemas")
  /\ IF ~IsCurrent(c)
     THEN calls' = calls \ {c} /\ UNCHANGED <<node, current, callSeq>>
     ELSE IF ~c.answer.ok
     THEN /\ node' = [Settled(node, c.db) EXCEPT !.errors = @ \cup {c.db}]
          /\ calls' = calls \ {c} /\ UNCHANGED <<current, callSeq>>
     ELSE IF c.answer.found = {}
     THEN /\ node' = [Settled(node, c.db) EXCEPT !.schema = SPut(@, c.db, None), !.lists = SPut(@, c.db, {})]
          /\ calls' = calls \ {c} /\ UNCHANGED <<current, callSeq>>
     ELSE /\ node' = [node EXCEPT !.schema = SPut(@, c.db, ChosenSchema(c))]
          /\ calls' = (calls \ {c}) \cup {[c EXCEPT !.kind = "tables", !.arg = ChosenSchema(c), !.answer = None]}
          /\ UNCHANGED <<current, callSeq>>
  /\ UNCHANGED <<engine, catalog, deleted, treeFilters, curBases, scanOps, timers, actionBusy, todo>>
  /\ UNCHANGED dialogVars
TablesListed(c) ==
  /\ Answered(c, "tables") /\ calls' = calls \ {c}
  /\ node' = IF ~IsCurrent(c) THEN node
             ELSE IF c.answer.ok THEN [Settled(node, c.db) EXCEPT !.lists = SPut(@, c.db, c.answer.found)]
             ELSE [Settled(node, c.db) EXCEPT !.errors = @ \cup {c.db}]
  /\ UNCHANGED <<engine, catalog, deleted, treeFilters, curBases, current, scanOps, timers,
                 callSeq, actionBusy, todo>> /\ UNCHANGED dialogVars
\* A batch counts for an open database and the filter it was asked with.
Counts(c) == /\ IsCurrent(c) /\ scanOps[c.db] = c.id /\ c.db \in node.shown
             /\ FilterOf(c.db) = c.arg.filter
BatchScanned(c) ==
  LET kept == IF c.reset \/ c.db \notin DOMAIN node.lists THEN {} ELSE node.lists[c.db]
      keys == kept \cup c.answer.found
      complete == c.arg.cursor = 1
  IN  /\ Answered(c, "batch") /\ calls' = calls \ {c}
      /\ node' = IF ~Counts(c) THEN node
                 ELSE IF c.answer.ok
                 THEN [node EXCEPT !.lists = SPut(@, c.db, keys),
                        !.scans[c.db] = [cursor |-> IF complete THEN 0 ELSE 1, filter |-> c.arg.filter, complete |-> complete,
                          limited |-> ~complete /\ Cardinality(keys) >= MaxKeys, loading |-> FALSE, shut |-> FALSE]]
                 ELSE [node EXCEPT !.errors = @ \cup {c.db},
                        !.scans[c.db] = [cursor |-> c.arg.cursor, filter |-> c.arg.filter, complete |-> FALSE,
                          limited |-> FALSE, loading |-> FALSE, shut |-> FALSE]]
      /\ scanOps' = [scanOps EXCEPT ![c.db] = IF @ = c.id THEN 0 ELSE @]
      /\ UNCHANGED <<engine, catalog, deleted, treeFilters, curBases, current, timers, callSeq,
                     actionBusy, todo>> /\ UNCHANGED dialogVars

-----------------------------------------------------------------------------
(* The tree                                                                *)

Idle == ask = None /\ sqlDialog = None /\ credential = None /\ keyDialog = None /\ ~deleted
InTree(db) == node # None /\ node.open /\ node.dbs # None /\ db \in node.dbs
Listed(db, table) == InTree(db) /\ db \in node.shown /\ db \in DOMAIN node.lists /\ table \in node.lists[db]
KeepRest == /\ UNCHANGED <<engine, catalog, deleted, actionBusy, todo>> /\ UNCHANGED dialogVars

ToggleConnection ==
  /\ Idle /\ KeepRest /\ UNCHANGED treeFilters
  /\ IF node # None /\ node.open
     THEN /\ node' = [(IF Redis THEN CancelledScans(node, DBs) ELSE node) EXCEPT !.open = FALSE]
          /\ (IF Redis THEN CancelScans(DBs) ELSE UNCHANGED <<current, timers, scanOps>>)
          /\ UNCHANGED <<curBases, calls, callSeq>>
     ELSE IF node # None /\ node.dbs # None
     THEN node' = [node EXCEPT !.open = TRUE, !.loading = FALSE]
          /\ UNCHANGED <<curBases, current, scanOps, timers, calls, callSeq>>
     ELSE LoadDatabases(IF node = None THEN None ELSE [node EXCEPT !.open = TRUE])
          /\ UNCHANGED <<current, scanOps, timers>>
ToggleDatabase(db) ==
  /\ Idle /\ InTree(db) /\ KeepRest /\ UNCHANGED <<treeFilters, curBases>>
  /\ IF db \in node.shown
     THEN /\ node' = [(IF Redis THEN CancelledScans(node, {db}) ELSE node) EXCEPT !.shown = @ \ {db}]
          /\ (IF Redis THEN CancelScans({db}) ELSE UNCHANGED <<current, timers, scanOps>>)
          /\ UNCHANGED <<calls, callSeq>>
     ELSE LET opened == [node EXCEPT !.shown = @ \cup {db}]
          IN  IF db \in DOMAIN node.lists /\ (~Redis \/ db \in DOMAIN node.scans)
              THEN node' = opened /\ UNCHANGED <<current, scanOps, timers, calls, callSeq>>
              ELSE LoadTables(opened, db, None, 0)
\* A schema is offered when some are known, a retry after an error.
RefreshDatabase(db) ==
  /\ Idle /\ InTree(db) /\ LoadTables(node, db, None, 0) /\ KeepRest /\ UNCHANGED <<treeFilters, curBases>>
SetDatabaseSchema(db, schema) ==
  /\ Idle /\ InTree(db) /\ db \in node.shown /\ engine = "postgres" /\ db \in DOMAIN node.schema
  /\ LoadTables(node, db, schema, 0) /\ KeepRest /\ UNCHANGED <<treeFilters, curBases>>
ScanMoreRedisKeys(db) ==
  /\ Idle /\ Redis /\ InTree(db) /\ db \in node.shown /\ db \in DOMAIN node.scans
  /\ LoadBatch(node, db, FALSE, 0) /\ KeepRest /\ UNCHANGED <<treeFilters, curBases>>
\* Over the loaded names; of Redis keys in a new scan, 300 ms after the last key.
SetTableFilter(db, filter) ==
  /\ Idle /\ InTree(db) /\ db \in node.shown /\ db \notin node.busy
  /\ FilterOf(db) # filter
  /\ treeFilters' = IF filter = None THEN SDrop(treeFilters, {db}) ELSE SPut(treeFilters, db, filter)
  /\ IF Redis
     THEN /\ current' = Bumped({db}) /\ timers' = timers \cup {db} /\ scanOps' = [scanOps EXCEPT ![db] = 0]
          /\ node' = [CancelledScans(node, {db}) EXCEPT !.lists = SPut(@, db, {}), !.errors = @ \ {db},
                        !.scans = SPut(@, db, [cursor |-> 0, filter |-> filter, complete |-> FALSE,
                                               limited |-> FALSE, loading |-> TRUE, shut |-> FALSE])]
     ELSE UNCHANGED <<node, current, timers, scanOps>>
  /\ KeepRest /\ UNCHANGED <<curBases, calls, callSeq>>
FilterTimer(db) ==
  /\ db \in timers
  /\ IF node # None /\ db \in node.shown THEN LoadBatch(node, db, TRUE, 0)
     ELSE timers' = timers \ {db} /\ UNCHANGED <<node, current, scanOps, calls, callSeq>>
  /\ KeepRest /\ UNCHANGED <<treeFilters, curBases>>

-----------------------------------------------------------------------------
(* The connection                                                          *)

ConnectionMenu(ssh) ==
  {"edit", "organize-connections", "close-connection", "delete-connection"}
  \cup (IF Redis THEN {} ELSE {"add-database", "show-all-databases"})
  \cup (IF ssh THEN {"ssh-files", "ssh-terminal", "create-with-ssh"} ELSE {})
DatabaseMenu ==
  {"details", "refresh"}
  \cup (IF Redis THEN {"new-key"} ELSE {"sql-console", "credential", "export", "compare", "drop-database"})
TableMenu ==
  {"details", "rename", "drop"}
  \cup (IF Redis THEN {} ELSE {"copy", "compare-with", "create-sql", "export", "import", "truncate"})

\* To add a database or to show all saves the connection, then lists anew, whatever
\* is open by then.
BrowseAgain ==
  /\ ~deleted /\ "show-all-databases" \in ConnectionMenu(FALSE) /\ LoadDatabases(node)
  /\ KeepRest /\ UNCHANGED <<treeFilters, current, scanOps, timers>>
RetryConnection ==
  /\ Idle /\ node # None /\ node.failed /\ LoadDatabases(node)
  /\ KeepRest /\ UNCHANGED <<treeFilters, current, scanOps, timers>>
CloseConnection ==
  /\ Idle /\ CancelScans(DBs) /\ node' = None /\ treeFilters' = <<>>
  /\ KeepRest /\ UNCHANGED <<curBases, calls, callSeq>>

-----------------------------------------------------------------------------
(* Actions on databases, tables and keys                                   *)

\* withBusy marks all but the deletion of a connection.
StartAction(kind, db, table) ==
  /\ Cardinality(todo) < MaxTodo /\ actionBusy' = (actionBusy \/ kind # "delete-connection")
  /\ todo' = todo \cup {[kind |-> kind, db |-> db, table |-> table, step |-> 0]}
AskFor(kind, db, table) ==
  /\ Idle /\ ask' = [kind |-> kind, db |-> db, table |-> table, running |-> FALSE]
  /\ UNCHANGED <<engine, catalog, deleted, treeFilters, curBases, rename, sqlDialog, credential,
                 keyDialog, actionBusy, todo>> /\ UNCHANGED loadVars
AskTable(kind, db, table) ==
  /\ Listed(db, table) /\ kind \in TableMenu \cap {"copy", "truncate", "drop"} /\ AskFor(kind, db, table)
AskDatabase(db) == InTree(db) /\ "drop-database" \in DatabaseMenu /\ AskFor("drop-database", db, None)
AskConnection == AskFor("delete-connection", None, None)
\* The name of a database is typed to drop it.  The question stays until its
\* action has ended.
ConfirmAction ==
  /\ ask # None /\ ~ask.running /\ ask' = [ask EXCEPT !.running = TRUE]
  /\ StartAction(ask.kind, ask.db, ask.table)
  /\ UNCHANGED <<engine, catalog, deleted, treeFilters, curBases, rename, sqlDialog, credential, keyDialog>>
  /\ UNCHANGED loadVars
CancelAsk ==
  /\ ask # None /\ ~ask.running /\ ask' = None
  /\ UNCHANGED <<engine, catalog, deleted, treeFilters, curBases, rename, sqlDialog, credential,
                 keyDialog, actionBusy, todo>> /\ UNCHANGED loadVars

KeepButRename == /\ UNCHANGED <<engine, catalog, deleted, treeFilters, curBases, ask, sqlDialog,
                               credential, keyDialog>> /\ UNCHANGED loadVars
StartRename(db, table) ==
  /\ Idle /\ Listed(db, table) /\ rename' = [db |-> db, table |-> table]
  /\ KeepButRename /\ UNCHANGED <<actionBusy, todo>>
CancelRename ==
  /\ Idle /\ rename # None /\ ~actionBusy /\ rename' = None
  /\ KeepButRename /\ UNCHANGED <<actionBusy, todo>>
SubmitRename ==
  /\ Idle /\ rename # None /\ ~actionBusy /\ StartAction("rename", rename.db, rename.table)
  /\ KeepButRename /\ UNCHANGED rename

\* A spare name of the same schema; the server refuses when there is none.
Spare(db, table) == {t \in Tables \ catalog[db] : SchemaOf[t] = SchemaOf[table]}
Outcomes(a) ==
  CASE a.kind \in {"drop-database"} -> {SDrop(catalog, {a.db})}
    [] a.kind = "drop" -> {[catalog EXCEPT ![a.db] = @ \ {a.table}]}
    [] a.kind = "copy" -> {[catalog EXCEPT ![a.db] = @ \cup {t}] : t \in Spare(a.db, a.table)}
    [] a.kind = "rename" -> {[catalog EXCEPT ![a.db] = (@ \ {a.table}) \cup {t}] : t \in Spare(a.db, a.table)}
    [] a.kind = "create-key" -> {[catalog EXCEPT ![a.db] = @ \cup {t}] : t \in Tables}
    [] OTHER -> {catalog}
Allowed(a) == a.db = None \/ (a.db \in DOMAIN catalog /\ (a.table = None \/ a.table \in catalog[a.db]))
\* What the tree forgets of a database dropped here or in its own tab.
WithoutDatabase(nd, db) ==
  IF nd = None \/ nd.dbs = None \/ db \notin nd.dbs THEN nd
  ELSE [nd EXCEPT !.dbs = @ \ {db}, !.lists = SDrop(@, {db}), !.scans = SDrop(@, {db}), !.shown = @ \ {db}]
End(a, closes) ==
  /\ todo' = todo \ {a} /\ actionBusy' = (actionBusy /\ a.kind = "delete-connection")
  /\ ask' = IF ask # None /\ ask.running /\ ask.kind = a.kind THEN None ELSE ask
  /\ rename' = IF closes /\ a.kind = "rename" THEN None ELSE rename
  /\ keyDialog' = IF closes /\ a.kind = "create-key" THEN None ELSE keyDialog
  /\ credential' = IF closes /\ a.kind = "credential" THEN None ELSE credential
  /\ UNCHANGED sqlDialog
ActionFails(a) ==
  /\ a.step = 0 /\ End(a, FALSE)
  /\ UNCHANGED <<engine, catalog, deleted, treeFilters, curBases>> /\ UNCHANGED loadVars
ActionDone(a) ==
  /\ a.step = 0 /\ Allowed(a) /\ catalog' \in Outcomes(a) /\ UNCHANGED engine
  /\ CASE a.kind = "drop-database" ->
            /\ CancelScans({a.db}) /\ node' = WithoutDatabase(CancelledScans(node, {a.db}), a.db)
            /\ treeFilters' = SDrop(treeFilters, {a.db}) /\ End(a, TRUE)
            /\ UNCHANGED <<deleted, curBases, calls, callSeq>>
       [] a.kind = "delete-connection" ->
            /\ CancelScans(DBs) /\ node' = None /\ deleted' = TRUE /\ End(a, TRUE)
            /\ UNCHANGED <<treeFilters, curBases, calls, callSeq>>
       \* Its pool has another account now: closed, and listed again when opened.
       [] a.kind = "credential" ->
            /\ current' = [current EXCEPT ![a.db] = 0]
            /\ node' = IF node = None THEN None
                       ELSE [node EXCEPT !.shown = @ \ {a.db}, !.lists = SDrop(@, {a.db}),
                                         !.busy = @ \ {a.db}, !.errors = @ \ {a.db}]
            /\ End(a, TRUE) /\ UNCHANGED <<deleted, treeFilters, curBases, scanOps, timers, calls, callSeq>>
       [] a.kind = "test-credential" ->
            End(a, FALSE) /\ UNCHANGED <<deleted, treeFilters, curBases>> /\ UNCHANGED loadVars
       [] OTHER ->
            /\ LoadTables(node, a.db, None, a.table)
            /\ todo' = (todo \ {a}) \cup {[a EXCEPT !.step = callSeq + 1]}
            /\ UNCHANGED <<deleted, treeFilters, curBases, actionBusy>> /\ UNCHANGED dialogVars
\* The list of the database is awaited before the tabs follow; the tree forgets a
\* dropped table once more.
ActionEnds(a) ==
  /\ a.step # 0 /\ (\A c \in calls : c.id # a.step) /\ End(a, TRUE)
  /\ node' = IF a.kind = "drop" /\ node # None /\ a.db \in DOMAIN node.lists
             THEN [node EXCEPT !.lists[a.db] = @ \ {a.table}] ELSE node
  /\ UNCHANGED <<engine, catalog, deleted, treeFilters, curBases, current, scanOps, timers, calls, callSeq>>

-----------------------------------------------------------------------------
(* Dialogs                                                                 *)

KeepButDialogs == /\ UNCHANGED <<engine, catalog, deleted, treeFilters, curBases, ask, rename>>
OpenCredential(db) ==
  /\ Idle /\ InTree(db) /\ ("credential" \in DatabaseMenu \/ db \in node.errors)
  /\ credential' = [db |-> db, own |-> FALSE, user |-> FALSE]
  /\ KeepButDialogs /\ UNCHANGED <<sqlDialog, keyDialog, actionBusy, todo>> /\ UNCHANGED loadVars
\* The account of the connection, or one of its own, which needs a name.
EditCredential(own, user) ==
  /\ credential # None /\ ~actionBusy /\ credential' = [credential EXCEPT !.own = own, !.user = user]
  /\ KeepButDialogs /\ UNCHANGED <<sqlDialog, keyDialog, actionBusy, todo>> /\ UNCHANGED loadVars
UseCredential(kind) ==
  /\ credential # None /\ ~actionBusy /\ (credential.own => credential.user)
  /\ StartAction(kind, credential.db, None)
  /\ KeepButDialogs /\ UNCHANGED <<sqlDialog, keyDialog, credential>> /\ UNCHANGED loadVars
OpenNewKey(db) ==
  /\ Idle /\ InTree(db) /\ "new-key" \in DatabaseMenu /\ keyDialog' = [db |-> db, form |-> [type |-> "string", named |-> FALSE, ttl |-> TRUE, parts |-> {}]]
  /\ KeepButDialogs /\ UNCHANGED <<sqlDialog, credential, actionBusy, todo>> /\ UNCHANGED loadVars
\* A key has a name and a whole number to live, and by its type a field, a
\* member, a finite score or an object.
Needed == [string |-> {}, list |-> {}, hash |-> {"field"}, set |-> {"member"},
           zset |-> {"member", "score"}, stream |-> {"object"}]
ValidKey(form) == form.named /\ form.ttl /\ Needed[form.type] \subseteq form.parts
EditKey(form) ==
  /\ keyDialog # None /\ ~actionBusy /\ keyDialog' = [keyDialog EXCEPT !.form = form]
  /\ KeepButDialogs /\ UNCHANGED <<sqlDialog, credential, actionBusy, todo>> /\ UNCHANGED loadVars
SubmitKey ==
  /\ keyDialog # None /\ ~actionBusy /\ ValidKey(keyDialog.form) /\ StartAction("create-key", keyDialog.db, None)
  /\ KeepButDialogs /\ UNCHANGED <<sqlDialog, credential, keyDialog>> /\ UNCHANGED loadVars
CloseForms ==
  /\ (credential # None \/ keyDialog # None) /\ ~actionBusy /\ credential' = None /\ keyDialog' = None
  /\ KeepButDialogs /\ UNCHANGED <<sqlDialog, actionBusy, todo>> /\ UNCHANGED loadVars
\* The statement that creates a table: the last answer is shown, whatever was
\* closed or opened since.
ShowCreateSQL(db, table) ==
  /\ Idle /\ Listed(db, table) /\ "create-sql" \in TableMenu
  /\ sqlDialog' = [table |-> table, loading |-> TRUE] /\ Send("sql", db, table, FALSE, 0)
  /\ KeepButDialogs /\ UNCHANGED <<keyDialog, credential, actionBusy, todo, node, current, scanOps, timers>>
CreateSQLShown(c) ==
  /\ Answered(c, "sql") /\ calls' = calls \ {c}
  /\ sqlDialog' = IF c.answer.ok THEN [table |-> c.arg, loading |-> FALSE] ELSE None
  /\ KeepButDialogs
  /\ UNCHANGED <<keyDialog, credential, actionBusy, todo, node, current, scanOps, timers, callSeq>>
CloseCreateSQL ==
  /\ sqlDialog # None /\ sqlDialog' = None
  /\ KeepButDialogs /\ UNCHANGED <<keyDialog, credential, actionBusy, todo>> /\ UNCHANGED loadVars

-----------------------------------------------------------------------------
Answers == \E c \in calls : \/ ServerAnswers(c) \/ DatabasesListed(c) \/ SchemasListed(c) \/ TablesListed(c)
                            \/ BatchScanned(c) \/ CreateSQLShown(c)
Browsing ==
  \/ ToggleConnection \/ BrowseAgain \/ RetryConnection \/ CloseConnection
  \/ \E db \in DBs : \/ ToggleDatabase(db) \/ RefreshDatabase(db) \/ ScanMoreRedisKeys(db) \/ FilterTimer(db)
                     \/ \E s \in {SchemaOf[t] : t \in Tables} : SetDatabaseSchema(db, s)
                     \/ \E f \in DOMAIN Matching : SetTableFilter(db, f)
Acting ==
  \/ AskConnection \/ ConfirmAction \/ CancelAsk \/ CancelRename \/ SubmitRename \/ SubmitKey
  \/ CloseForms \/ CloseCreateSQL \/ UseCredential("credential") \/ UseCredential("test-credential")
  \/ \E own, user \in BOOLEAN : EditCredential(own, user)
  \/ \E form \in KeyForms : EditKey(form)
  \/ \E db \in DBs : \/ AskDatabase(db) \/ OpenCredential(db) \/ OpenNewKey(db)
                     \/ \E t \in Tables : \/ StartRename(db, t) \/ ShowCreateSQL(db, t)
                                          \/ \E kind \in TableMenu : AskTable(kind, db, t)
  \/ \E a \in todo : ActionFails(a) \/ ActionDone(a) \/ ActionEnds(a)
SideNext == Answers \/ Browsing \/ Acting
SideSpec == SideInit /\ [][SideNext]_sideVars

-----------------------------------------------------------------------------
\* The names under an open database are those that were asked for: the keys match
\* the filter in its box, the tables are of the schema that is chosen, however the
\* requests for it overtook each other (sidebar-actions.ts:221, 257).  A connection
\* closed and opened again between two requests for its tables has no schema chosen.
TreeShowsWhatWasAsked ==
  node # None => \A db \in node.shown \cap DOMAIN node.lists :
    /\ Redis /\ db \in DOMAIN node.scans =>
         node.scans[db].filter = FilterOf(db) /\ node.lists[db] \subseteq Matching[FilterOf(db)]
    /\ db \in DOMAIN node.schema /\ db \notin node.busy \cup node.errors =>
         \A t \in node.lists[db] : SchemaOf[t] = node.schema[db]

\* What says that it loads is being loaded: the request that counts is on its way,
\* or the timer that will send it is set (sidebar-actions.ts:35-52, 285, 457, 727).
\* Not of a scan that began while its database was closed, whose answer is dropped.
SpinnersEnd ==
  node # None =>
    /\ node.loading => \E c \in calls : c.kind = "bases" /\ c.id = curBases
    /\ \A db \in node.busy : \E c \in calls : c.kind \in {"schemas", "tables"} /\ c.id = current[db]
    /\ \A db \in node.shown \cap DOMAIN node.scans : node.scans[db].loading /\ ~node.scans[db].shut =>
         db \in timers \/ \E c \in calls : c.kind = "batch" /\ c.id = scanOps[db] /\ c.id = current[db]

\* A closed database can be scanned on when it is opened again: it is not left
\* loading with nothing on its way (SidebarTree.test.tsx:124).
CollapsedScansAreResumable ==
  node # None => \A db \in DOMAIN node.scans \ node.shown : node.scans[db].loading =>
                   db \in timers \/ \E c \in calls : c.kind = "batch" /\ c.id = scanOps[db]
=============================================================================
