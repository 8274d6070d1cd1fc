----------------------------- MODULE TableStructure ----------------------------
(***************************************************************************)
(* The view of a table's columns and indexes (TableStructureView.tsx): its *)
(* dialogs (TableStructureDialogs.tsx) make drafts, table-structure-sql.ts *)
(* turns a draft into SQL, which is shown, confirmed and run.              *)
(***************************************************************************)
EXTENDS Unset, Sequences, SequencesExt

CONSTANTS Dialects,         \* "mysql" and "postgres"
          FirstStructure,   \* dialect -> the structure the table has first
          ColumnNames, IndexNames, Types, DefaultWords, Comments,  \* what may be typed
          MaxSchemaLoads, MaxFieldEdits                            \* bounds

VARIABLES
  dialect,       \* sqlEngine
  structure,     \* the table at the server: its columns and its indexes
  schema, schemaError, schemaLoading,
  schemaLoads,   \* the requests for the schema that are not answered yet
  schemaAsked,   \* how many were made
  columnDraft, indexDraft,  \* editingColumn, editingIndex
  pendingAction, executing, \* executing is the view's busy
  alter,         \* the statement under way and what came of it
  fieldEdits,    \* fields changed so far
  settled        \* history: the last load had no rival, was answered, and nothing failed since

schemaVars == <<schema, schemaError, schemaLoading, schemaLoads, schemaAsked, settled>>
draftVars == <<columnDraft, indexDraft, pendingAction>>
structVars == <<dialect, structure, schemaVars, draftVars, executing, alter, fieldEdits>>

-----------------------------------------------------------------------------
(* The server.  A statement has its whole effect or none: Postgres runs    *)
(* what is sent at once as one transaction, MySQL is sent one statement.   *)

KeyOf(d) == IF d = "mysql" THEN "PRIMARY" ELSE "t_pkey"
KeyName == KeyOf(dialect)
\* A table has columns and indexes, of which its key is unique.
Shape(d, s) ==
  /\ DOMAIN s = {"columns", "indexes"}
  /\ \A c \in DOMAIN s.columns : DOMAIN s.columns[c] = {"type", "nullable", "default", "comment"}
  /\ \A i \in DOMAIN s.indexes : DOMAIN s.indexes[i] = {"unique", "columns"}
  /\ KeyOf(d) \in DOMAIN s.indexes => s.indexes[KeyOf(d)].unique = TRUE
StructureAssumption ==
  Dialects \subseteq {"mysql", "postgres"} /\ \A d \in Dialects : Shape(d, FirstStructure[d])
\* A statement that the server refuses.
Failed == None
IsKeyColumn(s, c) == KeyName \in DOMAIN s.indexes /\ c \in ToSet(s.indexes[KeyName].columns)
LeaveOut(f, x) == [y \in DOMAIN f \ {x} |-> f[y]]
Put(f, x, v) == [y \in DOMAIN f \cup {x} |-> IF y = x THEN v ELSE f[y]]

\* A default is a text, a word and how often it is quoted, that is taken literally or not.
NoText == [word |-> "", quotes |-> 0]
NullDefault == [text |-> NoText, literal |-> FALSE]
NullIsNone(default) == IF default = NullDefault THEN None ELSE default

\* Indexes follow a column that is renamed.
Rename(s, from, to) ==
  IF from \notin DOMAIN s.columns \/ to \in DOMAIN s.columns \ {from} THEN Failed
  ELSE [columns |-> Put(LeaveOut(s.columns, from), to, s.columns[from]),
        indexes |-> [i \in DOMAIN s.indexes |->
           [s.indexes[i] EXCEPT !.columns = [k \in DOMAIN @ |-> IF @[k] = from THEN to ELSE @[k]]]]]
Define(s, c, column) ==
  IF c \notin DOMAIN s.columns \/ (column.nullable /\ IsKeyColumn(s, c)) THEN Failed
  ELSE [s EXCEPT !.columns[c] = column]
\* MySQL refuses DEFAULT NULL for a column that is NOT NULL.
Change(s, from, to, column) ==
  IF (column.default = NullDefault /\ ~column.nullable) \/ Rename(s, from, to) = Failed THEN Failed
  ELSE Define(Rename(s, from, to), to, [column EXCEPT !.default = NullIsNone(@)])
\* Postgres sets one property at a time.
SetField(s, c, field, value) ==
  IF c \notin DOMAIN s.columns THEN Failed
  ELSE Define(s, c, [s.columns[c] EXCEPT ![field] = value])
WithoutIndex(s, i) == [s EXCEPT !.indexes = LeaveOut(@, i)]
DropKey(s) == IF KeyName \in DOMAIN s.indexes THEN WithoutIndex(s, KeyName) ELSE Failed
\* Postgres is asked to drop an index if it exists.
DropIndex(s, i) ==
  IF i = KeyName \/ (dialect = "mysql" /\ i \notin DOMAIN s.indexes) THEN Failed
  ELSE WithoutIndex(s, i)
WithIndex(s, i, unique, columns) ==
  IF i \in DOMAIN s.indexes \/ columns = <<>> \/ ~ToSet(columns) \subseteq DOMAIN s.columns THEN Failed
  ELSE [s EXCEPT !.indexes = Put(@, i, [unique |-> unique, columns |-> columns])]
AddIndex(s, i, unique, columns) ==
  IF i = KeyName THEN Failed ELSE WithIndex(s, i, unique, columns)
\* The columns of a primary key become NOT NULL.
NotNull(s, columns) ==
  [s EXCEPT !.columns =
     [c \in DOMAIN @ |-> IF c \in ToSet(columns) THEN [@[c] EXCEPT !.nullable = FALSE] ELSE @[c]]]
AddKey(s, columns) ==
  LET keyed == WithIndex(s, KeyName, TRUE, columns) IN
  IF keyed = Failed THEN Failed ELSE NotNull(keyed, columns)

StatementEffect(s, st) ==
  IF s = Failed THEN Failed ELSE
  CASE st.do = "change" -> Change(s, st.column, st.to, st.as)
    [] st.do = "rename" -> Rename(s, st.column, st.to)
    [] st.do \in {"type", "nullable", "default", "comment"} -> SetField(s, st.column, st.do, st.value)
    [] st.do = "dropKey" -> DropKey(s)
    [] st.do = "dropIndex" -> DropIndex(s, st.name)
    [] st.do = "addKey" -> AddKey(s, st.columns)
    [] st.do = "addIndex" -> AddIndex(s, st.name, st.unique, st.columns)
\* No draft becomes more than five statements.
Ran(s, statements, n) == IF n \in DOMAIN statements THEN StatementEffect(s, statements[n]) ELSE s
Applied(s, statements) ==
  Ran(Ran(Ran(Ran(Ran(s, statements, 1), statements, 2), statements, 3), statements, 4), statements, 5)

-----------------------------------------------------------------------------
(* table-structure-sql.ts.                                                 *)

\* Keywords and numbers are written as they are, other texts as a literal.
AsIs(type, text) == text.quotes = 0 /\ (text.word = "now()" \/ (type = "int" /\ text.word = "5"))
Default(draft) ==
  IF ~draft.useDefault THEN None
  ELSE IF draft.defaultValue = NoText THEN NullDefault
  ELSE [text |-> draft.defaultValue, literal |-> ~AsIs(draft.type, draft.defaultValue)]

PostgresAlterColumn(draft) ==
  LET set(field, value) == [do |-> field, column |-> draft.name, value |-> value] IN
  (IF draft.originalName = draft.name THEN <<>>
   ELSE <<[do |-> "rename", column |-> draft.originalName, to |-> draft.name]>>)
  \o <<set("type", draft.type), set("nullable", draft.nullable), set("default", NullIsNone(Default(draft)))>>
  \o IF draft.comment = "" THEN <<>> ELSE <<set("comment", draft.comment)>>
MySQLAlterColumn(draft) ==
  <<[do |-> "change", column |-> draft.originalName, to |-> draft.name,
     as |-> [type |-> draft.type, nullable |-> draft.nullable, default |-> Default(draft),
             comment |-> draft.comment]]>>
AlterColumnSQL(draft) ==
  IF dialect = "mysql" THEN MySQLAlterColumn(draft) ELSE PostgresAlterColumn(draft)

DropIndexSQL(name) == IF name = "PRIMARY" THEN <<[do |-> "dropKey"]>>
                      ELSE <<[do |-> "dropIndex", name |-> name]>>
AddIndexSQL(draft) ==
  IF draft.primary THEN <<[do |-> "addKey", columns |-> draft.columns]>>
  ELSE <<[do |-> "addIndex", name |-> draft.name, unique |-> draft.unique, columns |-> draft.columns]>>
\* On Postgres an index that is to become the primary key replaces the key, not itself.
ReplacedBy(draft) ==
  IF dialect = "postgres" /\ draft.primary THEN "PRIMARY" ELSE draft.originalName
IndexSQL(draft) ==
  (IF draft.mode = "add" THEN <<>> ELSE DropIndexSQL(ReplacedBy(draft))) \o AddIndexSQL(draft)

-----------------------------------------------------------------------------
(* Reading the schema: any load that is answered is shown.                 *)

AskSchema(by) ==
  /\ schemaAsked < MaxSchemaLoads /\ schemaAsked' = schemaAsked + 1
  /\ schemaLoads' = schemaLoads \cup {[id |-> schemaAsked + 1, by |-> by, read |-> None]}
  /\ schemaLoading' = TRUE
  /\ settled' = (schemaLoads = {})
\* The shortcut works while a load is under way and over the dialogs.
RefreshSchema ==
  /\ AskSchema("view")
  /\ UNCHANGED <<dialect, structure, schema, schemaError, draftVars, executing, alter, fieldEdits>>
ServeSchema(l) ==
  /\ l.read = None
  /\ schemaLoads' = (schemaLoads \ {l}) \cup {[id |-> l.id, by |-> l.by, read |-> structure]}
  /\ UNCHANGED <<dialect, structure, schema, schemaError, schemaLoading, schemaAsked, settled,
                 draftVars, executing, alter, fieldEdits>>
\* A load that fails after a statement was run is only mentioned.
SchemaAnswered(l) ==
  /\ schemaLoads' = schemaLoads \ {l} /\ schemaLoading' = FALSE
  /\ \/ l.read # None /\ schema' = l.read /\ schemaError' = FALSE /\ UNCHANGED settled
     \/ settled' = FALSE /\ schemaError' = (schemaError \/ l.by = "view") /\ UNCHANGED schema
  /\ executing' = (executing /\ l.by # "execute")
  /\ UNCHANGED <<dialect, structure, schemaAsked, draftVars, alter, fieldEdits>>

-----------------------------------------------------------------------------
(* The dialogs.  The one on top takes all input.                           *)

\* The driver of Postgres reads a default as an expression, a literal with its quotes.
ShownDefault(default) ==
  IF default = None THEN NoText
  ELSE IF dialect = "postgres" /\ default.literal
       THEN [default.text EXCEPT !.quotes = @ + 1] ELSE default.text
ColumnStart(s, c) ==
  LET column == s.columns[c] IN
  [originalName |-> c, name |-> c, type |-> column.type, nullable |-> column.nullable,
   defaultValue |-> ShownDefault(column.default), useDefault |-> column.default # None,
   comment |-> column.comment]
IndexStart(s, i) ==
  [mode |-> "edit", originalName |-> i, name |-> i, columns |-> s.indexes[i].columns,
   unique |-> s.indexes[i].unique, primary |-> i = "PRIMARY"]
NewIndex == [mode |-> "add", originalName |-> None, name |-> "", columns |-> <<>>,
             unique |-> FALSE, primary |-> FALSE]
NothingOpen == columnDraft = None /\ indexDraft = None /\ pendingAction = None
Dialogs(c, i, p) ==
  /\ columnDraft' = c /\ indexDraft' = i /\ pendingAction' = p
  /\ UNCHANGED <<dialect, structure, schemaVars, executing, alter>>
Show(c, i, p) == Dialogs(c, i, p) /\ UNCHANGED fieldEdits

StartEditColumn == schema # None /\ NothingOpen /\
  \E c \in DOMAIN schema.columns : Show(ColumnStart(schema, c), None, None)
StartAddIndex == schema # None /\ NothingOpen /\ Show(None, NewIndex, None)
StartEditIndex == schema # None /\ NothingOpen /\
  \E i \in DOMAIN schema.indexes : Show(None, IndexStart(schema, i), None)

ColumnEdits(d) ==
  {[d EXCEPT !.name = n] : n \in ColumnNames \cup {""}} \cup {[d EXCEPT !.type = y] : y \in Types}
  \cup {[d EXCEPT !.comment = m] : m \in Comments}
  \cup {[d EXCEPT !.nullable = ~@], [d EXCEPT !.useDefault = ~@]}
  \cup IF d.useDefault
       THEN {[d EXCEPT !.defaultValue = [word |-> w, quotes |-> 0]] : w \in DefaultWords} ELSE {}
\* A key is named PRIMARY while it is one.
TogglePrimary(d) ==
  IF d.primary THEN [d EXCEPT !.primary = FALSE, !.name = IF d.originalName = "PRIMARY" THEN "" ELSE @]
  ELSE [d EXCEPT !.primary = TRUE, !.unique = TRUE, !.name = "PRIMARY"]
ToggleColumn(d, c) ==
  [d EXCEPT !.columns = IF c \in ToSet(@) THEN SelectSeq(@, LAMBDA x : x # c) ELSE Append(@, c)]
IndexEdits(d) ==
  {TogglePrimary(d)} \cup {ToggleColumn(d, c) : c \in DOMAIN schema.columns}
  \cup IF d.primary THEN {}
       ELSE {[d EXCEPT !.name = n] : n \in IndexNames} \cup {[d EXCEPT !.unique = ~@]}
EditField ==
  /\ pendingAction = None /\ fieldEdits < MaxFieldEdits /\ fieldEdits' = fieldEdits + 1
  /\ \/ columnDraft # None /\ \E d \in ColumnEdits(columnDraft) : Dialogs(d, None, None)
     \/ indexDraft # None /\ \E d \in IndexEdits(indexDraft) : Dialogs(None, d, None)
CloseForm == ~executing /\ pendingAction = None /\ ~NothingOpen /\ Show(None, None, None)

ReviewColumn ==
  /\ columnDraft # None /\ pendingAction = None /\ ~executing
  /\ columnDraft.name # "" /\ columnDraft.type # ""
  /\ Show(columnDraft, None, [of |-> "column", name |-> None, sql |-> AlterColumnSQL(columnDraft)])
ReviewIndex ==
  /\ indexDraft # None /\ pendingAction = None /\ ~executing
  /\ indexDraft.primary \/ indexDraft.name # ""
  /\ indexDraft.columns # <<>>
  /\ Show(None, indexDraft, [of |-> "index", name |-> None, sql |-> IndexSQL(indexDraft)])
\* This menu is not disabled while the schema is read after a statement.
ReviewDeleteIndex ==
  /\ schema # None /\ NothingOpen
  /\ \E i \in DOMAIN schema.indexes : Show(None, None, [of |-> "drop", name |-> i, sql |-> DropIndexSQL(i)])
ClosePending == pendingAction # None /\ ~executing /\ Show(columnDraft, indexDraft, None)

NoAlter == [sql |-> <<>>, result |-> "none"]
ExecutePendingAction ==
  /\ pendingAction # None /\ ~executing /\ executing' = TRUE
  /\ schemaAsked < MaxSchemaLoads
  /\ alter' = [sql |-> pendingAction.sql, result |-> "asked"]
  /\ UNCHANGED <<dialect, structure, schemaVars, draftVars, fieldEdits>>
\* The statement may fail for other reasons, and it may be done and its answer lost.
RunAlter ==
  /\ alter.result = "asked"
  /\ \/ /\ Applied(structure, alter.sql) # Failed
        /\ structure' = Applied(structure, alter.sql)
        /\ \E r \in {"done", "lost"} : alter' = [sql |-> alter.sql, result |-> r]
     \/ alter' = [sql |-> alter.sql, result |-> "failed"] /\ UNCHANGED structure
  /\ UNCHANGED <<dialect, schemaVars, draftVars, executing, fieldEdits>>
\* Mutant: the view is not read again.
AlterDoneAtOnce ==
  /\ alter.result = "done"
  /\ alter' = NoAlter /\ columnDraft' = None /\ indexDraft' = None /\ pendingAction' = None
  /\ executing' = FALSE
  /\ UNCHANGED <<dialect, structure, schemaVars, fieldEdits>>
AlterDone ==
  /\ alter.result = "done"
  /\ alter' = NoAlter /\ columnDraft' = None /\ indexDraft' = None /\ pendingAction' = None
  /\ AskSchema("execute")
  /\ UNCHANGED <<dialect, structure, schema, schemaError, executing, fieldEdits>>
\* The dialogs stay as they are.
AlterFailed ==
  /\ alter.result \in {"failed", "lost"}
  /\ alter' = NoAlter /\ executing' = FALSE
  /\ settled' = (settled /\ alter.result = "failed")
  /\ UNCHANGED <<dialect, structure, schema, schemaError, schemaLoading, schemaLoads, schemaAsked,
                 draftVars, fieldEdits>>

-----------------------------------------------------------------------------
StructInit ==
  /\ dialect \in Dialects /\ structure = FirstStructure[dialect]
  /\ schema = None /\ schemaError = FALSE /\ schemaLoading = TRUE
  /\ schemaLoads = {[id |-> 1, by |-> "view", read |-> None]} /\ schemaAsked = 1 /\ settled = TRUE
  /\ columnDraft = None /\ indexDraft = None /\ pendingAction = None
  /\ executing = FALSE /\ alter = NoAlter /\ fieldEdits = 0
StructNext ==
  \/ RefreshSchema \/ (\E l \in schemaLoads : ServeSchema(l) \/ SchemaAnswered(l))
  \/ StartEditColumn \/ StartAddIndex \/ StartEditIndex \/ EditField \/ CloseForm
  \/ ReviewColumn \/ ReviewIndex \/ ReviewDeleteIndex \/ ClosePending
  \/ ExecutePendingAction \/ RunAlter \/ AlterDone \/ AlterFailed
StructSpec == StructInit /\ [][StructNext]_structVars

-----------------------------------------------------------------------------
\* When nothing is under way, the view shows the table as it is: what it did itself is
\* read again before it is done (TableStructureView.tsx:220).  Two loads at once, a load
\* that fails and a lost answer are excepted: nothing orders or repeats them.
StructureIsCurrent ==
  settled /\ schemaLoads = {} /\ ~executing => schema = structure

\* What is reviewed is what the form under it says, and what runs is what was reviewed
\* (TableStructureView.tsx:152, 195, 215).
RunsWhatWasReviewed ==
  /\ pendingAction # None =>
       pendingAction.sql = CASE pendingAction.of = "column" -> AlterColumnSQL(columnDraft)
                             [] pendingAction.of = "index" -> IndexSQL(indexDraft)
                             [] OTHER -> DropIndexSQL(pendingAction.name)
  /\ alter # NoAlter => pendingAction # None /\ alter.sql = pendingAction.sql

\* What the reviewed SQL would do, if the server accepts it, is what the form says: the
\* column or index becomes what was typed, no other column and no other index is lost or
\* changed.  Only a comment that is cleared stays on Postgres, and there an index that is
\* made the primary key stays beside it; one that is named PRIMARY is taken for the key
\* (table-structure-sql.ts:38, 96, 119).
Same(f, g, S) == \A x \in S : x \in DOMAIN g /\ g[x] = f[x]
ColumnsKept(s) == \A i \in DOMAIN structure.indexes :
                     i \in DOMAIN s.indexes /\ s.indexes[i].unique = structure.indexes[i].unique
ColumnIsAsTyped(s, d) ==
  LET column == s.columns[d.name] IN
  /\ d.name \in DOMAIN s.columns
  /\ column.type = d.type /\ column.nullable = d.nullable
  /\ column.default = NullIsNone(Default(d))
  /\ dialect = "mysql" \/ d.comment # "" => column.comment = d.comment
  /\ d.name # d.originalName => d.originalName \notin DOMAIN s.columns
  /\ Same(structure.columns, s.columns, DOMAIN structure.columns \ {d.name, d.originalName})
  /\ ColumnsKept(s)
IndexIsAsTyped(s, d) ==
  LET name == IF d.primary THEN KeyName ELSE d.name
      old == IF d.originalName = "PRIMARY" THEN KeyName ELSE d.originalName IN
  /\ name \in DOMAIN s.indexes
  /\ s.indexes[name] = [unique |-> d.unique, columns |-> d.columns]
  /\ d.mode = "edit" /\ old # name /\ (dialect = "mysql" \/ ~d.primary) => old \notin DOMAIN s.indexes
  /\ Same(structure.indexes, s.indexes, DOMAIN structure.indexes \ {name, old})
  /\ DOMAIN s.columns = DOMAIN structure.columns
ReviewedDoesWhatItSays ==
  /\ dialect = "postgres" => "PRIMARY" \notin DOMAIN structure.indexes
  /\ pendingAction # None
  /\ Applied(structure, pendingAction.sql) # Failed
  =>
    LET s == Applied(structure, pendingAction.sql) IN
    CASE pendingAction.of = "column" -> ColumnIsAsTyped(s, columnDraft)
      [] pendingAction.of = "index" -> IndexIsAsTyped(s, indexDraft)
      [] OTHER -> /\ s.columns = structure.columns
                  /\ Same(structure.indexes, s.indexes, DOMAIN structure.indexes \ {pendingAction.name})
                  /\ pendingAction.name \notin DOMAIN s.indexes
=============================================================================
