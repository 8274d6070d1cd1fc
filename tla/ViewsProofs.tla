------------------------------ MODULE ViewsProofs ------------------------------
(***************************************************************************)
(* Theorems of the views that show what a server has: a table's structure  *)
(* (TableStructure), its rows (TableData), and the explorer, its width and *)
(* its focus (SidebarRows) and its tree (Sidebar).                         *)
(***************************************************************************)
EXTENDS TableStructure, TableData, SidebarRows, Sidebar, FiniteSetTheorems,
        NaturalsInduction, WellFoundedInduction, TLAPS

-----------------------------------------------------------------------------
(* The structure of a table                                                *)

\* The view is busy from the start of a statement to the answer of the load after it.
BusyInv ==
  /\ settled \in BOOLEAN /\ executing \in BOOLEAN
  /\ alter # NoAlter => executing /\ \A l \in schemaLoads : l.by # "execute"
  /\ \A l \in schemaLoads : l.by = "execute" => executing
  /\ \A l, m \in schemaLoads : l.by = "execute" /\ m.by = "execute" => l = m

Form ==
  \/ StartEditColumn \/ StartAddIndex \/ StartEditIndex \/ EditField \/ CloseForm
  \/ ReviewColumn \/ ReviewIndex \/ ReviewDeleteIndex \/ ClosePending

\* The forms leave the server and the requests alone.
LEMMA FormsOnlyEdit ==
  ASSUME Form \/ UNCHANGED structVars
  PROVE  /\ dialect' = dialect /\ structure' = structure /\ schema' = schema
         /\ schemaLoads' = schemaLoads /\ settled' = settled
         /\ executing' = executing /\ alter' = alter
<1>1. CASE UNCHANGED structVars
  BY <1>1 DEF structVars, schemaVars
<1>2. ASSUME NEW c, NEW i, NEW p, Dialogs(c, i, p)
      PROVE  /\ dialect' = dialect /\ structure' = structure /\ schema' = schema
             /\ schemaLoads' = schemaLoads /\ settled' = settled
             /\ executing' = executing /\ alter' = alter
  BY <1>2 DEF Dialogs, schemaVars
<1>3. CASE \/ StartEditColumn \/ StartAddIndex \/ StartEditIndex \/ EditField \/ CloseForm
  BY <1>2, <1>3 DEF StartEditColumn, StartAddIndex, StartEditIndex, EditField, CloseForm, Show
<1>4. CASE \/ ReviewColumn \/ ReviewIndex \/ ReviewDeleteIndex \/ ClosePending
  BY <1>2, <1>4 DEF ReviewColumn, ReviewIndex, ReviewDeleteIndex, ClosePending, Show
<1> QED
  BY <1>1, <1>3, <1>4 DEF Form

LEMMA BusyInvStep ==
  ASSUME BusyInv, [StructNext]_structVars
  PROVE  BusyInv'
<1> USE DEF BusyInv
<1>1. CASE Form \/ UNCHANGED structVars
  BY <1>1, FormsOnlyEdit
<1>2. CASE RefreshSchema
  BY <1>2 DEF RefreshSchema, AskSchema
<1>3. ASSUME NEW l \in schemaLoads, ServeSchema(l) PROVE BusyInv'
  BY <1>3 DEF ServeSchema
<1>4. ASSUME NEW l \in schemaLoads, SchemaAnswered(l) PROVE BusyInv'
  BY <1>4 DEF SchemaAnswered
<1>5. CASE ExecutePendingAction
  BY <1>5 DEF ExecutePendingAction, schemaVars
<1>6. CASE RunAlter
  BY <1>6 DEF RunAlter, schemaVars, NoAlter
<1>7. CASE AlterDone
  BY <1>7 DEF AlterDone, AskSchema, NoAlter
<1>8. CASE AlterFailed
  <2>1. alter # NoAlter /\ alter' = NoAlter /\ executing' = FALSE /\ UNCHANGED schemaLoads
    BY <1>8 DEF AlterFailed, NoAlter
  <2>2. settled' \in BOOLEAN
    BY <1>8 DEF AlterFailed
  <2> QED
    BY <2>1, <2>2
<1> QED
  BY <1>1, <1>2, <1>3, <1>4, <1>5, <1>6, <1>7, <1>8 DEF StructNext, Form

\* Nothing but the forms decides what SQL a form stands for.
LEMMA ReviewKept ==
  ASSUME RunsWhatWasReviewed, UNCHANGED <<draftVars, dialect>>,
         \/ alter' = NoAlter \/ alter' = alter
         \/ alter # NoAlter /\ alter'.sql = alter.sql
         \/ pendingAction # None /\ alter'.sql = pendingAction.sql
  PROVE  RunsWhatWasReviewed'
BY DEF RunsWhatWasReviewed, draftVars, AlterColumnSQL, MySQLAlterColumn,
       PostgresAlterColumn, IndexSQL, ReplacedBy

LEMMA RunKeepsSQL ==
  ASSUME BusyInv, RunAlter
  PROVE  alter # NoAlter /\ alter'.sql = alter.sql
BY DEF BusyInv, RunAlter, NoAlter

LEMMA ReviewStep ==
  ASSUME RunsWhatWasReviewed, BusyInv, [StructNext]_structVars
  PROVE  RunsWhatWasReviewed'
<1>1. CASE UNCHANGED structVars \/ RefreshSchema \/ (\E l \in schemaLoads : ServeSchema(l) \/ SchemaAnswered(l))
           \/ AlterFailed
  <2>1. UNCHANGED <<draftVars, dialect>> /\ (alter' = NoAlter \/ alter' = alter)
    BY <1>1 DEF structVars, RefreshSchema, ServeSchema, SchemaAnswered, AlterFailed
  <2> QED
    BY <2>1, ReviewKept
<1>2. CASE ExecutePendingAction
  <2>1. pendingAction # None /\ alter'.sql = pendingAction.sql /\ UNCHANGED <<draftVars, dialect>>
    BY <1>2 DEF ExecutePendingAction
  <2> QED
    BY <2>1, ReviewKept
<1>9. CASE RunAlter
  BY <1>9, RunKeepsSQL, ReviewKept DEF RunAlter
<1>3. CASE AlterDone
  BY <1>3 DEF AlterDone, RunsWhatWasReviewed
<1>4. CASE alter' = NoAlter /\ pendingAction' = None
  BY <1>4 DEF RunsWhatWasReviewed
<1>5. ASSUME NothingOpen \/ pendingAction = None \/ ~executing, UNCHANGED alter PROVE alter' = NoAlter
  BY <1>5 DEF RunsWhatWasReviewed, BusyInv, NothingOpen
<1>6. CASE StartEditColumn \/ StartAddIndex \/ StartEditIndex \/ EditField \/ CloseForm \/ ClosePending
  BY <1>4, <1>5, <1>6 DEF StartEditColumn, StartAddIndex, StartEditIndex, EditField, CloseForm,
                          ClosePending, Show, Dialogs
<1>7. CASE ReviewColumn \/ ReviewIndex \/ ReviewDeleteIndex
  <2>1. alter' = NoAlter /\ UNCHANGED dialect
    BY <1>5, <1>7 DEF ReviewColumn, ReviewIndex, ReviewDeleteIndex, Show, Dialogs
  <2>2. CASE ReviewColumn
    BY <2>1, <2>2 DEF ReviewColumn, Show, Dialogs, RunsWhatWasReviewed, AlterColumnSQL,
                      MySQLAlterColumn, PostgresAlterColumn
  <2>3. CASE ReviewIndex
    BY <2>1, <2>3 DEF ReviewIndex, Show, Dialogs, RunsWhatWasReviewed, IndexSQL, ReplacedBy
  <2>4. CASE ReviewDeleteIndex
    BY <2>1, <2>4 DEF ReviewDeleteIndex, Show, Dialogs, RunsWhatWasReviewed
  <2> QED
    BY <1>7, <2>2, <2>3, <2>4
<1> QED
  BY <1>1, <1>2, <1>3, <1>6, <1>7, <1>9 DEF StructNext

\* What a settled view shows or is about to show is the table as it is, unless a statement
\* that is still to be answered has changed it.
Changed == alter.result \in {"done", "lost"}
Calm ==
  /\ schemaLoads = {} => schema = structure
  /\ \A l \in schemaLoads : l.read = None \/ l.read = structure
  /\ \A l, m \in schemaLoads : l = m
SettledInv == settled = TRUE /\ ~Changed => Calm

LEMMA SettledStep ==
  ASSUME SettledInv, BusyInv, [StructNext]_structVars
  PROVE  SettledInv'
<1>0. SUFFICES ASSUME settled' = TRUE, ~Changed' PROVE Calm'
  BY DEF SettledInv
<1>9. settled = TRUE /\ ~Changed => Calm
  BY DEF SettledInv
<1>1. CASE Form \/ UNCHANGED structVars
  BY <1>0, <1>1, <1>9, FormsOnlyEdit DEF Changed, Calm
<1>2. CASE RefreshSchema
  <2>1. /\ schemaLoads' = {[id |-> schemaAsked + 1, by |-> "view", read |-> None]}
        /\ UNCHANGED structure
    BY <1>0, <1>2 DEF RefreshSchema, AskSchema
  <2>2. schemaLoads' # {} /\ \A l \in schemaLoads' : l.read = None /\ \A m \in schemaLoads' : l = m
    BY <2>1
  <2> QED
    BY <2>2 DEF Calm
<1>3. ASSUME NEW l \in schemaLoads, ServeSchema(l) PROVE Calm'
  <2>1. Calm
    BY <1>0, <1>3, <1>9 DEF ServeSchema, Changed
  <2>2. /\ schemaLoads' = {[id |-> l.id, by |-> l.by, read |-> structure]}
        /\ UNCHANGED <<schema, structure>>
    BY <1>3, <2>1 DEF ServeSchema, Calm
  <2>3. /\ schemaLoads' # {}
        /\ \A k \in schemaLoads' : k.read = structure /\ \A m \in schemaLoads' : k = m
    BY <2>2
  <2> QED
    BY <2>2, <2>3 DEF Calm
<1>4. ASSUME NEW l \in schemaLoads, SchemaAnswered(l) PROVE Calm'
  <2>1. settled' = settled /\ l.read # None /\ schema' = l.read
    BY <1>0, <1>4 DEF SchemaAnswered
  <2>2. Calm
    BY <1>0, <1>4, <1>9, <2>1 DEF SchemaAnswered, Changed
  <2> QED
    BY <1>4, <2>1, <2>2 DEF SchemaAnswered, Calm
<1>5. CASE ExecutePendingAction
  BY <1>0, <1>5, <1>9 DEF ExecutePendingAction, schemaVars, BusyInv, Changed, Calm, NoAlter
<1>6. CASE RunAlter
  <2>1. UNCHANGED <<schema, schemaLoads, settled>> /\ ~Changed
    BY <1>6 DEF RunAlter, schemaVars, Changed
  <2>2. UNCHANGED structure
    BY <1>0, <1>6 DEF RunAlter, Changed
  <2> QED
    BY <1>0, <1>9, <2>1, <2>2 DEF Calm
<1>7. CASE AlterDone
  <2>1. /\ schemaLoads' = {[id |-> schemaAsked + 1, by |-> "execute", read |-> None]}
        /\ UNCHANGED structure
    BY <1>0, <1>7 DEF AlterDone, AskSchema
  <2>2. schemaLoads' # {} /\ \A l \in schemaLoads' : l.read = None /\ \A m \in schemaLoads' : l = m
    BY <2>1
  <2> QED
    BY <2>2 DEF Calm
<1>8. CASE AlterFailed
  <2>1. settled = TRUE /\ alter.result = "failed" /\ UNCHANGED <<schema, structure, schemaLoads>>
    BY <1>0, <1>8 DEF AlterFailed, BusyInv
  <2> QED
    BY <1>9, <2>1 DEF Changed, Calm
<1> QED
  BY <1>1, <1>2, <1>3, <1>4, <1>5, <1>6, <1>7, <1>8 DEF StructNext, Form

StructInv == BusyInv /\ RunsWhatWasReviewed /\ SettledInv

LEMMA StructInvHolds == StructSpec => []StructInv
<1>1. ASSUME StructInit PROVE StructInv
  <2>4. /\ schema = None /\ schemaLoads = {[id |-> 1, by |-> "view", read |-> None]}
        /\ settled = TRUE /\ executing = FALSE /\ alter = NoAlter /\ pendingAction = None
    BY <1>1 DEF StructInit
  <2>5. /\ schemaLoads # {}
        /\ \A l \in schemaLoads : l.by = "view" /\ l.read = None
        /\ \A l, m \in schemaLoads : l = m
    BY <2>4
  <2>6. settled = TRUE /\ executing = FALSE /\ alter = NoAlter
    BY <2>4
  <2>1. BusyInv
    BY <2>5, <2>6 DEF BusyInv
  <2>2. RunsWhatWasReviewed
    BY <2>4 DEF RunsWhatWasReviewed
  <2>3. SettledInv
    BY <2>5 DEF SettledInv, Calm
  <2> QED
    BY <2>1, <2>2, <2>3 DEF StructInv
<1>2. StructInv /\ [StructNext]_structVars => StructInv'
  BY BusyInvStep, ReviewStep, SettledStep DEF StructInv
<1> QED
  BY <1>1, <1>2, PTL DEF StructSpec

\* The SQL that is reviewed is the one the form stands for, and what runs is what was
\* reviewed, whatever is loaded and answered meanwhile (TableStructureView.tsx:211).
THEOREM ReviewedIsRun == StructSpec => []RunsWhatWasReviewed
<1>1. StructInv => RunsWhatWasReviewed
  BY DEF StructInv
<1> QED
  BY <1>1, StructInvHolds, PTL

\* A view that has settled shows the table as its own statements have left it
\* (TableStructureView.tsx:64, 220).
THEOREM SettledStructureIsCurrent == StructSpec => []StructureIsCurrent
<1>1. StructInv => StructureIsCurrent
  BY DEF StructInv, BusyInv, SettledInv, Calm, Changed, StructureIsCurrent, NoAlter
<1> QED
  BY <1>1, StructInvHolds, PTL

-----------------------------------------------------------------------------
(* What the statements of the forms do                                    *)

\* One statement after the other.
LEMMA OneStatement ==
  ASSUME NEW s, NEW x
  PROVE  Applied(s, <<x>>) = StatementEffect(s, x)
<1> DEFINE q == <<x>>
<1>1. q[1] = x /\ DOMAIN q = {1}
  OBVIOUS
<1> HIDE DEF q
<1>2. Applied(s, q) = StatementEffect(s, x)
  BY <1>1 DEF Applied, Ran
<1> QED
  BY <1>2 DEF q

LEMMA TwoStatements ==
  ASSUME NEW s, NEW x, NEW y
  PROVE  Applied(s, <<x>> \o <<y>>) = StatementEffect(StatementEffect(s, x), y)
<1> DEFINE q == <<x>> \o <<y>>
<1>1. q[1] = x /\ q[2] = y /\ DOMAIN q = 1..2
  OBVIOUS
<1> HIDE DEF q
<1>2. Applied(s, q) = StatementEffect(StatementEffect(s, x), y)
  BY <1>1 DEF Applied, Ran
<1> QED
  BY <1>2 DEF q

LEMMA NoStatementFirst == ASSUME NEW x PROVE <<>> \o <<x>> = <<x>>
OBVIOUS

LEMMA FailedStays == ASSUME NEW st PROVE StatementEffect(Failed, st) = Failed
BY DEF StatementEffect

LEMMA Joined ==
  ASSUME NEW r, NEW a, NEW b, NEW c, NEW e
  PROVE  /\ LET q == <<>> \o <<a, b, c>> \o <<>> IN
            DOMAIN q = 1..3 /\ q[1] = a /\ q[2] = b /\ q[3] = c
         /\ LET q == <<r>> \o <<a, b, c>> \o <<>> IN
            DOMAIN q = 1..4 /\ q[1] = r /\ q[2] = a /\ q[3] = b /\ q[4] = c
         /\ LET q == <<>> \o <<a, b, c>> \o <<e>> IN
            DOMAIN q = 1..4 /\ q[1] = a /\ q[2] = b /\ q[3] = c /\ q[4] = e
         /\ LET q == <<r>> \o <<a, b, c>> \o <<e>> IN
            DOMAIN q = 1..5 /\ q[1] = r /\ q[2] = a /\ q[3] = b /\ q[4] = c /\ q[5] = e
<1>1. LET q == <<>> \o <<a, b, c>> \o <<>> IN
            DOMAIN q = 1..3 /\ q[1] = a /\ q[2] = b /\ q[3] = c
  OBVIOUS
<1>2. LET q == <<r>> \o <<a, b, c>> \o <<>> IN
            DOMAIN q = 1..4 /\ q[1] = r /\ q[2] = a /\ q[3] = b /\ q[4] = c
  OBVIOUS
<1>3. LET q == <<>> \o <<a, b, c>> \o <<e>> IN
            DOMAIN q = 1..4 /\ q[1] = a /\ q[2] = b /\ q[3] = c /\ q[4] = e
  OBVIOUS
<1>4. LET q == <<r>> \o <<a, b, c>> \o <<e>> IN
            DOMAIN q = 1..5 /\ q[1] = r /\ q[2] = a /\ q[3] = b /\ q[4] = c /\ q[5] = e
  OBVIOUS
<1> QED
  BY <1>1, <1>2, <1>3, <1>4

LEMMA RanThree ==
  ASSUME NEW s, NEW q, DOMAIN q = 1..3
  PROVE  Applied(s, q) = StatementEffect(StatementEffect(StatementEffect(s, q[1]), q[2]), q[3])
BY DEF Applied, Ran
LEMMA RanFour ==
  ASSUME NEW s, NEW q, DOMAIN q = 1..4
  PROVE  Applied(s, q) =
    StatementEffect(StatementEffect(StatementEffect(StatementEffect(s, q[1]), q[2]), q[3]), q[4])
BY DEF Applied, Ran
LEMMA RanFive ==
  ASSUME NEW s, NEW q, DOMAIN q = 1..5
  PROVE  Applied(s, q) = StatementEffect(
    StatementEffect(StatementEffect(StatementEffect(StatementEffect(s, q[1]), q[2]), q[3]), q[4]), q[5])
BY DEF Applied, Ran

FieldSet(s, d, field, value) == StatementEffect(s, [do |-> field, column |-> d.name, value |-> value])
Renamed(s, d) ==
  IF d.originalName = d.name THEN s
  ELSE StatementEffect(s, [do |-> "rename", column |-> d.originalName, to |-> d.name])
FieldsSet(s, d) ==
  FieldSet(FieldSet(FieldSet(s, d, "type", d.type), d, "nullable", d.nullable),
           d, "default", NullIsNone(Default(d)))

LEMMA AlterApplied ==
  ASSUME NEW s, NEW d
  PROVE  Applied(s, PostgresAlterColumn(d)) =
           IF d.comment = "" THEN FieldsSet(Renamed(s, d), d)
           ELSE FieldSet(FieldsSet(Renamed(s, d), d), d, "comment", d.comment)
<1> DEFINE r == [do |-> "rename", column |-> d.originalName, to |-> d.name]
           a == [do |-> "type", column |-> d.name, value |-> d.type]
           b == [do |-> "nullable", column |-> d.name, value |-> d.nullable]
           c == [do |-> "default", column |-> d.name, value |-> NullIsNone(Default(d))]
           e == [do |-> "comment", column |-> d.name, value |-> d.comment]
           P == PostgresAlterColumn(d)
<1>1. P = (IF d.originalName = d.name THEN <<>> ELSE <<r>>) \o <<a, b, c>>
          \o IF d.comment = "" THEN <<>> ELSE <<e>>
  BY DEF PostgresAlterColumn
<1>2. /\ Renamed(s, d) = IF d.originalName = d.name THEN s ELSE StatementEffect(s, r)
      /\ \A t : FieldsSet(t, d) = StatementEffect(StatementEffect(StatementEffect(t, a), b), c)
      /\ \A t : FieldSet(t, d, "comment", d.comment) = StatementEffect(t, e)
  BY DEF Renamed, FieldsSet, FieldSet
<1> HIDE DEF r, a, b, c, e, P
<1>3. CASE d.originalName = d.name /\ d.comment = ""
  <2>1. P = <<>> \o <<a, b, c>> \o <<>>
    BY <1>1, <1>3
  <2>2. DOMAIN P = 1..3 /\ P[1] = a /\ P[2] = b /\ P[3] = c
    BY <2>1, Joined
  <2>3. Applied(s, P) = StatementEffect(StatementEffect(StatementEffect(s, a), b), c)
    BY <2>2, RanThree
  <2> QED
    BY <2>3, <1>2, <1>3 DEF P
<1>4. CASE d.originalName # d.name /\ d.comment = ""
  <2>1. P = <<r>> \o <<a, b, c>> \o <<>>
    BY <1>1, <1>4
  <2>2. DOMAIN P = 1..4 /\ P[1] = r /\ P[2] = a /\ P[3] = b /\ P[4] = c
    BY <2>1, Joined
  <2>3. Applied(s, P) = StatementEffect(StatementEffect(StatementEffect(StatementEffect(s, r), a), b), c)
    BY <2>2, RanFour
  <2> QED
    BY <2>3, <1>2, <1>4 DEF P
<1>5. CASE d.originalName = d.name /\ d.comment # ""
  <2>1. P = <<>> \o <<a, b, c>> \o <<e>>
    BY <1>1, <1>5
  <2>2. DOMAIN P = 1..4 /\ P[1] = a /\ P[2] = b /\ P[3] = c /\ P[4] = e
    BY <2>1, Joined
  <2>3. Applied(s, P) = StatementEffect(StatementEffect(StatementEffect(StatementEffect(s, a), b), c), e)
    BY <2>2, RanFour
  <2> QED
    BY <2>3, <1>2, <1>5 DEF P
<1>6. CASE d.originalName # d.name /\ d.comment # ""
  <2>1. P = <<r>> \o <<a, b, c>> \o <<e>>
    BY <1>1, <1>6
  <2>2. DOMAIN P = 1..5 /\ P[1] = r /\ P[2] = a /\ P[3] = b /\ P[4] = c /\ P[5] = e
    BY <2>1, Joined
  <2>3. Applied(s, P) = StatementEffect(
          StatementEffect(StatementEffect(StatementEffect(StatementEffect(s, r), a), b), c), e)
    BY <2>2, RanFive
  <2> QED
    BY <2>3, <1>2, <1>6 DEF P
<1> QED
  BY <1>3, <1>4, <1>5, <1>6 DEF P

\* An index that is named PRIMARY and is not the key.
Taken(s) == dialect # "mysql" /\ "PRIMARY" \in DOMAIN s.indexes
\* The statements that the forms make.
StatementOk(st) ==
  /\ st.do \in {"change", "rename", "type", "nullable", "default", "comment",
               "dropKey", "dropIndex", "addKey", "addIndex"}
  /\ st.do = "change" => DOMAIN st.as = {"type", "nullable", "default", "comment"}
  /\ st.do = "dropIndex" => st.name # "PRIMARY"

\* What becomes of the columns and indexes when an index is added, a property of a column is
\* set, a column is changed.
Indexed(s, e, i, unique, columns) ==
  e.indexes = Put(s.indexes, i, [unique |-> unique, columns |-> columns])
FieldIsSet(s, e, c, field, value) ==
  e.columns = [s.columns EXCEPT ![c] = [@ EXCEPT ![field] = value]]
ColumnReplaced(s, e, from, to, as) ==
  /\ DOMAIN e.columns = (DOMAIN s.columns \ {from}) \cup {to}
  /\ \A c \in DOMAIN e.columns \ {to} : e.columns[c] = s.columns[c]
  /\ e.columns[to] = [as EXCEPT !.default = NullIsNone(@)]
KeyIsUnique(i, unique) == i = KeyName => unique = TRUE
KeepsIndexes(s, e) ==
  /\ DOMAIN e.indexes = DOMAIN s.indexes
  /\ \A i \in DOMAIN s.indexes : e.indexes[i].unique = s.indexes[i].unique

LEMMA RenameKeeps ==
  ASSUME NEW s, NEW from, NEW to, Shape(dialect, s),
         NEW e, e = Rename(s, from, to), e # Failed
  PROVE  /\ Shape(dialect, e)
         /\ DOMAIN e.columns = (DOMAIN s.columns \ {from}) \cup {to}
         /\ \A c \in DOMAIN e.columns : e.columns[c] = s.columns[IF c = to THEN from ELSE c]
         /\ KeepsIndexes(s, e)
<1> DEFINE cols == Put(LeaveOut(s.columns, from), to, s.columns[from])
           idx == [i \in DOMAIN s.indexes |->
             [s.indexes[i] EXCEPT !.columns = [k \in DOMAIN @ |-> IF @[k] = from THEN to ELSE @[k]]]]
<1>1. e = [columns |-> cols, indexes |-> idx] /\ from \in DOMAIN s.columns
  BY DEF Rename
<1>2. DOMAIN e = {"columns", "indexes"} /\ e.columns = cols /\ e.indexes = idx
  BY <1>1
<1>3. /\ DOMAIN cols = (DOMAIN s.columns \ {from}) \cup {to}
      /\ \A c \in DOMAIN cols : cols[c] = s.columns[IF c = to THEN from ELSE c]
  BY DEF Put, LeaveOut
<1>4. \A i \in DOMAIN s.indexes :
        DOMAIN idx[i] = DOMAIN s.indexes[i] /\ idx[i].unique = s.indexes[i].unique
  BY DEF Shape
<1>5. DOMAIN idx = DOMAIN s.indexes
  OBVIOUS
<1> HIDE DEF cols, idx
<1>6. Shape(dialect, e)
  BY <1>1, <1>2, <1>3, <1>4, <1>5 DEF Shape
<1> QED
  BY <1>2, <1>3, <1>4, <1>5, <1>6 DEF KeepsIndexes

LEMMA DefineKeeps ==
  ASSUME NEW s, NEW c, NEW column, Shape(dialect, s),
         DOMAIN column = {"type", "nullable", "default", "comment"},
         NEW e, e = Define(s, c, column), e # Failed
  PROVE  /\ Shape(dialect, e)
         /\ c \in DOMAIN s.columns
         /\ e.columns = [s.columns EXCEPT ![c] = column]
         /\ e.indexes = s.indexes
<1>1. e = [s EXCEPT !.columns[c] = column] /\ c \in DOMAIN s.columns
  BY DEF Define
<1>2. /\ DOMAIN e = {"columns", "indexes"}
      /\ e.columns = [s.columns EXCEPT ![c] = column] /\ e.indexes = s.indexes
  BY <1>1 DEF Shape
<1>3. Shape(dialect, e)
  BY <1>2 DEF Shape
<1> QED
  BY <1>1, <1>2, <1>3

LEMMA WithoutKeeps ==
  ASSUME NEW s, NEW i, Shape(dialect, s), NEW e, e = WithoutIndex(s, i)
  PROVE  Shape(dialect, e) /\ e.columns = s.columns /\ e.indexes = LeaveOut(s.indexes, i)
<1>1. DOMAIN e = {"columns", "indexes"} /\ e.columns = s.columns /\ e.indexes = LeaveOut(s.indexes, i)
  BY DEF WithoutIndex, Shape
<1>2. Shape(dialect, e)
  BY <1>1 DEF Shape, LeaveOut
<1> QED
  BY <1>1, <1>2

LEMMA WithKeeps ==
  ASSUME NEW s, NEW i, NEW unique, NEW columns, Shape(dialect, s),
         KeyIsUnique(i, unique),
         NEW e, e = WithIndex(s, i, unique, columns), e # Failed
  PROVE  /\ Shape(dialect, e) /\ e.columns = s.columns
         /\ i \notin DOMAIN s.indexes
         /\ Indexed(s, e, i, unique, columns)
<1>1. /\ e = [s EXCEPT !.indexes = Put(@, i, [unique |-> unique, columns |-> columns])]
      /\ i \notin DOMAIN s.indexes
  BY DEF WithIndex
<1>2. /\ DOMAIN e = {"columns", "indexes"} /\ e.columns = s.columns
      /\ e.indexes = Put(s.indexes, i, [unique |-> unique, columns |-> columns])
  BY <1>1 DEF Shape
<1>3. Shape(dialect, e)
  BY <1>2 DEF Shape, Put, KeyName, KeyIsUnique
<1> QED
  BY <1>1, <1>2, <1>3 DEF Indexed

LEMMA NotNullKeeps ==
  ASSUME NEW s, NEW columns, Shape(dialect, s), NEW e, e = NotNull(s, columns)
  PROVE  Shape(dialect, e) /\ DOMAIN e.columns = DOMAIN s.columns /\ e.indexes = s.indexes
<1>1. /\ DOMAIN e = {"columns", "indexes"} /\ e.indexes = s.indexes
      /\ e.columns = [c \in DOMAIN s.columns |->
           IF c \in ToSet(columns) THEN [s.columns[c] EXCEPT !.nullable = FALSE] ELSE s.columns[c]]
  BY DEF Shape, NotNull
<1>2. /\ DOMAIN e.columns = DOMAIN s.columns
      /\ \A c \in DOMAIN s.columns : DOMAIN e.columns[c] = DOMAIN s.columns[c]
  BY <1>1
<1>3. Shape(dialect, e)
  BY <1>1, <1>2 DEF Shape
<1> QED
  BY <1>1, <1>2, <1>3

LEMMA AddKeyKeeps ==
  ASSUME NEW s, NEW columns, Shape(dialect, s), NEW e, e = AddKey(s, columns), e # Failed
  PROVE  /\ Shape(dialect, e) /\ DOMAIN e.columns = DOMAIN s.columns
         /\ Indexed(s, e, KeyName, TRUE, columns)
<1>0. PICK u : u = TRUE
  OBVIOUS
<1>1. PICK f : f = WithIndex(s, KeyName, u, columns)
  OBVIOUS
<1>2. f # Failed /\ e = NotNull(f, columns)
  BY <1>0, <1>1 DEF AddKey
<1>5. KeyIsUnique(KeyName, u)
  BY <1>0 DEF KeyIsUnique
<1>3. Shape(dialect, f) /\ f.columns = s.columns /\ Indexed(s, f, KeyName, u, columns)
  BY <1>1, <1>2, <1>5, WithKeeps
<1>4. Shape(dialect, e) /\ DOMAIN e.columns = DOMAIN f.columns /\ e.indexes = f.indexes
  BY <1>2, <1>3, NotNullKeeps
<1> QED
  BY <1>0, <1>3, <1>4 DEF Indexed

LEMMA FieldKeeps ==
  ASSUME NEW s, NEW c, NEW field, NEW value, Shape(dialect, s),
         NEW e, e = SetField(s, c, field, value), e # Failed
  PROVE  /\ Shape(dialect, e) /\ c \in DOMAIN s.columns
         /\ FieldIsSet(s, e, c, field, value) /\ e.indexes = s.indexes
<1>1. PICK column : column = [s.columns[c] EXCEPT ![field] = value]
  OBVIOUS
<1>2. c \in DOMAIN s.columns /\ e = Define(s, c, column)
  BY <1>1 DEF SetField
<1>3. DOMAIN column = {"type", "nullable", "default", "comment"}
  BY <1>1, <1>2 DEF Shape
<1>4. Shape(dialect, e) /\ e.columns = [s.columns EXCEPT ![c] = column] /\ e.indexes = s.indexes
  BY <1>2, <1>3, DefineKeeps
<1> QED
  BY <1>1, <1>2, <1>4 DEF FieldIsSet

LEMMA ChangeKeeps ==
  ASSUME NEW s, NEW from, NEW to, NEW as, Shape(dialect, s),
         DOMAIN as = {"type", "nullable", "default", "comment"},
         NEW e, e = Change(s, from, to, as), e # Failed
  PROVE  Shape(dialect, e) /\ ColumnReplaced(s, e, from, to, as) /\ KeepsIndexes(s, e)
<1>1. PICK t : t = Rename(s, from, to)
  OBVIOUS
<1>2. PICK column : column = [as EXCEPT !.default = NullIsNone(@)]
  OBVIOUS
<1>3. t # Failed /\ e = Define(t, to, column)
  BY <1>1, <1>2 DEF Change
<1>4. /\ Shape(dialect, t)
      /\ DOMAIN t.columns = (DOMAIN s.columns \ {from}) \cup {to}
      /\ \A c \in DOMAIN t.columns : t.columns[c] = s.columns[IF c = to THEN from ELSE c]
      /\ KeepsIndexes(s, t)
  BY <1>1, <1>3, RenameKeeps
<1>5. DOMAIN column = {"type", "nullable", "default", "comment"}
  BY <1>2
<1>6. /\ Shape(dialect, e) /\ e.indexes = t.indexes
      /\ e.columns = [t.columns EXCEPT ![to] = column]
  BY <1>3, <1>4, <1>5, DefineKeeps
<1> QED
  BY <1>2, <1>4, <1>6 DEF ColumnReplaced, KeepsIndexes

\* What the server makes of a statement is a table again, with the name PRIMARY as taken as before.
LEMMA EffectKeeps ==
  ASSUME NEW s, NEW st, Shape(dialect, s), StatementOk(st),
         NEW e, e = StatementEffect(s, st), e # Failed
  PROVE  Shape(dialect, e) /\ (Taken(s) => Taken(e))
<1>0. s # Failed
  BY FailedStays
<1>1. CASE st.do = "change"
  <2>1. e = Change(s, st.column, st.to, st.as)
    BY <1>0, <1>1 DEF StatementEffect
  <2>2. Shape(dialect, e) /\ KeepsIndexes(s, e)
    BY <1>1, <2>1, ChangeKeeps DEF StatementOk
  <2> QED
    BY <2>2 DEF Taken, KeepsIndexes
<1>2. CASE st.do = "rename"
  <2>1. e = Rename(s, st.column, st.to)
    BY <1>0, <1>2 DEF StatementEffect
  <2>2. Shape(dialect, e) /\ KeepsIndexes(s, e)
    BY <2>1, RenameKeeps
  <2> QED
    BY <2>2 DEF Taken, KeepsIndexes
<1>3. CASE st.do \in {"type", "nullable", "default", "comment"}
  <2>1. e = SetField(s, st.column, st.do, st.value)
    BY <1>0, <1>3 DEF StatementEffect
  <2>2. Shape(dialect, e) /\ e.indexes = s.indexes
    BY <2>1, FieldKeeps
  <2> QED
    BY <2>2 DEF Taken
<1>4. CASE st.do = "dropKey"
  <2>1. e = WithoutIndex(s, KeyName)
    BY <1>0, <1>4 DEF StatementEffect, DropKey
  <2>2. Shape(dialect, e) /\ e.indexes = LeaveOut(s.indexes, KeyName)
    BY <2>1, WithoutKeeps
  <2> QED
    BY <2>2 DEF Taken, LeaveOut, KeyName, KeyOf
<1>5. CASE st.do = "dropIndex"
  <2>1. e = WithoutIndex(s, st.name)
    BY <1>0, <1>5 DEF StatementEffect, DropIndex
  <2>2. Shape(dialect, e) /\ e.indexes = LeaveOut(s.indexes, st.name)
    BY <2>1, WithoutKeeps
  <2> QED
    BY <1>5, <2>2 DEF Taken, LeaveOut, StatementOk
<1>6. CASE st.do = "addKey"
  <2>1. e = AddKey(s, st.columns)
    BY <1>0, <1>6 DEF StatementEffect
  <2>2. Shape(dialect, e) /\ Indexed(s, e, KeyName, TRUE, st.columns)
    BY <2>1, AddKeyKeeps
  <2> QED
    BY <2>2 DEF Taken, Put, Indexed
<1>7. CASE st.do = "addIndex"
  <2>1. e = WithIndex(s, st.name, st.unique, st.columns) /\ st.name # KeyName
    BY <1>0, <1>7 DEF StatementEffect, AddIndex
  <2>3. KeyIsUnique(st.name, st.unique)
    BY <2>1 DEF KeyIsUnique
  <2>2. Shape(dialect, e) /\ Indexed(s, e, st.name, st.unique, st.columns)
    BY <2>1, <2>3, WithKeeps
  <2> QED
    BY <2>2 DEF Taken, Put, Indexed
<1> QED
  BY <1>1, <1>2, <1>3, <1>4, <1>5, <1>6, <1>7 DEF StatementOk

\* What a form for a column leaves as it was.
ColumnMoved(s, e, d) ==
  /\ d.name # d.originalName => d.originalName \notin DOMAIN e.columns
  /\ Same(s.columns, e.columns, DOMAIN s.columns \ {d.name, d.originalName})
  /\ KeepsIndexes(s, e)
OneFieldSet(s, e, c, field, value) ==
  /\ c \in DOMAIN e.columns /\ e.columns[c][field] = value
  /\ \A f \in {"type", "nullable", "default", "comment"} \ {field} : e.columns[c][f] = s.columns[c][f]

TypedFields(e, d) ==
  /\ d.name \in DOMAIN e.columns
  /\ e.columns[d.name].type = d.type /\ e.columns[d.name].nullable = d.nullable
  /\ e.columns[d.name].default = NullIsNone(Default(d))
TypedComment(e, d) == e.columns[d.name].comment = d.comment

LEMMA RenamedMoves ==
  ASSUME NEW s, NEW d, Shape(dialect, s), NEW e, e = Renamed(s, d), e # Failed
  PROVE  Shape(dialect, e) /\ ColumnMoved(s, e, d)
<1>1. CASE d.originalName = d.name
  <2>1. e = s
    BY <1>1 DEF Renamed
  <2> QED
    BY <1>1, <2>1 DEF ColumnMoved, Same, KeepsIndexes
<1>2. CASE d.originalName # d.name
  <2>1. PICK st : st = [do |-> "rename", column |-> d.originalName, to |-> d.name]
    OBVIOUS
  <2>2. e = StatementEffect(s, st)
    BY <1>2, <2>1 DEF Renamed
  <2>3. s # Failed
    BY <2>2, FailedStays
  <2>4. st.do = "rename" /\ st.column = d.originalName /\ st.to = d.name
    BY <2>1
  <2>5. e = Rename(s, d.originalName, d.name)
    BY <2>2, <2>3, <2>4 DEF StatementEffect
  <2>6. /\ Shape(dialect, e)
        /\ DOMAIN e.columns = (DOMAIN s.columns \ {d.originalName}) \cup {d.name}
        /\ \A c \in DOMAIN e.columns : e.columns[c] = s.columns[IF c = d.name THEN d.originalName ELSE c]
        /\ KeepsIndexes(s, e)
    BY <2>5, RenameKeeps
  <2> QED
    BY <2>6 DEF ColumnMoved, Same
<1> QED
  BY <1>1, <1>2

LEMMA FieldMoves ==
  ASSUME NEW s, NEW t, NEW d, NEW field \in {"type", "nullable", "default", "comment"}, NEW value,
         Shape(dialect, t), ColumnMoved(s, t, d),
         NEW e, e = FieldSet(t, d, field, value), e # Failed
  PROVE  Shape(dialect, e) /\ ColumnMoved(s, e, d) /\ OneFieldSet(t, e, d.name, field, value)
<1>1. PICK st : st = [do |-> field, column |-> d.name, value |-> value]
  OBVIOUS
<1>2. e = StatementEffect(t, st)
  BY <1>1 DEF FieldSet
<1>3. t # Failed
  BY <1>2, FailedStays
<1>4. st.do = field /\ st.column = d.name /\ st.value = value
  BY <1>1
<1>5. e = SetField(t, d.name, field, value)
  BY <1>2, <1>3, <1>4 DEF StatementEffect
<1>6. /\ Shape(dialect, e) /\ d.name \in DOMAIN t.columns
      /\ FieldIsSet(t, e, d.name, field, value) /\ e.indexes = t.indexes
  BY <1>5, FieldKeeps
<1>7. /\ DOMAIN e.columns = DOMAIN t.columns
      /\ \A c \in DOMAIN t.columns \ {d.name} : e.columns[c] = t.columns[c]
      /\ e.columns[d.name] = [t.columns[d.name] EXCEPT ![field] = value]
  BY <1>6 DEF FieldIsSet
<1>8. OneFieldSet(t, e, d.name, field, value)
  BY <1>6, <1>7 DEF OneFieldSet, Shape
<1>9. ColumnMoved(s, e, d)
  BY <1>6, <1>7 DEF ColumnMoved, Same, KeepsIndexes
<1> QED
  BY <1>6, <1>8, <1>9

LEMMA PostgresTyped ==
  ASSUME NEW s, NEW d, Shape(dialect, s),
         NEW e, e = Applied(s, PostgresAlterColumn(d)), e # Failed
  PROVE  /\ Shape(dialect, e) /\ ColumnMoved(s, e, d)
         /\ TypedFields(e, d)
         /\ d.comment = "" \/ TypedComment(e, d)
<1>1. PICK u : u = Renamed(s, d)
  OBVIOUS
<1>2. PICK t1 : t1 = FieldSet(u, d, "type", d.type)
  OBVIOUS
<1>3. PICK t2 : t2 = FieldSet(t1, d, "nullable", d.nullable)
  OBVIOUS
<1>4. PICK t3 : t3 = FieldSet(t2, d, "default", NullIsNone(Default(d)))
  OBVIOUS
<1>5. e = IF d.comment = "" THEN t3 ELSE FieldSet(t3, d, "comment", d.comment)
  BY <1>1, <1>2, <1>3, <1>4, AlterApplied DEF FieldsSet
<1>6. ASSUME NEW t, NEW field, NEW value, FieldSet(t, d, field, value) # Failed PROVE t # Failed
  BY <1>6, FailedStays DEF FieldSet
<1>15. e = t3 \/ e = FieldSet(t3, d, "comment", d.comment)
  BY <1>5
<1>7. u # Failed /\ t1 # Failed /\ t2 # Failed /\ t3 # Failed
  BY <1>2, <1>3, <1>4, <1>6, <1>15
<1>8. Shape(dialect, u) /\ ColumnMoved(s, u, d)
  BY <1>1, <1>7, RenamedMoves
<1>9. Shape(dialect, t1) /\ ColumnMoved(s, t1, d) /\ OneFieldSet(u, t1, d.name, "type", d.type)
  BY <1>2, <1>7, <1>8, FieldMoves
<1>10. /\ Shape(dialect, t2) /\ ColumnMoved(s, t2, d)
       /\ OneFieldSet(t1, t2, d.name, "nullable", d.nullable)
  BY <1>3, <1>7, <1>9, FieldMoves
<1>11. /\ Shape(dialect, t3) /\ ColumnMoved(s, t3, d)
       /\ OneFieldSet(t2, t3, d.name, "default", NullIsNone(Default(d)))
  BY <1>4, <1>7, <1>10, FieldMoves
<1>12. /\ d.name \in DOMAIN t3.columns
       /\ t3.columns[d.name].type = d.type /\ t3.columns[d.name].nullable = d.nullable
       /\ t3.columns[d.name].default = NullIsNone(Default(d))
  BY <1>9, <1>10, <1>11 DEF OneFieldSet
<1>13. CASE d.comment = ""
  BY <1>5, <1>11, <1>12, <1>13 DEF TypedFields
<1>14. CASE d.comment # ""
  <2>1. Shape(dialect, e) /\ ColumnMoved(s, e, d) /\ OneFieldSet(t3, e, d.name, "comment", d.comment)
    BY <1>5, <1>11, <1>14, FieldMoves
  <2> QED
    BY <2>1, <1>12 DEF OneFieldSet, TypedFields, TypedComment
<1> QED
  BY <1>13, <1>14

LEMMA MySQLTyped ==
  ASSUME NEW s, NEW d, Shape(dialect, s), NEW e, e = Applied(s, MySQLAlterColumn(d)), e # Failed
  PROVE  /\ Shape(dialect, e) /\ ColumnMoved(s, e, d)
         /\ TypedFields(e, d)
         /\ TypedComment(e, d)
<1>1. PICK as : as = [type |-> d.type, nullable |-> d.nullable, default |-> Default(d), comment |-> d.comment]
  OBVIOUS
<1>2. PICK st : st = [do |-> "change", column |-> d.originalName, to |-> d.name, as |-> as]
  OBVIOUS
<1>3. e = StatementEffect(s, st)
  BY <1>1, <1>2, OneStatement DEF MySQLAlterColumn
<1>4. s # Failed
  BY <1>3, FailedStays
<1>5. st.do = "change" /\ st.column = d.originalName /\ st.to = d.name /\ st.as = as
  BY <1>2
<1>6. e = Change(s, d.originalName, d.name, as)
  BY <1>3, <1>4, <1>5 DEF StatementEffect
<1>7. DOMAIN as = {"type", "nullable", "default", "comment"}
  BY <1>1
<1>8. Shape(dialect, e) /\ ColumnReplaced(s, e, d.originalName, d.name, as) /\ KeepsIndexes(s, e)
  BY <1>6, <1>7, ChangeKeeps
<1>9. ColumnMoved(s, e, d)
  BY <1>8 DEF ColumnMoved, ColumnReplaced, Same
<1>10. d.name \in DOMAIN e.columns /\ e.columns[d.name] = [as EXCEPT !.default = NullIsNone(@)]
  BY <1>8 DEF ColumnReplaced
<1>11. as.type = d.type /\ as.nullable = d.nullable /\ as.default = Default(d) /\ as.comment = d.comment
  BY <1>1
<1> QED
  BY <1>7, <1>8, <1>9, <1>10, <1>11 DEF TypedFields, TypedComment

\* What a reviewed change of a column does, if the server accepts it.
LEMMA ColumnTyped ==
  ASSUME NEW d, Shape(dialect, structure),
         NEW e, e = Applied(structure, AlterColumnSQL(d)), e # Failed
  PROVE  Shape(dialect, e) /\ ColumnIsAsTyped(e, d) /\ KeepsIndexes(structure, e)
<1>1. /\ Shape(dialect, e) /\ ColumnMoved(structure, e, d)
      /\ TypedFields(e, d)
      /\ TypedComment(e, d) \/ (d.comment = "" /\ dialect # "mysql")
  <2>1. CASE dialect = "mysql"
    BY <2>1, MySQLTyped DEF AlterColumnSQL
  <2>2. CASE dialect # "mysql"
    BY <2>2, PostgresTyped DEF AlterColumnSQL
  <2> QED
    BY <2>1, <2>2
<1>2. KeepsIndexes(structure, e) => ColumnsKept(e)
  BY DEF KeepsIndexes, ColumnsKept
<1> QED
  BY <1>1, <1>2 DEF ColumnIsAsTyped, ColumnMoved, TypedFields, TypedComment

AddStatement(d) ==
  IF d.primary THEN [do |-> "addKey", columns |-> d.columns]
  ELSE [do |-> "addIndex", name |-> d.name, unique |-> d.unique, columns |-> d.columns]
DropStatement(name) ==
  IF name = "PRIMARY" THEN [do |-> "dropKey"] ELSE [do |-> "dropIndex", name |-> name]
\* The name that an index has at the server.
ServerName(name) == IF name = "PRIMARY" THEN KeyName ELSE name
NameOf(d) == IF d.primary THEN KeyName ELSE d.name
UniqueIf(d, unique) == IF d.primary THEN unique = TRUE ELSE unique = d.unique

LEMMA IndexApplied ==
  ASSUME NEW s, NEW d
  PROVE  Applied(s, IndexSQL(d)) =
           IF d.mode = "add" THEN StatementEffect(s, AddStatement(d))
           ELSE StatementEffect(StatementEffect(s, DropStatement(ReplacedBy(d))), AddStatement(d))
<1>1. PICK a : a = AddStatement(d)
  OBVIOUS
<1>2. PICK b : b = DropStatement(ReplacedBy(d))
  OBVIOUS
<1>3. AddIndexSQL(d) = <<a>>
  BY <1>1 DEF AddIndexSQL, AddStatement
<1>4. DropIndexSQL(ReplacedBy(d)) = <<b>>
  BY <1>2 DEF DropIndexSQL, DropStatement
<1>5. IndexSQL(d) = IF d.mode = "add" THEN <<>> \o <<a>> ELSE <<b>> \o <<a>>
  BY <1>3, <1>4 DEF IndexSQL
<1>6. CASE d.mode = "add"
  <2>1. IndexSQL(d) = <<a>>
    BY <1>5, <1>6, NoStatementFirst
  <2> QED
    BY <1>1, <1>6, <2>1, OneStatement
<1>7. CASE d.mode # "add"
  <2>1. IndexSQL(d) = <<b>> \o <<a>>
    BY <1>5, <1>7
  <2> QED
    BY <1>1, <1>2, <1>7, <2>1, TwoStatements
<1> QED
  BY <1>6, <1>7

LEMMA AddEffect ==
  ASSUME NEW s, NEW d, Shape(dialect, s), NEW e, e = StatementEffect(s, AddStatement(d)), e # Failed
  PROVE  /\ Shape(dialect, e) /\ DOMAIN e.columns = DOMAIN s.columns
         /\ (Taken(s) => Taken(e))
         /\ d.primary \/ d.name # KeyName
         /\ \E unique : UniqueIf(d, unique) /\ Indexed(s, e, NameOf(d), unique, d.columns)
<1>1. PICK st : st = AddStatement(d)
  OBVIOUS
<1>2. e = StatementEffect(s, st) /\ s # Failed
  BY <1>1, FailedStays
<1>3. CASE d.primary
  <2>1. st.do = "addKey" /\ st.columns = d.columns
    BY <1>1, <1>3 DEF AddStatement
  <2>2. StatementOk(st)
    BY <2>1 DEF StatementOk
  <2>3. Taken(s) => Taken(e)
    BY <1>2, <2>2, EffectKeeps
  <2>4. e = AddKey(s, d.columns)
    BY <1>2, <2>1 DEF StatementEffect
  <2>5. Shape(dialect, e) /\ DOMAIN e.columns = DOMAIN s.columns /\ Indexed(s, e, KeyName, TRUE, d.columns)
    BY <2>4, AddKeyKeeps
  <2>6. UniqueIf(d, TRUE) /\ NameOf(d) = KeyName
    BY <1>3 DEF UniqueIf, NameOf
  <2> QED
    BY <1>3, <2>3, <2>5, <2>6
<1>4. CASE ~d.primary
  <2>1. st.do = "addIndex" /\ st.name = d.name /\ st.unique = d.unique /\ st.columns = d.columns
    BY <1>1, <1>4 DEF AddStatement
  <2>2. StatementOk(st)
    BY <2>1 DEF StatementOk
  <2>3. Taken(s) => Taken(e)
    BY <1>2, <2>2, EffectKeeps
  <2>4. d.name # KeyName /\ e = WithIndex(s, d.name, d.unique, d.columns)
    BY <1>2, <2>1 DEF StatementEffect, AddIndex
  <2>5. KeyIsUnique(d.name, d.unique)
    BY <2>4 DEF KeyIsUnique
  <2>6. Shape(dialect, e) /\ e.columns = s.columns /\ Indexed(s, e, d.name, d.unique, d.columns)
    BY <2>4, <2>5, WithKeeps
  <2>7. UniqueIf(d, d.unique) /\ NameOf(d) = d.name
    BY <1>4 DEF UniqueIf, NameOf
  <2> QED
    BY <1>4, <2>3, <2>4, <2>6, <2>7
<1> QED
  BY <1>3, <1>4

LEMMA DropEffect ==
  ASSUME NEW s, NEW name, Shape(dialect, s),
         NEW e, e = StatementEffect(s, DropStatement(name)), e # Failed
  PROVE  /\ Shape(dialect, e) /\ e.columns = s.columns /\ (Taken(s) => Taken(e))
         /\ e.indexes = LeaveOut(s.indexes, ServerName(name))
<1>1. PICK st : st = DropStatement(name)
  OBVIOUS
<1>2. e = StatementEffect(s, st) /\ s # Failed
  BY <1>1, FailedStays
<1>3. st.do = IF name = "PRIMARY" THEN "dropKey" ELSE "dropIndex"
  BY <1>1 DEF DropStatement
<1>4. name # "PRIMARY" => st.name = name
  BY <1>1 DEF DropStatement
<1>5. StatementOk(st)
  BY <1>3, <1>4 DEF StatementOk
<1>6. Taken(s) => Taken(e)
  BY <1>2, <1>5, EffectKeeps
<1>7. e = WithoutIndex(s, ServerName(name))
  <2>1. CASE name = "PRIMARY"
    BY <1>2, <1>3, <2>1 DEF StatementEffect, DropKey, ServerName
  <2>2. CASE name # "PRIMARY"
    BY <1>2, <1>3, <1>4, <2>2 DEF StatementEffect, DropIndex, ServerName
  <2> QED
    BY <2>1, <2>2
<1>8. Shape(dialect, e) /\ e.columns = s.columns /\ e.indexes = LeaveOut(s.indexes, ServerName(name))
  BY <1>7, WithoutKeeps
<1> QED
  BY <1>6, <1>8

\* What a reviewed index does, if the server accepts it.
LEMMA IndexTyped ==
  ASSUME NEW d, Shape(dialect, structure),
         NEW e, e = Applied(structure, IndexSQL(d)), e # Failed
  PROVE  /\ Shape(dialect, e) /\ (Taken(structure) => Taken(e))
         /\ (d.primary => d.unique = TRUE) => IndexIsAsTyped(e, d)
<1>1. PICK g : g = IF d.mode = "add" THEN structure
                   ELSE StatementEffect(structure, DropStatement(ReplacedBy(d)))
  OBVIOUS
<1>2. e = StatementEffect(g, AddStatement(d))
  BY <1>1, IndexApplied
<1>3. g # Failed
  BY <1>2, FailedStays
<1>4. /\ Shape(dialect, g) /\ g.columns = structure.columns /\ (Taken(structure) => Taken(g))
      /\ \/ d.mode = "add" /\ g.indexes = structure.indexes
         \/ d.mode # "add" /\ g.indexes = LeaveOut(structure.indexes, ServerName(ReplacedBy(d)))
  <2>1. CASE d.mode = "add"
    BY <1>1, <2>1
  <2>2. CASE d.mode # "add"
    <3>1. g = StatementEffect(structure, DropStatement(ReplacedBy(d)))
      BY <1>1, <2>2
    <3> QED
      BY <1>3, <2>2, <3>1, DropEffect
  <2> QED
    BY <2>1, <2>2
<1>5. /\ Shape(dialect, e) /\ DOMAIN e.columns = DOMAIN g.columns /\ (Taken(g) => Taken(e))
      /\ d.primary \/ d.name # KeyName
  BY <1>2, <1>4, AddEffect
<1>6. PICK unique : UniqueIf(d, unique) /\ Indexed(g, e, NameOf(d), unique, d.columns)
  BY <1>2, <1>4, AddEffect
<1>7. ASSUME d.primary => d.unique = TRUE PROVE IndexIsAsTyped(e, d)
  <2> DEFINE old == ServerName(d.originalName)
             gone == ServerName(ReplacedBy(d))
  <2>1. unique = d.unique
    BY <1>6, <1>7 DEF UniqueIf
  <2>2. /\ DOMAIN e.indexes = DOMAIN g.indexes \cup {NameOf(d)}
        /\ e.indexes[NameOf(d)] = [unique |-> d.unique, columns |-> d.columns]
        /\ \A i \in DOMAIN g.indexes \ {NameOf(d)} : e.indexes[i] = g.indexes[i]
    BY <1>6, <2>1 DEF Indexed, Put
  <2>3. /\ DOMAIN g.indexes \subseteq DOMAIN structure.indexes
        /\ DOMAIN structure.indexes \ {gone} \subseteq DOMAIN g.indexes
        /\ d.mode # "add" => gone \notin DOMAIN g.indexes
        /\ \A i \in DOMAIN g.indexes : g.indexes[i] = structure.indexes[i]
    BY <1>4 DEF LeaveOut
  <2>4. /\ gone \in {NameOf(d), old}
        /\ dialect = "mysql" \/ ~d.primary => gone = old
    BY DEF ReplacedBy, ServerName, NameOf
  <2> HIDE DEF old, gone
  <2>5. Same(structure.indexes, e.indexes, DOMAIN structure.indexes \ {NameOf(d), old})
    BY <2>2, <2>3, <2>4 DEF Same
  <2>6. d.mode = "edit" /\ old # NameOf(d) /\ (dialect = "mysql" \/ ~d.primary) => old \notin DOMAIN e.indexes
    BY <2>2, <2>3, <2>4
  <2> QED
    BY <1>4, <1>5, <2>2, <2>5, <2>6 DEF IndexIsAsTyped, NameOf, old, ServerName
<1> QED
  BY <1>4, <1>5, <1>7

LEMMA DropTyped ==
  ASSUME NEW name, Shape(dialect, structure),
         NEW e, e = Applied(structure, DropIndexSQL(name)), e # Failed
  PROVE  /\ Shape(dialect, e) /\ e.columns = structure.columns /\ (Taken(structure) => Taken(e))
         /\ e.indexes = LeaveOut(structure.indexes, ServerName(name))
<1>1. PICK x : x = DropStatement(name)
  OBVIOUS
<1>2. DropIndexSQL(name) = <<x>>
  BY <1>1 DEF DropIndexSQL, DropStatement
<1>3. e = StatementEffect(structure, DropStatement(name))
  BY <1>1, <1>2, OneStatement
<1> QED
  BY <1>3, DropEffect

\* A state of the table that may still be shown or edited.
Seen(t) == Shape(dialect, t) /\ (Taken(t) => Taken(structure))
TableInv ==
  /\ dialect \in {"mysql", "postgres"} /\ Shape(dialect, structure)
  /\ schema # None => Seen(schema)
  /\ \A l \in schemaLoads : l.read # None => Seen(l.read)
\* A key is unique, and what is to be dropped is not taken for the key.
KeyDraft(d) ==
  /\ {"name", "columns", "unique", "primary"} \subseteq DOMAIN d
  /\ Taken(structure) \/ (d.primary => d.unique = TRUE)
DropAsked(p) == p.of \notin {"column", "index"} /\ p.name = "PRIMARY"
FormInv ==
  /\ indexDraft # None => KeyDraft(indexDraft)
  /\ pendingAction # None /\ pendingAction.of = "index" => indexDraft # None
  /\ pendingAction # None /\ DropAsked(pendingAction) /\ dialect # "mysql" => Taken(structure)

\* A statement leaves a table, with the name PRIMARY as taken as before.
LEMMA AlteredTable ==
  ASSUME TableInv, StructInv, RunAlter
  PROVE  dialect' = dialect /\ Shape(dialect, structure') /\ (Taken(structure) => Taken(structure'))
<1>1. CASE structure' = structure
  BY <1>1 DEF RunAlter, TableInv
<1>2. CASE structure' # structure
  <2>1. alter # NoAlter /\ structure' = Applied(structure, alter.sql) /\ structure' # Failed
    BY <1>2 DEF RunAlter, NoAlter
  <2>2. alter.sql \in {AlterColumnSQL(columnDraft), IndexSQL(indexDraft), DropIndexSQL(pendingAction.name)}
    BY <2>1 DEF StructInv, RunsWhatWasReviewed
  <2>3. Shape(dialect, structure)
    BY DEF TableInv
  <2>4. CASE alter.sql = AlterColumnSQL(columnDraft)
    <3>1. Shape(dialect, structure') /\ KeepsIndexes(structure, structure')
      BY <2>1, <2>3, <2>4, ColumnTyped
    <3> QED
      BY <3>1 DEF KeepsIndexes, Taken, RunAlter
  <2>5. CASE alter.sql = IndexSQL(indexDraft)
    BY <2>1, <2>3, <2>5, IndexTyped DEF RunAlter
  <2>6. CASE alter.sql = DropIndexSQL(pendingAction.name)
    BY <2>1, <2>3, <2>6, DropTyped DEF RunAlter
  <2> QED
    BY <2>2, <2>4, <2>5, <2>6
<1> QED
  BY <1>1, <1>2

LEMMA TableStep ==
  ASSUME TableInv, StructInv, [StructNext]_structVars
  PROVE  TableInv'
<1>1. CASE Form \/ UNCHANGED structVars
  BY <1>1, FormsOnlyEdit DEF TableInv, Seen, Taken
<1>2. CASE RefreshSchema \/ AlterDone
  <2>1. UNCHANGED <<dialect, structure, schema>>
    BY <1>2 DEF RefreshSchema, AlterDone
  <2>2. \E by : schemaLoads' = schemaLoads \cup {[id |-> schemaAsked + 1, by |-> by, read |-> None]}
    BY <1>2 DEF RefreshSchema, AlterDone, AskSchema
  <2>3. \A l \in schemaLoads' : l \in schemaLoads \/ l.read = None
    BY <2>2
  <2> QED
    BY <2>1, <2>3 DEF TableInv, Seen, Taken
<1>3. ASSUME NEW l \in schemaLoads, ServeSchema(l) PROVE TableInv'
  <2>1. UNCHANGED <<dialect, structure, schema>>
    BY <1>3 DEF ServeSchema
  <2>2. \A m \in schemaLoads' : m \in schemaLoads \/ m.read = structure
    BY <1>3 DEF ServeSchema
  <2> QED
    BY <2>1, <2>2 DEF TableInv, Seen, Taken
<1>4. ASSUME NEW l \in schemaLoads, SchemaAnswered(l) PROVE TableInv'
  <2>1. UNCHANGED <<dialect, structure>> /\ schemaLoads' \subseteq schemaLoads
    BY <1>4 DEF SchemaAnswered
  <2>2. schema' = schema \/ (l.read # None /\ schema' = l.read)
    BY <1>4 DEF SchemaAnswered
  <2> QED
    BY <2>1, <2>2 DEF TableInv, Seen, Taken
<1>5. CASE ExecutePendingAction \/ AlterFailed
  BY <1>5 DEF ExecutePendingAction, AlterFailed, schemaVars, TableInv, Seen, Taken
<1>6. CASE RunAlter
  <2>1. dialect' = dialect /\ Shape(dialect, structure') /\ (Taken(structure) => Taken(structure'))
    BY <1>6, AlteredTable
  <2>2. UNCHANGED <<schema, schemaLoads>>
    BY <1>6 DEF RunAlter, schemaVars
  <2> QED
    BY <2>1, <2>2 DEF TableInv, Seen, Taken
<1> QED
  BY <1>1, <1>2, <1>3, <1>4, <1>5, <1>6 DEF StructNext, Form

\* The forms for an index keep what a key needs.
LEMMA IndexStarts ==
  ASSUME TableInv, schema # None, NEW i \in DOMAIN schema.indexes
  PROVE  KeyDraft(IndexStart(schema, i))
<1> DEFINE d == IndexStart(schema, i)
<1>1. DOMAIN d = {"mode", "originalName", "name", "columns", "unique", "primary"}
  BY DEF IndexStart
<1>2. (d.primary <=> i = "PRIMARY") /\ d.unique = schema.indexes[i].unique
  BY DEF IndexStart
<1>3. CASE i = "PRIMARY" /\ dialect = "mysql"
  <2>1. schema.indexes[i].unique = TRUE
    BY <1>3 DEF TableInv, Seen, Shape, KeyOf
  <2> QED
    BY <1>1, <1>2, <2>1 DEF KeyDraft
<1>4. CASE i = "PRIMARY" /\ dialect # "mysql"
  <2>1. Taken(structure)
    BY <1>4 DEF TableInv, Seen, Taken
  <2> QED
    BY <1>1, <2>1 DEF KeyDraft
<1>5. CASE i # "PRIMARY"
  BY <1>1, <1>2, <1>5 DEF KeyDraft
<1> QED
  BY <1>3, <1>4, <1>5

LEMMA IndexEdited ==
  ASSUME NEW d, KeyDraft(d), NEW e \in IndexEdits(d)
  PROVE  KeyDraft(e)
<1>1. CASE e = TogglePrimary(d)
  BY <1>1 DEF KeyDraft, TogglePrimary
<1>2. ASSUME NEW columns, e = [d EXCEPT !.columns = columns] PROVE KeyDraft(e)
  BY <1>2 DEF KeyDraft
<1>3. ASSUME NEW c, e = ToggleColumn(d, c) PROVE KeyDraft(e)
  <2>1. \E columns : e = [d EXCEPT !.columns = columns]
    BY <1>3 DEF ToggleColumn
  <2> QED
    BY <1>2, <2>1
<1>4. ASSUME ~d.primary, NEW n, e = [d EXCEPT !.name = n] PROVE KeyDraft(e)
  BY <1>4 DEF KeyDraft
<1>5. ASSUME ~d.primary, e = [d EXCEPT !.unique = ~@] PROVE KeyDraft(e)
  BY <1>5 DEF KeyDraft
<1> QED
  BY <1>1, <1>3, <1>4, <1>5 DEF IndexEdits

LEMMA FormKept ==
  ASSUME FormInv, dialect' = dialect, Taken(structure) => Taken(structure'),
         \/ UNCHANGED <<indexDraft, pendingAction>>
         \/ indexDraft' = None /\ pendingAction' = None
  PROVE  FormInv'
<1>1. Taken(structure) => Taken(structure)'
  BY DEF Taken
<1>2. indexDraft' # None => KeyDraft(indexDraft)'
  BY <1>1 DEF FormInv, KeyDraft
<1>4. pendingAction' # None /\ pendingAction'.of = "index" => indexDraft' # None
  BY DEF FormInv
<1>3. pendingAction' # None /\ DropAsked(pendingAction') /\ dialect' # "mysql" => Taken(structure)'
  BY <1>1 DEF FormInv
<1> QED
  BY <1>2, <1>3, <1>4 DEF FormInv, DropAsked

LEMMA FormStep ==
  ASSUME FormInv, TableInv, StructInv, [StructNext]_structVars
  PROVE  FormInv'
<1>1. ASSUME UNCHANGED <<dialect, structure>>, indexDraft' # None => KeyDraft(indexDraft'),
             pendingAction' # None => ~DropAsked(pendingAction') \/ dialect = "mysql" \/ Taken(structure),
             pendingAction' # None /\ pendingAction'.of = "index" => indexDraft' # None
      PROVE  FormInv'
  BY <1>1 DEF FormInv, KeyDraft, DropAsked, Taken
<1>2. CASE UNCHANGED structVars \/ RefreshSchema \/ (\E l \in schemaLoads : ServeSchema(l) \/ SchemaAnswered(l))
           \/ AlterFailed \/ ExecutePendingAction \/ AlterDone
  <2>1. /\ UNCHANGED <<dialect, structure>>
        /\ \/ UNCHANGED <<indexDraft, pendingAction>>
           \/ indexDraft' = None /\ pendingAction' = None
    BY <1>2 DEF structVars, draftVars, RefreshSchema, ServeSchema, SchemaAnswered, AlterFailed,
                ExecutePendingAction, AlterDone
  <2> QED
    BY <2>1, FormKept
<1>3. CASE RunAlter
  <2>1. dialect' = dialect /\ (Taken(structure) => Taken(structure'))
    BY <1>3, AlteredTable
  <2>2. UNCHANGED <<indexDraft, pendingAction>>
    BY <1>3 DEF RunAlter, draftVars
  <2> QED
    BY <2>1, <2>2, FormKept
<1>4. CASE StartEditColumn \/ StartAddIndex \/ StartEditIndex \/ CloseForm \/ EditField
  <2>1. UNCHANGED <<dialect, structure>> /\ pendingAction' = None
    BY <1>4 DEF StartEditColumn, StartAddIndex, StartEditIndex, CloseForm, EditField, Show, Dialogs
  <2>2. CASE StartAddIndex
    <3>1. indexDraft' = NewIndex
      BY <2>2 DEF StartAddIndex, Show, Dialogs
    <3>2. KeyDraft(NewIndex)
      BY DEF KeyDraft, NewIndex
    <3> QED
      BY <1>1, <2>1, <3>1, <3>2
  <2>3. CASE StartEditIndex
    <3>1. schema # None /\ \E i \in DOMAIN schema.indexes : indexDraft' = IndexStart(schema, i)
      BY <2>3 DEF StartEditIndex, Show, Dialogs
    <3> QED
      BY <1>1, <2>1, <3>1, IndexStarts
  <2>4. CASE EditField
    <3>1. indexDraft' = None \/ (indexDraft # None /\ indexDraft' \in IndexEdits(indexDraft))
      BY <2>4 DEF EditField, Dialogs
    <3>2. indexDraft' # None => KeyDraft(indexDraft')
      BY <3>1, IndexEdited DEF FormInv
    <3> QED
      BY <1>1, <2>1, <3>2
  <2>5. CASE StartEditColumn \/ CloseForm
    <3>1. indexDraft' = None
      BY <2>5 DEF StartEditColumn, CloseForm, Show, Dialogs
    <3> QED
      BY <1>1, <2>1, <3>1
  <2> QED
    BY <1>4, <2>2, <2>3, <2>4, <2>5
<1>5. CASE ReviewColumn \/ ReviewIndex
  <2>1. UNCHANGED <<dialect, structure>> /\ (indexDraft' = None \/ indexDraft' = indexDraft)
    BY <1>5 DEF ReviewColumn, ReviewIndex, Show, Dialogs
  <2>2. CASE ReviewColumn
    <3>1. Show(columnDraft, None, [of |-> "column", name |-> None, sql |-> AlterColumnSQL(columnDraft)])
      BY <2>2 DEF ReviewColumn
    <3>2. pendingAction'.of = "column"
      BY <3>1 DEF Show, Dialogs
    <3> QED
      BY <1>1, <2>1, <3>2 DEF FormInv, DropAsked
  <2>3. CASE ReviewIndex
    <3>1. /\ Show(None, indexDraft, [of |-> "index", name |-> None, sql |-> IndexSQL(indexDraft)])
          /\ indexDraft # None
      BY <2>3 DEF ReviewIndex
    <3>2. pendingAction'.of = "index" /\ indexDraft' # None
      BY <3>1 DEF Show, Dialogs
    <3> QED
      BY <1>1, <2>1, <3>2 DEF FormInv, DropAsked
  <2> QED
    BY <1>5, <2>2, <2>3
<1>7. CASE ClosePending
  BY <1>1, <1>7 DEF ClosePending, Show, Dialogs, FormInv
<1>6. CASE ReviewDeleteIndex
  <2>1. PICK i \in DOMAIN schema.indexes :
          Show(None, None, [of |-> "drop", name |-> i, sql |-> DropIndexSQL(i)])
    BY <1>6 DEF ReviewDeleteIndex
  <2>2. /\ schema # None /\ UNCHANGED <<dialect, structure>> /\ indexDraft' = None
        /\ pendingAction'.name = i /\ pendingAction'.of = "drop"
    BY <1>6, <2>1 DEF ReviewDeleteIndex, Show, Dialogs
  <2>3. i = "PRIMARY" /\ dialect # "mysql" => Taken(structure)
    BY <2>2 DEF TableInv, Seen, Taken
  <2> QED
    BY <1>1, <2>2, <2>3 DEF DropAsked
<1> QED
  BY <1>2, <1>3, <1>4, <1>5, <1>6, <1>7 DEF StructNext

LEMMA FormsAreTables ==
  ASSUME StructureAssumption
  PROVE  StructSpec => [](TableInv /\ FormInv /\ StructInv)
<1>1. ASSUME StructInit PROVE TableInv /\ FormInv
  <2>1. /\ dialect \in {"mysql", "postgres"} /\ Shape(dialect, structure)
        /\ schema = None /\ indexDraft = None /\ pendingAction = None
        /\ schemaLoads = {[id |-> 1, by |-> "view", read |-> None]}
    BY <1>1 DEF StructInit, StructureAssumption
  <2>2. \A l \in schemaLoads : l.read = None
    BY <2>1
  <2> QED
    BY <2>1, <2>2 DEF TableInv, FormInv
<1>2. TableInv /\ FormInv /\ StructInv /\ [StructNext]_structVars => (TableInv /\ FormInv)'
  BY TableStep, FormStep
<1> QED
  BY <1>1, <1>2, StructInvHolds, PTL DEF StructSpec

\* The reviewed SQL, if the server accepts it, does what the form says and nothing else:
\* no other column and no other index is lost or changed, for every table and every
\* text that may be typed (table-structure-sql.ts:7, 19, 31).
THEOREM ReviewedIsDone ==
  ASSUME StructureAssumption
  PROVE  StructSpec => []ReviewedDoesWhatItSays
<1>1. ASSUME TableInv, FormInv, StructInv PROVE ReviewedDoesWhatItSays
  <2> SUFFICES ASSUME dialect = "postgres" => "PRIMARY" \notin DOMAIN structure.indexes,
                      pendingAction # None, NEW s, s = Applied(structure, pendingAction.sql), s # Failed
               PROVE  CASE pendingAction.of = "column" -> ColumnIsAsTyped(s, columnDraft)
                        [] pendingAction.of = "index" -> IndexIsAsTyped(s, indexDraft)
                        [] OTHER -> /\ s.columns = structure.columns
                                    /\ Same(structure.indexes, s.indexes, DOMAIN structure.indexes \ {pendingAction.name})
                                    /\ pendingAction.name \notin DOMAIN s.indexes
    BY DEF ReviewedDoesWhatItSays
  <2>1. Shape(dialect, structure) /\ dialect \in {"mysql", "postgres"} /\ ~Taken(structure)
    BY <1>1 DEF TableInv, Taken
  <2>2. CASE pendingAction.of = "column"
    <3>1. pendingAction.sql = AlterColumnSQL(columnDraft)
      BY <1>1, <2>2 DEF StructInv, RunsWhatWasReviewed
    <3> QED
      BY <2>1, <2>2, <3>1, ColumnTyped
  <2>3. CASE pendingAction.of = "index"
    <3>1. pendingAction.sql = IndexSQL(indexDraft)
      BY <1>1, <2>3 DEF StructInv, RunsWhatWasReviewed
    <3>2. indexDraft.primary => indexDraft.unique = TRUE
      BY <1>1, <2>1, <2>3 DEF FormInv, KeyDraft
    <3> QED
      BY <2>1, <2>3, <3>1, <3>2, IndexTyped
  <2>4. CASE pendingAction.of \notin {"column", "index"}
    <3>1. pendingAction.sql = DropIndexSQL(pendingAction.name)
      BY <1>1, <2>4 DEF StructInv, RunsWhatWasReviewed
    <3>2. s.columns = structure.columns /\ s.indexes = LeaveOut(structure.indexes, ServerName(pendingAction.name))
      BY <2>1, <3>1, DropTyped
    <3>3. ServerName(pendingAction.name) = pendingAction.name
      BY <1>1, <2>1, <2>4 DEF FormInv, DropAsked, ServerName, KeyName, KeyOf
    <3> QED
      BY <2>4, <3>2, <3>3 DEF LeaveOut, Same
  <2> QED
    BY <2>2, <2>3, <2>4
<1>2. TableInv /\ FormInv /\ StructInv => ReviewedDoesWhatItSays
  BY <1>1
<1> QED
  BY <1>2, FormsAreTables, PTL

-----------------------------------------------------------------------------
(* The rows of a table                                                     *)

ResultFields == {"request", "rows", "found", "error", "loading", "cancelled", "at"}
ReadFields == {"id", "request", "live", "cancelled", "answer", "at"}
EditFields == {"id", "kind", "keys", "asked", "done"}
DataShape ==
  /\ DOMAIN result = ResultFields
  /\ \A c \in reads : DOMAIN c = ReadFields
  /\ \A e \in edits : DOMAIN e = EditFields

\* What is shown keeps its rows, to be replaced or marked as not the latest; or has none.
Marked(new) ==
  /\ DOMAIN new = ResultFields /\ new.rows = result.rows /\ new.at = result.at
  /\ new.loading = TRUE \/ new.error = TRUE \/ new.cancelled = TRUE
Cleared(new) == DOMAIN new = ResultFields /\ new.rows = None /\ new.loading = TRUE

LEMMA ResultUpdates ==
  ASSUME DataShape
  PROVE  /\ Marked([result EXCEPT !.error = TRUE, !.loading = FALSE])
         /\ Marked([result EXCEPT !.loading = FALSE, !.cancelled = TRUE])
         /\ \A r : Cleared(NoResult(r))
         /\ \A r : Marked(Refreshed(r)) \/ Cleared(Refreshed(r))
<1>1. /\ Marked([result EXCEPT !.error = TRUE, !.loading = FALSE])
      /\ Marked([result EXCEPT !.loading = FALSE, !.cancelled = TRUE])
      /\ Marked([result EXCEPT !.error = FALSE, !.loading = TRUE, !.cancelled = FALSE])
  BY DEF DataShape, ResultFields, Marked
<1>2. \A r : Cleared(NoResult(r))
  BY DEF Cleared, NoResult, ResultFields
<1> QED
  BY <1>1, <1>2 DEF Refreshed

\* What is asked for anew makes the reads under way old ones.
Unanswered(c) == DOMAIN c = ReadFields /\ c.answer = None
Aged(c) == [c EXCEPT !.live = FALSE]

LEMMA AgedShape ==
  ASSUME NEW c, DOMAIN c = ReadFields
  PROVE  DOMAIN Aged(c) = ReadFields /\ Aged(c).live = FALSE
BY DEF Aged, ReadFields

LEMMA AskShape ==
  ASSUME DataShape, NEW q, NEW known, NEW kept, NEW reload \in BOOLEAN, Ask(q, known, kept, reload)
  PROVE  /\ \A c \in reads' : DOMAIN c = ReadFields /\ (c \in reads \/ c.answer = None \/ c.live = FALSE)
         /\ reload => \A c \in reads' : c.answer = None \/ c.live = FALSE
<1>1. ASSUME NEW id, NEW r PROVE Unanswered(Read(id, r))
  BY DEF Unanswered, Read, ReadFields
<1>2. CASE UNCHANGED reads /\ ~reload
  BY <1>2 DEF DataShape
<1>3. CASE \E id, r : reads' = {Aged(c) : c \in reads} \cup {Read(id, r)}
  <2>1. PICK id, r : reads' = {Aged(c) : c \in reads} \cup {Read(id, r)}
    BY <1>3
  <2>2. ASSUME NEW c \in reads' PROVE DOMAIN c = ReadFields /\ (c.answer = None \/ c.live = FALSE)
    <3>1. CASE c = Read(id, r)
      BY <1>1, <3>1 DEF Unanswered
    <3>2. ASSUME NEW d \in reads, c = Aged(d) PROVE DOMAIN c = ReadFields /\ c.live = FALSE
      BY <3>2, AgedShape DEF DataShape
    <3> QED
      BY <2>1, <3>1, <3>2
  <2> QED
    BY <2>2
<1> QED
  BY <1>2, <1>3 DEF Ask, Aged

\* A read that may still be shown has what was waited for; a question keeps the keys it
\* was asked about.
EditsCounted ==
  /\ version \in Nat /\ acked \in Nat /\ acked <= version
  /\ \A e \in edits : e.done = None \/ (e.done \in Nat /\ e.done <= version)
ReadsFresh == \A c \in reads : c.live /\ c.answer # None /\ c.answer.ok => c.at >= acked
PendingKeys ==
  pendingDelete # None /\ result.rows # None => pendingDelete.asked = KeysAt(pendingDelete.places)
DataInv == DataShape /\ EditsCounted /\ ReadsFresh /\ PendingKeys /\ DeletesTheRowsAsked /\ SettledRowsHaveMyWrites

Replaced == Marked(result') \/ Cleared(result')

LEMMA RowsKept ==
  ASSUME DataInv, Replaced \/ (result' = result /\ acked' = acked),
         pendingDelete' = pendingDelete \/ pendingDelete' = None
  PROVE  DOMAIN result' = ResultFields /\ PendingKeys' /\ SettledRowsHaveMyWrites'
<1>1. CASE Marked(result')
  BY <1>1 DEF Marked, DataInv, PendingKeys, SettledRowsHaveMyWrites, KeysAt, RowCount
<1>2. CASE Cleared(result')
  BY <1>2 DEF Cleared, PendingKeys, SettledRowsHaveMyWrites
<1>3. CASE result' = result /\ acked' = acked
  BY <1>3 DEF DataInv, DataShape, PendingKeys, SettledRowsHaveMyWrites, KeysAt, RowCount
<1> QED
  BY <1>1, <1>2, <1>3 DEF Replaced

LEMMA AskStep ==
  ASSUME DataInv, NEW q, NEW known, NEW kept, NEW reload \in BOOLEAN, Ask(q, known, kept, reload),
         Replaced \/ (result' = result /\ acked' = acked),
         reload \/ acked' = acked,
         pendingDelete' = pendingDelete \/ pendingDelete' = None,
         edits' \subseteq edits, EditsCounted'
  PROVE  DataInv'
<1>1. DOMAIN result' = ResultFields /\ PendingKeys' /\ SettledRowsHaveMyWrites'
  BY RowsKept
<1>2. DataShape
  BY DEF DataInv
<1>3. ReadsFresh'
  BY <1>2, AskShape DEF ReadsFresh, DataInv
<1>4. DataShape'
  BY ZenonT(60), <1>1, <1>2, AskShape DEF DataShape
<1>5. DeletesTheRowsAsked'
  BY DEF DataInv, DeletesTheRowsAsked
<1> QED
  BY <1>1, <1>3, <1>4, <1>5 DEF DataInv

LEMMA CountsKept ==
  ASSUME DataInv, UNCHANGED acked, version' \in {version, version + 1}, edits' \subseteq edits
  PROVE  EditsCounted'
BY DEF DataInv, EditsCounted

LEMMA RequeryStep ==
  ASSUME DataInv, NEW q, NEW reload \in BOOLEAN, Requery(q, reload),
         version' \in {version, version + 1}, UNCHANGED <<pendingDelete, edits, acked>>
  PROVE  DataInv'
<1>1. Ask(q, columnsKnown, cursors, reload)
  BY DEF Requery
<1>2. Replaced \/ result' = result
  BY ResultUpdates DEF Requery, DataInv, Replaced
<1>3. EditsCounted'
  BY CountsKept
<1> QED
  BY <1>1, <1>2, <1>3, AskStep

LEMMA QueryingStep == ASSUME DataInv, Querying PROVE DataInv'
<1>1. ASSUME NEW q, Browse(q) PROVE DataInv'
  BY <1>1, RequeryStep DEF Browse, KeepChoices, serverVars
<1>2. CASE ClearWhere \/ OnSort \/ NextPage \/ PreviousPage
  BY <1>1, <1>2 DEF ClearWhere, OnSort, NextPage, PreviousPage, GoToPage
<1>3. ASSUME NEW w, ApplyWhere(w) \/ OnPageSizeChange(w) \/ SubmitPageDraft(w) PROVE DataInv'
  BY <1>1, <1>3 DEF ApplyWhere, OnPageSizeChange, SubmitPageDraft, GoToPage
<1>4. CASE Refresh
  BY <1>4, RequeryStep DEF Refresh, KeepChoices, serverVars
<1>5. CASE ReloadTable
  BY <1>5, RequeryStep DEF ReloadTable
<1>6. ASSUME NEW shown, SetVisibleColumns(shown) PROVE DataInv'
  <2>1. PICK q : Ask(q, columnsKnown, cursors, FALSE)
    BY <1>6 DEF SetVisibleColumns
  <2>2. Replaced \/ result' = result
    BY <1>6, ResultUpdates DEF SetVisibleColumns, DataInv, Replaced
  <2>3. UNCHANGED <<pendingDelete, edits, acked, version>>
    BY <1>6 DEF SetVisibleColumns, KeepChoices, serverVars
  <2> QED
    BY <2>1, <2>2, <2>3, AskStep, CountsKept
<1>7. CASE Cancel
  <2>1. UNCHANGED <<result, reads, pendingDelete, edits, acked, version>>
    BY <1>7 DEF Cancel, KeepChoices, serverVars
  <2> QED
    BY <2>1, RowsKept, CountsKept DEF DataInv, DataShape, ReadsFresh, DeletesTheRowsAsked
<1>8. ASSUME NEW x, Cancelled(x) PROVE DataInv'
  <2>1. UNCHANGED <<pendingDelete, edits, acked, version>>
    BY <1>8 DEF Cancelled, KeepChoices, serverVars
  <2>2. Replaced \/ result' = result
    BY <1>8, ResultUpdates DEF Cancelled, DataInv, Replaced
  <2>3. ASSUME NEW c \in reads'
        PROVE  \E d \in reads : DOMAIN c = ReadFields /\ c.live = d.live /\ c.answer = d.answer /\ c.at = d.at
    BY <1>8, <2>3 DEF Cancelled, DataInv, DataShape, ReadFields
  <2> QED
    BY <2>1, <2>2, <2>3, RowsKept, CountsKept DEF DataInv, DataShape, ReadsFresh, DeletesTheRowsAsked
<1> QED
  BY <1>1, <1>2, <1>3, <1>4, <1>5, <1>6, <1>7, <1>8 DEF Querying

LEMMA ReadingStep == ASSUME DataInv, Reading PROVE DataInv'
<1>1. ASSUME NEW c \in reads, Serve(c) PROVE DataInv'
  <2>1. UNCHANGED <<result, pendingDelete, edits, acked, version>>
    BY <1>1 DEF Serve, serverVars, choiceVars
  <2>2. PICK ok \in BOOLEAN : reads' = (reads \ {c}) \cup
          {[c EXCEPT !.answer = IF ok THEN Found(stored, c.request) ELSE [ok |-> FALSE], !.at = IF ok THEN version ELSE 0]}
    BY <1>1 DEF Serve
  <2> DEFINE d == [c EXCEPT !.answer = IF ok THEN Found(stored, c.request) ELSE [ok |-> FALSE],
                            !.at = IF ok THEN version ELSE 0]
  <2>3. DOMAIN c = ReadFields
    BY DEF DataInv, DataShape
  <2>4. DOMAIN d = ReadFields /\ (d.at = version \/ d.answer = [ok |-> FALSE])
    BY <2>3 DEF ReadFields
  <2>5. DOMAIN d = ReadFields /\ (d.live /\ d.answer # None /\ d.answer.ok => d.at >= acked)
    BY <2>4 DEF DataInv, EditsCounted
  <2>6. DataShape' /\ ReadsFresh'
    BY <2>1, <2>2, <2>5 DEF DataInv, DataShape, ReadsFresh
  <2> QED
    BY <2>1, <2>6, RowsKept, CountsKept DEF DataInv, DeletesTheRowsAsked
<1>2. ASSUME NEW c \in reads, ReadIgnored(c) PROVE DataInv'
  <2>1. UNCHANGED <<result, pendingDelete, edits, acked, version>> /\ reads' \subseteq reads
    BY <1>2 DEF ReadIgnored, serverVars, choiceVars
  <2> QED
    BY <2>1, RowsKept, CountsKept DEF DataInv, DataShape, ReadsFresh, DeletesTheRowsAsked
<1>3. ASSUME NEW c \in reads, ReadFailed(c) PROVE DataInv'
  <2>1. UNCHANGED <<pendingDelete, edits, acked, version>> /\ reads' \subseteq reads
    BY <1>3 DEF ReadFailed, serverVars, choiceVars
  <2>2. Replaced
    BY <1>3, ResultUpdates DEF ReadFailed, DataInv, Replaced
  <2> QED
    BY <2>1, <2>2, RowsKept, CountsKept DEF DataInv, DataShape, ReadsFresh, DeletesTheRowsAsked
<1>4. ASSUME NEW c \in reads, RowsArrive(c) PROVE DataInv'
  <2>1. UNCHANGED <<edits, acked, version>> /\ pendingDelete' = None
    BY <1>4 DEF RowsArrive, RowsRead, serverVars
  <2>2. c.at >= acked
    BY <1>4 DEF RowsArrive, Ignored, DataInv, ReadsFresh
  <2>7. \/ reads' = reads \ {c} /\ \E r, f : result' = [request |-> r, rows |-> f.rows, found |-> f, error |-> FALSE,
                                                       loading |-> FALSE, cancelled |-> FALSE, at |-> c.at]
        \/ \E id, r : reads' = (reads \ {c}) \cup {Read(id, r)} /\ result' = NoResult(r)
    <3>1. RowsRead(c)
      BY <1>4 DEF RowsArrive
    <3> QED
      BY <3>1, Zenon DEF RowsRead
  <2>8. ASSUME NEW id, NEW r PROVE Unanswered(Read(id, r)) /\ DOMAIN NoResult(r) = ResultFields /\ NoResult(r).loading = TRUE
    BY DEF Unanswered, Read, ReadFields, NoResult, ResultFields
  <2>3. \A d \in reads' : d \in reads \/ Unanswered(d)
    <3>1. ASSUME NEW d \in reads', d \notin reads PROVE Unanswered(d)
      <4>1. PICK id, r : d = Read(id, r)
        BY <2>7, <3>1
      <4> QED
        BY <2>8, <4>1
    <3> QED
      BY <3>1
  <2>4. DOMAIN result' = ResultFields /\ (result'.at >= acked \/ result'.loading = TRUE)
    <3>1. CASE \E r : result' = NoResult(r)
      BY <2>8, <3>1
    <3>2. CASE \E r, f : result' = [request |-> r, rows |-> f.rows, found |-> f, error |-> FALSE,
                                    loading |-> FALSE, cancelled |-> FALSE, at |-> c.at]
      BY <2>2, <3>2 DEF ResultFields
    <3> QED
      BY <2>7, <3>1, <3>2
  <2>5. DataShape' /\ ReadsFresh'
    BY <2>1, <2>3, <2>4 DEF DataInv, DataShape, ReadsFresh, Unanswered
  <2>6. PendingKeys' /\ SettledRowsHaveMyWrites'
    BY <2>1, <2>4 DEF PendingKeys, SettledRowsHaveMyWrites
  <2> QED
    BY <2>1, <2>5, <2>6, CountsKept DEF DataInv, DeletesTheRowsAsked
<1> QED
  BY <1>1, <1>2, <1>3, <1>4 DEF Reading

\* Choosing rows, asking about them and filling in forms leaves what was read alone.
LEMMA ChoiceStep ==
  ASSUME DataInv, UNCHANGED <<result, reads, acked, version>>,
         \A e \in edits' : e \in edits \/ (DOMAIN e = EditFields /\ e.done = None /\ e.keys = e.asked),
         PendingKeys'
  PROVE  DataInv'
<1>1. DataShape'
  BY DEF DataInv, DataShape
<1>2. EditsCounted' /\ ReadsFresh' /\ SettledRowsHaveMyWrites' /\ DeletesTheRowsAsked'
  BY DEF DataInv, EditsCounted, ReadsFresh, SettledRowsHaveMyWrites, DeletesTheRowsAsked
<1> QED
  BY <1>1, <1>2 DEF DataInv

LEMMA KeysKept ==
  ASSUME DataInv, UNCHANGED result, pendingDelete' = pendingDelete \/ pendingDelete' = None
  PROVE  PendingKeys'
BY DEF DataInv, PendingKeys, KeysAt, RowCount

LEMMA ChoosingStep == ASSUME DataInv, Choosing PROVE DataInv'
<1>1. UNCHANGED <<result, reads, acked, version, edits, pendingDelete>>
  BY DEF Choosing, TogglePage, ClearSelection, ToggleRow, KeepQuery, queryVars, serverVars
<1> QED
  BY <1>1, ChoiceStep, KeysKept

LEMMA EditingStep == ASSUME DataInv, Editing PROVE DataInv'
<1>1. ASSUME NEW places, RequestDelete(places) PROVE DataInv'
  <2>1. UNCHANGED <<result, reads, acked, version, edits>>
    BY <1>1 DEF RequestDelete, KeepQuery, queryVars, serverVars
  <2>2. PendingKeys'
    BY <1>1, <2>1 DEF RequestDelete, PendingKeys, KeysAt, RowCount
  <2> QED
    BY <2>1, <2>2, ChoiceStep
<1>2. ASSUME NEW mode, NEW i, OpenEditor(mode, i) \/ CancelDelete \/ CloseEditor PROVE DataInv'
  <2>1. UNCHANGED <<result, reads, acked, version, edits>> /\ (pendingDelete' = pendingDelete \/ pendingDelete' = None)
    BY <1>2 DEF OpenEditor, CancelDelete, CloseEditor, KeepQuery, queryVars, serverVars
  <2> QED
    BY <2>1, ChoiceStep, KeysKept
<1>3. ASSUME NEW kind, NEW keys, NEW asked, Edit(kind, keys, asked), keys = asked,
             UNCHANGED <<result, reads, acked, version>>, pendingDelete' = pendingDelete \/ pendingDelete' = None
      PROVE  DataInv'
  <2>1. \A e \in edits' : e \in edits \/ (DOMAIN e = EditFields /\ e.done = None /\ e.keys = e.asked)
    BY <1>3 DEF Edit, EditFields
  <2> QED
    BY <1>3, <2>1, ChoiceStep, KeysKept
<1>4. CASE ConfirmDelete
  <2>1. pendingDelete.asked = KeysAt(pendingDelete.places)
    BY <1>4 DEF ConfirmDelete, DataInv, PendingKeys
  <2> QED
    BY <1>3, <1>4, <2>1 DEF ConfirmDelete, KeepQuery, queryVars, serverVars
<1>5. CASE SubmitEditor
  BY <1>3, <1>5 DEF SubmitEditor, KeepQuery, queryVars, serverVars
<1>6. ASSUME NEW i, SaveJsonCell(i) PROVE DataInv'
  BY <1>3, <1>6 DEF SaveJsonCell, KeepQuery, queryVars, serverVars, choiceVars
<1>7. ASSUME NEW e \in edits, EditServed(e) PROVE DataInv'
  <2>1. UNCHANGED <<result, reads, acked, pendingDelete>>
    BY <1>7 DEF EditServed, queryVars, choiceVars
  <2>2. DOMAIN e = EditFields /\ e.keys = e.asked
    BY DEF DataInv, DataShape, DeletesTheRowsAsked
  <2>3. PICK done : /\ edits' = (edits \ {e}) \cup {[e EXCEPT !.done = done]}
                    /\ (done = version + 1 /\ version' = version + 1) \/ (done = 0 /\ version' = version)
    BY <1>7 DEF EditServed
  <2>4. /\ DOMAIN [e EXCEPT !.done = done] = EditFields /\ [e EXCEPT !.done = done].done = done
        /\ [e EXCEPT !.done = done].keys = e.keys /\ [e EXCEPT !.done = done].asked = e.asked
    BY <2>2 DEF EditFields
  <2>7. version \in Nat /\ acked \in Nat /\ acked <= version
    BY DEF DataInv, EditsCounted
  <2>8. version' \in Nat /\ version <= version' /\ done \in Nat /\ done <= version'
    BY <2>3, <2>7
  <2>9. \A d \in edits : d.done = None \/ (d.done \in Nat /\ d.done <= version')
    BY <2>7, <2>8 DEF DataInv, EditsCounted
  <2>5. EditsCounted'
    <3>1. version' \in Nat /\ acked' \in Nat /\ acked' <= version'
      BY <2>1, <2>7, <2>8
    <3>2. ASSUME NEW d \in edits' PROVE d.done = None \/ (d.done \in Nat /\ d.done <= version')
      <4>1. CASE d \in edits
        BY <2>9, <4>1
      <4>2. CASE d = [e EXCEPT !.done = done]
        BY <2>4, <2>8, <4>2
      <4> QED
        BY <2>3, <4>1, <4>2
    <3> QED
      BY <3>1, <3>2 DEF EditsCounted
  <2>6. DataShape' /\ DeletesTheRowsAsked'
    BY <2>1, <2>2, <2>3, <2>4 DEF DataInv, DataShape, DeletesTheRowsAsked
  <2> QED
    BY <2>1, <2>5, <2>6, KeysKept DEF DataInv, ReadsFresh, SettledRowsHaveMyWrites
<1>8. ASSUME NEW e \in edits, EditDone(e) PROVE DataInv'
  <2>1. UNCHANGED <<version, pendingDelete>> /\ edits' \subseteq edits
    BY <1>8 DEF EditDone, serverVars
  <2>2. EditsCounted'
    BY <1>8, <2>1 DEF EditDone, DataInv, EditsCounted
  <2>3. Replaced
    BY <1>8, ResultUpdates DEF EditDone, DataInv, Replaced
  <2> QED
    BY <1>8, <2>1, <2>2, <2>3, AskStep DEF EditDone
<1>9. ASSUME NEW e \in edits, EditFailed(e) PROVE DataInv'
  <2>1. UNCHANGED <<result, reads, acked, version, pendingDelete>> /\ edits' \subseteq edits
    BY <1>9 DEF EditFailed, KeepQuery, queryVars, serverVars
  <2> QED
    BY <2>1, ChoiceStep, KeysKept
<1> QED
  BY <1>1, <1>2, <1>4, <1>5, <1>6, <1>7, <1>8, <1>9 DEF Editing, DeleteSelected

LEMMA DataInvHolds == DataSpec => []DataInv
<1>1. ASSUME DataInit PROVE DataInv
  <2>1. /\ result = NoResult(Request(Start, FALSE, <<>>)) /\ reads = {Read(1, Request(Start, FALSE, <<>>))}
        /\ edits = {} /\ version = 0 /\ acked = 0 /\ pendingDelete = None
    BY <1>1 DEF DataInit
  <2>2. ASSUME NEW r PROVE DOMAIN NoResult(r) = ResultFields /\ NoResult(r).loading = TRUE /\ Unanswered(Read(1, r))
    BY DEF NoResult, ResultFields, Unanswered, Read, ReadFields
  <2>3. DataShape /\ SettledRowsHaveMyWrites /\ ReadsFresh
    BY <2>1, <2>2 DEF DataShape, SettledRowsHaveMyWrites, ReadsFresh, Unanswered
  <2> QED
    BY <2>1, <2>3 DEF DataInv, EditsCounted, PendingKeys, DeletesTheRowsAsked
<1>3. DataInv /\ [DataNext]_dataVars => DataInv'
  <2>1. ASSUME DataInv, UNCHANGED dataVars PROVE DataInv'
    BY <2>1, ChoiceStep, KeysKept DEF dataVars
  <2> QED
    BY <2>1, ReadingStep, ChoosingStep, QueryingStep, EditingStep DEF DataNext
<1> QED
  BY <1>1, <1>3, PTL DEF DataSpec

\* What is deleted are the rows the question was asked about, however often the page is
\* read again meanwhile (table-data-row-hooks.ts:71-76, 147-171).
THEOREM DeletedRowsWereAsked == DataSpec => []DeletesTheRowsAsked
<1>1. DataInv => DeletesTheRowsAsked
  BY DEF DataInv
<1> QED
  BY <1>1, DataInvHolds, PTL

\* A settled view shows rows that were read after each of its own writes
\* (table-data-query-hooks.ts:148-194).
THEOREM SettledRowsAreMine == DataSpec => []SettledRowsHaveMyWrites
<1>1. DataInv => SettledRowsHaveMyWrites
  BY DEF DataInv
<1> QED
  BY <1>1, DataInvHolds, PTL

-----------------------------------------------------------------------------
(* The place of a key in a listing                                         *)

Below(S, k) == {j \in S : j < k}
Rank(S, k) == Cardinality(Below(S, k))
Behind(S, k) == {j \in S : j > k}

LEMMA RankType ==
  ASSUME NEW S \in SUBSET Int, IsFiniteSet(S), NEW k
  PROVE  IsFiniteSet(Below(S, k)) /\ Rank(S, k) \in Nat
<1>1. Below(S, k) \in SUBSET S
  BY DEF Below
<1> QED
  BY <1>1, FS_Subset, FS_CardinalityType DEF Rank

\* A key has a lower place than those after it.
LEMMA RankGrows ==
  ASSUME NEW S \in SUBSET Int, IsFiniteSet(S), NEW k \in S, NEW m \in Int, k < m
  PROVE  Rank(S, k) < Rank(S, m)
<1>1. IsFiniteSet(Below(S, k)) /\ IsFiniteSet(Below(S, m)) /\ Rank(S, k) \in Nat /\ Rank(S, m) \in Nat
  BY RankType
<1>2. k \notin Below(S, k) /\ Below(S, k) \cup {k} \in SUBSET Below(S, m)
  <2>1. ~(k < k) /\ \A j \in S : j < k => j < m
    <3>1. k \in Int /\ \A j \in S : j \in Int
      OBVIOUS
    <3> QED
      BY <3>1
  <2> QED
    BY <2>1 DEF Below
<1>3. Cardinality(Below(S, k) \cup {k}) = Rank(S, k) + 1
  BY <1>1, <1>2, FS_AddElement DEF Rank
<1>4. Cardinality(Below(S, k) \cup {k}) <= Rank(S, m)
  BY <1>1, <1>2, FS_Subset DEF Rank
<1> QED
  BY <1>1, <1>3, <1>4

LEMMA RankBound ==
  ASSUME NEW S \in SUBSET Int, IsFiniteSet(S), NEW k \in S
  PROVE  Rank(S, k) < Cardinality(S)
<1>1. IsFiniteSet(Below(S, k)) /\ Rank(S, k) \in Nat /\ Cardinality(S) \in Nat
  BY RankType, FS_CardinalityType
<1>2. k \notin Below(S, k) /\ Below(S, k) \cup {k} \in SUBSET S
  BY DEF Below
<1>3. Cardinality(Below(S, k) \cup {k}) = Rank(S, k) + 1
  BY <1>1, <1>2, FS_AddElement DEF Rank
<1>4. Cardinality(Below(S, k) \cup {k}) <= Cardinality(S)
  BY <1>2, FS_Subset
<1> QED
  BY <1>1, <1>3, <1>4

LEMMA RankInjective ==
  ASSUME NEW S \in SUBSET Int, IsFiniteSet(S), NEW k \in S, NEW m \in S, Rank(S, k) = Rank(S, m)
  PROVE  k = m
<1>1. Rank(S, k) \in Nat /\ k \in Int /\ m \in Int
  BY RankType
<1>2. ~(k < m) /\ ~(m < k)
  BY <1>1, RankGrows
<1> QED
  BY <1>1, <1>2

LEMMA CountPlaces ==
  ASSUME NEW n \in Nat
  PROVE  IsFiniteSet(0..(n - 1)) /\ Cardinality(0..(n - 1)) = n
<1>1. n - 1 \in Int /\ (0 > n - 1 <=> n = 0)
  OBVIOUS
<1> QED
  BY <1>1, FS_Interval

\* Every place is taken.
LEMMA RanksCover ==
  ASSUME NEW S \in SUBSET Int, IsFiniteSet(S), NEW n \in Nat, n < Cardinality(S)
  PROVE  \E k \in S : Rank(S, k) = n
<1> DEFINE T == 0..(Cardinality(S) - 1)
           f == [k \in S |-> Rank(S, k)]
<1>1. Cardinality(S) \in Nat
  BY FS_CardinalityType
<1>2. IsFiniteSet(T) /\ Cardinality(T) = Cardinality(S)
  BY <1>1, CountPlaces
<1>3. \A k \in S : Rank(S, k) \in T
  BY <1>1, RankBound, RankType
<1>4. f \in Injection(S, T)
  <2>1. f \in [S -> T]
    BY <1>3
  <2>2. \A k, m \in S : f[k] = f[m] => k = m
    BY RankInjective
  <2> QED
    BY <2>1, <2>2 DEF Injection, IsInjective
<1>5. f \in Surjection(S, T)
  BY <1>2, <1>4, FS_Injection
<1>6. n \in T
  BY <1>1
<1> QED
  BY <1>5, <1>6 DEF Surjection

\* Places after a key are counted from it.
LEMMA CountBehind ==
  ASSUME NEW S \in SUBSET Int, IsFiniteSet(S), NEW a \in S
  PROVE  /\ IsFiniteSet(Behind(S, a))
         /\ Cardinality(Behind(S, a)) = Cardinality(S) - Rank(S, a) - 1
<1> DEFINE B == Below(S, a) \cup {a}
<1>1. Behind(S, a) \in SUBSET S
  BY DEF Behind
<1>2. IsFiniteSet(Behind(S, a)) /\ IsFiniteSet(Below(S, a)) /\ Rank(S, a) \in Nat
  BY <1>1, FS_Subset, RankType
<1>3. IsFiniteSet(B) /\ Cardinality(B) = Rank(S, a) + 1
  <2>1. a \notin Below(S, a)
    BY DEF Below
  <2> QED
    BY <1>2, <2>1, FS_AddElement DEF Rank
<1>4. B \cup Behind(S, a) = S /\ B \cap Behind(S, a) = {}
  <2>1. \A j \in S : j \in Int /\ a \in Int
    OBVIOUS
  <2>2. \A j \in S : j < a \/ j = a \/ j > a
    BY <2>1
  <2>3. \A j \in S : ~(j > a /\ (j < a \/ j = a))
    BY <2>1
  <2> QED
    BY <2>2, <2>3 DEF Below, Behind
<1>5. Cardinality(B \cup Behind(S, a)) = Cardinality(B) + Cardinality(Behind(S, a)) - Cardinality(B \cap Behind(S, a))
  BY <1>2, <1>3, FS_Union
<1>6. Cardinality(B \cap Behind(S, a)) = 0
  BY <1>4, FS_EmptySet
<1>7. Cardinality(S) \in Nat /\ Cardinality(Behind(S, a)) \in Nat
  BY <1>2, FS_CardinalityType
<1> HIDE DEF B
<1> QED
  BY <1>2, <1>3, <1>4, <1>5, <1>6, <1>7

LEMMA RankBehind ==
  ASSUME NEW S \in SUBSET Int, IsFiniteSet(S), NEW a \in S, NEW k \in Behind(S, a)
  PROVE  Rank(S, k) = Rank(Behind(S, a), k) + Rank(S, a) + 1
<1> DEFINE C == Below(S, k)
<1>1. C \in SUBSET Int /\ IsFiniteSet(C) /\ a \in C
  BY RankType DEF Below, Behind
<1>2. Cardinality(Behind(C, a)) = Cardinality(C) - Rank(C, a) - 1
  BY <1>1, CountBehind
<1>3. Behind(C, a) = Below(Behind(S, a), k) /\ Below(C, a) = Below(S, a)
  <2>1. \A j \in S : j \in Int /\ a \in Int /\ k \in Int /\ k > a
    BY DEF Behind
  <2>2. \A j \in S : j < a => j < k
    BY <2>1
  <2> QED
    BY <2>2 DEF Below, Behind
<1>4. Rank(C, a) \in Nat /\ Cardinality(C) \in Nat
  BY <1>1, RankType, FS_CardinalityType
<1>5. Rank(Behind(S, a), k) = Rank(S, k) - Rank(S, a) - 1
  BY <1>2, <1>3 DEF Rank
<1>6. Rank(S, k) \in Nat /\ Rank(S, a) \in Nat
  BY RankType
<1> QED
  BY <1>5, <1>6

-----------------------------------------------------------------------------
(* Pages                                                                   *)

Between(S, order, lo, hi) == {k \in S : Position(S, order, k) \in lo..hi}
Placed(on, order) ==
  [i \in 1..Cardinality(on) |-> CHOOSE k \in on : Position(on, order, k) = i - 1]

LEMMA PagePlaced ==
  ASSUME NEW S, NEW order, NEW page, NEW size
  PROVE  PageOf(S, order, page, size) = Placed(Between(S, order, (page - 1) * size, page * size - 1), order)
BY Zenon DEF PageOf, Placed, Between

LEMMA PositionIsRank ==
  ASSUME TableAssumption, NEW S, NEW k
  PROVE  Position(S, None, k) = Rank(S, k)
<1>1. {j \in S : IF None = "DESC" THEN j > k ELSE j < k} = Below(S, k)
  BY DEF TableAssumption, Below
<1> QED
  BY <1>1 DEF Position, Rank

LEMMA Offsets ==
  ASSUME NEW page \in Nat \ {0}, NEW size \in Nat \ {0}
  PROVE  /\ (page - 1) * size \in Nat /\ page * size = (page - 1) * size + size
         /\ (1 - 1) * size = 0 /\ 1 * size = size
<1>1. page - 1 \in Nat /\ size \in Nat
  OBVIOUS
<1>2. page * size = (page - 1) * size + size
  BY <1>1
<1> QED
  BY <1>1, <1>2

\* The first page of what comes after the last key of a page is the next page.
LEMMA PageBehind ==
  ASSUME TableAssumption, NEW S \in SUBSET Int, IsFiniteSet(S), NEW a \in S,
         NEW page \in Nat \ {0}, NEW size \in Nat \ {0}, Rank(S, a) = (page - 1) * size - 1
  PROVE  PageOf(Behind(S, a), None, 1, size) = PageOf(S, None, page, size)
<1> DEFINE lo == (page - 1) * size
<1>1. lo \in Nat /\ page * size = lo + size /\ (1 - 1) * size = 0 /\ 1 * size = size
  BY Offsets
<1>2. ASSUME NEW k \in Behind(S, a)
      PROVE  Position(Behind(S, a), None, k) \in 0..(size - 1) <=> Position(S, None, k) \in lo..(lo + size - 1)
  <2>1. Behind(S, a) \in SUBSET Int /\ IsFiniteSet(Behind(S, a))
    BY CountBehind DEF Behind
  <2>2. Rank(Behind(S, a), k) \in Nat /\ Rank(S, k) = Rank(Behind(S, a), k) + lo
    <3>1. Rank(S, k) = Rank(Behind(S, a), k) + Rank(S, a) + 1 /\ Rank(Behind(S, a), k) \in Nat
      BY <2>1, RankBehind, RankType
    <3> HIDE DEF lo
    <3>2. Rank(S, a) = lo - 1
      BY DEF lo
    <3> QED
      BY <1>1, <3>1, <3>2
  <2> HIDE DEF lo
  <2>3. Rank(Behind(S, a), k) \in 0..(size - 1) <=> Rank(S, k) \in lo..(lo + size - 1)
    BY <1>1, <2>2
  <2> QED
    BY <2>3, PositionIsRank
<1>3. ASSUME NEW k \in S, k \notin Behind(S, a) PROVE Position(S, None, k) \notin lo..(lo + size - 1)
  <2>1. ~(k > a) /\ k \in Int /\ a \in Int
    BY <1>3 DEF Behind
  <2>2. k = a \/ k < a
    BY <2>1
  <2>3. Rank(S, k) <= Rank(S, a) /\ Rank(S, k) \in Int /\ Rank(S, a) \in Int
    BY <2>1, <2>2, RankGrows, RankType
  <2> HIDE DEF lo
  <2>4. Rank(S, a) = lo - 1
    BY DEF lo
  <2>5. Rank(S, k) < lo
    BY <1>1, <2>3, <2>4
  <2> QED
    BY <1>1, <2>3, <2>5, PositionIsRank
<1>4. Behind(S, a) \subseteq S
  BY DEF Behind
<1> HIDE DEF lo
<1>5. Between(Behind(S, a), None, 0, size - 1) = Between(S, None, lo, lo + size - 1)
  BY <1>2, <1>3, <1>4 DEF Between
<1>6. PageOf(Behind(S, a), None, 1, size) = Placed(Between(Behind(S, a), None, 0, size - 1), None)
  BY <1>1, PagePlaced
<1>7. PageOf(S, None, page, size) = Placed(Between(S, None, lo, lo + size - 1), None)
  BY <1>1, PagePlaced DEF lo
<1> QED
  BY <1>5, <1>6, <1>7

\* With more to come, the last row of a page is the one before the next page.
LEMMA LastOfPage ==
  ASSUME TableAssumption, NEW S \in SUBSET Int, IsFiniteSet(S),
         NEW page \in Nat \ {0}, NEW size \in Nat \ {0}, Cardinality(S) > page * size,
         NEW rows, rows = PageOf(S, None, page, size)
  PROVE  /\ rows[Cardinality(DOMAIN rows)] \in S
         /\ Rank(S, rows[Cardinality(DOMAIN rows)]) = page * size - 1
<1> DEFINE lo == (page - 1) * size
           hi == page * size - 1
           on == Between(S, None, lo, hi)
           n == Cardinality(on)
<1>1. lo \in Nat /\ hi = lo + size - 1 /\ hi \in Nat /\ lo <= hi
  <2>1. lo \in Nat /\ page * size = lo + size
    BY Offsets
  <2> HIDE DEF lo
  <2> QED
    BY <2>1
<1>2. PICK x \in S : Rank(S, x) = hi
  <2>1. hi < Cardinality(S) /\ Cardinality(S) \in Nat
    <3>1. page * size \in Int /\ Cardinality(S) \in Nat
      BY FS_CardinalityType
    <3> QED
      BY <3>1
  <2> QED
    BY <1>1, <2>1, RanksCover
<1> HIDE DEF lo, hi
<1>3. on \in SUBSET Int /\ IsFiniteSet(on) /\ x \in on
  <2>1. x \in on
    BY <1>1, <1>2, PositionIsRank DEF Between
  <2>2. on \in SUBSET S
    BY DEF Between
  <2> QED
    BY <2>1, <2>2, FS_Subset
<1>4. ASSUME NEW j \in on PROVE j <= x
  <2>1. j \in S /\ Rank(S, j) <= hi /\ Rank(S, j) \in Int
    BY <1>1, RankType, PositionIsRank DEF Between
  <2>2. ~(x < j)
    BY <1>1, <1>2, <2>1, RankGrows
  <2> QED
    BY <2>1, <2>2
<1> HIDE DEF on
<1>5. Below(on, x) = on \ {x}
  <2>1. ASSUME NEW j \in on PROVE j < x <=> j # x
    BY <1>3, <1>4
  <2> QED
    BY <2>1 DEF Below
<1>6. n \in Nat /\ n >= 1 /\ Rank(on, x) = n - 1
  <2>1. n \in Nat /\ Cardinality(on \ {x}) = n - 1
    BY <1>3, FS_RemoveElement, FS_CardinalityType
  <2>2. n # 0
    BY <1>3, FS_EmptySet
  <2> QED
    BY <1>5, <2>1, <2>2 DEF Rank
<1>7. rows = Placed(on, None)
  BY PagePlaced DEF on, lo, hi
<1>8. Cardinality(DOMAIN rows) = n
  <2>1. DOMAIN rows = 1..n
    BY <1>7 DEF Placed
  <2> QED
    BY <1>6, <2>1, FS_Interval
<1>9. rows[n] = CHOOSE k \in on : Position(on, None, k) = n - 1
  BY <1>6, <1>7 DEF Placed
<1>10. rows[n] = x
  <2>1. \A k \in on : Position(on, None, k) = n - 1 => k = x
    BY <1>3, <1>6, RankInjective, PositionIsRank
  <2>2. Position(on, None, x) = n - 1
    BY <1>6, PositionIsRank
  <2> QED
    BY <1>3, <1>9, <2>1, <2>2
<1> QED
  BY <1>2, <1>8, <1>10 DEF hi

-----------------------------------------------------------------------------
(* Every read and every remembered key is of the listing as it is          *)

QueryFields == {"page", "size", "where", "order", "columns"}
Fitting(q) == DOMAIN q = QueryFields /\ q.page \in Nat \ {0} /\ q.size \in Sizes
Listing(q) == stored \cap Wheres[q.where]
KeyFits(k, page, q) == k \in Listing(q) /\ Rank(Listing(q), k) = (page - 1) * q.size - 1
FoundFor(f, r) == f = Found(stored, r)
CursorsFit == \A p \in DOMAIN cursors : KeyFits(cursors[p], p, query)
ReadsFit ==
  /\ \A c \in reads : c.live => c.request = result.request
  /\ \A c, d \in reads : c.live /\ d.live => c = d
  /\ \A c \in reads : c.answer # None /\ c.answer.ok => FoundFor(c.answer, c.request)
ResultFits ==
  /\ result.request = Request(query, columnsKnown, cursors)
  /\ result.rows # None => FoundFor(result.found, result.request) /\ result.rows = result.found.rows
PagesFit ==
  /\ stored = InitialKeys /\ readSeq \in Nat /\ Fitting(query)
  /\ CursorsFit /\ ReadsFit /\ ResultFits
PagesInv == version = 0 => PagesFit

LEMMA FoundKept ==
  ASSUME UNCHANGED <<stored, exact>>
  PROVE  \A f, r : FoundFor(f, r)' <=> FoundFor(f, r)
<1>1. ASSUME NEW f, NEW r PROVE FoundFor(f, r)' <=> FoundFor(f, r)
  BY DEF FoundFor, Found
<1> QED
  BY <1>1

\* The rows of a page are as many as places.
LEMMA PageCount ==
  ASSUME NEW S \in SUBSET Int, IsFiniteSet(S), NEW order, NEW page, NEW size
  PROVE  Cardinality(DOMAIN PageOf(S, order, page, size)) \in Nat
<1> DEFINE on == Between(S, order, (page - 1) * size, page * size - 1)
<1>1. on \in SUBSET S
  BY DEF Between
<1>2. Cardinality(on) \in Nat
  BY <1>1, FS_Subset, FS_CardinalityType
<1> HIDE DEF on
<1>3. DOMAIN PageOf(S, order, page, size) = 1..Cardinality(on)
  BY PagePlaced DEF Placed, on
<1> QED
  BY <1>2, <1>3, FS_Interval, FS_CardinalityType

\* What is asked for is a page of the listing, by OFFSET or after a key.
LEMMA RequestedPage ==
  ASSUME TableAssumption, PagesFit,
         NEW r, r = Request(query, columnsKnown, cursors), NEW f, FoundFor(f, r)
  PROVE  /\ f.rows = PageOf(Listing(query), query.order, query.page, query.size)
         /\ f.total \in Nat
         /\ f.next # None => KeyFits(f.next, query.page + 1, query)
<1> DEFINE M == Listing(query)
           A == IF r.after = None THEN M ELSE Behind(M, r.after)
           from == IF r.after = None THEN r.page ELSE 1
           rows == PageOf(A, r.order, from, r.size)
           n == Cardinality(DOMAIN rows)
<1>1. /\ r.page = query.page /\ r.size = query.size /\ r.where = query.where /\ r.order = query.order
      /\ r.after # None => query.order = None /\ KeyFits(r.after, query.page, query)
  BY DEF Request, PagesFit, CursorsFit
<1>2. M \in SUBSET Int /\ IsFiniteSet(M) /\ M = stored \cap Wheres[r.where]
  <2>1. M \in SUBSET InitialKeys
    BY DEF Listing, PagesFit
  <2> QED
    BY <1>1, <2>1, FS_Subset DEF Listing, TableAssumption
<1>3. query.page \in Nat \ {0} /\ query.size \in Nat \ {0}
  BY DEF PagesFit, Fitting, TableAssumption
<1> HIDE DEF M
<1>4. /\ A \in SUBSET Int /\ IsFiniteSet(A)
      /\ rows = PageOf(M, query.order, query.page, query.size)
      /\ Cardinality(A) > from * r.size => Cardinality(M) > query.page * query.size
  <2>1. CASE r.after = None
    BY <1>1, <1>2, <2>1
  <2>2. CASE r.after # None
    <3> DEFINE a == r.after
               p == query.page
               s == query.size
    <3>1. A = Behind(M, a) /\ from = 1 /\ query.order = None /\ r.order = None /\ r.size = query.size
      BY <1>1, <2>2
    <3>2. a \in M /\ Rank(M, a) = (query.page - 1) * query.size - 1
      BY <1>1, <2>2 DEF KeyFits, M
    <3>3. IsFiniteSet(A) /\ Cardinality(A) = Cardinality(M) - Rank(M, a) - 1 /\ A \in SUBSET Int
      BY <1>2, <3>1, <3>2, CountBehind DEF Behind
    <3>7. p \in Nat \ {0} /\ s \in Nat \ {0} /\ a \in M /\ Rank(M, a) = (p - 1) * s - 1
      BY <1>3, <3>2
    <3>4. PageOf(Behind(M, a), None, 1, query.size) = PageOf(M, None, query.page, query.size)
      <4> HIDE DEF a, p, s, A, from
      <4>1. PageOf(Behind(M, a), None, 1, s) = PageOf(M, None, p, s)
        BY <1>2, <3>7, PageBehind
      <4> QED
        BY <4>1 DEF p, s
    <3>5. /\ (query.page - 1) * query.size \in Nat
          /\ query.page * query.size = (query.page - 1) * query.size + query.size
          /\ 1 * query.size = query.size /\ Cardinality(M) \in Nat
      BY <1>2, <1>3, Offsets, FS_CardinalityType
    <3> HIDE DEF a, A, from
    <3>6. Cardinality(A) > from * r.size => Cardinality(M) > query.page * query.size
      BY <1>3, <3>1, <3>2, <3>3, <3>5
    <3> QED
      BY <3>1, <3>3, <3>4, <3>6
  <2> QED
    BY <2>1, <2>2
<1> DEFINE more == Cardinality(A) > from * r.size
           offset == IF r.after = None THEN (r.page - 1) * r.size ELSE 0
<1>5. /\ f.rows = rows
      /\ f.next = IF more /\ r.order = None /\ ~exact THEN rows[n] ELSE None
      /\ f.total = IF exact THEN Cardinality(M) ELSE IF n = 0 THEN 0 ELSE offset + n + (IF more THEN 1 ELSE 0)
  BY <1>2 DEF FoundFor, Found, Behind
<1>6. n \in Nat /\ Cardinality(M) \in Nat /\ offset \in Nat
  <2>1. n \in Nat
    BY <1>4, PageCount
  <2>2. offset \in Nat
    BY <1>1, <1>3, Offsets
  <2> QED
    BY <1>2, <2>1, <2>2, FS_CardinalityType
<1> HIDE DEF A, from, offset
<1>7. f.total \in Nat
  BY <1>5, <1>6
<1>8. ASSUME f.next # None PROVE KeyFits(f.next, query.page + 1, query)
  <2>1. query.order = None /\ Cardinality(M) > query.page * query.size /\ f.next = rows[n]
    BY <1>1, <1>4, <1>5, <1>8
  <2>2. rows = PageOf(M, None, query.page, query.size)
    BY <1>4, <2>1
  <2> HIDE DEF rows
  <2>3. rows[n] \in M /\ Rank(M, rows[n]) = query.page * query.size - 1
    BY <1>2, <1>3, <2>1, <2>2, LastOfPage
  <2>4. query.page = (query.page + 1) - 1
    BY <1>3
  <2>5. rows[n] \in M /\ Rank(M, rows[n]) = ((query.page + 1) - 1) * query.size - 1
    BY Zenon, <2>3, <2>4
  <2>6. M = Listing(query)
    BY DEF M
  <2>7. KeyFits(rows[n], query.page + 1, query)
    BY Zenon, <2>5, <2>6 DEF KeyFits
  <2> QED
    BY <2>1, <2>7
<1> QED
  BY <1>4, <1>5, <1>7, <1>8 DEF M

\* There is a last page, and a number typed for a page is brought within it.
LEMMA LastPage ==
  ASSUME TableAssumption, NEW q, Fitting(q), NEW found, found.total \in Nat
  PROVE  TotalPages(found, q) \in Nat \ {0}
<1>1. q.size \in Nat \ {0} /\ q.page \in Nat \ {0}
  BY DEF Fitting, TableAssumption
<1>2. (found.total + q.size - 1) \div q.size \in Int
  <2>1. found.total + q.size - 1 \in Int
    BY <1>1
  <2> QED
    BY <1>1, <2>1
<1> QED
  BY <1>1, <1>2 DEF TotalPages

LEMMA PageWithin ==
  ASSUME TableAssumption, PagesFit, result.rows # None, NEW p \in Int
  PROVE  Within(p) \in Nat \ {0}
<1>1. result.found.total \in Nat /\ Fitting(query)
  BY RequestedPage DEF PagesFit, ResultFits
<1>2. TotalPages(result.found, query) \in Nat \ {0}
  BY <1>1, LastPage
<1> QED
  BY <1>2 DEF Within

-----------------------------------------------------------------------------
\* A step that writes nothing.
Still == UNCHANGED <<stored, version, exact>>

LEMMA AgedKeeps ==
  ASSUME NEW c, DOMAIN c = ReadFields
  PROVE  Aged(c).live = FALSE /\ Aged(c).request = c.request /\ Aged(c).answer = c.answer
BY DEF Aged, ReadFields

LEMMA RefreshedKeeps ==
  ASSUME DataShape, NEW r
  PROVE  /\ Refreshed(r).request = r
         /\ Refreshed(r).rows # None =>
              r = result.request /\ Refreshed(r).rows = result.rows /\ Refreshed(r).found = result.found
<1>1. CASE r = result.request
  BY <1>1 DEF Refreshed, DataShape, ResultFields
<1>2. CASE r # result.request
  BY <1>2 DEF Refreshed, NoResult
<1> QED
  BY <1>1, <1>2

LEMMA ReadParts ==
  ASSUME NEW id, NEW r
  PROVE  Read(id, r).request = r /\ Read(id, r).answer = None
BY DEF Read

\* What is asked for next, with the keys that are remembered of its listing.
LEMMA AskFits ==
  ASSUME DataShape, PagesFit, Still, NEW q, Fitting(q), NEW reload \in BOOLEAN,
         Ask(q, columnsKnown, cursors, reload),
         result' = IF readSeq' = readSeq THEN result ELSE Refreshed(Request(q, columnsKnown, cursors'))
  PROVE  PagesFit'
<1> DEFINE cs == IF reload \/ Scope(q, columnsKnown) # Scope(query, columnsKnown) THEN <<>> ELSE cursors
           r == Request(q, columnsKnown, cs)
<1>1. query' = q /\ columnsKnown' = columnsKnown /\ cursors' = cs
  BY DEF Ask
<1>2. CursorsFit'
  <2>1. ASSUME NEW p \in DOMAIN cs PROVE KeyFits(cs[p], p, query)'
    <3>1. cs = cursors /\ Scope(q, columnsKnown) = Scope(query, columnsKnown)
      BY <2>1
    <3>2. q.size = query.size /\ q.where = query.where
      BY <3>1 DEF Scope
    <3>3. KeyFits(cs[p], p, query)
      BY <2>1, <3>1 DEF PagesFit, CursorsFit
    <3> QED
      BY <1>1, <3>2, <3>3 DEF KeyFits, Listing, Still
  <2> QED
    BY <1>1, <2>1 DEF CursorsFit
<1>3. stored' = InitialKeys /\ Fitting(query)'
  BY <1>1 DEF PagesFit, Fitting, Still
<1>4. \A f, x : FoundFor(f, x)' <=> FoundFor(f, x)
  BY FoundKept DEF Still
<1> HIDE DEF cs
<1>5. CASE r = result.request /\ ~reload
  <2>1. UNCHANGED <<reads, readSeq, result>>
    BY <1>5 DEF Ask, cs
  <2>2. ResultFits'
    BY <1>1, <1>4, <1>5, <2>1 DEF PagesFit, ResultFits, Request, Projected
  <2>3. ReadsFit'
    BY <1>4, <2>1 DEF PagesFit, ReadsFit
  <2> QED
    BY <1>2, <1>3, <2>1, <2>2, <2>3 DEF PagesFit
<1>6. CASE ~(r = result.request /\ ~reload)
  <2>1. readSeq' = readSeq + 1 /\ reads' = {Aged(c) : c \in reads} \cup {Read(readSeq + 1, r)}
    BY <1>6 DEF Ask, cs, Aged
  <2>2. readSeq' \in Nat /\ result' = Refreshed(r)
    BY <1>1, <2>1 DEF PagesFit
  <2>3. ResultFits'
    <3>1. result'.request = r /\ r = Request(query, columnsKnown, cursors)'
      BY <1>1, <2>2, RefreshedKeeps DEF Request, Projected
    <3>2. result'.rows # None => result'.request = result.request /\ result'.rows = result.rows /\ result'.found = result.found
      BY <2>2, RefreshedKeeps
    <3> QED
      BY <1>4, <3>1, <3>2 DEF PagesFit, ResultFits
  <2>4. ReadsFit'
    <3>1. result'.request = r
      BY <2>2, RefreshedKeeps
    <3>2. ASSUME NEW c \in reads'
          PROVE  \/ c = Read(readSeq + 1, r)
                 \/ c.live = FALSE /\ \E d \in reads : c.request = d.request /\ c.answer = d.answer
      BY <2>1, AgedKeeps DEF DataShape
    <3>3. Read(readSeq + 1, r).request = r /\ Read(readSeq + 1, r).answer = None
      BY ReadParts
    <3> QED
      BY <1>4, <3>1, <3>2, <3>3 DEF PagesFit, ReadsFit
  <2> QED
    BY <1>2, <1>3, <2>2, <2>3, <2>4 DEF PagesFit
<1> QED
  BY <1>5, <1>6

\* Steps that ask for nothing.
LEMMA PagesKept ==
  ASSUME PagesFit, Still, UNCHANGED <<query, columnsKnown, cursors, readSeq>>,
         result'.request = result.request, result'.rows = result.rows, result'.found = result.found,
         \A c \in reads' : \E d \in reads : c.request = d.request /\ c.live = d.live /\ c.answer = d.answer,
         \A c, d \in reads' : c.live /\ d.live => c = d
  PROVE  PagesFit'
<1>1. \A f, r : FoundFor(f, r)' <=> FoundFor(f, r)
  BY FoundKept DEF Still
<1>2. ReadsFit'
  BY <1>1 DEF PagesFit, ReadsFit
<1>3. ResultFits'
  BY <1>1 DEF PagesFit, ResultFits, Request, Projected
<1>4. CursorsFit'
  BY DEF PagesFit, CursorsFit, KeyFits, Listing, Still
<1> QED
  BY <1>2, <1>3, <1>4 DEF PagesFit, Fitting, Still

LEMMA QueryingFits ==
  ASSUME TableAssumption, DataInv, PagesFit, version = 0, Querying, version' = 0
  PROVE  PagesFit'
<1>1. DataShape /\ Fitting(query)
  BY DEF DataInv, PagesFit
<1>2. ASSUME NEW q, Fitting(q), Browse(q) PROVE PagesFit'
  BY <1>1, <1>2, AskFits DEF Browse, Requery, KeepChoices, serverVars, Still
<1>3. ASSUME NEW w, ApplyWhere(w) \/ ClearWhere \/ OnSort PROVE PagesFit'
  <2>1. \A x : Fitting([query EXCEPT !.where = x, !.page = 1]) /\ Fitting([query EXCEPT !.page = 1, !.order = x])
    BY <1>1 DEF Fitting, QueryFields
  <2> QED
    BY <1>2, <1>3, <2>1 DEF ApplyWhere, ClearWhere, OnSort
<1>4. ASSUME NEW s \in Sizes, OnPageSizeChange(s) PROVE PagesFit'
  <2>1. Fitting([query EXCEPT !.size = s, !.page = 1])
    BY <1>1 DEF Fitting, QueryFields
  <2> QED
    BY <1>2, <1>4, <2>1 DEF OnPageSizeChange
<1>5. ASSUME NEW p \in Int, GoToPage(p) PROVE PagesFit'
  <2>1. Within(p) \in Nat \ {0}
    BY <1>5, PageWithin DEF GoToPage
  <2>2. Fitting([query EXCEPT !.page = Within(p)])
    BY <1>1, <2>1 DEF Fitting, QueryFields
  <2> QED
    BY <1>2, <1>5, <2>2 DEF GoToPage
<1>6. CASE NextPage \/ PreviousPage
  <2>1. query.page + 1 \in Int /\ query.page - 1 \in Int
    BY <1>1 DEF Fitting
  <2> QED
    BY <1>5, <1>6, <2>1 DEF NextPage, PreviousPage
<1>7. ASSUME NEW p \in PageDrafts, SubmitPageDraft(p) PROVE PagesFit'
  <2>1. (IF p = None THEN query.page ELSE p) \in Int
    BY <1>1 DEF Fitting, TableAssumption
  <2> QED
    BY <1>5, <1>7, <2>1 DEF SubmitPageDraft
<1>8. CASE Refresh
  BY <1>1, <1>8, AskFits DEF Refresh, Requery, KeepChoices, serverVars, Still
<1>9. CASE ReloadTable
  <2>1. version' = version + 1
    BY <1>9 DEF ReloadTable
  <2> QED
    BY <2>1
<1>10. ASSUME NEW shown, SetVisibleColumns(shown) PROVE PagesFit'
  <2>1. Fitting([query EXCEPT !.columns = shown, !.page = 1])
    BY <1>1 DEF Fitting, QueryFields
  <2>2. query' = [query EXCEPT !.columns = shown, !.page = 1] /\ Still
    BY <1>10 DEF SetVisibleColumns, Ask, KeepChoices, serverVars, Still
  <2> QED
    BY <1>1, <1>10, <2>1, <2>2, AskFits DEF SetVisibleColumns
<1>11. CASE Cancel
  <2>1. Still /\ UNCHANGED <<query, columnsKnown, cursors, result, reads, readSeq>>
    BY <1>11 DEF Cancel, KeepChoices, serverVars, Still
  <2>2. \A c, d \in reads' : c.live /\ d.live => c = d
    BY <2>1 DEF PagesFit, ReadsFit
  <2> QED
    BY <2>1, <2>2, PagesKept
<1>12. ASSUME NEW x, Cancelled(x) PROVE PagesFit'
  <2>1. Still /\ UNCHANGED <<query, columnsKnown, cursors, readSeq>>
    BY <1>12 DEF Cancelled, KeepChoices, serverVars, Still
  <2>2. result'.request = result.request /\ result'.rows = result.rows /\ result'.found = result.found
    BY <1>1, <1>12 DEF Cancelled, DataShape, ResultFields
  <2> DEFINE Told(c) == IF c.id = x.id THEN [c EXCEPT !.cancelled = TRUE] ELSE c
  <2>3. reads' = reads \/ reads' = {Told(c) : c \in reads}
    BY <1>12 DEF Cancelled
  <2>4. ASSUME NEW c \in reads
        PROVE  Told(c).request = c.request /\ Told(c).live = c.live /\ Told(c).answer = c.answer
    BY <1>1 DEF DataShape, ReadFields
  <2> HIDE DEF Told
  <2>5. \A c \in reads' : \E d \in reads : c.request = d.request /\ c.live = d.live /\ c.answer = d.answer
    BY <2>3, <2>4
  <2>6. \A c, d \in reads' : c.live /\ d.live => c = d
    BY <2>3, <2>4 DEF PagesFit, ReadsFit
  <2> QED
    BY <2>1, <2>2, <2>5, <2>6, PagesKept
<1> QED
  BY <1>3, <1>4, <1>6, <1>7, <1>8, <1>9, <1>10, <1>11, <1>12 DEF Querying

\* The rows of the one read under way come with the key of the next page.
LEMMA RowsFit ==
  ASSUME TableAssumption, DataShape, PagesFit, Still, NEW c \in reads, c.answer # None, c.answer.ok, c.live, RowsRead(c)
  PROVE  PagesFit'
<1> DEFINE found == c.answer
           kept == IF found.next = None THEN cursors
                   ELSE [p \in DOMAIN cursors \cup {query.page + 1} |-> IF p = query.page + 1 THEN found.next ELSE cursors[p]]
<1>1. /\ c.request = Request(query, columnsKnown, cursors) /\ c.request = result.request /\ FoundFor(found, c.request)
      /\ \A d \in reads \ {c} : ~d.live
  BY DEF PagesFit, ReadsFit, ResultFits
<1>2. found.total \in Nat /\ (found.next # None => KeyFits(found.next, query.page + 1, query))
  BY <1>1, RequestedPage
<1> DEFINE page == IF found.isExact /\ query.page > TotalPages(found, query) THEN TotalPages(found, query) ELSE query.page
           shown == IF Columns \ hiddenColumns = {} THEN Columns ELSE Columns \ hiddenColumns
           q == [query EXCEPT !.columns = shown, !.page = page]
           r == Request(q, TRUE, cursors')
<1>3. /\ query' = q /\ columnsKnown' = TRUE /\ cursors' \in {<<>>, kept}
      /\ \/ /\ r = c.request /\ reads' = reads \ {c} /\ UNCHANGED readSeq
            /\ result'.request = r /\ result'.rows = found.rows /\ result'.found = found
         \/ /\ readSeq' = readSeq + 1 /\ reads' = (reads \ {c}) \cup {Read(readSeq + 1, r)} /\ result' = NoResult(r)
  <2>1. query' = q /\ columnsKnown' = TRUE /\ cursors' = IF Scope(q, TRUE) # Scope(query, columnsKnown) THEN <<>> ELSE kept
    BY Zenon DEF RowsRead
  <2> DEFINE asked == Request(q, TRUE, IF Scope(q, TRUE) # Scope(query, columnsKnown) THEN <<>> ELSE kept)
  <2>2. IF asked = c.request
        THEN /\ reads' = reads \ {c} /\ UNCHANGED readSeq
             /\ result' = [request |-> c.request, rows |-> found.rows, found |-> found, error |-> FALSE, loading |-> FALSE,
                           cancelled |-> FALSE, at |-> c.at]
        ELSE readSeq' = readSeq + 1 /\ reads' = (reads \ {c}) \cup {Read(readSeq + 1, asked)} /\ result' = NoResult(asked)
    BY Zenon DEF RowsRead
  <2>3. asked = r
    BY Zenon, <2>1
  <2> HIDE DEF q, kept, r, asked
  <2> QED
    BY <2>1, <2>2, <2>3
<1>4. Fitting(q) /\ q.size = query.size /\ q.where = query.where
  <2>1. TotalPages(found, query) \in Nat \ {0}
    BY <1>2, LastPage DEF PagesFit
  <2> QED
    BY <2>1 DEF PagesFit, Fitting, QueryFields
<1> HIDE DEF q
<1>5. CursorsFit'
  <2>1. ASSUME NEW p \in DOMAIN kept PROVE KeyFits(kept[p], p, query)
    BY <1>2 DEF PagesFit, CursorsFit
  <2> HIDE DEF kept
  <2>2. \A p \in DOMAIN cursors' : KeyFits(cursors'[p], p, query)
    BY <1>3, <2>1
  <2> QED
    BY <1>3, <1>4, <2>2 DEF CursorsFit, KeyFits, Listing, Still
<1> HIDE DEF kept
<1>6. \A f, x : FoundFor(f, x)' <=> FoundFor(f, x)
  BY FoundKept DEF Still
<1>7. r = Request(query, columnsKnown, cursors)'
  BY <1>3 DEF Request, Projected
<1> HIDE DEF r
<1>8. CASE /\ r = c.request /\ reads' = reads \ {c} /\ UNCHANGED readSeq
           /\ result'.request = r /\ result'.rows = found.rows /\ result'.found = found
  <2>1. ReadsFit' /\ ResultFits'
    BY <1>1, <1>6, <1>7, <1>8 DEF PagesFit, ReadsFit, ResultFits
  <2> QED
    BY <1>3, <1>4, <1>5, <1>8, <2>1 DEF PagesFit, Fitting, Still
<1>9. CASE readSeq' = readSeq + 1 /\ reads' = (reads \ {c}) \cup {Read(readSeq + 1, r)} /\ result' = NoResult(r)
  <2>1. Read(readSeq + 1, r).request = r /\ Read(readSeq + 1, r).answer = None
    BY ReadParts
  <2>2. result'.request = r /\ result'.rows = None
    BY <1>9 DEF NoResult
  <2>3. ReadsFit' /\ ResultFits'
    BY <1>1, <1>6, <1>7, <1>9, <2>1, <2>2 DEF PagesFit, ReadsFit, ResultFits
  <2> QED
    BY <1>3, <1>4, <1>5, <1>9, <2>3 DEF PagesFit, Fitting, Still
<1> QED
  BY <1>3, <1>8, <1>9

LEMMA ReadingFits ==
  ASSUME TableAssumption, DataInv, PagesFit, Reading
  PROVE  PagesFit'
<1>1. DataShape
  BY DEF DataInv
<1>2. ASSUME NEW c \in reads, Serve(c) PROVE PagesFit'
  <2>1. Still /\ UNCHANGED <<query, columnsKnown, cursors, result, readSeq>>
    BY <1>2 DEF Serve, serverVars, choiceVars, Still
  <2>2. PICK answer, at : /\ reads' = (reads \ {c}) \cup {[c EXCEPT !.answer = answer, !.at = at]}
                          /\ answer = Found(stored, c.request) \/ answer = [ok |-> FALSE]
    BY <1>2 DEF Serve
  <2> DEFINE d == [c EXCEPT !.answer = answer, !.at = at]
  <2>3. d.request = c.request /\ d.live = c.live /\ d.answer = answer
    BY <1>1 DEF DataShape, ReadFields
  <2> HIDE DEF d
  <2>4. reads' = (reads \ {c}) \cup {d}
    BY <2>2 DEF d
  <2>5. d.answer.ok => FoundFor(d.answer, d.request)
    BY <2>2, <2>3 DEF FoundFor
  <2>6. \A f, r : FoundFor(f, r)' <=> FoundFor(f, r)
    BY <2>1, FoundKept DEF Still
  <2>7. ReadsFit'
    BY <2>1, <2>3, <2>4, <2>5, <2>6 DEF PagesFit, ReadsFit
  <2>8. ResultFits'
    BY <2>1, <2>6 DEF PagesFit, ResultFits, Request, Projected
  <2> QED
    BY <2>1, <2>7, <2>8 DEF PagesFit, Fitting, CursorsFit, KeyFits, Listing, Still
<1>3. ASSUME NEW c \in reads, ReadIgnored(c) \/ ReadFailed(c) PROVE PagesFit'
  <2>1. Still /\ UNCHANGED <<query, columnsKnown, cursors, readSeq>> /\ reads' = reads \ {c}
    BY <1>3 DEF ReadIgnored, ReadFailed, serverVars, choiceVars, Still
  <2>2. result'.request = result.request /\ result'.rows = result.rows /\ result'.found = result.found
    BY <1>1, <1>3 DEF ReadIgnored, ReadFailed, DataShape, ResultFields
  <2>3. \A d, e \in reads' : d.live /\ e.live => d = e
    BY <2>1 DEF PagesFit, ReadsFit
  <2> QED
    BY <2>1, <2>2, <2>3, PagesKept
<1>4. ASSUME NEW c \in reads, RowsArrive(c) PROVE PagesFit'
  BY <1>1, <1>4, RowsFit DEF RowsArrive, Ignored, serverVars, Still
<1> QED
  BY <1>2, <1>3, <1>4 DEF Reading

LEMMA ChoosingFits ==
  ASSUME PagesFit, UNCHANGED queryVars, Still
  PROVE  PagesFit'
<1>1. \A c, d \in reads' : c.live /\ d.live => c = d
  BY DEF queryVars, PagesFit, ReadsFit
<1> QED
  BY <1>1, PagesKept DEF queryVars

LEMMA EditingFits ==
  ASSUME DataInv, PagesFit, version = 0, Editing, version' = 0
  PROVE  PagesFit'
<1>1. DataShape /\ Fitting(query)
  BY DEF DataInv, PagesFit
<1>2. CASE UNCHANGED queryVars /\ UNCHANGED serverVars
  BY <1>2, ChoosingFits DEF serverVars, Still
<1>3. ASSUME NEW places, NEW mode, NEW i,
             \/ RequestDelete(places) \/ CancelDelete \/ ConfirmDelete \/ OpenEditor(mode, i)
             \/ CloseEditor \/ SubmitEditor \/ SaveJsonCell(i)
      PROVE  PagesFit'
  BY <1>2, <1>3 DEF RequestDelete, CancelDelete, ConfirmDelete, OpenEditor, CloseEditor, SubmitEditor, SaveJsonCell, KeepQuery
<1>4. ASSUME NEW e \in edits, EditServed(e) PROVE PagesFit'
  <2>1. UNCHANGED queryVars /\ (Still \/ version' = version + 1)
    BY <1>4 DEF EditServed, Still
  <2> QED
    BY <2>1, ChoosingFits
<1>5. ASSUME NEW e \in edits, EditDone(e) PROVE PagesFit'
  <2>1. Ask(query, columnsKnown, cursors, TRUE) /\ result' = Refreshed(Request(query, columnsKnown, cursors')) /\ Still
    BY <1>5 DEF EditDone, serverVars, Still
  <2>2. readSeq' = readSeq + 1 /\ readSeq' # readSeq
    BY <2>1 DEF Ask, PagesFit
  <2> QED
    BY <1>1, <2>1, <2>2, AskFits
<1>6. ASSUME NEW e \in edits, EditFailed(e) PROVE PagesFit'
  BY <1>2, <1>6 DEF EditFailed, KeepQuery
<1> QED
  BY <1>3, <1>4, <1>5, <1>6 DEF Editing, DeleteSelected

LEMMA PagesInvHolds == ASSUME TableAssumption PROVE DataSpec => []PagesInv
<1>1. ASSUME DataInit PROVE PagesInv
  <2> DEFINE r == Request(Start, FALSE, <<>>)
  <2>1. /\ stored = InitialKeys /\ query = Start /\ columnsKnown = FALSE /\ cursors = <<>> /\ readSeq = 1
        /\ result = NoResult(r) /\ reads = {Read(1, r)}
    BY <1>1 DEF DataInit
  <2>2. Fitting(Start)
    BY DEF Start, Fitting, QueryFields, TableAssumption
  <2>3. CursorsFit /\ result.request = r /\ result.rows = None
    BY <2>1 DEF CursorsFit, NoResult
  <2>4. ReadsFit /\ ResultFits
    <3>1. r = Request(query, columnsKnown, cursors)
      BY <2>1
    <3>2. Read(1, r).request = r /\ Read(1, r).answer = None
      BY ReadParts
    <3> HIDE DEF r
    <3> QED
      BY <2>1, <2>3, <3>1, <3>2 DEF ReadsFit, ResultFits
  <2> QED
    BY <2>1, <2>2, <2>3, <2>4 DEF PagesInv, PagesFit
<1>2. DataInv /\ PagesInv /\ [DataNext]_dataVars => PagesInv'
  <2> SUFFICES ASSUME DataInv, PagesInv, [DataNext]_dataVars, version' = 0 PROVE PagesFit'
    BY DEF PagesInv
  <2>1. version = 0
    <3>1. CASE UNCHANGED version
      BY <3>1
    <3>2. CASE version' = version + 1
      BY <3>2 DEF DataInv, EditsCounted
    <3>3. UNCHANGED version \/ version' = version + 1
      <4>1. ASSUME Reading PROVE UNCHANGED version
        BY <4>1 DEF Reading, Serve, ReadIgnored, ReadFailed, RowsArrive, serverVars
      <4>2. ASSUME Choosing PROVE UNCHANGED version
        BY <4>2 DEF Choosing, TogglePage, ClearSelection, ToggleRow, KeepQuery, serverVars
      <4>3. ASSUME Querying PROVE UNCHANGED version \/ version' = version + 1
        <5>1. ASSUME NEW q, Browse(q) PROVE UNCHANGED version
          BY <5>1 DEF Browse, KeepChoices, serverVars
        <5> QED
          BY <4>3, <5>1 DEF Querying, ClearWhere, OnSort, NextPage, PreviousPage, GoToPage, Refresh, ReloadTable, Cancel,
             ApplyWhere, OnPageSizeChange, SubmitPageDraft, SetVisibleColumns, Cancelled, KeepChoices, serverVars
      <4>4. ASSUME Editing PROVE UNCHANGED version \/ version' = version + 1
        BY <4>4 DEF Editing, DeleteSelected, RequestDelete, CancelDelete, ConfirmDelete, OpenEditor, CloseEditor,
           SubmitEditor, SaveJsonCell, EditServed, EditDone, EditFailed, KeepQuery, serverVars
      <4> QED
        BY <4>1, <4>2, <4>3, <4>4 DEF DataNext, dataVars
    <3> QED
      BY <3>1, <3>2, <3>3
  <2>2. PagesFit
    BY <2>1 DEF PagesInv
  <2>3. CASE UNCHANGED dataVars
    BY <2>2, <2>3, ChoosingFits DEF dataVars, queryVars, Still
  <2>4. CASE Choosing
    BY <2>2, <2>4, ChoosingFits DEF Choosing, TogglePage, ClearSelection, ToggleRow, KeepQuery, serverVars, Still
  <2> QED
    BY <2>1, <2>2, <2>3, <2>4, ReadingFits, QueryingFits, EditingFits DEF DataNext
<1> QED
  BY <1>1, <1>2, DataInvHolds, PTL DEF DataSpec

\* While nothing is written, each page is its part of the listing, whether it was read
\* by OFFSET or after the key that the page before it ended with, however the reads were
\* answered and the pages, their size and the condition were changed
\* (table-data-query-hooks.ts:93-96, 171).
THEOREM PagesAlwaysFit ==
  ASSUME TableAssumption PROVE DataSpec => []PagesFitTogether
<1>1. PagesInv => PagesFitTogether
  <2> SUFFICES ASSUME PagesInv, version = 0, result.rows # None
               PROVE  result.rows = PageOf(stored \cap Wheres[query.where], query.order, query.page, query.size)
    BY DEF PagesFitTogether
  <2> QED
    BY RequestedPage DEF PagesInv, PagesFit, ResultFits, Listing
<1> QED
  BY <1>1, PagesInvHolds, PTL

-----------------------------------------------------------------------------
(* The width of the explorer                                               *)

\* A width is at least the least one, and fits the window if the tree is shown.
Fits(w, v) == w >= MinWidth /\ (w = MinWidth \/ w + WorkspaceWidth <= v)
WidthInv ==
  /\ viewport \in Nat /\ width \in Nat /\ rail \in BOOLEAN
  /\ drag # None => drag.at \in Nat /\ drag.from \in Nat
  /\ ~rail => Fits(width, viewport)

LEMMA ClampFits ==
  ASSUME NEW w \in Nat, NEW v \in Nat
  PROVE  ClampSidebarWidth(w, v) \in Nat /\ Fits(ClampSidebarWidth(w, v), v)
BY WidthAssumption DEF ClampSidebarWidth, SidebarMaxWidth, AtMost, AtLeast, Fits

LEMMA WidthStep == ASSUME WidthInv, [RowsNext]_rowVars PROVE WidthInv'
<1> USE DEF WidthInv
<1>1. CASE UNCHANGED shapeVars
  BY <1>1 DEF shapeVars
<1>2. ASSUME NEW f, Fold(f) PROVE UNCHANGED shapeVars
  BY <1>2 DEF Fold
<1>3. ASSUME NEW p, Focus(p) PROVE UNCHANGED shapeVars
  BY <1>3 DEF Focus
<1>4. CASE Load \/ FoldActive \/ (\E word \in DOMAIN Keywords : SetKeyword(word))
           \/ (\E key \in {"down", "up", "home", "end", "right", "left"} : Arrow(key))
           \/ (\E row \in Shown : Focus(row.path)) \/ (\E label \in 1..3 : TypeAhead(label))
           \/ UNCHANGED rowVars
  BY <1>1, <1>2, <1>3, <1>4 DEF Load, FoldActive, ToggleRedisFolder, SetKeyword, Arrow, TypeAhead, rowVars, shapeVars
<1>5. CASE EndDrag
  BY <1>5 DEF EndDrag
<1>6. CASE RestartRows
  BY <1>6, ClampFits DEF RestartRows
<1>7. ASSUME NEW v \in Viewports, ResizeWindow(v) PROVE WidthInv'
  BY <1>7, ClampFits, WidthAssumption DEF ResizeWindow
<1>8. CASE StartDrag(1)
  BY <1>8 DEF StartDrag
<1>9. ASSUME NEW x \in 0..2, DragTo(x) PROVE WidthInv'
  <2>1. PICK w \in Nat : width' = ClampSidebarWidth(w, viewport)
    BY <1>9 DEF DragTo
  <2>2. UNCHANGED <<viewport, rail, drag>>
    BY <1>9 DEF DragTo
  <2> QED
    BY <2>1, <2>2, ClampFits
<1>10. ASSUME NEW key, ResizeKey(key) PROVE WidthInv'
  <2>1. UNCHANGED <<viewport, rail, drag>> /\ ~rail
    BY <1>10 DEF ResizeKey
  <2>2. \/ width' = MinWidth
        \/ \E w \in Nat : width' = ClampSidebarWidth(w, viewport)
    BY <1>10, WidthAssumption DEF ResizeKey
  <2> QED
    <3>1. CASE width' = MinWidth
      BY <2>1, <3>1, WidthAssumption DEF Fits
    <3>2. CASE \E w \in Nat : width' = ClampSidebarWidth(w, viewport)
      BY <2>1, <3>2, ClampFits
    <3> QED
      BY <2>2, <3>1, <3>2
<1>11. ASSUME NEW r \in BOOLEAN, SetCollapsed(r) PROVE WidthInv'
  BY <1>11, ClampFits DEF SetCollapsed
<1> QED
  BY <1>4, <1>5, <1>6, <1>7, <1>8, <1>9, <1>10, <1>11 DEF RowsNext

\* Whatever is resized, dragged, collapsed and restarted, the tree leaves room for the work
\* beside it, as far as its least width allows (sidebar-store.ts:46-53).
THEOREM AlwaysRoomForWork == RowsSpec => []RoomForWork
<1>1. RowsInit => WidthInv
  BY ClampFits, WidthAssumption DEF RowsInit, WidthInv
<1>2. WidthInv => RoomForWork
  BY DEF WidthInv, Fits, RoomForWork
<1> QED
  BY <1>1, <1>2, WidthStep, PTL DEF RowsSpec

-----------------------------------------------------------------------------
(* The order of the explorer's rows                                        *)

LEMMA LeastNumber ==
  ASSUME NEW T \in SUBSET Nat, T # {}
  PROVE  \E m \in T : \A i \in T : m <= i
<1>1. PICK m \in T : \A i \in T : ~ (<<i, m>> \in OpToRel(<, Nat))
  BY NatLessThanWellFounded, WFMin
<1>2. \A i \in T : ~ (i < m)
  BY <1>1 DEF OpToRel
<1> QED
  BY <1>2

\* Two paths begin alike if their first numbers are the same.
LEMMA AlikeUpTo ==
  ASSUME NEW p \in Seq(Nat), NEW q \in Seq(Nat), NEW n \in Nat, n <= Len(p), n <= Len(q)
  PROVE  SubSeq(p, 1, n) = SubSeq(q, 1, n) <=> \A i \in 1..n : p[i] = q[i]
<1>1. /\ SubSeq(p, 1, n) = [i \in 1..n |-> p[i]]
      /\ SubSeq(q, 1, n) = [i \in 1..n |-> q[i]]
  OBVIOUS
<1> QED
  BY <1>1, Zenon

\* The place where p turns out to come first: it ends there, or has the lesser number.
Turns(p, q, n) ==
  /\ n <= Len(p) + 1 /\ \A i \in 1..(n - 1) : p[i] = q[i]
  /\ n <= Len(p) => p[n] < q[n]

LEMMA BeforeTurns ==
  ASSUME NEW p \in Seq(Nat), NEW q \in Seq(Nat)
  PROVE  Before(p, q) <=> \E n \in 1..Len(q) : Turns(p, q, n)
<1>1. ASSUME IsStrictPrefix(p, q) PROVE \E n \in 1..Len(q) : Turns(p, q, n)
  <2>1. Len(p) <= Len(q) /\ p # q /\ \A i \in 1..Len(p) : p[i] = q[i]
    BY <1>1, AlikeUpTo DEF IsStrictPrefix, IsPrefix
  <2>2. Len(p) # Len(q)
    BY <2>1, SMTT(30)
  <2>3. Len(p) + 1 \in 1..Len(q)
    BY <2>1, <2>2
  <2> QED
    BY <2>1, <2>3, SMTT(30) DEF Turns
<1>2. ASSUME NEW n \in 1..Len(p), n <= Len(q), p[n] < q[n], SubSeq(p, 1, n - 1) = SubSeq(q, 1, n - 1)
      PROVE  \E m \in 1..Len(q) : Turns(p, q, m)
  <2>1. \A i \in 1..(n - 1) : p[i] = q[i]
    BY <1>2, AlikeUpTo
  <2> QED
    BY <1>2, <2>1, SMTT(30) DEF Turns
<1>3. ASSUME NEW n \in 1..Len(q), Turns(p, q, n) PROVE Before(p, q)
  <2>1. CASE n = Len(p) + 1
    <3>1. Len(p) < Len(q) /\ SubSeq(p, 1, Len(p)) = SubSeq(q, 1, Len(p))
      BY <1>3, <2>1, AlikeUpTo DEF Turns
    <3> QED
      BY <3>1 DEF Before, IsStrictPrefix, IsPrefix
  <2>2. CASE n # Len(p) + 1
    <3>1. n \in 1..Len(p) /\ p[n] < q[n] /\ SubSeq(p, 1, n - 1) = SubSeq(q, 1, n - 1)
      BY <1>3, <2>2, AlikeUpTo DEF Turns
    <3> QED
      BY <3>1 DEF Before
  <2> QED
    BY <2>1, <2>2
<1> QED
  BY <1>1, <1>2, <1>3 DEF Before

LEMMA NotBoth ==
  ASSUME NEW p \in Seq(Nat), NEW q \in Seq(Nat), Before(p, q)
  PROVE  ~Before(q, p) /\ p # q
<1>1. PICK n \in 1..Len(q) : Turns(p, q, n)
  BY BeforeTurns
<1>2. p # q
  BY <1>1 DEF Turns
<1>3. ASSUME NEW m \in 1..Len(p), Turns(q, p, m) PROVE FALSE
  <2>1. CASE n < m
    BY <1>1, <1>3, <2>1, SMTT(30) DEF Turns
  <2>2. CASE n >= m
    BY <1>1, <1>3, <2>2, SMTT(30) DEF Turns
  <2> QED
    BY <2>1, <2>2
<1> QED
  BY <1>2, <1>3, BeforeTurns

LEMMA BeforeChain ==
  ASSUME NEW p \in Seq(Nat), NEW q \in Seq(Nat), NEW r \in Seq(Nat), Before(p, q), Before(q, r)
  PROVE  Before(p, r)
<1>1. PICK n \in 1..Len(q) : Turns(p, q, n)
  BY BeforeTurns
<1>2. PICK m \in 1..Len(r) : Turns(q, r, m)
  BY BeforeTurns
<1>3. CASE n <= m
  <2>1. n \in 1..Len(r) /\ n \in 1..Len(q) /\ m <= Len(q) + 1
    BY <1>2, <1>3 DEF Turns
  <2>2. n <= Len(p) + 1 /\ (n <= Len(p) => p[n] < q[n]) /\ \A i \in 1..(n - 1) : p[i] = q[i]
    BY <1>1 DEF Turns
  <2>3. (m <= Len(q) => q[m] < r[m]) /\ \A i \in 1..(m - 1) : q[i] = r[i]
    BY <1>2 DEF Turns
  <2>4. \A i \in 1..(n - 1) : p[i] = r[i]
    BY <1>3, <2>2, <2>3, SMTT(30)
  <2>5. n <= Len(p) => p[n] < r[n]
    <3>1. CASE n < m
      BY <2>2, <2>3, <3>1, SMTT(30)
    <3>2. CASE n = m
      <4> SUFFICES ASSUME n <= Len(p) PROVE p[n] < r[n]
        OBVIOUS
      <4>1. p[n] \in Nat /\ q[n] \in Nat /\ r[n] \in Nat
        BY <2>1, SMTT(30)
      <4>2. p[n] < q[n] /\ q[n] < r[n]
        BY <2>1, <2>2, <2>3, <3>2
      <4> QED
        BY <4>1, <4>2, SMTT(30)
    <3> QED
      BY <1>3, <3>1, <3>2
  <2>6. Turns(p, r, n)
    BY <2>2, <2>4, <2>5 DEF Turns
  <2> QED
    BY <2>1, <2>6, BeforeTurns
<1>4. CASE m < n
  <2>1. m <= Len(p) /\ m <= Len(q) /\ m \in 1..(n - 1)
    BY <1>1, <1>4, SMTT(30) DEF Turns
  <2>2. \A i \in 1..(n - 1) : p[i] = q[i]
    BY <1>1 DEF Turns
  <2>3. q[m] < r[m] /\ \A i \in 1..(m - 1) : q[i] = r[i]
    BY <1>2, <2>1 DEF Turns
  <2>4. \A i \in 1..(m - 1) : p[i] = r[i]
    BY <2>1, <2>2, <2>3, SMTT(30)
  <2>5. p[m] < r[m]
    BY <2>1, <2>2, <2>3
  <2>6. Turns(p, r, m)
    BY <2>1, <2>4, <2>5 DEF Turns
  <2> QED
    BY <2>6, BeforeTurns
<1> QED
  BY <1>3, <1>4

LEMMA OneIsBefore ==
  ASSUME NEW p \in Seq(Nat), NEW q \in Seq(Nat), p # q
  PROVE  Before(p, q) \/ Before(q, p)
<1> DEFINE places == {n \in 1..(Len(p) + 1) : n = Len(p) + 1 \/ n = Len(q) + 1 \/ p[n] # q[n]}
<1>1. places \in SUBSET Nat /\ Len(p) + 1 \in places
  OBVIOUS
<1>2. PICK n \in places : \A i \in places : n <= i
  BY <1>1, LeastNumber
<1>3. n \in 1..(Len(p) + 1) /\ \A i \in 1..(n - 1) : i # Len(q) + 1 /\ p[i] = q[i]
  BY <1>2
<1>4. n <= Len(q) + 1
  <2>1. ASSUME n > Len(q) + 1 PROVE FALSE
    BY <1>3, <2>1
  <2> QED
    BY <1>3, <2>1
<1>5. CASE n = Len(p) + 1 /\ n = Len(q) + 1
  BY <1>3, <1>5
<1>6. CASE n = Len(p) + 1 /\ n # Len(q) + 1
  <2>1. n \in 1..Len(q) /\ Turns(p, q, n)
    BY <1>3, <1>4, <1>6 DEF Turns
  <2> QED
    BY <2>1, BeforeTurns
<1>7. CASE n # Len(p) + 1 /\ n = Len(q) + 1
  <2>1. n \in 1..Len(p) /\ Turns(q, p, n)
    BY <1>3, <1>4, <1>7 DEF Turns
  <2> QED
    BY <2>1, BeforeTurns
<1>8. CASE n # Len(p) + 1 /\ n # Len(q) + 1
  <2>1. n \in 1..Len(p) /\ n \in 1..Len(q) /\ p[n] # q[n]
    BY <1>2, <1>3, <1>4, <1>8
  <2>2. CASE p[n] < q[n]
    <3>1. Turns(p, q, n)
      BY <1>3, <2>1, <2>2 DEF Turns
    <3> QED
      BY <2>1, <3>1, BeforeTurns
  <2>3. CASE q[n] < p[n]
    <3>1. Turns(q, p, n)
      BY <1>3, <2>1, <2>3 DEF Turns
    <3> QED
      BY <2>1, <3>1, BeforeTurns
  <2> QED
    BY <2>1, <2>2, <2>3
<1> QED
  BY <1>5, <1>6, <1>7, <1>8

-----------------------------------------------------------------------------
(* The first and the last of some rows                                     *)

\* Of the subsets of a finite set that its members have, one is the least.
LEMMA LeastSubset ==
  ASSUME NEW S, IsFiniteSet(S), S # {}, NEW f \in [S -> SUBSET S]
  PROVE  \E p \in S : \A q \in S : f[q] \subseteq f[p] => f[q] = f[p]
<1> DEFINE ranks == {Cardinality(f[p]) : p \in S}
<1>1. \A p \in S : IsFiniteSet(f[p]) /\ Cardinality(f[p]) \in Nat
  BY FS_Subset, FS_CardinalityType
<1>2. PICK m \in ranks : \A i \in ranks : m <= i
  <2>1. ranks \in SUBSET Nat /\ ranks # {}
    BY <1>1
  <2> HIDE DEF ranks
  <2> QED
    BY <2>1, LeastNumber
<1>3. PICK p \in S : m = Cardinality(f[p])
  BY <1>2
<1>4. ASSUME NEW q \in S, f[q] \subseteq f[p] PROVE f[q] = f[p]
  <2>1. Cardinality(f[p]) <= Cardinality(f[q])
    BY <1>2, <1>3
  <2>2. /\ Cardinality(f[q]) <= Cardinality(f[p])
        /\ Cardinality(f[p]) = Cardinality(f[q]) => f[p] = f[q]
    BY <1>1, <1>4, FS_Subset
  <2> QED
    BY <1>1, <2>1, <2>2
<1> QED
  BY <1>4

LEMMA FirstIsOne ==
  ASSUME NEW S \in SUBSET Seq(Nat), IsFiniteSet(S), S # {}
  PROVE  FirstOf(S) \in S
<1> DEFINE behind == [p \in S |-> {q \in S : Before(q, p)}]
<1>1. PICK p \in S : \A q \in S : behind[q] \subseteq behind[p] => behind[q] = behind[p]
  <2>1. behind \in [S -> SUBSET S]
    OBVIOUS
  <2> HIDE DEF behind
  <2>2. \A f \in [S -> SUBSET S] : \E p \in S : \A q \in S : f[q] \subseteq f[p] => f[q] = f[p]
    BY LeastSubset, Zenon
  <2> QED
    BY <2>1, <2>2, Zenon
<1>2. ASSUME NEW q \in S, q # p PROVE Before(p, q)
  <2>1. CASE Before(q, p)
    <3>1. behind[q] \subseteq behind[p] /\ q \in behind[p] /\ q \notin behind[q]
      BY <2>1, BeforeChain, NotBoth
    <3> QED
      BY <1>1, <3>1
  <2> QED
    BY <1>2, <2>1, OneIsBefore
<1> QED
  BY <1>2 DEF FirstOf

LEMMA LastIsOne ==
  ASSUME NEW S \in SUBSET Seq(Nat), IsFiniteSet(S), S # {}
  PROVE  LastOf(S) \in S /\ \A q \in S : LastOf(S) = q \/ Before(q, LastOf(S))
<1> DEFINE after == [p \in S |-> {q \in S : Before(p, q)}]
<1>1. PICK p \in S : \A q \in S : after[q] \subseteq after[p] => after[q] = after[p]
  <2>1. after \in [S -> SUBSET S]
    OBVIOUS
  <2> HIDE DEF after
  <2>2. \A f \in [S -> SUBSET S] : \E p \in S : \A q \in S : f[q] \subseteq f[p] => f[q] = f[p]
    BY LeastSubset, Zenon
  <2> QED
    BY <2>1, <2>2, Zenon
<1>2. ASSUME NEW q \in S, q # p PROVE Before(q, p)
  <2>1. CASE Before(p, q)
    <3>1. after[q] \subseteq after[p] /\ q \in after[p] /\ q \notin after[q]
      BY <2>1, BeforeChain, NotBoth
    <3> QED
      BY <1>1, <3>1
  <2> QED
    BY <1>2, <2>1, OneIsBefore
<1>3. \A q \in S : p = q \/ Before(q, p)
  BY <1>2
<1> QED
  BY <1>3 DEF LastOf

\* The first numbers of a path.
LEMMA PartOf ==
  ASSUME NEW p \in Seq(Nat), NEW n \in 0..Len(p)
  PROVE  /\ SubSeq(p, 1, n) \in Seq(Nat) /\ Len(SubSeq(p, 1, n)) = n
         /\ \A i \in 1..n : SubSeq(p, 1, n)[i] = p[i]
OBVIOUS

\* The first part of a path is before it, and all rows between the two begin with it.
LEMMA PartsEnclose ==
  ASSUME NEW p \in Seq(Nat), NEW a \in Around(p)
  PROVE  /\ a \in Seq(Nat) /\ Len(a) \in 1..(Len(p) - 1) /\ a = SubSeq(p, 1, Len(a))
         /\ Before(a, p)
         /\ \A q \in Seq(Nat) : Before(a, q) /\ Before(q, p) => Len(a) < Len(q)
<1>1. PICK m \in 1..(Len(p) - 1) : a = SubSeq(p, 1, m)
  BY DEF Around
<1>2. a \in Seq(Nat) /\ Len(a) = m /\ \A i \in 1..m : a[i] = p[i]
  BY <1>1
<1>3. Turns(a, p, m + 1)
  BY <1>2 DEF Turns
<1>4. ASSUME NEW q \in Seq(Nat), Before(a, q), Before(q, p) PROVE m < Len(q)
  <2>1. PICK n \in 1..Len(q) : Turns(a, q, n)
    BY <1>2, <1>4, BeforeTurns
  <2>2. CASE n <= m
    <3>1. Turns(p, q, n)
      <4>1. n \in 1..m /\ m < Len(p) /\ Len(p) \in Nat
        BY <2>2
      <4>2. a[n] < q[n] /\ \A i \in 1..(n - 1) : a[i] = q[i]
        BY <1>2, <2>1, <4>1 DEF Turns
      <4>3. \A i \in 1..n : i \in 1..m
        BY <4>1
      <4>4. \A i \in 1..n : a[i] = p[i]
        BY <1>2, <4>3, Zenon
      <4>5. p[n] < q[n] /\ \A i \in 1..(n - 1) : p[i] = q[i]
        BY <4>1, <4>2, <4>4
      <4> QED
        BY <4>1, <4>5 DEF Turns
    <3>2. Before(p, q)
      BY <3>1, BeforeTurns
    <3> QED
      BY <1>4, <3>2, NotBoth
  <2>3. CASE n > m
    BY <2>1, <2>3
  <2> QED
    BY <2>1, <2>2, <2>3
<1> QED
  <2>1. Before(a, p)
    <3>1. m + 1 \in 1..Len(p)
      BY <1>1
    <3> QED
      BY <1>2, <1>3, <3>1, BeforeTurns
  <2> QED
    BY <1>1, <1>2, <1>4, <2>1

\* Paths that are on show with all their parts but the group.
Rooted(paths, p) == p \in Seq(Nat) /\ Len(p) >= 2 /\ \A n \in 2..Len(p) : SubSeq(p, 1, n) \in paths
Whole(paths) == \A p \in paths : Rooted(paths, p)

\* The ancestors of a row are its parts.
LEMMA AncestorsAreParts ==
  ASSUME NEW before, Whole(before), NEW p \in before
  PROVE  Ancestors(before, p) = Around(p) \cap before
<1>1. p \in Seq(Nat)
  BY DEF Whole, Rooted
<1>2. ASSUME NEW a \in Around(p) \cap before PROVE a \in Ancestors(before, p)
  <2>1. /\ Before(a, p) /\ Len(a) \in 1..(Len(p) - 1)
        /\ \A q \in Seq(Nat) : Before(a, q) /\ Before(q, p) => Len(a) < Len(q)
    BY <1>1, PartsEnclose
  <2>2. Len(a) < Len(p)
    BY <2>1
  <2> QED
    BY <1>1, <2>1, <2>2 DEF Ancestors, Whole, Rooted
<1>3. ASSUME NEW a \in Ancestors(before, p) PROVE a \in Around(p)
  <2>1. a \in before /\ Before(a, p) /\ Len(a) < Len(p)
    BY Zenon DEF Ancestors
  <2>2. \A q \in before : Before(a, q) /\ Before(q, p) => Len(a) < Len(q)
    BY Zenon DEF Ancestors
  <2>3. /\ a \in Seq(Nat) /\ Len(a) \in Nat /\ p \in Seq(Nat) /\ Len(p) \in Nat
        /\ Len(a) >= 2
    <3>1. a \in Seq(Nat) /\ p \in Seq(Nat) /\ Len(a) >= 2
      BY <2>1, Zenon DEF Whole, Rooted
    <3> QED
      BY <3>1
  <2>4. PICK n \in 1..Len(p) : Turns(a, p, n)
    BY <2>1, <2>3, BeforeTurns, SMTT(30)
  <2>5. CASE n = Len(a) + 1
    <3>1. \A i \in 1..Len(a) : a[i] = p[i]
      BY <2>3, <2>4, <2>5 DEF Turns
    <3>2. a = SubSeq(p, 1, Len(a))
      <4>1. SubSeq(a, 1, Len(a)) = SubSeq(p, 1, Len(a))
        BY <2>1, <2>3, <3>1, AlikeUpTo
      <4> QED
        BY <2>3, <4>1
    <3> QED
      <4>1. Len(a) \in 1..(Len(p) - 1)
        BY <2>1, <2>3
      <4> QED
        BY <3>2, <4>1 DEF Around
  <2>6. CASE n # Len(a) + 1
    <3> DEFINE m == IF n = 1 THEN 2 ELSE n
               q == SubSeq(p, 1, m)
    <3>1. n <= Len(a)
      BY <2>3, <2>4, <2>6 DEF Turns
    <3>2. n <= m /\ m <= Len(a) /\ m \in 2..(Len(p) - 1) /\ m \in 0..Len(p)
      BY <2>1, <2>3, <2>4, <3>1, SMTT(30)
    <3> HIDE DEF m
    <3>3. q \in before /\ q \in Seq(Nat) /\ Len(q) = m /\ \A i \in 1..m : q[i] = p[i]
      BY <2>3, <3>2, PartOf DEF Whole, Rooted
    <3> HIDE DEF q
    <3>4. n \in 1..Len(q) /\ Turns(a, q, n)
      <4>1. n \in 1..Len(q) /\ n <= Len(a) + 1
        BY <2>3, <2>4, <3>1, <3>2, <3>3
      <4>2. \A i \in 1..(n - 1) : a[i] = q[i]
        <5>1. \A i \in 1..(n - 1) : i \in 1..m
          BY <2>3, <3>2
        <5> QED
          BY <2>4, <3>3, <5>1 DEF Turns
      <4>3. a[n] < q[n]
        <5>1. n \in 1..m
          BY <2>3, <3>2
        <5> QED
          BY <2>3, <2>4, <3>1, <3>3, <5>1 DEF Turns
      <4> QED
        BY <4>1, <4>2, <4>3 DEF Turns
    <3>5. m + 1 \in 1..Len(p) /\ Turns(q, p, m + 1)
      BY <2>3, <3>2, <3>3 DEF Turns
    <3>6. Before(a, q) /\ Before(q, p)
      BY <2>3, <3>3, <3>4, <3>5, BeforeTurns
    <3>7. Len(a) < Len(q)
      BY <2>2, <3>3, <3>6
    <3> QED
      BY <2>3, <3>2, <3>3, <3>7
  <2> QED
    BY <2>5, <2>6
<1> QED
  BY <1>2, <1>3 DEF Ancestors

-----------------------------------------------------------------------------
(* The rows on show                                                        *)

LEMMA FiniteImage ==
  ASSUME NEW S, IsFiniteSet(S), NEW f, NEW T, T \subseteq {f[x] : x \in S}
  PROVE  IsFiniteSet(T)
<1> DEFINE g == [x \in S |-> f[x]]
           image == {f[x] : x \in S}
<1>1. g \in Surjection(S, image)
  BY DEF Surjection
<1>2. IsFiniteSet(image)
  BY <1>1, FS_Surjection
<1> QED
  BY <1>2, FS_Subset

LEMMA FiniteUnion ==
  ASSUME NEW S, IsFiniteSet(S), NEW f, \A x \in S : IsFiniteSet(f[x]), NEW T,
         T \subseteq UNION {f[x] : x \in S}
  PROVE  IsFiniteSet(T)
<1> DEFINE image == {f[x] : x \in S}
<1>1. IsFiniteSet(image)
  BY FiniteImage
<1>2. IsFiniteSet(UNION image)
  BY <1>1, FS_UNION
<1> QED
  BY <1>2, FS_Subset

\* What a database lists of its tables or keys, and the rows that are made of it.
VisibleNames(nd, db) == (IF db \in DOMAIN nd.lists THEN nd.lists[db] ELSE {}) \cap nd.visible
Focusable == {"connection", "database", "table", "redis-folder", "redis-key"}

\* Rows of a database that take the focus are tables, or keys and their folders.
LEMMA ListedRows ==
  ASSUME NEW base, NEW db, NEW nd, NEW folded, NEW r \in TableRows(base, db, nd, folded),
         r.type \in Focusable
  PROVE  IF nd.redis THEN r \in PushRedisNodes(VisibleNames(nd, db), base, folded)
         ELSE \E t \in VisibleNames(nd, db) : r = Row("table", Append(base, t))
<1> DEFINE rest == {Row("schema-picker", base), Row("loading", base), Row("browse-error", base),
                    Row("filter", base), Row("redis-scan", base), Row("message", base)}
<1>1. r \notin rest
  BY DEF Row, Focusable
<1>2. \/ r \in rest
      \/ r \in (IF nd.redis THEN PushRedisNodes(VisibleNames(nd, db), base, folded) \cup {Row("redis-scan", base)}
                 ELSE {Row("table", Append(base, t)) : t \in VisibleNames(nd, db)})
  BY Zenon DEF TableRows, VisibleNames
<1> QED
  BY <1>1, <1>2

LEMMA KeyRowsListed ==
  ASSUME NEW base, NEW db, NEW nd, NEW folded, nd.redis
  PROVE  PushRedisNodes(VisibleNames(nd, db), base, folded) \subseteq TableRows(base, db, nd, folded)
BY Zenon DEF TableRows, VisibleNames

\* A row on show is a connection's, a database's, or of what a database lists.
ShownIn(f, c, folded, r) ==
  LET base == <<GroupOf[c], c>>
  IN  \/ r.path = base
      \/ /\ f[c] # None /\ f[c].open
         /\ \E db \in f[c].dbs :
              \/ r.path = Append(base, db)
              \/ /\ db \in f[c].shown
                 /\ IF f[c].redis THEN r \in PushRedisNodes(VisibleNames(f[c], db), Append(base, db), folded)
                    ELSE \E t \in VisibleNames(f[c], db) : r.path = Append(Append(base, db), t)

LEMMA ShownRow ==
  ASSUME NEW f, NEW word, NEW folded, NEW r \in Focusables(f, word, folded)
  PROVE  \E c \in FilterConnections(f, word) : ShownIn(f, c, folded, r)
<1>1. r \in Rows(f, word, folded) /\ r.type \in Focusable
  BY DEF Focusables, Focusable
<1>2. r \notin GroupConnections(FilterConnections(f, word))
  BY <1>1 DEF GroupConnections, Row, Focusable
<1>3. PICK c \in FilterConnections(f, word) :
        r \in {Row("connection", <<GroupOf[c], c>>)}
              \cup (IF f[c] # None /\ f[c].open THEN DatabaseRows(<<GroupOf[c], c>>, f[c], folded) ELSE {})
  BY <1>1, <1>2 DEF Rows
<1> DEFINE base == <<GroupOf[c], c>>
<1>4. CASE r = Row("connection", base)
  BY <1>4 DEF Row, ShownIn
<1>5. CASE f[c] # None /\ f[c].open /\ r \in DatabaseRows(base, f[c], folded)
  <2>1. \/ \E db \in f[c].dbs : r = Row("database", Append(base, db))
        \/ \E db \in f[c].shown \cap f[c].dbs : r \in TableRows(Append(base, db), db, f[c], folded)
    <3>1. r \notin {Row("loading", base), Row("add-database", base)}
      BY <1>1 DEF Row, Focusable
    <3> DEFINE dbRows == {Row("database", Append(base, db)) : db \in f[c].dbs}
               listed == UNION {TableRows(Append(base, db), db, f[c], folded) : db \in f[c].shown \cap f[c].dbs}
    <3>2. DatabaseRows(base, f[c], folded) =
            (IF f[c].loading THEN {Row("loading", base)} ELSE {}) \cup dbRows
            \cup (IF f[c].redis THEN {} ELSE {Row("add-database", base)}) \cup listed
      BY DEF DatabaseRows
    <3>3. r \in dbRows \cup listed
      <4> HIDE DEF dbRows, listed, base
      <4> QED
        BY <1>5, <3>1, <3>2
    <3> QED
      BY <3>3
  <2>2. CASE \E db \in f[c].dbs : r = Row("database", Append(base, db))
    BY <1>5, <2>2 DEF Row, ShownIn
  <2>3. ASSUME NEW db \in f[c].shown \cap f[c].dbs, r \in TableRows(Append(base, db), db, f[c], folded)
        PROVE  IF f[c].redis THEN r \in PushRedisNodes(VisibleNames(f[c], db), Append(base, db), folded)
               ELSE \E t \in VisibleNames(f[c], db) : r.path = Append(Append(base, db), t)
    <3>1. IF f[c].redis THEN r \in PushRedisNodes(VisibleNames(f[c], db), Append(base, db), folded)
          ELSE \E t \in VisibleNames(f[c], db) : r = Row("table", Append(Append(base, db), t))
      <4> DEFINE at == Append(base, db)
      <4> HIDE DEF at
      <4> QED
        BY <1>1, <2>3, ListedRows DEF at
    <3> QED
      BY <3>1 DEF Row
  <2> QED
    BY <1>5, <2>1, <2>2, <2>3 DEF ShownIn
<1> QED
  BY <1>3, <1>4, <1>5

\* The rows above a row are on show with it.
LEMMA AboveShown ==
  ASSUME NEW f, NEW word, NEW folded, NEW c \in FilterConnections(f, word)
  PROVE  LET base == <<GroupOf[c], c>>
             paths == Paths(Focusables(f, word, folded))
         IN  /\ base \in paths
             /\ f[c] # None /\ f[c].open =>
                  \A db \in f[c].dbs :
                    /\ Append(base, db) \in paths
                    /\ db \in f[c].shown /\ f[c].redis =>
                         Paths(PushRedisNodes(VisibleNames(f[c], db), Append(base, db), folded)) \subseteq paths
<1> DEFINE base == <<GroupOf[c], c>>
<1>1. Row("connection", base) \in Focusables(f, word, folded)
  BY DEF Focusables, Rows, Row
<1>2. ASSUME f[c] # None, f[c].open PROVE DatabaseRows(base, f[c], folded) \subseteq Rows(f, word, folded)
  <2> SUFFICES ASSUME NEW r \in DatabaseRows(base, f[c], folded) PROVE r \in Rows(f, word, folded)
    OBVIOUS
  <2>1. r \in {Row("connection", base)}
              \cup (IF f[c] # None /\ f[c].open THEN DatabaseRows(base, f[c], folded) ELSE {})
    BY <1>2
  <2> QED
    BY <2>1 DEF Rows
<1>3. ASSUME f[c] # None, f[c].open, NEW db \in f[c].dbs
      PROVE  Row("database", Append(base, db)) \in Focusables(f, word, folded)
  <2>1. Row("database", Append(base, db)) \in DatabaseRows(base, f[c], folded)
    BY DEF DatabaseRows
  <2> QED
    BY <1>2, <1>3, <2>1 DEF Focusables, Row
<1>4. ASSUME f[c] # None, f[c].open, NEW db \in f[c].dbs, db \in f[c].shown, f[c].redis,
             NEW r \in PushRedisNodes(VisibleNames(f[c], db), Append(base, db), folded)
      PROVE  r \in Focusables(f, word, folded)
  <2>1. r \in TableRows(Append(base, db), db, f[c], folded)
    BY <1>4, KeyRowsListed
  <2>2. r \in DatabaseRows(base, f[c], folded)
    BY <1>4, <2>1 DEF DatabaseRows
  <2>3. r.type \in {"redis-folder", "redis-key"}
    BY DEF PushRedisNodes, BuildRedisKeyTree, Row
  <2> QED
    BY <1>2, <1>4, <2>2, <2>3 DEF Focusables
<1>5. Row("connection", base).path = base
  BY DEF Row
<1>6. \A db : Row("database", Append(base, db)).path = Append(base, db)
  BY DEF Row
<1> QED
  BY <1>1, <1>3, <1>4, <1>5, <1>6 DEF Paths

LEMMA SameSequence ==
  ASSUME NEW p \in Seq(Nat), NEW q \in Seq(Nat), Len(p) = Len(q), \A i \in 1..Len(p) : p[i] = q[i]
  PROVE  p = q
BY SMTT(30)

LEMMA JoinedParts ==
  ASSUME NEW base \in Seq(Nat), NEW tail \in Seq(Nat)
  PROVE  /\ base \o tail \in Seq(Nat) /\ Len(base \o tail) = Len(base) + Len(tail)
         /\ SubSeq(base \o tail, 1, Len(base)) = base
         /\ \A j \in 0..Len(tail) : SubSeq(base \o tail, 1, Len(base) + j) = base \o SubSeq(tail, 1, j)
<1>1. base \o tail \in Seq(Nat) /\ Len(base \o tail) = Len(base) + Len(tail)
  OBVIOUS
<1>2. ASSUME NEW j \in 0..Len(tail)
      PROVE  SubSeq(base \o tail, 1, Len(base) + j) = base \o SubSeq(tail, 1, j)
  <2> DEFINE x == SubSeq(base \o tail, 1, Len(base) + j)
             y == base \o SubSeq(tail, 1, j)
  <2>1. Len(base) + j \in 0..Len(base \o tail) /\ Len(base) \in Nat /\ j \in Nat
    BY <1>1
  <2>2. x \in Seq(Nat) /\ Len(x) = Len(base) + j /\ \A i \in 1..(Len(base) + j) : x[i] = (base \o tail)[i]
    BY <1>1, <2>1, PartOf
  <2>3. SubSeq(tail, 1, j) \in Seq(Nat) /\ Len(SubSeq(tail, 1, j)) = j /\ \A i \in 1..j : SubSeq(tail, 1, j)[i] = tail[i]
    BY PartOf
  <2>4. y \in Seq(Nat) /\ Len(y) = Len(base) + j
    BY <2>3
  <2>5. ASSUME NEW i \in 1..(Len(base) + j) PROVE x[i] = y[i]
    <3>1. CASE i <= Len(base)
      BY <2>1, <2>2, <2>3, <3>1
    <3>2. CASE i > Len(base)
      <4>1. i - Len(base) \in 1..j
        BY <2>1, <3>2
      <4>2. y[i] = SubSeq(tail, 1, j)[i - Len(base)]
        BY <2>1, <2>3, <3>2, <4>1
      <4>3. x[i] = tail[i - Len(base)]
        BY <2>1, <2>2, <3>2, <4>1
      <4> QED
        BY <2>3, <4>1, <4>2, <4>3
    <3> QED
      BY <2>1, <3>1, <3>2
  <2> HIDE DEF x, y
  <2> QED
    BY <2>2, <2>4, <2>5, SameSequence DEF x, y
<1>3. SubSeq(base \o tail, 1, Len(base)) = base
  OBVIOUS
<1> QED
  BY <1>1, <1>2, <1>3

LEMMA PartOfPart ==
  ASSUME NEW p \in Seq(Nat), NEW m \in 0..Len(p), NEW n \in 0..m
  PROVE  SubSeq(SubSeq(p, 1, m), 1, n) = SubSeq(p, 1, n)
<1>1. n \in Nat /\ n <= Len(p) /\ n <= m
  OBVIOUS
<1>2. \A i \in 1..n : i \in 1..m
  BY <1>1
<1>3. \A i \in 1..n : SubSeq(p, 1, m)[i] = p[i]
  BY <1>2, PartOf
<1>4. SubSeq(p, 1, m) \in Seq(Nat) /\ Len(SubSeq(p, 1, m)) = m
  BY PartOf
<1> QED
  BY <1>1, <1>3, <1>4, AlikeUpTo

-----------------------------------------------------------------------------
(* Rows with all that they are in                                          *)

\* What the paths of a key and of its folders add to their database's.
KeyTails(k) == {SubSeq(k, 1, n) : n \in 1..(Len(k) - 1)} \cup {Append(Front(k), Leaf(Last(k)))}

LEMMA KeyRowPath ==
  ASSUME NEW base, NEW keys, NEW folded, NEW r \in PushRedisNodes(keys, base, folded)
  PROVE  \E k \in keys : \E tail \in KeyTails(k) : r.path = base \o tail
<1>1. \A type, path : Row(type, path).path = path
  BY DEF Row
<1>2. r \in BuildRedisKeyTree(keys, base)
  BY DEF PushRedisNodes
<1>3. CASE r \in {Row("redis-key", base \o Append(Front(k), Leaf(Last(k)))) : k \in keys}
  BY <1>1, <1>3 DEF KeyTails
<1>4. CASE r \in {Row("redis-folder", base \o q) : q \in UNION {{SubSeq(k, 1, n) : n \in 1..(Len(k) - 1)} : k \in keys}}
  <2>1. PICK q \in UNION {{SubSeq(k, 1, n) : n \in 1..(Len(k) - 1)} : k \in keys} : r = Row("redis-folder", base \o q)
    BY <1>4
  <2>2. PICK k \in keys : q \in {SubSeq(k, 1, n) : n \in 1..(Len(k) - 1)}
    BY <2>1
  <2> QED
    BY <1>1, <2>1, <2>2 DEF KeyTails
<1> QED
  BY <1>2, <1>3, <1>4, Zenon DEF BuildRedisKeyTree

\* What is below a database of keys is on show with the folders it is in.
LEMMA KeyRows ==
  ASSUME NEW base \in Seq(Nat), NEW keys \in SUBSET (Seq(Nat) \ {<<>>}), NEW folded,
         NEW r \in PushRedisNodes(keys, base, folded)
  PROVE  /\ r.path \in Seq(Nat) /\ Len(r.path) > Len(base) /\ SubSeq(r.path, 1, Len(base)) = base
         /\ \A m \in (Len(base) + 1)..Len(r.path) :
              SubSeq(r.path, 1, m) \in Paths(PushRedisNodes(keys, base, folded))
<1>1. PICK k \in keys : \E tail \in KeyTails(k) : r.path = base \o tail
  BY KeyRowPath
<1>2. k \in Seq(Nat) /\ Len(k) \in Nat \ {0}
  BY <1>1
<1>4. \E tail \in Seq(Nat) : /\ r.path = base \o tail /\ Len(tail) \in 1..Len(k)
                             /\ \A i \in 1..(Len(tail) - 1) : tail[i] = k[i]
  <2>1. ASSUME NEW n \in 1..(Len(k) - 1)
        PROVE  /\ SubSeq(k, 1, n) \in Seq(Nat) /\ Len(SubSeq(k, 1, n)) \in 1..Len(k)
               /\ \A i \in 1..(Len(SubSeq(k, 1, n)) - 1) : SubSeq(k, 1, n)[i] = k[i]
    BY <1>2, PartOf, SMTT(30)
  <2> DEFINE named == Append(Front(k), Leaf(Last(k)))
  <2>2. Front(k) \in Seq(Nat) /\ Len(Front(k)) = Len(k) - 1 /\ \A i \in 1..(Len(k) - 1) : Front(k)[i] = k[i]
    <3>1. Len(k) - 1 \in 0..Len(k)
      BY <1>2
    <3> QED
      BY <1>2, <3>1, PartOf DEF Front
  <2>3. Leaf(Last(k)) \in Nat
    BY <1>2 DEF Leaf, Last
  <2>4. /\ named \in Seq(Nat) /\ Len(named) \in 1..Len(k)
        /\ \A i \in 1..(Len(named) - 1) : named[i] = k[i]
    BY <1>2, <2>2, <2>3
  <2> QED
    BY <1>1, <2>1, <2>4 DEF KeyTails
<1>5. PICK tail \in Seq(Nat) : /\ r.path = base \o tail /\ Len(tail) \in 1..Len(k)
                               /\ \A i \in 1..(Len(tail) - 1) : tail[i] = k[i]
  BY <1>4
<1>6. /\ r.path \in Seq(Nat) /\ Len(r.path) = Len(base) + Len(tail)
      /\ SubSeq(r.path, 1, Len(base)) = base
  BY <1>5, JoinedParts
<1>7. ASSUME NEW m \in (Len(base) + 1)..Len(r.path)
      PROVE  SubSeq(r.path, 1, m) \in Paths(PushRedisNodes(keys, base, folded))
  <2>1. CASE m = Len(r.path)
    <3>1. SubSeq(r.path, 1, m) = r.path
      BY <1>6, <2>1
    <3> QED
      BY <3>1 DEF Paths
  <2>2. CASE m # Len(r.path)
    <3> DEFINE j == m - Len(base)
               row == Row("redis-folder", base \o SubSeq(k, 1, j))
    <3>1. j \in 1..(Len(tail) - 1) /\ j \in 0..Len(tail) /\ j \in 1..(Len(k) - 1) /\ m = Len(base) + j
      <4>1. Len(tail) \in Nat /\ Len(base) \in Nat /\ m \in Nat
        BY <1>5, <1>7
      <4>2. m < Len(base) + Len(tail) /\ m >= Len(base) + 1 /\ Len(tail) <= Len(k)
        <5>1. Len(r.path) = Len(base) + Len(tail) /\ Len(r.path) \in Nat
          BY <1>6, <4>1
        <5>2. Len(tail) <= Len(k)
          BY <1>2, <1>5
        <5>3. m <= Len(r.path) /\ m >= Len(base) + 1
          BY <1>7, <4>1, <5>1
        <5> QED
          BY <2>2, <4>1, <5>1, <5>2, <5>3, SMTT(30)
      <4> QED
        BY <1>2, <4>1, <4>2, SMTT(30)
    <3> HIDE DEF j
    <3>2. SubSeq(tail, 1, j) = SubSeq(k, 1, j)
      BY <1>2, <1>5, <3>1, AlikeUpTo
    <3>3. SubSeq(r.path, 1, m) = base \o SubSeq(k, 1, j)
      <4>1. SubSeq(base \o tail, 1, Len(base) + j) = base \o SubSeq(tail, 1, j)
        BY <3>1, JoinedParts
      <4> QED
        BY <1>5, <3>1, <3>2, <4>1, Zenon
    <3>4. row \in BuildRedisKeyTree(keys, base)
      <4>1. SubSeq(k, 1, j) \in UNION {{SubSeq(kk, 1, n) : n \in 1..(Len(kk) - 1)} : kk \in keys}
        BY <3>1
      <4> QED
        BY <4>1, Zenon DEF BuildRedisKeyTree
    <3>5. row.path = SubSeq(r.path, 1, m) /\ Len(row.path) = m
      <4>1. m \in 0..Len(r.path)
        BY <1>6, <1>7
      <4>2. row.path = base \o SubSeq(k, 1, j)
        BY DEF Row
      <4>3. Len(SubSeq(r.path, 1, m)) = m
        BY <1>6, <4>1, PartOf
      <4> QED
        BY <3>3, <4>2, <4>3
    <3>6. \A n \in 1..(m - 1) : SubSeq(row.path, 1, n) = SubSeq(r.path, 1, n) /\ n \in 1..(Len(r.path) - 1)
      BY <1>6, <3>5, PartOfPart, SMTT(30)
    <3>7. \A n \in 1..(Len(r.path) - 1) : SubSeq(r.path, 1, n) \notin folded
      BY DEF PushRedisNodes
    <3>8. \A n \in 1..(Len(row.path) - 1) : SubSeq(row.path, 1, n) \notin folded
      BY <3>5, <3>6, <3>7
    <3>9. row \in PushRedisNodes(keys, base, folded)
      BY <3>4, <3>8 DEF PushRedisNodes
    <3> QED
      BY <3>5, <3>9 DEF Paths
  <2> QED
    BY <2>1, <2>2
<1>8. Len(r.path) > Len(base)
  BY <1>5, <1>6
<1> QED
  BY <1>6, <1>7, <1>8

\* With a path on show with its parts, so is one that is a number longer.
LEMMA GrownPath ==
  ASSUME NEW paths, NEW p, Rooted(paths, p), NEW x \in Nat, Append(p, x) \in paths
  PROVE  Rooted(paths, Append(p, x)) /\ Len(Append(p, x)) = Len(p) + 1
<1>1. p \in Seq(Nat) /\ Len(p) \in Nat /\ Len(p) >= 2
  BY DEF Rooted
<1>2. Append(p, x) \in Seq(Nat) /\ Len(Append(p, x)) = Len(p) + 1 /\ \A i \in 1..Len(p) : Append(p, x)[i] = p[i]
  BY <1>1
<1>3. ASSUME NEW m \in 2..Len(Append(p, x)) PROVE SubSeq(Append(p, x), 1, m) \in paths
  <2>1. CASE m = Len(p) + 1
    <3>1. SubSeq(Append(p, x), 1, m) = Append(p, x)
      BY <1>2, <2>1
    <3> QED
      BY <3>1
  <2>2. CASE m # Len(p) + 1
    <3>1. m \in 2..Len(p) /\ m \in Nat /\ m <= Len(p) /\ m <= Len(Append(p, x))
      BY <1>1, <1>2, <2>2
    <3>2. SubSeq(Append(p, x), 1, m) = SubSeq(p, 1, m)
      <4>1. \A i \in 1..m : Append(p, x)[i] = p[i]
        BY <1>2, <3>1
      <4> QED
        BY <1>1, <1>2, <3>1, <4>1, AlikeUpTo
    <3> QED
      BY <3>1, <3>2 DEF Rooted
  <2> QED
    BY <2>1, <2>2
<1> QED
  BY <1>1, <1>2, <1>3 DEF Rooted

\* A row is on show with the database, the connection and the folders it is in.
LEMMA ShownIsWhole ==
  ASSUME NEW f, IsForest(f), NEW word, NEW folded
  PROVE  Whole(Paths(Focusables(f, word, folded)))
<1> DEFINE paths == Paths(Focusables(f, word, folded))
<1>1. SUFFICES ASSUME NEW r \in Focusables(f, word, folded) PROVE Rooted(paths, r.path)
  BY DEF Whole, Paths
<1>2. PICK c \in FilterConnections(f, word) : ShownIn(f, c, folded, r)
  BY ShownRow
<1> DEFINE base == <<GroupOf[c], c>>
<1>3. /\ base \in paths
      /\ f[c] # None /\ f[c].open =>
           \A db \in f[c].dbs :
             /\ Append(base, db) \in paths
             /\ db \in f[c].shown /\ f[c].redis =>
                  Paths(PushRedisNodes(VisibleNames(f[c], db), Append(base, db), folded)) \subseteq paths
  BY AboveShown
<1>4. c \in Nat /\ GroupOf[c] \in Nat /\ (f[c] = None \/ IsNode(f[c]))
  BY DEF FilterConnections, IsForest
<1>5. Rooted(paths, base) /\ Len(base) = 2
  <2>1. base \in Seq(Nat) /\ Len(base) = 2
    BY <1>4
  <2> HIDE DEF base, paths
  <2>2. SubSeq(base, 1, 2) = base
    BY <2>1
  <2>3. ASSUME NEW m \in 2..Len(base) PROVE SubSeq(base, 1, m) \in paths
    <3>1. m = 2
      BY <2>1
    <3> QED
      BY <1>3, <2>2, <3>1
  <2> QED
    BY <2>1, <2>3 DEF Rooted
<1>6. r.path \in paths
  BY DEF Paths
<1> HIDE DEF base, paths
<1>7. ASSUME f[c] # None, f[c].open, NEW db \in f[c].dbs
      PROVE  Rooted(paths, Append(base, db)) /\ Len(Append(base, db)) = 3
  <2>1. db \in Nat /\ Append(base, db) \in paths
    BY <1>3, <1>4, <1>7 DEF IsNode
  <2>2. Rooted(paths, Append(base, db)) /\ Len(Append(base, db)) = Len(base) + 1
    BY <1>5, <2>1, GrownPath, Zenon
  <2> QED
    BY <1>5, <2>2
<1>8. ASSUME f[c] # None, f[c].open, NEW db \in f[c].dbs, ~f[c].redis,
             NEW t \in VisibleNames(f[c], db), r.path = Append(Append(base, db), t)
      PROVE  Rooted(paths, r.path)
  <2>1. t \in Nat
    BY <1>4, <1>8 DEF IsNode, VisibleNames
  <2> QED
    BY <1>6, <1>7, <1>8, <2>1, GrownPath
<1>9. ASSUME f[c] # None, f[c].open, NEW db \in f[c].dbs, db \in f[c].shown, f[c].redis,
             r \in PushRedisNodes(VisibleNames(f[c], db), Append(base, db), folded)
      PROVE  Rooted(paths, r.path)
  <2> DEFINE at == Append(base, db)
             keys == VisibleNames(f[c], db)
             p == r.path
  <2>1. keys \in SUBSET (Seq(Nat) \ {<<>>})
    BY <1>4, <1>9 DEF IsNode, VisibleNames
  <2>2. Rooted(paths, at) /\ Len(at) = 3 /\ at \in Seq(Nat)
    BY <1>7, <1>9 DEF Rooted
  <2>3. r \in PushRedisNodes(keys, at, folded) /\ Paths(PushRedisNodes(keys, at, folded)) \subseteq paths
    BY <1>3, <1>9
  <2> HIDE DEF at, keys
  <2>4. /\ p \in Seq(Nat) /\ Len(p) > Len(at) /\ SubSeq(p, 1, Len(at)) = at
        /\ \A m \in (Len(at) + 1)..Len(p) : SubSeq(p, 1, m) \in Paths(PushRedisNodes(keys, at, folded))
    BY <2>1, <2>2, <2>3, KeyRows
  <2> HIDE DEF p
  <2>5. ASSUME NEW m \in 2..Len(p) PROVE SubSeq(p, 1, m) \in paths
    <3>1. CASE m > 3
      <4>1. m \in (Len(at) + 1)..Len(p)
        BY <2>2, <2>4, <3>1
      <4> QED
        BY <2>3, <2>4, <4>1
    <3>2. CASE m <= 3
      <4>1. m \in 0..3 /\ 3 \in 0..Len(p) /\ m \in 2..Len(at)
        BY <2>2, <2>4, <3>2
      <4>2. SubSeq(SubSeq(p, 1, 3), 1, m) = SubSeq(p, 1, m)
        BY <2>4, <4>1, PartOfPart
      <4>3. SubSeq(p, 1, m) = SubSeq(at, 1, m)
        BY <2>2, <2>4, <4>2
      <4> QED
        BY <2>2, <4>1, <4>3 DEF Rooted
    <3> QED
      BY <3>1, <3>2
  <2>6. p \in Seq(Nat) /\ Len(p) >= 2
    BY <2>2, <2>4
  <2> QED
    BY <2>5, <2>6 DEF Rooted, p
<1> QED
  BY <1>2, <1>5, <1>7, <1>8, <1>9 DEF base, ShownIn

-----------------------------------------------------------------------------
(* Finitely many rows                                                      *)

LEMMA KeyTailsFinite == ASSUME NEW k \in Seq(Nat) PROVE IsFiniteSet(KeyTails(k))
<1> DEFINE parts == {SubSeq(k, 1, n) : n \in 1..(Len(k) - 1)}
           f == [n \in 1..(Len(k) - 1) |-> SubSeq(k, 1, n)]
<1>1. IsFiniteSet(1..(Len(k) - 1))
  BY FS_Interval
<1>2. parts \subseteq {f[n] : n \in 1..(Len(k) - 1)}
  OBVIOUS
<1>3. IsFiniteSet(parts)
  <2> HIDE DEF f, parts
  <2> QED
    BY <1>1, <1>2, FiniteImage
<1>4. IsFiniteSet({Append(Front(k), Leaf(Last(k)))})
  BY FS_Singleton
<1> QED
  BY <1>3, <1>4, FS_Union DEF KeyTails

\* The paths below a database.
PathsBelow(nd, at) ==
  IF nd.redis THEN UNION {{at \o q : q \in KeyTails(k)} : k \in nd.visible}
  ELSE {Append(at, t) : t \in nd.visible}

LEMMA BelowFinite == ASSUME NEW nd, IsNode(nd), NEW at PROVE IsFiniteSet(PathsBelow(nd, at))
<1>1. CASE nd.redis
  <2> DEFINE f == [k \in nd.visible |-> {at \o q : q \in KeyTails(k)}]
  <2>1. ASSUME NEW k \in nd.visible PROVE IsFiniteSet(f[k])
    <3> DEFINE g == [q \in KeyTails(k) |-> at \o q]
    <3>1. k \in Seq(Nat)
      BY <1>1 DEF IsNode
    <3>2. IsFiniteSet(KeyTails(k))
      BY <3>1, KeyTailsFinite
    <3>3. f[k] \subseteq {g[q] : q \in KeyTails(k)}
      OBVIOUS
    <3> HIDE DEF f, g
    <3> QED
      BY <3>2, <3>3, FiniteImage
  <2>2. PathsBelow(nd, at) \subseteq UNION {f[k] : k \in nd.visible}
    BY <1>1 DEF PathsBelow
  <2>3. IsFiniteSet(nd.visible)
    BY DEF IsNode
  <2> HIDE DEF f
  <2> QED
    BY <2>1, <2>2, <2>3, FiniteUnion
<1>2. CASE ~nd.redis
  <2> DEFINE f == [t \in nd.visible |-> Append(at, t)]
  <2>1. PathsBelow(nd, at) \subseteq {f[t] : t \in nd.visible}
    BY <1>2 DEF PathsBelow
  <2>2. IsFiniteSet(nd.visible)
    BY DEF IsNode
  <2> HIDE DEF f
  <2> QED
    BY <2>1, <2>2, FiniteImage
<1> QED
  BY <1>1, <1>2

\* The paths of a connection.
PathsWithin(nd, base) ==
  {base} \cup (IF nd = None THEN {} ELSE UNION {{Append(base, db)} \cup PathsBelow(nd, Append(base, db)) : db \in nd.dbs})

LEMMA WithinFinite == ASSUME NEW nd, nd = None \/ IsNode(nd), NEW base PROVE IsFiniteSet(PathsWithin(nd, base))
<1>1. IsFiniteSet({base}) /\ IsFiniteSet({})
  BY FS_Singleton, FS_EmptySet
<1>2. CASE nd # None
  <2> DEFINE f == [db \in nd.dbs |-> {Append(base, db)} \cup PathsBelow(nd, Append(base, db))]
             rest == UNION {{Append(base, db)} \cup PathsBelow(nd, Append(base, db)) : db \in nd.dbs}
  <2>1. ASSUME NEW db \in nd.dbs PROVE IsFiniteSet(f[db])
    <3>1. IsFiniteSet({Append(base, db)}) /\ IsFiniteSet(PathsBelow(nd, Append(base, db)))
      BY <1>2, FS_Singleton, BelowFinite
    <3> QED
      BY <3>1, FS_Union
  <2>2. rest \subseteq UNION {f[db] : db \in nd.dbs}
    OBVIOUS
  <2>3. IsFiniteSet(nd.dbs)
    BY <1>2 DEF IsNode
  <2>4. IsFiniteSet(rest)
    <3> HIDE DEF f, rest
    <3> QED
      BY <2>1, <2>2, <2>3, FiniteUnion
  <2>5. PathsWithin(nd, base) = {base} \cup rest
    BY <1>2 DEF PathsWithin
  <2> HIDE DEF rest
  <2> QED
    BY <1>1, <2>4, <2>5, FS_Union
<1>3. CASE nd = None
  <2>1. PathsWithin(nd, base) = {base}
    BY <1>3 DEF PathsWithin
  <2> QED
    BY <1>1, <2>1
<1> QED
  BY <1>2, <1>3

\* The rows on show are finitely many.
LEMMA ShownIsFinite ==
  ASSUME NEW f, IsForest(f), NEW word, NEW folded
  PROVE  IsFiniteSet(Paths(Focusables(f, word, folded)))
<1> DEFINE paths == Paths(Focusables(f, word, folded))
           g == [c \in DOMAIN f |-> PathsWithin(f[c], <<GroupOf[c], c>>)]
<1>1. ASSUME NEW c \in DOMAIN f PROVE IsFiniteSet(g[c])
  BY WithinFinite DEF IsForest
<1>2. ASSUME NEW r \in Focusables(f, word, folded) PROVE \E c \in DOMAIN f : r.path \in g[c]
  <2>1. PICK c \in FilterConnections(f, word) : ShownIn(f, c, folded, r)
    BY ShownRow
  <2>2. c \in DOMAIN f /\ (f[c] = None \/ IsNode(f[c])) /\ GroupOf[c] \in Nat /\ c \in Nat
    BY DEF FilterConnections, IsForest
  <2> DEFINE base == <<GroupOf[c], c>>
  <2>3. ASSUME f[c] # None, NEW db \in f[c].dbs, r.path = Append(base, db)
        PROVE  r.path \in PathsWithin(f[c], base)
    BY <2>3 DEF PathsWithin
  <2>4. ASSUME f[c] # None, NEW db \in f[c].dbs, f[c].redis,
               r \in PushRedisNodes(VisibleNames(f[c], db), Append(base, db), folded)
        PROVE  r.path \in PathsWithin(f[c], base)
    <3> DEFINE at == Append(base, db)
               keys == VisibleNames(f[c], db)
    <3>1. keys \subseteq f[c].visible
      BY DEF VisibleNames
    <3>2. r \in PushRedisNodes(keys, at, folded)
      BY <2>4
    <3> HIDE DEF keys, at
    <3>3. PICK k \in keys : \E q \in KeyTails(k) : r.path = at \o q
      BY <3>2, KeyRowPath
    <3>4. r.path \in PathsBelow(f[c], at)
      BY <2>4, <3>1, <3>3 DEF PathsBelow
    <3> QED
      BY <2>4, <3>4 DEF PathsWithin, at
  <2>5. ASSUME f[c] # None, NEW db \in f[c].dbs, ~f[c].redis,
               NEW t \in VisibleNames(f[c], db), r.path = Append(Append(base, db), t)
        PROVE  r.path \in PathsWithin(f[c], base)
    <3>1. r.path \in PathsBelow(f[c], Append(base, db))
      BY <2>5 DEF PathsBelow, VisibleNames
    <3> QED
      BY <2>5, <3>1 DEF PathsWithin
  <2>6. r.path \in PathsWithin(f[c], base)
    <3>1. \/ r.path = base
          \/ /\ f[c] # None
             /\ \E db \in f[c].dbs :
                  \/ r.path = Append(base, db)
                  \/ f[c].redis /\ r \in PushRedisNodes(VisibleNames(f[c], db), Append(base, db), folded)
                  \/ ~f[c].redis /\ \E t \in VisibleNames(f[c], db) : r.path = Append(Append(base, db), t)
      BY <2>1, Zenon DEF ShownIn
    <3>2. CASE r.path = base
      BY <3>2 DEF PathsWithin
    <3> HIDE DEF base
    <3> QED
      BY <2>3, <2>4, <2>5, <3>1, <3>2
  <2> QED
    BY <2>2, <2>6
<1>3. paths \subseteq UNION {g[c] : c \in DOMAIN f}
  BY <1>2 DEF Paths
<1>4. IsFiniteSet(DOMAIN f)
  BY DEF IsForest
<1> HIDE DEF g, paths
<1> QED
  BY <1>1, <1>3, <1>4, FiniteUnion DEF paths

-----------------------------------------------------------------------------
(* The focus                                                               *)

\* The focus is on a row on show, of a forest of numbers.
FocusInv == IsForest(forest) /\ (activeKey = None \/ activeKey \in Paths(Shown))

\* The first row of any, and the survivor of another, are rows on show.
LEMMA Refocused ==
  ASSUME NEW before, NEW f, IsForest(f), NEW word, NEW folded
  PROVE  Refocus(before, Paths(Focusables(f, word, folded))) \in Paths(Focusables(f, word, folded)) \cup {None}
<1> DEFINE now == Paths(Focusables(f, word, folded))
<1>1. now \in SUBSET Seq(Nat) /\ IsFiniteSet(now)
  BY ShownIsWhole, ShownIsFinite DEF Whole, Rooted
<1> HIDE DEF now
<1>2. FirstOf(now) \in now \cup {None}
  <2>1. CASE now = {}
    BY <2>1 DEF FirstOf
  <2>2. CASE now # {}
    BY <1>1, <2>2, FirstIsOne
  <2> QED
    BY <2>1, <2>2
<1>3. ASSUME NEW p PROVE Surviving(before, now, p) \in now \cup {None}
  <2> DEFINE left == Ancestors(before, p) \cap now
  <2>1. CASE left = {}
    BY <1>2, <2>1 DEF Surviving
  <2>2. CASE left # {}
    <3>1. left \in SUBSET Seq(Nat) /\ IsFiniteSet(left) /\ left \subseteq now
      BY <1>1, FS_Subset
    <3> HIDE DEF left
    <3>2. LastOf(left) \in now
      BY <2>2, <3>1, LastIsOne
    <3> QED
      BY <2>2, <3>2 DEF Surviving, left
  <2> QED
    BY <2>1, <2>2
<1>4. Refocus(before, now) \in now \cup {None}
  BY <1>2, <1>3 DEF Refocus
<1> QED
  BY <1>4 DEF now

\* Whatever key is pressed, what gets the focus is a row on show.
LEMMA Pressed ==
  ASSUME NEW paths \in SUBSET Seq(Nat), IsFiniteSet(paths), NEW part, part \subseteq paths
  PROVE  FirstOf(part) \in paths \cup {None} /\ LastOf(part) \in paths \cup {None}
<1>1. part \in SUBSET Seq(Nat) /\ IsFiniteSet(part)
  BY FS_Subset
<1>2. CASE part = {}
  BY <1>2 DEF FirstOf, LastOf
<1>3. CASE part # {}
  BY <1>1, <1>3, FirstIsOne, LastIsOne
<1> QED
  BY <1>2, <1>3

LEMMA ArrowFocus ==
  ASSUME IsForest(forest), NEW key, Arrow(key)
  PROVE  activeKey' \in Paths(Shown) /\ UNCHANGED <<forest, keyword, foldedKeys>>
<1> DEFINE paths == Paths(Shown)
           p == Active(Shown)
           to == ArrowTo(key, Shown, paths, p)
<1>1. Shown # {} /\ to # None /\ Focus(to)
  BY DEF Arrow
<1>2. paths \in SUBSET Seq(Nat) /\ IsFiniteSet(paths) /\ paths # {}
  BY <1>1, ShownIsWhole, ShownIsFinite DEF Whole, Rooted, Shown, Paths
<1>3. p \in paths
  BY <1>2, FirstIsOne DEF Active
<1> HIDE DEF paths, p
<1>4. to \in paths \cup {None}
  <2>1. CASE key = "down"
    <3> DEFINE after == {q \in paths : Before(p, q)}
    <3>1. to = FirstOf(IF after = {} THEN {p} ELSE after)
      BY <2>1 DEF ArrowTo
    <3> QED
      BY <1>2, <1>3, <3>1, Pressed
  <2>2. CASE key = "up"
    <3> DEFINE back == {q \in paths : Before(q, p)}
    <3>1. to = LastOf(IF back = {} THEN {p} ELSE back)
      BY <2>2 DEF ArrowTo
    <3> QED
      BY <1>2, <1>3, <3>1, Pressed
  <2>3. CASE key = "home" \/ key = "end"
    <3>1. to = FirstOf(paths) \/ to = LastOf(paths)
      BY <2>3 DEF ArrowTo
    <3> QED
      BY <1>2, <3>1, Pressed
  <2>4. CASE key = "right"
    <3>1. to = None \/ to = FirstOf({q \in paths : ParentOf(paths, q) = p})
      BY <2>4 DEF ArrowTo
    <3> QED
      BY <1>2, <3>1, Pressed
  <2>5. CASE key \notin {"down", "up", "home", "end", "right"}
    <3>1. to = None \/ to = LastOf({q \in paths : Before(q, p) /\ Len(q) < Len(p)})
      BY <2>5 DEF ArrowTo, ParentOf
    <3> QED
      BY <1>2, <3>1, Pressed
  <2> QED
    BY <2>1, <2>2, <2>3, <2>4, <2>5
<1> QED
  BY <1>1, <1>4 DEF Focus, paths

LEMMA TypedFocus ==
  ASSUME IsForest(forest), NEW label, TypeAhead(label)
  PROVE  activeKey' \in Paths(Shown) /\ UNCHANGED <<forest, keyword, foldedKeys>>
<1> DEFINE hits == {r.path : r \in {x \in Shown : Last(x.path) \in {label, Leaf(label)}}}
           after == {q \in hits : Shown # {} /\ Before(Active(Shown), q)}
           part == IF after = {} THEN hits ELSE after
<1>1. hits # {} /\ Focus(FirstOf(part))
  BY DEF TypeAhead
<1>2. part # {} /\ part \subseteq Paths(Shown)
  BY <1>1 DEF Paths
<1>3. Paths(Shown) \in SUBSET Seq(Nat) /\ IsFiniteSet(Paths(Shown))
  BY ShownIsWhole, ShownIsFinite DEF Whole, Rooted, Shown
<1>4. part \in SUBSET Seq(Nat) /\ IsFiniteSet(part)
  BY <1>2, <1>3, FS_Subset
<1> HIDE DEF part
<1>5. FirstOf(part) \in Paths(Shown)
  BY <1>2, <1>4, FirstIsOne
<1> QED
  BY <1>1, <1>5 DEF Focus

LEMMA FocusStep == ASSUME ForestAssumption, FocusInv, [RowsNext]_rowVars PROVE FocusInv'
<1>1. ASSUME NEW f, IsForest(f), NEW word, NEW folded, forest' = f, keyword' = word, foldedKeys' = folded,
             Rebuilt(f, word, folded)
      PROVE  FocusInv'
  <2>1. activeKey' = Refocus(Paths(Shown), Paths(Focusables(f, word, folded)))
    BY <1>1 DEF Rebuilt
  <2>2. activeKey' \in Paths(Focusables(f, word, folded)) \cup {None}
    BY <1>1, <2>1, Refocused
  <2>3. Shown' = Focusables(f, word, folded)
    BY <1>1 DEF Shown
  <2> QED
    BY <1>1, <2>2, <2>3 DEF FocusInv, Paths
<1>2. ASSUME UNCHANGED <<forest, keyword, foldedKeys>>, activeKey' = None \/ activeKey' \in Paths(Shown)
      PROVE  FocusInv'
  BY <1>2 DEF FocusInv, Shown, Paths
<1>3. ASSUME NEW f, Fold(f) PROVE FocusInv'
  BY <1>1, <1>3 DEF Fold, FocusInv
<1>4. CASE KeepTree \/ UNCHANGED rowVars
  BY <1>2, <1>4 DEF KeepTree, rowVars, FocusInv
<1>5. CASE Load
  BY <1>1, <1>5 DEF Load, ForestAssumption
<1>6. ASSUME NEW word, SetKeyword(word) PROVE FocusInv'
  BY <1>1, <1>6 DEF SetKeyword, FocusInv
<1>7. CASE FoldActive
  BY <1>3, <1>7 DEF FoldActive, ToggleRedisFolder
<1>8. ASSUME NEW key, Arrow(key) PROVE FocusInv'
  BY <1>2, <1>8, ArrowFocus DEF FocusInv
<1>9. ASSUME NEW row \in Shown, Focus(row.path) PROVE FocusInv'
  BY <1>2, <1>9 DEF Focus, Paths
<1>10. ASSUME NEW label, TypeAhead(label) PROVE FocusInv'
  BY <1>2, <1>10, TypedFocus DEF FocusInv
<1>11. ASSUME NEW r, SetCollapsed(r) PROVE FocusInv'
  BY <1>11 DEF SetCollapsed, FocusInv
<1>12. CASE RestartRows
  BY <1>12 DEF RestartRows, FocusInv, IsForest
<1>13. CASE \/ EndDrag \/ (\E v \in Viewports : ResizeWindow(v)) \/ StartDrag(1) \/ (\E x \in 0..2 : DragTo(x))
            \/ (\E key \in {"left", "right", "home", "end", "double-click"} : ResizeKey(key))
  BY <1>4, <1>13 DEF EndDrag, ResizeWindow, StartDrag, DragTo, ResizeKey
<1> QED
  BY <1>4, <1>5, <1>6, <1>7, <1>8, <1>9, <1>10, <1>11, <1>12, <1>13 DEF RowsNext

\* What is loaded changes by loading and restarting only.
LEMMA OnlyLoads ==
  ASSUME [RowsNext]_rowVars, forest' # forest
  PROVE  Load \/ RestartRows
<1>1. ASSUME NEW f, Fold(f) PROVE FALSE
  BY <1>1 DEF Fold
<1>2. ASSUME NEW p, Focus(p) PROVE FALSE
  BY <1>2 DEF Focus
<1>3. CASE FoldActive \/ (\E key \in {"down", "up", "home", "end", "right", "left"} : Arrow(key))
           \/ (\E row \in Shown : Focus(row.path)) \/ (\E label \in 1..3 : TypeAhead(label))
           \/ (\E word \in DOMAIN Keywords : SetKeyword(word)) \/ (\E r \in BOOLEAN : SetCollapsed(r))
           \/ UNCHANGED rowVars
  BY <1>1, <1>2, <1>3 DEF FoldActive, ToggleRedisFolder, Arrow, TypeAhead, SetKeyword, SetCollapsed, rowVars
<1>4. CASE \/ EndDrag \/ (\E v \in Viewports : ResizeWindow(v)) \/ StartDrag(1) \/ (\E x \in 0..2 : DragTo(x))
           \/ (\E key \in {"left", "right", "home", "end", "double-click"} : ResizeKey(key))
  BY <1>4 DEF EndDrag, ResizeWindow, StartDrag, DragTo, ResizeKey, KeepTree
<1> QED
  BY <1>3, <1>4 DEF RowsNext

\* Of rows around a row that is gone, the nearest that is left survives it.
LEMMA NearestSurvives ==
  ASSUME NEW before, Whole(before), NEW now, Whole(now), IsFiniteSet(now), NEW p \in before,
         p \notin now, Around(p) \cap now # {}
  PROVE  /\ Surviving(before, now, p) \in Around(p) \cap now
         /\ \A q \in Around(p) \cap now : Len(q) <= Len(Surviving(before, now, p))
<1> DEFINE left == Around(p) \cap now
           l == LastOf(left)
<1>1. p \in Seq(Nat) /\ now \in SUBSET Seq(Nat)
  BY DEF Whole, Rooted
<1>2. Ancestors(before, p) \cap now = left
  <2>1. ASSUME NEW q \in left PROVE q \in before
    <3>1. q \in Seq(Nat) /\ Len(q) \in 1..(Len(p) - 1) /\ q = SubSeq(p, 1, Len(q))
      BY <1>1, PartsEnclose
    <3>2. Len(q) >= 2
      BY DEF Whole, Rooted
    <3>3. Len(q) \in 2..Len(p)
      BY <1>1, <3>1, <3>2
    <3>4. SubSeq(p, 1, Len(q)) \in before
      BY <3>3 DEF Whole, Rooted
    <3> QED
      BY <3>1, <3>4
  <2>2. Ancestors(before, p) = Around(p) \cap before
    BY AncestorsAreParts
  <2> QED
    BY <2>1, <2>2
<1>3. left \in SUBSET Seq(Nat) /\ IsFiniteSet(left) /\ left # {}
  BY <1>1, FS_Subset
<1> HIDE DEF left
<1>4. l \in left /\ \A q \in left : l = q \/ Before(q, l)
  BY <1>3, LastIsOne
<1>5. Surviving(before, now, p) = l
  BY <1>2, <1>3 DEF Surviving
<1> HIDE DEF l
<1>6. ASSUME NEW q \in left PROVE Len(q) <= Len(l)
  <2>1. /\ q \in Seq(Nat) /\ Len(q) \in 1..(Len(p) - 1) /\ q = SubSeq(p, 1, Len(q))
        /\ l \in Seq(Nat) /\ Len(l) \in 1..(Len(p) - 1) /\ l = SubSeq(p, 1, Len(l))
    BY <1>1, <1>4, PartsEnclose DEF left
  <2>2. CASE Len(l) < Len(q)
    <3>1. Len(q) \in 0..Len(p) /\ Len(l) \in 0..Len(q) /\ Len(l) \in 1..(Len(q) - 1)
      BY <1>1, <2>1, <2>2, SMTT(30)
    <3>2. l = SubSeq(q, 1, Len(l))
      BY <1>1, <2>1, <3>1, PartOfPart
    <3>3. l \in Around(q)
      BY <3>1, <3>2 DEF Around
    <3>4. Before(l, q)
      BY <2>1, <3>3, PartsEnclose
    <3>5. ~Before(q, l) /\ l # q
      BY <2>1, <3>4, NotBoth
    <3> QED
      BY <1>4, <3>5
  <2> QED
    BY <2>1, <2>2
<1> QED
  BY <1>4, <1>5, <1>6 DEF left

\* When rows come and go, the keyboard focus stays on its row or moves to the nearest one
\* around it that is left, never to another place (SidebarTree.tsx:151-160).
THEOREM FocusStays == ASSUME ForestAssumption PROVE RowsSpec => FocusStaysNear
<1>1. RowsInit => FocusInv
  BY DEF RowsInit, FocusInv, ForestAssumption
<1>2. FocusInv /\ [RowsNext]_rowVars => FocusInv'
  BY FocusStep
<1>3. FocusInv /\ FocusInv' /\ [RowsNext]_rowVars =>
        [activeKey # None /\ forest' # forest /\ ~RestartRows =>
           \A paths \in {Paths(Shown')} :
             LET left == Around(activeKey) \cap paths
             IN  activeKey \notin paths /\ left # {} =>
                   activeKey' \in left /\ \A p \in left : Len(p) <= Len(activeKey')]_rowVars
  <2> SUFFICES ASSUME FocusInv, FocusInv', [RowsNext]_rowVars, activeKey # None, forest' # forest, ~RestartRows,
                      activeKey \notin Paths(Shown'), Around(activeKey) \cap Paths(Shown') # {}
               PROVE  /\ activeKey' \in Around(activeKey) \cap Paths(Shown')
                      /\ \A p \in Around(activeKey) \cap Paths(Shown') : Len(p) <= Len(activeKey')
    BY Zenon
  <2> DEFINE before == Paths(Shown)
             now == Paths(Focusables(forest', keyword, foldedKeys))
  <2>1. Load
    BY OnlyLoads
  <2>2. Paths(Shown') = now
    BY <2>1 DEF Load, Shown
  <2>3. activeKey \in before /\ IsForest(forest) /\ IsForest(forest')
    BY DEF FocusInv
  <2>4. activeKey' = Surviving(before, now, activeKey)
    BY <2>1, <2>2, <2>3 DEF Load, Rebuilt, Refocus
  <2>5. Whole(before) /\ Whole(now) /\ IsFiniteSet(now)
    BY <2>3, ShownIsWhole, ShownIsFinite DEF Shown
  <2> HIDE DEF before, now
  <2> QED
    BY <2>2, <2>3, <2>4, <2>5, NearestSurvives
<1> QED
  BY <1>1, <1>2, <1>3, PTL DEF RowsSpec, FocusStaysNear

-----------------------------------------------------------------------------
(* The explorer                                                            *)

\* What the requests and the tree are made of.
CallFields == {"id", "kind", "db", "arg", "reset", "for", "answer"}
NodeFields == {"open", "loading", "failed", "dbs", "shown", "lists", "busy", "errors", "schema", "scans"}
ScanFields == {"cursor", "filter", "complete", "limited", "loading", "shut"}

\* No two requests share a number, and each of them is of a database.
CallsInv ==
  /\ callSeq \in Nat /\ current \in [DBs -> Nat] /\ scanOps \in [DBs -> Nat] /\ timers \subseteq DBs
  /\ \A c \in calls : /\ DOMAIN c = CallFields /\ c.id \in 1..callSeq
                      /\ c.kind \in {"schemas", "tables", "batch"} => c.db \in DBs
  /\ \A c, d \in calls : c.id = d.id => c = d

\* An answer fits its request.
AnswerFits(c) ==
  c.answer # None /\ c.answer.ok =>
    /\ c.kind = "schemas" => None \notin c.answer.found
    /\ c.kind = "tables" /\ c.arg # None => \A t \in c.answer.found : SchemaOf[t] = c.arg
    /\ c.kind = "batch" => c.answer.found \subseteq Matching[c.arg.filter]
AnswersInv ==
  /\ \A db \in DOMAIN catalog : catalog[db] \subseteq Tables
  /\ \A c \in calls : AnswerFits(c)

TreeInv ==
  node # None =>
    /\ DOMAIN node = NodeFields /\ node.busy \subseteq DBs /\ DOMAIN node.scans \subseteq DBs
    /\ \A db \in DOMAIN node.scans : DOMAIN node.scans[db] = ScanFields

\* Only Redis is scanned, and only Postgres has schemas.
EngineInv ==
  /\ ~Redis => /\ timers = {} /\ scanOps = [db \in DBs |-> 0]
               /\ \A c \in calls : c.kind # "batch"
               /\ node # None => DOMAIN node.scans = {}
  /\ Redis => /\ \A c \in calls : c.kind \notin {"schemas", "tables"}
              /\ node # None => node.busy = {}
  /\ engine # "postgres" => /\ \A c \in calls : c.kind # "schemas"
                            /\ node # None => DOMAIN node.schema = {}
  /\ engine = "postgres" => \A c \in calls : c.kind = "tables" => c.arg # None

\* What the menus of Redis do not offer is neither asked nor done.
AskedInv ==
  /\ ask # None => /\ DOMAIN ask = {"kind", "db", "table", "running"}
                   /\ ask.db \in DBs \/ ask.kind = "delete-connection"
                   /\ Redis => ask.kind # "drop-database"
  /\ rename # None => DOMAIN rename = {"db", "table"} /\ rename.db \in DBs
  /\ credential # None => DOMAIN credential = {"db", "own", "user"} /\ credential.db \in DBs
  /\ keyDialog # None => DOMAIN keyDialog = {"db", "form"} /\ keyDialog.db \in DBs
  /\ \A a \in todo : /\ DOMAIN a = {"kind", "db", "table", "step"}
                     /\ a.db \in DBs \/ a.kind = "delete-connection"
                     /\ Redis => a.kind # "drop-database"

\* What spins has a request on its way, of its own database.  A closed database whose
\* scan was not ended is listed anew when it is opened.
Spins(db) == \E c \in calls : c.kind \in {"schemas", "tables"} /\ c.db = db /\ c.id = current[db]
Scans(db) == \E c \in calls : c.kind = "batch" /\ c.db = db /\ c.id = scanOps[db] /\ c.id = current[db]
Stuck(db) == db \in DOMAIN node.scans /\ node.scans[db].loading /\ ~node.scans[db].shut
SpinInv ==
  node # None =>
    /\ node.loading => \E c \in calls : c.kind = "bases" /\ c.id = curBases
    /\ \A db \in node.busy : Spins(db)
    /\ \A db \in DBs : Stuck(db) =>
         IF db \in node.shown THEN db \in timers \/ Scans(db) ELSE db \notin DOMAIN node.lists

\* Keys are of the filter, and so is the scan that counts.
FilterInv ==
  /\ \A c \in calls : c.kind = "batch" /\ c.id = scanOps[c.db] /\ c.id = current[c.db] =>
                        c.arg.filter = FilterOf(c.db)
  /\ Redis /\ node # None =>
       /\ \A db \in DOMAIN node.scans : node.scans[db].filter = FilterOf(db)
       /\ \A db \in DOMAIN node.lists : node.lists[db] \subseteq Matching[FilterOf(db)]

\* Tables are of the schema, and so is the request that counts.
SchemaInv ==
  node # None =>
    /\ \A c \in calls : c.kind = "tables" /\ c.id = current[c.db] /\ c.db \in DOMAIN node.schema =>
                          c.arg = node.schema[c.db]
    /\ \A c \in calls : c.kind = "schemas" /\ c.id = current[c.db] =>
                          c.db \in node.busy \/ c.db \notin DOMAIN node.lists
    /\ \A db \in DOMAIN node.lists \cap DOMAIN node.schema : db \notin node.busy \cup node.errors =>
         \A t \in node.lists[db] : SchemaOf[t] = node.schema[db]

SideInv == CallsInv /\ AnswersInv /\ TreeInv /\ EngineInv /\ AskedInv /\ SpinInv /\ FilterInv /\ SchemaInv
LoadInv == /\ CallsInv /\ (\A c \in calls : AnswerFits(c))
           /\ TreeInv /\ EngineInv /\ SpinInv /\ FilterInv /\ SchemaInv

\* A step that leaves the tree and its requests alone.
LEMMA LoadsRest ==
  ASSUME LoadInv, UNCHANGED <<engine, treeFilters, curBases, node, current, scanOps, timers, calls, callSeq>>
  PROVE  LoadInv'
<1>1. CallsInv' /\ (\A c \in calls' : AnswerFits(c)')
  BY DEF LoadInv, CallsInv, AnswerFits
<1>2. TreeInv' /\ EngineInv'
  BY DEF LoadInv, TreeInv, EngineInv, Redis
<1>3. SpinInv'
  BY DEF LoadInv, SpinInv, Spins, Scans, Stuck
<1>4. FilterInv' /\ SchemaInv'
  BY DEF LoadInv, FilterInv, SchemaInv, FilterOf, Redis
<1> QED
  BY <1>1, <1>2, <1>3, <1>4 DEF LoadInv

\* A request is answered, or the tables of a schema are asked for after the schemas.
Rewritten(c, d) ==
  /\ c \in calls /\ calls' = (calls \ {c}) \cup {d}
  /\ d.id = c.id /\ d.db = c.db /\ DOMAIN d = CallFields

LEMMA RewrittenCalls ==
  ASSUME CallsInv, NEW c, NEW d, Rewritten(c, d),
         d.kind \in {"schemas", "tables", "batch"} => c.db \in DBs,
         UNCHANGED <<current, scanOps, timers, callSeq>>
  PROVE  CallsInv'
BY DEF CallsInv, Rewritten

LEMMA ServerAnswersKeeps ==
  ASSUME LoadInv, AnswersInv, None \notin {SchemaOf[t] : t \in Tables}, NEW c \in calls, ServerAnswers(c)
  PROVE  LoadInv' /\ AnswersInv'
<1>1. PICK answer \in {[ok |-> FALSE, found |-> {}]}
                   \cup {[ok |-> TRUE, found |-> AnswerTo(x)] : x \in {y \in {c} : c.kind = "bases" \/ c.db \in DOMAIN catalog}} :
       calls' = (calls \ {c}) \cup {[c EXCEPT !.answer = answer]}
  BY DEF ServerAnswers
<1> DEFINE d == [c EXCEPT !.answer = answer]
<1>2. /\ DOMAIN d = CallFields /\ d.id = c.id /\ d.db = c.db /\ d.kind = c.kind /\ d.arg = c.arg
      /\ d.answer = answer
  <2>1. DOMAIN c = CallFields
    BY DEF LoadInv, CallsInv
  <2> QED
    BY <2>1 DEF CallFields
<1>3. Rewritten(c, d)
  BY <1>1, <1>2 DEF Rewritten
<1>4. UNCHANGED <<engine, catalog, node, treeFilters, curBases, current, scanOps, timers, callSeq>>
  BY DEF ServerAnswers
<1>5. AnswerFits(d)
  <2>1. CASE answer = [ok |-> FALSE, found |-> {}]
    <3>1. ~answer.ok
      BY <2>1
    <3> QED
      BY <1>2, <3>1 DEF AnswerFits
  <2>2. CASE answer = [ok |-> TRUE, found |-> AnswerTo(c)] /\ (c.kind = "bases" \/ c.db \in DOMAIN catalog)
    <3>1. ASSUME c.kind = "batch" PROVE AnswerTo(c) \subseteq Matching[c.arg.filter]
      BY <3>1 DEF AnswerTo
    <3>2. ASSUME c.kind = "tables", c.arg # None PROVE \A t \in AnswerTo(c) : SchemaOf[t] = c.arg
      BY <3>2 DEF AnswerTo
    <3>3. ASSUME c.kind = "schemas" PROVE None \notin AnswerTo(c)
      <4>1. AnswerTo(c) = {SchemaOf[t] : t \in catalog[c.db]}
        BY <3>3 DEF AnswerTo
      <4>2. catalog[c.db] \subseteq Tables
        BY <2>2, <3>3 DEF AnswersInv
      <4> QED
        BY <4>1, <4>2
    <3>4. answer.ok /\ answer.found = AnswerTo(c)
      BY <2>2
    <3> QED
      BY <1>2, <3>1, <3>2, <3>3, <3>4 DEF AnswerFits
  <2> QED
    BY <1>1, <2>1, <2>2
<1> HIDE DEF d
<1>6. CallsInv'
  BY <1>2, <1>3, <1>4, RewrittenCalls DEF LoadInv, CallsInv
<1>7. \A e \in calls' : AnswerFits(e)'
  BY <1>3, <1>5 DEF LoadInv, Rewritten, AnswerFits
<1>8. TreeInv' /\ EngineInv'
  BY <1>2, <1>3, <1>4 DEF LoadInv, TreeInv, EngineInv, Redis, Rewritten
<1>9. SpinInv'
  <2>1. \A db : Stuck(db)' = Stuck(db)
    BY <1>4 DEF Stuck
  <2>2. ASSUME NEW db, Spins(db) PROVE Spins(db)'
    BY <1>2, <1>3, <1>4, <2>2 DEF Spins, Rewritten
  <2>3. ASSUME NEW db, Scans(db) PROVE Scans(db)'
    BY <1>2, <1>3, <1>4, <2>3 DEF Scans, Rewritten
  <2>4. (\E e \in calls : e.kind = "bases" /\ e.id = curBases) => \E e \in calls' : e.kind = "bases" /\ e.id = curBases'
    BY <1>2, <1>3, <1>4 DEF Rewritten
  <2> QED
    BY <1>4, <2>1, <2>2, <2>3, <2>4 DEF LoadInv, SpinInv
<1>10. FilterInv'
  BY <1>2, <1>3, <1>4 DEF LoadInv, FilterInv, FilterOf, Redis, Rewritten
<1>11. SchemaInv'
  BY <1>2, <1>3, <1>4 DEF LoadInv, SchemaInv, Rewritten
<1> QED
  BY <1>4, <1>6, <1>7, <1>8, <1>9, <1>10, <1>11 DEF LoadInv, AnswersInv

-----------------------------------------------------------------------------
(* Answers                                                                 *)

LEMMA RemovedCalls ==
  ASSUME CallsInv, \A e \in calls : AnswerFits(e), NEW c, calls' = calls \ {c}, UNCHANGED <<timers, callSeq>>,
         current' \in [DBs -> Nat], scanOps' \in [DBs -> Nat]
  PROVE  CallsInv' /\ \A e \in calls' : AnswerFits(e)'
BY DEF CallsInv, AnswerFits

LEMMA CreateSQLShownKeeps ==
  ASSUME LoadInv, NEW c \in calls, CreateSQLShown(c)
  PROVE  LoadInv' /\ UNCHANGED catalog
<1>1. /\ UNCHANGED <<engine, catalog, node, treeFilters, curBases, current, scanOps, timers, callSeq>>
      /\ calls' = calls \ {c} /\ c.kind = "sql"
  BY DEF CreateSQLShown, KeepButDialogs, Answered
<1>2. CallsInv' /\ \A e \in calls' : AnswerFits(e)'
  BY <1>1, RemovedCalls DEF LoadInv, CallsInv
<1>3. TreeInv' /\ EngineInv'
  BY <1>1 DEF LoadInv, TreeInv, EngineInv, Redis
<1>4. SpinInv'
  <2>1. \A db : Stuck(db)' = Stuck(db)
    BY <1>1 DEF Stuck
  <2>2. \A db : (Spins(db) => Spins(db)') /\ (Scans(db) => Scans(db)')
    BY <1>1 DEF Spins, Scans
  <2> QED
    BY <1>1, <2>1, <2>2 DEF LoadInv, SpinInv
<1>5. FilterInv' /\ SchemaInv'
  BY <1>1 DEF LoadInv, FilterInv, SchemaInv, FilterOf, Redis
<1> QED
  BY <1>1, <1>2, <1>3, <1>4, <1>5 DEF LoadInv

LEMMA DatabasesListedKeeps ==
  ASSUME LoadInv, NEW c \in calls, DatabasesListed(c)
  PROVE  LoadInv' /\ UNCHANGED catalog
<1>1. /\ UNCHANGED <<engine, catalog, treeFilters, curBases, current, scanOps, timers, callSeq>>
      /\ calls' = calls \ {c} /\ c.kind = "bases"
      /\ node' = IF c.id # curBases \/ node = None THEN node
                 ELSE IF c.answer.ok THEN [node EXCEPT !.loading = FALSE, !.dbs = c.answer.found]
                 ELSE [node EXCEPT !.loading = FALSE, !.failed = TRUE]
  BY DEF DatabasesListed, Answered
<1>2. CallsInv' /\ \A e \in calls' : AnswerFits(e)'
  BY <1>1, RemovedCalls DEF LoadInv, CallsInv
<1>3. node' = node \/ /\ node # None /\ DOMAIN node' = NodeFields /\ node'.loading = FALSE
                      /\ node'.busy = node.busy /\ node'.shown = node.shown /\ node'.lists = node.lists
                      /\ node'.errors = node.errors /\ node'.schema = node.schema /\ node'.scans = node.scans
  BY <1>1 DEF LoadInv, TreeInv, NodeFields
<1>4. TreeInv' /\ EngineInv'
  BY <1>1, <1>3 DEF LoadInv, TreeInv, EngineInv, Redis
<1>5. SpinInv'
  <2>1. node # None => \A db : Stuck(db)' = Stuck(db)
    BY <1>3 DEF Stuck
  <2>2. \A db : (Spins(db) => Spins(db)') /\ (Scans(db) => Scans(db)')
    BY <1>1 DEF Spins, Scans
  <2>3. ASSUME node' # None, node'.loading PROVE \E e \in calls' : e.kind = "bases" /\ e.id = curBases'
    <3>1. c.id # curBases /\ node' = node
      BY <1>1, <2>3 DEF LoadInv, TreeInv, NodeFields
    <3> QED
      BY <1>1, <2>3, <3>1 DEF LoadInv, SpinInv
  <2>4. node' # None => node # None /\ node'.busy = node.busy /\ node'.shown = node.shown /\ node'.lists = node.lists
    BY <1>3
  <2> QED
    BY <1>1, <2>1, <2>2, <2>3, <2>4 DEF LoadInv, SpinInv
<1>6. FilterInv' /\ SchemaInv'
  BY <1>1, <1>3 DEF LoadInv, FilterInv, SchemaInv, FilterOf, Redis
<1> QED
  BY <1>1, <1>2, <1>4, <1>5, <1>6 DEF LoadInv

-----------------------------------------------------------------------------
\* The answer for a table list settles its database, when it is the current one.
Settling(c) ==
  \/ node' = node /\ ~IsCurrent(c)
  \/ /\ IsCurrent(c) /\ DOMAIN node' = NodeFields
     /\ node'.loading = node.loading /\ node'.shown = node.shown /\ node'.scans = node.scans
     /\ node'.busy = node.busy \ {c.db}
     /\ engine = "postgres" \/ node'.schema = node.schema

LEMMA SettlingKeeps ==
  ASSUME LoadInv, NEW c \in calls, c.kind \in {"schemas", "tables"}, Settling(c), calls' = calls \ {c},
         UNCHANGED <<engine, treeFilters, curBases, current, scanOps, timers, callSeq>>
  PROVE  /\ CallsInv' /\ (\A e \in calls' : AnswerFits(e)') /\ TreeInv' /\ EngineInv'
         /\ SpinInv' /\ FilterInv'
<1>1. CallsInv' /\ \A e \in calls' : AnswerFits(e)'
  BY RemovedCalls DEF LoadInv, CallsInv
<1>2. ~Redis
  BY DEF LoadInv, EngineInv
<1>3. node' # None => /\ node # None /\ DOMAIN node' = NodeFields /\ node'.loading = node.loading
                      /\ node'.shown = node.shown /\ node'.scans = node.scans
                      /\ node'.busy \subseteq node.busy /\ (IsCurrent(c) => c.db \notin node'.busy)
                      /\ engine = "postgres" \/ node'.schema = node.schema
  BY DEF Settling, IsCurrent, LoadInv, TreeInv
<1>4. TreeInv'
  BY <1>3 DEF LoadInv, TreeInv
<1>5. EngineInv'
  BY <1>2, <1>3 DEF LoadInv, EngineInv, Redis
<1>6. SpinInv'
  <2>1. ASSUME node' # None, NEW db \in node'.busy PROVE Spins(db)'
    <3>1. PICK w \in calls : w.kind \in {"schemas", "tables"} /\ w.db = db /\ w.id = current[db]
      BY <1>3, <2>1 DEF LoadInv, SpinInv, Spins
    <3>2. w # c
      BY <1>3, <2>1, <3>1 DEF IsCurrent
    <3> QED
      BY <3>1, <3>2 DEF Spins
  <2>2. node' # None => DOMAIN node'.scans = {}
    BY <1>2, <1>3 DEF LoadInv, EngineInv
  <2>3. node' # None /\ node'.loading => \E e \in calls' : e.kind = "bases" /\ e.id = curBases'
    BY <1>3 DEF LoadInv, SpinInv
  <2>4. \A db : node' # None => ~Stuck(db)'
    BY <2>2 DEF Stuck
  <2> QED
    BY <2>1, <2>3, <2>4 DEF SpinInv
<1>7. FilterInv'
  BY <1>2 DEF LoadInv, FilterInv, FilterOf, Redis
<1> QED
  BY <1>1, <1>4, <1>5, <1>6, <1>7

LEMMA TablesListedKeeps ==
  ASSUME LoadInv, NEW c \in calls, TablesListed(c)
  PROVE  LoadInv' /\ UNCHANGED catalog
<1>1. /\ UNCHANGED <<engine, catalog, treeFilters, curBases, current, scanOps, timers, callSeq>>
      /\ calls' = calls \ {c} /\ c.kind = "tables" /\ c.answer # None
  BY DEF TablesListed, Answered
<1>2. node' = IF ~IsCurrent(c) THEN node
              ELSE IF c.answer.ok THEN [node EXCEPT !.busy = node.busy \ {c.db}, !.lists = SPut(node.lists, c.db, c.answer.found)]
              ELSE [node EXCEPT !.busy = node.busy \ {c.db}, !.errors = node.errors \cup {c.db}]
  <2>1. IsCurrent(c) => DOMAIN node = NodeFields
    BY DEF IsCurrent, LoadInv, TreeInv
  <2> QED
    BY <2>1 DEF TablesListed, Settled, NodeFields
<1>3. IsCurrent(c) =>
        /\ DOMAIN node' = NodeFields /\ node'.loading = node.loading /\ node'.shown = node.shown
        /\ node'.scans = node.scans /\ node'.busy = node.busy \ {c.db} /\ node'.schema = node.schema
        /\ IF c.answer.ok THEN node'.lists = SPut(node.lists, c.db, c.answer.found) /\ node'.errors = node.errors
           ELSE node'.lists = node.lists /\ node'.errors = node.errors \cup {c.db}
  BY <1>2 DEF IsCurrent, LoadInv, TreeInv, NodeFields
<1>4. Settling(c)
  BY <1>2, <1>3 DEF Settling
<1>5. SchemaInv'
  <2>1. CASE ~IsCurrent(c)
    BY <1>1, <1>2, <2>1 DEF LoadInv, SchemaInv
  <2>2. CASE IsCurrent(c)
    <3>1. node # None
      BY <2>2 DEF IsCurrent
    <3>2. ASSUME NEW e \in calls', e.kind = "tables", e.id = current'[e.db], e.db \in DOMAIN node'.schema
          PROVE  e.arg = node'.schema[e.db]
      BY <1>1, <1>3, <2>2, <3>1, <3>2 DEF LoadInv, SchemaInv
    <3>3. ASSUME NEW db \in DOMAIN node'.lists \cap DOMAIN node'.schema, db \notin node'.busy \cup node'.errors,
                 NEW t \in node'.lists[db]
          PROVE  SchemaOf[t] = node'.schema[db]
      <4>1. CASE db = c.db
        <5>1. c.answer.ok /\ node'.lists[db] = c.answer.found
          BY <1>3, <2>2, <3>3, <4>1 DEF SPut
        <5>2. c.arg = node.schema[db]
          BY <1>1, <1>3, <2>2, <3>1, <3>3, <4>1 DEF LoadInv, SchemaInv, IsCurrent
        <5>3. engine = "postgres" /\ c.arg # None
          BY <1>1, <1>3, <2>2, <3>1, <3>3 DEF LoadInv, EngineInv
        <5> QED
          BY <1>1, <1>3, <2>2, <3>3, <5>1, <5>2, <5>3 DEF LoadInv, AnswerFits
      <4>2. CASE db # c.db
        <5>1. db \in DOMAIN node.lists /\ node'.lists[db] = node.lists[db]
          BY <1>3, <2>2, <3>3, <4>2 DEF SPut
        <5> QED
          BY <1>3, <2>2, <3>1, <3>3, <4>2, <5>1 DEF LoadInv, SchemaInv
      <4> QED
        BY <4>1, <4>2
    <3>4. ASSUME NEW e \in calls', e.kind = "schemas", e.id = current'[e.db]
          PROVE  e.db \in node'.busy \/ e.db \notin DOMAIN node'.lists
      <4>1. e \in calls /\ e.db # c.db
        BY <1>1, <2>2, <3>4 DEF LoadInv, CallsInv, IsCurrent
      <4>2. e.db \in node.busy \/ e.db \notin DOMAIN node.lists
        BY <1>1, <3>1, <3>4, <4>1 DEF LoadInv, SchemaInv
      <4> QED
        BY <1>3, <2>2, <4>1, <4>2 DEF SPut
    <3> QED
      BY <3>2, <3>3, <3>4 DEF SchemaInv
  <2> QED
    BY <2>1, <2>2
<1> QED
  BY <1>1, <1>4, <1>5, SettlingKeeps DEF LoadInv

LEMMA SchemasListedKeeps ==
  ASSUME LoadInv, NEW c \in calls, SchemasListed(c)
  PROVE  LoadInv' /\ UNCHANGED catalog
<1>1. /\ UNCHANGED <<engine, catalog, treeFilters, curBases, current, scanOps, timers, callSeq>>
      /\ c.kind = "schemas" /\ c.answer # None
  BY DEF SchemasListed, Answered
<1>2. engine = "postgres" /\ ~Redis
  BY <1>1 DEF LoadInv, EngineInv, Redis
<1>3. node # None => DOMAIN node = NodeFields
  BY DEF LoadInv, TreeInv
<1>4. CASE ~IsCurrent(c)
  <2>1. calls' = calls \ {c} /\ node' = node
    BY <1>4 DEF SchemasListed
  <2>2. Settling(c)
    BY <1>4, <2>1 DEF Settling
  <2>3. SchemaInv'
    BY <1>1, <2>1 DEF LoadInv, SchemaInv
  <2> QED
    BY <1>1, <2>1, <2>2, <2>3, SettlingKeeps DEF LoadInv
<1>5. CASE IsCurrent(c) /\ ~c.answer.ok
  <2>1. calls' = calls \ {c} /\ node' = [Settled(node, c.db) EXCEPT !.errors = @ \cup {c.db}]
    BY <1>5 DEF SchemasListed
  <2>2. /\ DOMAIN node' = NodeFields /\ node'.loading = node.loading /\ node'.shown = node.shown
        /\ node'.scans = node.scans /\ node'.busy = node.busy \ {c.db} /\ node'.schema = node.schema
        /\ node'.lists = node.lists /\ node'.errors = node.errors \cup {c.db}
    BY <1>3, <1>5, <2>1 DEF Settled, NodeFields, IsCurrent
  <2>3. Settling(c)
    BY <1>5, <2>2 DEF Settling
  <2>4. SchemaInv'
    <3>1. ASSUME NEW e \in calls', e.kind = "schemas", e.id = current'[e.db]
          PROVE  e.db \in node'.busy \/ e.db \notin DOMAIN node'.lists
      <4>1. e \in calls /\ e.db # c.db
        BY <1>1, <1>5, <2>1, <3>1 DEF LoadInv, CallsInv, IsCurrent
      <4> QED
        BY <1>1, <1>5, <2>2, <3>1, <4>1 DEF LoadInv, SchemaInv, IsCurrent
    <3>2. ASSUME NEW e \in calls', e.kind = "tables", e.id = current'[e.db], e.db \in DOMAIN node'.schema
          PROVE  e.arg = node'.schema[e.db]
      BY <1>1, <1>5, <2>1, <2>2, <3>2 DEF LoadInv, SchemaInv, IsCurrent
    <3>3. ASSUME NEW db \in DOMAIN node'.lists \cap DOMAIN node'.schema, db \notin node'.busy \cup node'.errors,
                 NEW t \in node'.lists[db]
          PROVE  SchemaOf[t] = node'.schema[db]
      <4>1. db \notin node.busy \cup node.errors
        BY <2>2, <3>3
      <4> QED
        BY <1>5, <2>2, <3>3, <4>1 DEF LoadInv, SchemaInv, IsCurrent
    <3> QED
      BY <3>1, <3>2, <3>3 DEF SchemaInv
  <2> QED
    BY <1>1, <2>1, <2>3, <2>4, SettlingKeeps DEF LoadInv
<1>6. CASE IsCurrent(c) /\ c.answer.ok /\ c.answer.found = {}
  <2>1. calls' = calls \ {c} /\ node' = [Settled(node, c.db) EXCEPT !.schema = SPut(@, c.db, None), !.lists = SPut(@, c.db, {})]
    BY <1>6 DEF SchemasListed
  <2>2. /\ DOMAIN node' = NodeFields /\ node'.loading = node.loading /\ node'.shown = node.shown
        /\ node'.scans = node.scans /\ node'.busy = node.busy \ {c.db} /\ node'.schema = SPut(node.schema, c.db, None)
        /\ node'.lists = SPut(node.lists, c.db, {}) /\ node'.errors = node.errors
    BY <1>3, <1>6, <2>1 DEF Settled, NodeFields, IsCurrent
  <2>3. Settling(c)
    BY <1>2, <1>6, <2>2 DEF Settling
  <2>4. SchemaInv'
    <3>1. ASSUME NEW e \in calls', e.kind = "tables", e.id = current'[e.db], e.db \in DOMAIN node'.schema
          PROVE  e.arg = node'.schema[e.db]
      <4>1. e.db # c.db
        BY <1>1, <1>6, <2>1, <3>1 DEF LoadInv, CallsInv, IsCurrent
      <4>2. e.db \in DOMAIN node.schema /\ node'.schema[e.db] = node.schema[e.db]
        BY <2>2, <3>1, <4>1 DEF SPut
      <4> QED
        BY <1>1, <1>6, <2>1, <3>1, <4>2 DEF LoadInv, SchemaInv, IsCurrent
    <3>2. ASSUME NEW db \in DOMAIN node'.lists \cap DOMAIN node'.schema, db \notin node'.busy \cup node'.errors,
                 NEW t \in node'.lists[db]
          PROVE  SchemaOf[t] = node'.schema[db]
      <4>1. db # c.db
        BY <2>2, <3>2 DEF SPut
      <4>2. /\ db \in DOMAIN node.lists \cap DOMAIN node.schema
            /\ node'.lists[db] = node.lists[db] /\ node'.schema[db] = node.schema[db]
        BY <2>2, <3>2, <4>1 DEF SPut
      <4> QED
        BY <1>6, <2>2, <3>2, <4>1, <4>2 DEF LoadInv, SchemaInv, IsCurrent
    <3>3. ASSUME NEW e \in calls', e.kind = "schemas", e.id = current'[e.db]
          PROVE  e.db \in node'.busy \/ e.db \notin DOMAIN node'.lists
      <4>1. e \in calls /\ e.db # c.db
        BY <1>1, <1>6, <2>1, <3>3 DEF LoadInv, CallsInv, IsCurrent
      <4>2. e.db \in node.busy \/ e.db \notin DOMAIN node.lists
        BY <1>1, <1>6, <3>3, <4>1 DEF LoadInv, SchemaInv, IsCurrent
      <4> QED
        BY <2>2, <4>1, <4>2 DEF SPut
    <3> QED
      BY <3>1, <3>2, <3>3 DEF SchemaInv
  <2> QED
    BY <1>1, <2>1, <2>3, <2>4, SettlingKeeps DEF LoadInv
<1>7. CASE IsCurrent(c) /\ c.answer.ok /\ c.answer.found # {}
  <2> DEFINE s == ChosenSchema(c)
             d == [c EXCEPT !.kind = "tables", !.arg = s, !.answer = None]
  <2>1. node' = [node EXCEPT !.schema = SPut(@, c.db, s)] /\ calls' = (calls \ {c}) \cup {d}
    BY <1>7 DEF SchemasListed
  <2>2. s \in c.answer.found
    <3> DEFINE previous == IF c.arg # None THEN c.arg
                           ELSE IF c.db \in DOMAIN node.schema THEN node.schema[c.db] ELSE None
               found == c.answer.found
    <3>1. s = IF previous \in found THEN previous ELSE IF "public" \in found THEN "public" ELSE CHOOSE x \in found : TRUE
      BY DEF ChosenSchema
    <3>2. (CHOOSE x \in found : TRUE) \in found
      BY <1>7
    <3> HIDE DEF previous, found
    <3>3. s \in found
      BY <3>1, <3>2
    <3> QED
      BY <3>3 DEF found
  <2>3. s # None
    BY <1>1, <1>7, <2>2 DEF LoadInv, AnswerFits
  <2> HIDE DEF s
  <2>4. /\ DOMAIN d = CallFields /\ d.id = c.id /\ d.db = c.db /\ d.kind = "tables" /\ d.arg = s /\ d.answer = None
        /\ c.db \in DBs
    <3>1. DOMAIN c = CallFields /\ c.db \in DBs
      BY <1>1 DEF LoadInv, CallsInv
    <3> QED
      BY <3>1 DEF CallFields
  <2> HIDE DEF d
  <2>5. Rewritten(c, d)
    BY <2>1, <2>4 DEF Rewritten
  <2>6. /\ DOMAIN node' = NodeFields /\ node'.loading = node.loading /\ node'.shown = node.shown
        /\ node'.scans = node.scans /\ node'.busy = node.busy /\ node'.schema = SPut(node.schema, c.db, s)
        /\ node'.lists = node.lists /\ node'.errors = node.errors /\ node # None
    BY <1>3, <1>7, <2>1 DEF NodeFields, IsCurrent
  <2>7. CallsInv' /\ \A e \in calls' : AnswerFits(e)'
    <3>1. CallsInv'
      BY <1>1, <2>4, <2>5, RewrittenCalls DEF LoadInv
    <3> QED
      BY <2>4, <2>5, <3>1 DEF LoadInv, Rewritten, AnswerFits
  <2>8. TreeInv' /\ EngineInv'
    <3>1. TreeInv'
      BY <2>6 DEF LoadInv, TreeInv
    <3> QED
      BY <1>1, <1>2, <2>3, <2>4, <2>5, <2>6, <3>1 DEF LoadInv, EngineInv, Redis, Rewritten
  <2>9. SpinInv'
    <3>1. \A db : Spins(db) => Spins(db)'
      BY <1>1, <2>4, <2>5 DEF Spins, Rewritten
    <3>2. \A db : ~Stuck(db)'
      BY <1>2, <2>6 DEF Stuck, LoadInv, EngineInv
    <3>3. (\E e \in calls : e.kind = "bases" /\ e.id = curBases) => \E e \in calls' : e.kind = "bases" /\ e.id = curBases'
      BY <1>1, <2>4, <2>5 DEF Rewritten
    <3> QED
      BY <2>6, <3>1, <3>2, <3>3 DEF LoadInv, SpinInv
  <2>10. FilterInv'
    BY <1>1, <1>2, <2>4, <2>5 DEF LoadInv, FilterInv, FilterOf, Redis, Rewritten
  <2>11. SchemaInv'
    <3>1. ASSUME NEW e \in calls', e.kind = "tables", e.id = current'[e.db], e.db \in DOMAIN node'.schema
          PROVE  e.arg = node'.schema[e.db]
      <4>1. CASE e = d
        BY <2>4, <2>6, <4>1 DEF SPut
      <4>2. CASE e # d
        <5>1. e \in calls /\ e.db # c.db
          BY <1>1, <1>7, <2>5, <3>1, <4>2 DEF LoadInv, CallsInv, IsCurrent, Rewritten
        <5>2. e.db \in DOMAIN node.schema /\ node'.schema[e.db] = node.schema[e.db]
          BY <2>6, <3>1, <5>1 DEF SPut
        <5> QED
          BY <1>1, <2>6, <3>1, <5>1, <5>2 DEF LoadInv, SchemaInv
      <4> QED
        BY <4>1, <4>2
    <3>2. ASSUME NEW db \in DOMAIN node'.lists \cap DOMAIN node'.schema, db \notin node'.busy \cup node'.errors,
                 NEW t \in node'.lists[db]
          PROVE  SchemaOf[t] = node'.schema[db]
      <4>1. db # c.db
        BY <1>1, <1>7, <2>6, <3>2 DEF LoadInv, SchemaInv, IsCurrent
      <4>2. db \in DOMAIN node.lists \cap DOMAIN node.schema /\ node'.schema[db] = node.schema[db]
        BY <2>6, <3>2, <4>1 DEF SPut
      <4> QED
        BY <2>6, <3>2, <4>2 DEF LoadInv, SchemaInv
    <3>3. ASSUME NEW e \in calls', e.kind = "schemas", e.id = current'[e.db]
          PROVE  e.db \in node'.busy \/ e.db \notin DOMAIN node'.lists
      BY <1>1, <2>4, <2>5, <2>6, <3>3 DEF LoadInv, SchemaInv, Rewritten
    <3> QED
      BY <3>1, <3>2, <3>3 DEF SchemaInv
  <2> QED
    BY <1>1, <2>7, <2>8, <2>9, <2>10, <2>11 DEF LoadInv
<1> QED
  BY <1>4, <1>5, <1>6, <1>7

-----------------------------------------------------------------------------
LEMMA BatchScannedKeeps ==
  ASSUME LoadInv, NEW c \in calls, BatchScanned(c)
  PROVE  LoadInv' /\ UNCHANGED catalog
<1> DEFINE kept == IF c.reset \/ c.db \notin DOMAIN node.lists THEN {} ELSE node.lists[c.db]
           keys == kept \cup c.answer.found
           complete == c.arg.cursor = 1
           listed == [cursor |-> IF complete THEN 0 ELSE 1, filter |-> c.arg.filter, complete |-> complete,
                      limited |-> ~complete /\ Cardinality(keys) >= MaxKeys, loading |-> FALSE, shut |-> FALSE]
           failed == [cursor |-> c.arg.cursor, filter |-> c.arg.filter, complete |-> FALSE,
                      limited |-> FALSE, loading |-> FALSE, shut |-> FALSE]
<1>1. /\ UNCHANGED <<engine, catalog, treeFilters, curBases, current, timers, callSeq>>
      /\ calls' = calls \ {c} /\ c.kind = "batch" /\ c.answer # None
      /\ scanOps' = [scanOps EXCEPT ![c.db] = IF @ = c.id THEN 0 ELSE @]
  BY DEF BatchScanned, Answered
<1>2. node' = IF ~Counts(c) THEN node
              ELSE IF c.answer.ok
              THEN [node EXCEPT !.lists = SPut(node.lists, c.db, keys), !.scans[c.db] = listed]
              ELSE [node EXCEPT !.errors = node.errors \cup {c.db}, !.scans[c.db] = failed]
  <2>1. Counts(c) => DOMAIN node = NodeFields
    BY DEF Counts, IsCurrent, LoadInv, TreeInv
  <2> QED
    BY <2>1 DEF BatchScanned, NodeFields
<1>3. DOMAIN listed = ScanFields /\ listed.filter = c.arg.filter /\ listed.loading = FALSE
  BY DEF ScanFields
<1>4. DOMAIN failed = ScanFields /\ failed.filter = c.arg.filter /\ failed.loading = FALSE
  BY DEF ScanFields
<1> HIDE DEF listed, failed, keys
<1>5. Redis /\ c.db \in DBs /\ c.id \in 1..callSeq
  BY <1>1 DEF LoadInv, EngineInv, CallsInv
<1>6. /\ current \in [DBs -> Nat] /\ scanOps \in [DBs -> Nat] /\ callSeq \in Nat
      /\ \A d, e \in calls : d.id = e.id => d = e
  BY DEF LoadInv, CallsInv
<1>7. /\ scanOps' \in [DBs -> Nat]
      /\ scanOps'[c.db] = (IF scanOps[c.db] = c.id THEN 0 ELSE scanOps[c.db])
      /\ \A db \in DBs : db # c.db => scanOps'[db] = scanOps[db]
  BY <1>1, <1>5, <1>6
<1>8. CallsInv' /\ \A e \in calls' : AnswerFits(e)'
  BY <1>1, <1>7, RemovedCalls DEF LoadInv, CallsInv
<1>9. Counts(c) => \E rec : /\ rec \in {listed, failed} /\ node'.scans = [node.scans EXCEPT ![c.db] = rec]
                            /\ DOMAIN node' = NodeFields /\ node'.loading = node.loading
                            /\ node'.shown = node.shown /\ node'.busy = node.busy /\ node'.schema = node.schema
                            /\ node'.lists = node.lists \/ (c.answer.ok /\ node'.lists = SPut(node.lists, c.db, keys))
  <2>1. Counts(c) => DOMAIN node = NodeFields
    BY DEF Counts, IsCurrent, LoadInv, TreeInv
  <2>2. CASE Counts(c) /\ c.answer.ok
    BY <1>2, <2>1, <2>2 DEF NodeFields
  <2>3. CASE Counts(c) /\ ~c.answer.ok
    BY <1>2, <2>1, <2>3 DEF NodeFields
  <2> QED
    BY <2>2, <2>3
<1>10. CASE ~Counts(c)
  <2>1. node' = node
    BY <1>2, <1>10
  <2>2. TreeInv' /\ EngineInv'
    BY <1>1, <1>5, <2>1 DEF LoadInv, TreeInv, EngineInv, Redis
  <2>3. SpinInv'
    <3>1. ASSUME node # None, NEW db \in DBs, Scans(db), db \in node.shown PROVE Scans(db)'
      <4>1. PICK w \in calls : w.kind = "batch" /\ w.db = db /\ w.id = scanOps[db] /\ w.id = current[db]
        BY <3>1 DEF Scans
      <4>2. w # c
        BY <1>1, <1>10, <3>1, <4>1 DEF Counts, IsCurrent, LoadInv, FilterInv
      <4>3. scanOps'[db] = scanOps[db]
        BY <1>6, <1>7, <4>1, <4>2
      <4> QED
        BY <1>1, <4>1, <4>2, <4>3 DEF Scans
    <3>2. \A db : Spins(db) => Spins(db)'
      BY <1>1 DEF Spins
    <3>3. \A db : Stuck(db)' = Stuck(db)
      BY <2>1 DEF Stuck
    <3> QED
      BY <1>1, <2>1, <3>1, <3>2, <3>3 DEF LoadInv, SpinInv
  <2>4. FilterInv'
    <3>1. ASSUME NEW e \in calls', e.kind = "batch", e.id = scanOps'[e.db], e.id = current'[e.db]
          PROVE  e.arg.filter = FilterOf(e.db)'
      <4>1. e \in calls /\ e.db \in DBs /\ e.id # 0
        BY <1>1, <3>1 DEF LoadInv, CallsInv
      <4>2. e.id = scanOps[e.db]
        BY <1>7, <3>1, <4>1
      <4> QED
        BY <1>1, <3>1, <4>1, <4>2 DEF LoadInv, FilterInv, FilterOf
    <3> QED
      BY <1>1, <2>1, <3>1 DEF LoadInv, FilterInv, FilterOf, Redis
  <2>5. SchemaInv'
    BY <1>1, <2>1 DEF LoadInv, SchemaInv
  <2> QED
    BY <1>1, <1>8, <2>2, <2>3, <2>4, <2>5 DEF LoadInv
<1>11. CASE Counts(c)
  <2>1. PICK rec : /\ rec \in {listed, failed} /\ node'.scans = [node.scans EXCEPT ![c.db] = rec]
                   /\ DOMAIN node' = NodeFields /\ node'.loading = node.loading
                   /\ node'.shown = node.shown /\ node'.busy = node.busy /\ node'.schema = node.schema
                   /\ node'.lists = node.lists \/ (c.answer.ok /\ node'.lists = SPut(node.lists, c.db, keys))
    BY <1>9, <1>11
  <2>2. /\ DOMAIN rec = ScanFields /\ rec.loading = FALSE /\ rec.filter = FilterOf(c.db)
        /\ node # None /\ FilterOf(c.db) = c.arg.filter
    BY <1>3, <1>4, <1>11, <2>1 DEF Counts, IsCurrent
  <2>3. /\ DOMAIN node'.scans = DOMAIN node.scans
        /\ \A db \in DOMAIN node.scans : node'.scans[db] = IF db = c.db THEN rec ELSE node.scans[db]
    BY <2>1
  <2>4. TreeInv'
    BY <2>1, <2>2, <2>3 DEF LoadInv, TreeInv
  <2>5. EngineInv'
    BY <1>1, <1>5, <2>1, <2>2 DEF LoadInv, EngineInv, Redis
  <2>6. SpinInv'
    <3>1. ASSUME NEW db \in DBs, Stuck(db)' PROVE db # c.db /\ Stuck(db)
      BY <2>2, <2>3, <3>1 DEF Stuck
    <3>2. ASSUME NEW db \in DBs, db # c.db, Scans(db) PROVE Scans(db)'
      BY <1>1, <1>7, <3>2 DEF Scans
    <3>3. \A db \in DBs : db # c.db /\ db \notin DOMAIN node.lists => db \notin DOMAIN node'.lists
      BY <2>1 DEF SPut
    <3>4. \A db : Spins(db) => Spins(db)'
      BY <1>1 DEF Spins
    <3>5. node'.loading => \E e \in calls' : e.kind = "bases" /\ e.id = curBases'
      BY <1>1, <2>1, <2>2 DEF LoadInv, SpinInv
    <3> QED
      BY <1>1, <2>1, <2>2, <3>1, <3>2, <3>3, <3>4, <3>5 DEF LoadInv, SpinInv
  <2>7. FilterInv'
    <3>1. ASSUME NEW e \in calls', e.kind = "batch", e.id = scanOps'[e.db], e.id = current'[e.db]
          PROVE  e.arg.filter = FilterOf(e.db)'
      <4>1. e \in calls /\ e.db \in DBs /\ e.id # 0
        BY <1>1, <3>1 DEF LoadInv, CallsInv
      <4>2. e.id = scanOps[e.db]
        BY <1>7, <3>1, <4>1
      <4> QED
        BY <1>1, <3>1, <4>1, <4>2 DEF LoadInv, FilterInv, FilterOf
    <3>2. \A db \in DOMAIN node'.scans : node'.scans[db].filter = FilterOf(db)
      BY <1>5, <2>2, <2>3 DEF LoadInv, FilterInv
    <3>3. c.answer.ok => keys \subseteq Matching[FilterOf(c.db)]
      <4>1. c.answer.ok => c.answer.found \subseteq Matching[FilterOf(c.db)]
        BY <1>1, <2>2 DEF LoadInv, AnswerFits
      <4>2. kept \subseteq Matching[FilterOf(c.db)]
        BY <1>5, <2>2 DEF LoadInv, FilterInv
      <4> QED
        BY <4>1, <4>2 DEF keys
    <3>4. \A db \in DOMAIN node'.lists : node'.lists[db] \subseteq Matching[FilterOf(db)]
      BY <1>5, <2>1, <2>2, <3>3 DEF LoadInv, FilterInv, SPut
    <3>5. \A db : FilterOf(db)' = FilterOf(db)
      BY <1>1 DEF FilterOf
    <3> QED
      BY <3>1, <3>2, <3>4, <3>5 DEF FilterInv
  <2>8. SchemaInv'
    <3>1. DOMAIN node'.schema = {}
      BY <1>5, <2>1, <2>2 DEF LoadInv, EngineInv, Redis
    <3>2. \A e \in calls' : e.kind # "schemas"
      BY <1>1, <1>5 DEF LoadInv, EngineInv
    <3> QED
      BY <3>1, <3>2 DEF SchemaInv
  <2> QED
    BY <1>1, <1>8, <2>4, <2>5, <2>6, <2>7, <2>8 DEF LoadInv
<1> QED
  BY <1>10, <1>11

-----------------------------------------------------------------------------
(* Requests                                                                *)

IsSent(kind, db, arg) ==
  /\ \E n : /\ calls' = calls \cup {n} /\ n.id = callSeq' /\ n.kind = kind /\ n.db = db
            /\ n.arg = arg /\ n.answer = None /\ n \notin calls
  /\ \A e \in calls : e.id # callSeq' /\ e.id # 0

LEMMA SentCalls ==
  ASSUME CallsInv, \A e \in calls : AnswerFits(e), NEW kind, NEW db, NEW arg, NEW reset, NEW w,
         Send(kind, db, arg, reset, w), kind \in {"schemas", "tables", "batch"} => db \in DBs,
         current' \in [DBs -> Nat], scanOps' \in [DBs -> Nat], timers' \subseteq DBs
  PROVE  /\ CallsInv' /\ (\A e \in calls' : AnswerFits(e)') /\ callSeq' = callSeq + 1 /\ callSeq' \in Nat
         /\ IsSent(kind, db, arg)
<1> DEFINE n == [id |-> callSeq + 1, kind |-> kind, db |-> db, arg |-> arg,
                 reset |-> reset, for |-> w, answer |-> None]
<1>1. calls' = calls \cup {n} /\ callSeq' = callSeq + 1
  BY DEF Send
<1>2. DOMAIN n = CallFields /\ n.id = callSeq + 1 /\ n.kind = kind /\ n.db = db /\ n.arg = arg /\ n.answer = None
  BY DEF CallFields
<1> HIDE DEF n
<1>3. callSeq \in Nat /\ callSeq' \in Nat
  BY <1>1 DEF CallsInv
<1>4. \A e \in calls : e.id # callSeq' /\ e.id # 0 /\ e.id \in 1..callSeq'
  BY <1>1, <1>3 DEF CallsInv
<1>5. n.id \in 1..callSeq' /\ n.id = callSeq'
  BY <1>1, <1>2, <1>3
<1>6. \A e \in calls' : /\ DOMAIN e = CallFields /\ e.id \in 1..callSeq'
                        /\ e.kind \in {"schemas", "tables", "batch"} => e.db \in DBs
  BY <1>1, <1>2, <1>4, <1>5 DEF CallsInv
<1>7. \A d, e \in calls' : d.id = e.id => d = e
  BY <1>1, <1>4, <1>5 DEF CallsInv
<1>8. CallsInv'
  BY <1>3, <1>6, <1>7 DEF CallsInv
<1>9. \A e \in calls' : AnswerFits(e)'
  BY <1>1, <1>2 DEF AnswerFits
<1>10. n \notin calls
  BY <1>4, <1>5
<1> QED
  BY <1>1, <1>2, <1>3, <1>4, <1>5, <1>8, <1>9, <1>10 DEF IsSent

LEMMA ShowCreateSQLKeeps ==
  ASSUME LoadInv, NEW db, NEW table, ShowCreateSQL(db, table)
  PROVE  LoadInv' /\ UNCHANGED catalog
<1>1. /\ UNCHANGED <<engine, catalog, node, treeFilters, curBases, current, scanOps, timers>>
      /\ Send("sql", db, table, FALSE, 0)
  BY DEF ShowCreateSQL, KeepButDialogs
<1>2. CallsInv /\ (\A e \in calls : AnswerFits(e)) /\ current' \in [DBs -> Nat] /\ scanOps' \in [DBs -> Nat] /\ timers' \subseteq DBs
  BY <1>1 DEF LoadInv, CallsInv
<1>3. /\ CallsInv' /\ (\A e \in calls' : AnswerFits(e)')
      /\ IsSent("sql", db, table)
  BY <1>1, <1>2, SentCalls
<1>4. PICK n : calls' = calls \cup {n} /\ n.kind = "sql"
  BY <1>3 DEF IsSent
<1>5. TreeInv' /\ EngineInv'
  BY <1>1, <1>4 DEF LoadInv, TreeInv, EngineInv, Redis
<1>6. SpinInv'
  <2>1. \A x : Stuck(x)' = Stuck(x)
    BY <1>1 DEF Stuck
  <2>2. \A x : (Spins(x) => Spins(x)') /\ (Scans(x) => Scans(x)')
    BY <1>1, <1>4 DEF Spins, Scans
  <2> QED
    BY <1>1, <1>4, <2>1, <2>2 DEF LoadInv, SpinInv
<1>7. FilterInv' /\ SchemaInv'
  BY <1>1, <1>4 DEF LoadInv, FilterInv, SchemaInv, FilterOf, Redis
<1> QED
  BY <1>1, <1>3, <1>5, <1>6, <1>7 DEF LoadInv

LEMMA LoadDatabasesKeeps ==
  ASSUME LoadInv, NEW nd, LoadDatabases(nd),
         nd = None \/ (node # None /\ (nd = node \/ nd = [node EXCEPT !.open = TRUE])),
         UNCHANGED <<engine, treeFilters, current, scanOps, timers>>
  PROVE  LoadInv'
<1>1. Send("bases", None, None, FALSE, 0) /\ curBases' = callSeq + 1
  BY DEF LoadDatabases
<1>2. CallsInv /\ (\A e \in calls : AnswerFits(e)) /\ current' \in [DBs -> Nat] /\ scanOps' \in [DBs -> Nat] /\ timers' \subseteq DBs
  BY DEF LoadInv, CallsInv
<1>3. /\ CallsInv' /\ (\A e \in calls' : AnswerFits(e)') /\ callSeq' = callSeq + 1
      /\ IsSent("bases", None, None)
  BY <1>1, <1>2, SentCalls
<1>4. PICK n : calls' = calls \cup {n} /\ n.id = callSeq' /\ n.kind = "bases"
  BY <1>3 DEF IsSent
<1>5. DOMAIN node' = NodeFields
      /\ \/ /\ node # None /\ node'.shown = node.shown /\ node'.lists = node.lists /\ node'.busy = node.busy
            /\ node'.errors = node.errors /\ node'.schema = node.schema /\ node'.scans = node.scans
         \/ /\ DOMAIN node'.lists = {} /\ node'.busy = {} /\ DOMAIN node'.schema = {} /\ DOMAIN node'.scans = {}
  <2>1. CASE nd = None
    <3>1. node' = [NewNode EXCEPT !.loading = TRUE, !.failed = FALSE]
      BY <2>1 DEF LoadDatabases
    <3> QED
      BY <3>1 DEF NewNode, NodeFields
  <2>2. CASE nd # None
    <3>1. node' = [nd EXCEPT !.loading = TRUE, !.failed = FALSE]
      BY <2>2 DEF LoadDatabases
    <3>2. DOMAIN node = NodeFields /\ node # None
      BY <2>2 DEF LoadInv, TreeInv
    <3>3. /\ DOMAIN nd = NodeFields /\ nd.shown = node.shown /\ nd.lists = node.lists /\ nd.busy = node.busy
          /\ nd.errors = node.errors /\ nd.schema = node.schema /\ nd.scans = node.scans
      BY <2>2, <3>2 DEF NodeFields
    <3> QED
      BY <3>1, <3>2, <3>3 DEF NodeFields
  <2> QED
    BY <2>1, <2>2
<1>6. TreeInv'
  BY <1>5 DEF LoadInv, TreeInv
<1>7. EngineInv'
  BY <1>4, <1>5 DEF LoadInv, EngineInv, Redis
<1>8. SpinInv'
  <2>1. \A x : (Spins(x) => Spins(x)') /\ (Scans(x) => Scans(x)')
    BY <1>4 DEF Spins, Scans
  <2>2. \E e \in calls' : e.kind = "bases" /\ e.id = curBases'
    BY <1>1, <1>3, <1>4
  <2>3. CASE DOMAIN node'.lists = {} /\ node'.busy = {} /\ DOMAIN node'.scans = {}
    BY <2>2, <2>3 DEF SpinInv, Stuck
  <2>4. CASE node # None /\ node'.shown = node.shown /\ node'.lists = node.lists /\ node'.busy = node.busy
             /\ node'.scans = node.scans
    BY <2>1, <2>2, <2>4 DEF LoadInv, SpinInv, Stuck
  <2> QED
    BY <1>5, <2>3, <2>4
<1>9. FilterInv'
  BY <1>4, <1>5 DEF LoadInv, FilterInv, FilterOf, Redis
<1>10. SchemaInv'
  BY <1>4, <1>5 DEF LoadInv, SchemaInv
<1> QED
  BY <1>3, <1>6, <1>7, <1>8, <1>9, <1>10 DEF LoadInv

\* The tree a list is asked from: as it is, or with the database opened in it.
From(nd, db) == nd = node \/ (node # None /\ nd = [node EXCEPT !.shown = node.shown \cup {db}])

LEMMA LoadSQLTablesKeeps ==
  ASSUME LoadInv, NEW nd, NEW db \in DBs, NEW wanted, NEW w, LoadTables(nd, db, wanted, w), ~Redis, From(nd, db),
         UNCHANGED <<engine, treeFilters, curBases>>
  PROVE  LoadInv'
<1> DEFINE kind == IF engine = "postgres" THEN "schemas" ELSE "tables"
<1>1. /\ Send(kind, db, wanted, FALSE, w) /\ current' = [current EXCEPT ![db] = callSeq + 1]
      /\ node' = IF nd = None THEN None ELSE [nd EXCEPT !.busy = @ \cup {db}, !.errors = @ \ {db}]
      /\ UNCHANGED <<scanOps, timers>>
  BY DEF LoadTables
<1>2. /\ CallsInv /\ (\A e \in calls : AnswerFits(e)) /\ current' \in [DBs -> Nat] /\ scanOps' \in [DBs -> Nat] /\ timers' \subseteq DBs
      /\ current'[db] = callSeq + 1 /\ \A x \in DBs : x # db => current'[x] = current[x]
  BY <1>1 DEF LoadInv, CallsInv
<1>3. kind \in {"schemas", "tables"} /\ (engine = "postgres" <=> kind = "schemas")
  OBVIOUS
<1> HIDE DEF kind
<1>4. /\ CallsInv' /\ (\A e \in calls' : AnswerFits(e)') /\ callSeq' = callSeq + 1
      /\ IsSent(kind, db, wanted)
  BY <1>1, <1>2, <1>3, SentCalls
<1>5. PICK n : /\ calls' = calls \cup {n} /\ n.id = callSeq' /\ n.kind = kind /\ n.db = db
               /\ \A e \in calls : e.id # callSeq' /\ e.id # 0
  BY <1>4 DEF IsSent
<1>6. node' # None => /\ node # None /\ DOMAIN node' = NodeFields /\ node'.loading = node.loading
                      /\ node'.lists = node.lists /\ node'.busy = node.busy \cup {db}
                      /\ node'.errors = node.errors \ {db} /\ node'.schema = node.schema /\ node'.scans = node.scans
  <2>1. CASE nd # None
    <3>1. /\ node # None /\ DOMAIN node = NodeFields
      BY <2>1 DEF LoadInv, TreeInv, From
    <3>2. /\ DOMAIN nd = NodeFields /\ nd.loading = node.loading /\ nd.lists = node.lists /\ nd.busy = node.busy
          /\ nd.errors = node.errors /\ nd.schema = node.schema /\ nd.scans = node.scans
      BY <3>1 DEF From, NodeFields
    <3> QED
      BY <1>1, <2>1, <3>1, <3>2 DEF NodeFields
  <2> QED
    BY <1>1, <2>1
<1>7. TreeInv'
  BY <1>6 DEF LoadInv, TreeInv
<1>8. EngineInv'
  BY <1>1, <1>3, <1>5, <1>6 DEF LoadInv, EngineInv, Redis
<1>9. SpinInv'
  <2>1. Spins(db)'
    BY <1>2, <1>3, <1>4, <1>5 DEF Spins
  <2>2. ASSUME NEW x \in DBs, x # db, Spins(x) PROVE Spins(x)'
    BY <1>2, <1>5, <2>2 DEF Spins
  <2>3. node' # None => DOMAIN node'.scans = {} /\ node'.busy \subseteq DBs
    BY <1>6 DEF LoadInv, EngineInv, TreeInv
  <2>4. node' # None /\ node'.loading => \E e \in calls' : e.kind = "bases" /\ e.id = curBases'
    BY <1>5, <1>6 DEF LoadInv, SpinInv
  <2>5. node' # None => \A x \in node'.busy : Spins(x)'
    BY <1>6, <2>1, <2>2, <2>3 DEF LoadInv, SpinInv
  <2>6. node' # None => \A x : ~Stuck(x)'
    BY <2>3 DEF Stuck
  <2> QED
    BY <2>4, <2>5, <2>6 DEF SpinInv
<1>10. FilterInv'
  BY <1>3, <1>5 DEF LoadInv, FilterInv, FilterOf, Redis, EngineInv
<1>11. SchemaInv'
  <2>1. ASSUME node' # None, NEW e \in calls', e.kind = "tables", e.id = current'[e.db], e.db \in DOMAIN node'.schema
        PROVE  e.arg = node'.schema[e.db]
    <3>1. engine = "postgres"
      BY <1>6, <2>1 DEF LoadInv, EngineInv
    <3>2. e \in calls /\ e.db \in DBs
      BY <1>3, <1>5, <2>1, <3>1 DEF LoadInv, CallsInv
    <3>3. e.db # db
      BY <1>2, <1>4, <1>5, <2>1, <3>2
    <3> QED
      BY <1>2, <1>6, <2>1, <3>2, <3>3 DEF LoadInv, SchemaInv
  <2>2. ASSUME node' # None, NEW x \in DOMAIN node'.lists \cap DOMAIN node'.schema,
               x \notin node'.busy \cup node'.errors, NEW t \in node'.lists[x]
        PROVE  SchemaOf[t] = node'.schema[x]
    <3>1. x \notin node.busy \cup node.errors
      BY <1>6, <2>2
    <3> QED
      BY <1>6, <2>2, <3>1 DEF LoadInv, SchemaInv
  <2>3. ASSUME node' # None, NEW e \in calls', e.kind = "schemas", e.id = current'[e.db]
        PROVE  e.db \in node'.busy \/ e.db \notin DOMAIN node'.lists
    <3>1. CASE e.db = db
      BY <1>6, <2>3, <3>1
    <3>2. CASE e.db # db
      <4>1. e \in calls /\ e.db \in DBs
        BY <1>5, <2>3, <3>2 DEF LoadInv, CallsInv
      <4>2. e.db \in node.busy \/ e.db \notin DOMAIN node.lists
        BY <1>2, <1>6, <2>3, <3>2, <4>1 DEF LoadInv, SchemaInv
      <4> QED
        BY <1>6, <2>3, <4>2
    <3> QED
      BY <3>1, <3>2
  <2> QED
    BY <2>1, <2>2, <2>3 DEF SchemaInv
<1> QED
  BY <1>4, <1>7, <1>8, <1>9, <1>10, <1>11 DEF LoadInv

-----------------------------------------------------------------------------
\* A cancelled scan loads no more; the rest of the tree stays.
IsCancelled(base, nd, dbs) ==
  /\ DOMAIN base = NodeFields /\ DOMAIN base.scans = DOMAIN nd.scans
  /\ base.open = nd.open /\ base.loading = nd.loading /\ base.failed = nd.failed /\ base.dbs = nd.dbs
  /\ base.shown = nd.shown /\ base.lists = nd.lists
  /\ base.busy = nd.busy /\ base.errors = nd.errors /\ base.schema = nd.schema
  /\ \A x \in DOMAIN nd.scans : /\ x \notin dbs => base.scans[x] = nd.scans[x]
                                /\ x \in dbs => base.scans[x].loading = FALSE
                                /\ DOMAIN base.scans[x] = ScanFields /\ base.scans[x].filter = nd.scans[x].filter

LEMMA CancelledTree ==
  ASSUME NEW nd, nd # None, DOMAIN nd = NodeFields, NEW dbs,
         \A x \in DOMAIN nd.scans : DOMAIN nd.scans[x] = ScanFields
  PROVE  IsCancelled(CancelledScans(nd, dbs), nd, dbs)
<1> DEFINE scans == [x \in DOMAIN nd.scans |-> IF x \in dbs THEN [nd.scans[x] EXCEPT !.loading = FALSE] ELSE nd.scans[x]]
           base == CancelledScans(nd, dbs)
<1>1. base = [nd EXCEPT !.scans = scans]
  BY DEF CancelledScans, NodeFields
<1>2. \A x \in DOMAIN nd.scans : /\ x \notin dbs => scans[x] = nd.scans[x]
                                 /\ x \in dbs => scans[x].loading = FALSE
                                 /\ DOMAIN scans[x] = ScanFields /\ scans[x].filter = nd.scans[x].filter
  BY DEF ScanFields
<1>3. DOMAIN scans = DOMAIN nd.scans
  OBVIOUS
<1> HIDE DEF scans, base
<1>4. /\ DOMAIN base = NodeFields /\ base.scans = scans
      /\ base.open = nd.open /\ base.loading = nd.loading /\ base.failed = nd.failed /\ base.dbs = nd.dbs
      /\ base.shown = nd.shown /\ base.lists = nd.lists
      /\ base.busy = nd.busy /\ base.errors = nd.errors /\ base.schema = nd.schema
  BY <1>1 DEF NodeFields
<1> QED
  BY <1>2, <1>3, <1>4 DEF base, IsCancelled

LEMMA LoadBatchKeeps ==
  ASSUME LoadInv, NEW nd, NEW db \in DBs, NEW reset \in BOOLEAN, NEW w, LoadBatch(nd, db, reset, w), Redis, From(nd, db),
         reset \/ (nd = node /\ node # None /\ db \in node.shown), UNCHANGED <<engine, treeFilters, curBases>>
  PROVE  LoadInv'
<1> DEFINE scan == IF nd # None /\ db \in DOMAIN nd.scans THEN nd.scans[db] ELSE None
           cursor == IF reset \/ scan = None THEN 0 ELSE scan.cursor
           base == IF reset THEN CancelledScans(nd, {db}) ELSE nd
           arg == [cursor |-> cursor, filter |-> FilterOf(db)]
           shut == db \notin base.shown
           new == [cursor |-> cursor, filter |-> FilterOf(db),
                   complete |-> FALSE, limited |-> FALSE, loading |-> TRUE, shut |-> shut]
<1>1. /\ Send("batch", db, arg, reset, w)
      /\ current' = [current EXCEPT ![db] = callSeq + 1] /\ scanOps' = [scanOps EXCEPT ![db] = callSeq + 1]
      /\ timers' = IF reset THEN timers \ {db} ELSE timers
  BY DEF LoadBatch
<1>2. node' = IF base = None THEN None
              ELSE [base EXCEPT !.lists = IF reset THEN SPut(@, db, {}) ELSE @, !.errors = @ \ {db},
                                !.scans = SPut(@, db, new)]
  BY DEF LoadBatch
<1>3. arg.filter = FilterOf(db)
  OBVIOUS
<1>4. shut \in BOOLEAN /\ (shut <=> db \notin base.shown)
  OBVIOUS
<1> HIDE DEF arg, shut, cursor
<1>5. DOMAIN new = ScanFields /\ new.filter = FilterOf(db) /\ new.loading = TRUE /\ new.shut = shut
  BY DEF ScanFields
<1> HIDE DEF new
<1>6. /\ CallsInv /\ (\A e \in calls : AnswerFits(e)) /\ current' \in [DBs -> Nat] /\ scanOps' \in [DBs -> Nat] /\ timers' \subseteq DBs
      /\ current'[db] = callSeq + 1 /\ scanOps'[db] = callSeq + 1
      /\ \A x \in DBs : x # db => current'[x] = current[x] /\ scanOps'[x] = scanOps[x]
  BY <1>1 DEF LoadInv, CallsInv
<1>7. /\ CallsInv' /\ (\A e \in calls' : AnswerFits(e)') /\ callSeq' = callSeq + 1
      /\ IsSent("batch", db, arg)
  BY <1>1, <1>6, SentCalls
<1>8. PICK n : /\ calls' = calls \cup {n} /\ n.id = callSeq' /\ n.kind = "batch" /\ n.db = db /\ n.arg = arg
               /\ \A e \in calls : e.id # callSeq' /\ e.id # 0
  BY <1>7 DEF IsSent
<1>9. nd # None => /\ node # None /\ DOMAIN nd = NodeFields /\ nd.loading = node.loading
                   /\ nd.shown \in {node.shown, node.shown \cup {db}} /\ nd.lists = node.lists
                   /\ nd.busy = node.busy /\ nd.schema = node.schema /\ nd.scans = node.scans
  <2>1. nd # None => node # None /\ DOMAIN node = NodeFields
    BY DEF From, LoadInv, TreeInv
  <2> QED
    BY <2>1 DEF From, NodeFields
<1>10. nd = None => node' = None
  <2>1. nd = None => base = None
    BY DEF CancelledScans
  <2> QED
    BY <1>2, <2>1
<1>11. nd # None => /\ DOMAIN base = NodeFields /\ base.loading = node.loading /\ base.shown = nd.shown /\ base.lists = node.lists
                    /\ base.busy = node.busy /\ base.schema = node.schema /\ DOMAIN base.scans = DOMAIN node.scans
                    /\ \A x \in DOMAIN node.scans : x # db => base.scans[x] = node.scans[x]
  <2>1. nd # None => \A x \in DOMAIN nd.scans : DOMAIN nd.scans[x] = ScanFields
    BY <1>9 DEF LoadInv, TreeInv
  <2>2. CASE reset /\ nd # None
    <3>1. IsCancelled(base, nd, {db})
      BY <1>9, <2>1, <2>2, CancelledTree
    <3> HIDE DEF base
    <3> QED
      BY <1>9, <2>2, <3>1 DEF IsCancelled
  <2>3. CASE ~reset /\ nd # None
    BY <1>9, <2>3
  <2> QED
    BY <2>2, <2>3
<1> HIDE DEF base
<1>12. node' # None => /\ node # None /\ nd # None /\ DOMAIN node' = NodeFields /\ node'.loading = node.loading
                       /\ node'.shown = nd.shown /\ node'.busy = node.busy /\ node'.schema = node.schema
                       /\ node'.lists = (IF reset THEN SPut(node.lists, db, {}) ELSE node.lists)
                       /\ node'.scans = SPut(base.scans, db, new)
  BY <1>2, <1>9, <1>10, <1>11 DEF NodeFields
<1>13. node' # None => /\ DOMAIN node'.scans = DOMAIN node.scans \cup {db} /\ node'.scans[db] = new
                       /\ \A x \in DOMAIN node.scans : x # db => node'.scans[x] = node.scans[x]
  BY <1>11, <1>12 DEF SPut
<1>14. TreeInv'
  BY <1>5, <1>12, <1>13 DEF LoadInv, TreeInv
<1>15. EngineInv'
  BY <1>8, <1>12 DEF LoadInv, EngineInv, Redis
<1>16. SpinInv'
  <2>1. node' # None /\ node'.loading => \E e \in calls' : e.kind = "bases" /\ e.id = curBases'
    BY <1>8, <1>12 DEF LoadInv, SpinInv
  <2>2. node' # None => node'.busy = {}
    BY <1>12 DEF LoadInv, EngineInv
  <2>3. Scans(db)'
    BY <1>6, <1>7, <1>8 DEF Scans
  <2>4. ASSUME NEW x \in DBs, x # db, Scans(x) PROVE Scans(x)'
    BY <1>6, <1>8, <2>4 DEF Scans
  <2>5. ASSUME node' # None, Stuck(db)' PROVE db \in node'.shown
    <3>1. ~shut
      BY <1>5, <1>13, <2>5 DEF Stuck
    <3> QED
      BY <1>4, <1>11, <1>12, <2>5, <3>1
  <2>6. ASSUME node' # None, NEW x \in DBs, x # db, Stuck(x)'
        PROVE  IF x \in node'.shown THEN x \in timers' \/ Scans(x)' ELSE x \notin DOMAIN node'.lists
    <3>1. Stuck(x)
      BY <1>13, <2>6 DEF Stuck
    <3>2. x \in node'.shown <=> x \in node.shown
      BY <1>9, <1>12, <2>6
    <3>3. x \in timers' <=> x \in timers
      BY <1>1, <2>6
    <3>4. x \in DOMAIN node'.lists <=> x \in DOMAIN node.lists
      BY <1>12, <2>6 DEF SPut
    <3> QED
      BY <1>12, <2>4, <2>6, <3>1, <3>2, <3>3, <3>4 DEF LoadInv, SpinInv
  <2> QED
    BY <2>1, <2>2, <2>3, <2>5, <2>6 DEF SpinInv
<1>17. FilterInv'
  <2>1. \A x : FilterOf(x)' = FilterOf(x)
    BY DEF FilterOf
  <2>2. ASSUME NEW e \in calls', e.kind = "batch", e.id = scanOps'[e.db], e.id = current'[e.db]
        PROVE  e.arg.filter = FilterOf(e.db)
    <3>1. CASE e = n
      BY <1>3, <1>8, <3>1
    <3>2. CASE e # n
      <4>1. e \in calls /\ e.db \in DBs
        BY <1>8, <2>2, <3>2 DEF LoadInv, CallsInv
      <4>2. e.db # db
        BY <1>6, <1>7, <1>8, <2>2, <4>1
      <4> QED
        BY <1>6, <2>2, <4>1, <4>2 DEF LoadInv, FilterInv
    <3> QED
      BY <3>1, <3>2
  <2>3. node' # None => \A x \in DOMAIN node'.scans : node'.scans[x].filter = FilterOf(x)
    BY <1>5, <1>12, <1>13 DEF LoadInv, FilterInv
  <2>4. node' # None => \A x \in DOMAIN node'.lists : node'.lists[x] \subseteq Matching[FilterOf(x)]
    <3>1. node' # None => \A x \in DOMAIN node.lists : node.lists[x] \subseteq Matching[FilterOf(x)]
      BY <1>12 DEF LoadInv, FilterInv
    <3> QED
      BY <1>12, <3>1 DEF SPut
  <2> QED
    BY <2>1, <2>2, <2>3, <2>4 DEF FilterInv
<1>18. SchemaInv'
  <2>1. node' # None => DOMAIN node'.schema = {}
    BY <1>12 DEF LoadInv, EngineInv, Redis
  <2>2. \A e \in calls' : e.kind # "schemas"
    BY <1>8 DEF LoadInv, EngineInv
  <2> QED
    BY <2>1, <2>2 DEF SchemaInv
<1> QED
  BY <1>7, <1>14, <1>15, <1>16, <1>17, <1>18 DEF LoadInv

-----------------------------------------------------------------------------
(* What is opened, closed and cancelled                                    *)

LEMMA CancelledCalls ==
  ASSUME LoadInv, NEW dbs, CancelScans(dbs), UNCHANGED <<engine, calls, callSeq>>
  PROVE  /\ CallsInv' /\ (\A e \in calls' : AnswerFits(e)')
         /\ \A x \in DBs : /\ x \notin dbs => current'[x] = current[x] /\ scanOps'[x] = scanOps[x]
                           /\ x \in dbs => scanOps'[x] = 0
                           /\ ~Redis => current'[x] = current[x]
         /\ \A x : x \in timers' <=> x \in timers /\ x \notin dbs
         /\ ~Redis => timers' = {} /\ scanOps' = [db \in DBs |-> 0]
<1>1. /\ current' = [db \in DBs |-> IF db \in dbs /\ (db \in timers \/ scanOps[db] # 0) THEN 0 ELSE current[db]]
      /\ timers' = timers \ dbs
      /\ scanOps' = [db \in DBs |-> IF db \in dbs THEN 0 ELSE scanOps[db]]
  BY DEF CancelScans, Bumped
<1>2. CallsInv'
  BY <1>1 DEF LoadInv, CallsInv
<1>3. \A e \in calls' : AnswerFits(e)'
  BY DEF LoadInv, AnswerFits
<1>4. ~Redis => timers = {} /\ scanOps = [db \in DBs |-> 0]
  BY DEF LoadInv, EngineInv
<1> QED
  BY <1>1, <1>2, <1>3, <1>4

LEMMA ClosedKeeps ==
  ASSUME LoadInv, CancelScans(DBs), node' = None, UNCHANGED <<engine, calls, callSeq>>
  PROVE  LoadInv'
<1>1. /\ CallsInv' /\ (\A e \in calls' : AnswerFits(e)')
      /\ \A x \in DBs : scanOps'[x] = 0
      /\ ~Redis => timers' = {} /\ scanOps' = [db \in DBs |-> 0]
  BY CancelledCalls
<1>2. TreeInv' /\ SpinInv' /\ SchemaInv'
  BY DEF TreeInv, SpinInv, SchemaInv
<1>3. EngineInv'
  BY <1>1 DEF LoadInv, EngineInv, Redis
<1>4. FilterInv'
  BY <1>1 DEF LoadInv, CallsInv, FilterInv
<1> QED
  BY <1>1, <1>2, <1>3, <1>4 DEF LoadInv

LEMMA CollapsedKeeps ==
  ASSUME LoadInv, Redis, NEW dbs, CancelScans(dbs), UNCHANGED <<engine, treeFilters, curBases, calls, callSeq>>,
         node # None, NEW base, IsCancelled(base, node, dbs), NEW gone, gone \subseteq dbs,
         DOMAIN node' = NodeFields, node'.loading = base.loading, node'.shown = base.shown \ gone,
         node'.lists = base.lists, node'.busy = base.busy, node'.schema = base.schema, node'.scans = base.scans
  PROVE  LoadInv'
<1>1. /\ CallsInv' /\ (\A e \in calls' : AnswerFits(e)')
      /\ \A x \in DBs : x \notin dbs => current'[x] = current[x] /\ scanOps'[x] = scanOps[x]
      /\ \A x \in DBs : x \in dbs => scanOps'[x] = 0
      /\ \A x : x \in timers' <=> x \in timers /\ x \notin dbs
  BY CancelledCalls
<1>2. /\ DOMAIN node' = NodeFields /\ node'.loading = node.loading /\ node'.shown = node.shown \ gone
      /\ node'.lists = node.lists /\ node'.busy = node.busy /\ node'.schema = node.schema /\ node'.scans = base.scans
  BY DEF IsCancelled, NodeFields
<1>3. /\ DOMAIN node'.scans = DOMAIN node.scans
      /\ \A x \in DOMAIN node.scans : /\ x \notin dbs => node'.scans[x] = node.scans[x]
                                      /\ x \in dbs => node'.scans[x].loading = FALSE
                                      /\ DOMAIN node'.scans[x] = ScanFields /\ node'.scans[x].filter = node.scans[x].filter
  BY <1>2 DEF IsCancelled
<1>4. TreeInv'
  BY <1>2, <1>3 DEF LoadInv, TreeInv
<1>5. EngineInv'
  BY <1>2 DEF LoadInv, EngineInv, Redis
<1>6. SpinInv'
  <2>1. ASSUME NEW x \in DBs, Stuck(x)' PROVE x \notin dbs /\ Stuck(x)
    BY <1>3, <2>1 DEF Stuck
  <2>2. ASSUME NEW x \in DBs, x \notin dbs, Scans(x) PROVE Scans(x)'
    BY <1>1, <2>2 DEF Scans
  <2>3. \A x : x \notin dbs => (x \in node'.shown <=> x \in node.shown)
    BY <1>2
  <2>4. node'.busy = {}
    BY <1>2 DEF LoadInv, EngineInv
  <2>5. node'.loading => \E e \in calls' : e.kind = "bases" /\ e.id = curBases'
    BY <1>2 DEF LoadInv, SpinInv
  <2>6. ASSUME NEW x \in DBs, Stuck(x)'
        PROVE  IF x \in node'.shown THEN x \in timers' \/ Scans(x)' ELSE x \notin DOMAIN node'.lists
    BY <1>1, <1>2, <2>1, <2>2, <2>3, <2>6 DEF LoadInv, SpinInv
  <2> QED
    BY <2>4, <2>5, <2>6 DEF SpinInv
<1>7. FilterInv'
  <2>1. \A x : FilterOf(x)' = FilterOf(x)
    BY DEF FilterOf
  <2>2. ASSUME NEW e \in calls', e.kind = "batch", e.id = scanOps'[e.db], e.id = current'[e.db]
        PROVE  e.arg.filter = FilterOf(e.db)
    <3>1. e.db \in DBs /\ e.id # 0
      BY <2>2 DEF LoadInv, CallsInv
    <3> QED
      BY <1>1, <2>2, <3>1 DEF LoadInv, FilterInv
  <2>3. \A x \in DOMAIN node'.scans : node'.scans[x].filter = FilterOf(x)
    BY <1>3 DEF LoadInv, FilterInv
  <2>4. \A x \in DOMAIN node'.lists : node'.lists[x] \subseteq Matching[FilterOf(x)]
    BY <1>2 DEF LoadInv, FilterInv
  <2> QED
    BY <2>1, <2>2, <2>3, <2>4 DEF FilterInv
<1>8. SchemaInv'
  BY <1>2 DEF LoadInv, EngineInv, SchemaInv, Redis
<1> QED
  BY <1>1, <1>4, <1>5, <1>6, <1>7, <1>8 DEF LoadInv

\* Only what is open or shown changes, and no scan gets stuck by it.
LEMMA OpenedKeeps ==
  ASSUME LoadInv, UNCHANGED <<engine, treeFilters, curBases, current, scanOps, timers, calls, callSeq>>,
         node # None, DOMAIN node' = NodeFields, node'.loading => node.loading,
         node'.lists = node.lists, node'.busy = node.busy, node'.errors = node.errors,
         node'.schema = node.schema, node'.scans = node.scans,
         \A x \in DBs : Stuck(x) => (x \in node'.shown <=> x \in node.shown)
  PROVE  LoadInv'
<1>1. CallsInv' /\ (\A e \in calls' : AnswerFits(e)')
  BY DEF LoadInv, CallsInv, AnswerFits
<1>2. TreeInv' /\ EngineInv'
  BY DEF LoadInv, TreeInv, EngineInv, Redis
<1>3. SpinInv'
  <2>1. \A x : (Stuck(x)' <=> Stuck(x)) /\ (Spins(x) => Spins(x)') /\ (Scans(x) => Scans(x)')
    BY DEF Stuck, Spins, Scans
  <2> QED
    BY <2>1 DEF LoadInv, SpinInv
<1>4. FilterInv'
  BY DEF LoadInv, FilterInv, FilterOf, Redis
<1>5. SchemaInv'
  BY DEF LoadInv, SchemaInv
<1> QED
  BY <1>1, <1>2, <1>3, <1>4, <1>5 DEF LoadInv

LEMMA ToggleConnectionKeeps ==
  ASSUME LoadInv, ToggleConnection
  PROVE  LoadInv' /\ UNCHANGED catalog
<1>1. UNCHANGED <<engine, treeFilters, catalog>>
  BY DEF ToggleConnection, KeepRest
<1>2. node # None => DOMAIN node = NodeFields
  BY DEF LoadInv, TreeInv
<1>3. CASE node # None /\ node.open /\ Redis
  <2>1. IsCancelled(CancelledScans(node, DBs), node, DBs)
    BY <1>2, <1>3, CancelledTree DEF LoadInv, TreeInv
  <2> DEFINE base == CancelledScans(node, DBs)
  <2>2. /\ node' = [base EXCEPT !.open = FALSE] /\ CancelScans(DBs) /\ UNCHANGED <<curBases, calls, callSeq>>
    BY <1>3 DEF ToggleConnection
  <2> HIDE DEF base
  <2>3. /\ DOMAIN node' = NodeFields /\ node'.loading = base.loading /\ node'.shown = base.shown \ {}
        /\ node'.lists = base.lists /\ node'.busy = base.busy /\ node'.schema = base.schema /\ node'.scans = base.scans
    <3>1. DOMAIN base = NodeFields
      BY <2>1 DEF IsCancelled, base
    <3> QED
      BY <2>2, <3>1 DEF NodeFields
  <2> QED
    BY ZenonT(60), <1>1, <1>3, <2>1, <2>2, <2>3, CollapsedKeeps DEF base
<1>4. CASE node # None /\ node.open /\ ~Redis
  <2>1. node' = [node EXCEPT !.open = FALSE] /\ UNCHANGED <<current, timers, scanOps, curBases, calls, callSeq>>
    BY <1>4 DEF ToggleConnection
  <2>2. /\ DOMAIN node' = NodeFields /\ node'.loading = node.loading /\ node'.lists = node.lists
        /\ node'.busy = node.busy /\ node'.errors = node.errors /\ node'.schema = node.schema
        /\ node'.scans = node.scans /\ node'.shown = node.shown
    BY <1>2, <1>4, <2>1 DEF NodeFields
  <2> QED
    BY <1>1, <1>4, <2>1, <2>2, OpenedKeeps
<1>5. CASE node # None /\ ~node.open /\ node.dbs # None
  <2>1. node' = [node EXCEPT !.open = TRUE, !.loading = FALSE] /\ UNCHANGED <<current, timers, scanOps, curBases, calls, callSeq>>
    BY <1>5 DEF ToggleConnection
  <2>2. /\ DOMAIN node' = NodeFields /\ node'.loading = FALSE /\ node'.lists = node.lists
        /\ node'.busy = node.busy /\ node'.errors = node.errors /\ node'.schema = node.schema
        /\ node'.scans = node.scans /\ node'.shown = node.shown
    BY <1>2, <1>5, <2>1 DEF NodeFields
  <2> QED
    BY <1>1, <1>5, <2>1, <2>2, OpenedKeeps
<1>6. CASE ~(node # None /\ node.open) /\ ~(node # None /\ node.dbs # None)
  <2> DEFINE nd == IF node = None THEN None ELSE [node EXCEPT !.open = TRUE]
  <2>1. LoadDatabases(nd) /\ UNCHANGED <<current, scanOps, timers>>
    BY <1>6 DEF ToggleConnection
  <2>2. nd = None \/ (node # None /\ (nd = node \/ nd = [node EXCEPT !.open = TRUE]))
    OBVIOUS
  <2> HIDE DEF nd
  <2> QED
    BY <1>1, <2>1, <2>2, LoadDatabasesKeeps
<1> QED
  BY <1>3, <1>4, <1>5, <1>6

LEMMA ToggleDatabaseKeeps ==
  ASSUME LoadInv, NEW db \in DBs, ToggleDatabase(db)
  PROVE  LoadInv' /\ UNCHANGED catalog
<1>1. UNCHANGED <<engine, treeFilters, catalog, curBases>>
  BY DEF ToggleDatabase, KeepRest
<1>2. node # None /\ DOMAIN node = NodeFields
  BY DEF ToggleDatabase, InTree, LoadInv, TreeInv
<1>3. CASE db \in node.shown /\ Redis
  <2>1. IsCancelled(CancelledScans(node, {db}), node, {db})
    BY <1>2, CancelledTree DEF LoadInv, TreeInv
  <2> DEFINE base == CancelledScans(node, {db})
  <2>2. /\ node' = [base EXCEPT !.shown = @ \ {db}] /\ CancelScans({db}) /\ UNCHANGED <<calls, callSeq>>
    BY <1>3 DEF ToggleDatabase
  <2> HIDE DEF base
  <2>3. /\ DOMAIN node' = NodeFields /\ node'.loading = base.loading /\ node'.shown = base.shown \ {db}
        /\ node'.lists = base.lists /\ node'.busy = base.busy /\ node'.schema = base.schema /\ node'.scans = base.scans
    <3>1. DOMAIN base = NodeFields
      BY <2>1 DEF IsCancelled, base
    <3> QED
      BY <2>2, <3>1 DEF NodeFields
  <2> QED
    BY <1>1, <1>2, <1>3, <2>1, <2>2, <2>3, CollapsedKeeps DEF base
<1>4. CASE db \in node.shown /\ ~Redis
  <2>1. node' = [node EXCEPT !.shown = @ \ {db}] /\ UNCHANGED <<current, timers, scanOps, calls, callSeq>>
    BY <1>4 DEF ToggleDatabase
  <2>2. /\ DOMAIN node' = NodeFields /\ node'.loading = node.loading /\ node'.lists = node.lists
        /\ node'.busy = node.busy /\ node'.errors = node.errors /\ node'.schema = node.schema
        /\ node'.scans = node.scans
    BY <1>2, <2>1 DEF NodeFields
  <2>3. \A x : ~Stuck(x)
    BY <1>2, <1>4 DEF LoadInv, EngineInv, Stuck
  <2> QED
    BY <1>1, <1>2, <2>1, <2>2, <2>3, OpenedKeeps
<1> DEFINE opened == [node EXCEPT !.shown = @ \cup {db}]
<1>5. CASE db \notin node.shown /\ db \in DOMAIN node.lists /\ (~Redis \/ db \in DOMAIN node.scans)
  <2>1. node' = opened /\ UNCHANGED <<current, timers, scanOps, calls, callSeq>>
    BY <1>5 DEF ToggleDatabase
  <2>2. /\ DOMAIN node' = NodeFields /\ node'.loading = node.loading /\ node'.lists = node.lists
        /\ node'.busy = node.busy /\ node'.errors = node.errors /\ node'.schema = node.schema
        /\ node'.scans = node.scans /\ node'.shown = node.shown \cup {db}
    BY <1>2, <2>1 DEF NodeFields
  <2>3. ~Stuck(db)
    BY <1>2, <1>5 DEF LoadInv, SpinInv
  <2> QED
    BY <1>1, <1>2, <2>1, <2>2, <2>3, OpenedKeeps
<1>6. CASE db \notin node.shown /\ ~(db \in DOMAIN node.lists /\ (~Redis \/ db \in DOMAIN node.scans))
  <2>1. LoadTables(opened, db, None, 0)
    BY <1>6 DEF ToggleDatabase
  <2>2. From(opened, db)
    BY <1>2 DEF From
  <2> HIDE DEF opened
  <2>3. Redis => LoadBatch(opened, db, TRUE, 0)
    BY <2>1 DEF LoadTables
  <2> QED
    BY <1>1, <2>1, <2>2, <2>3, LoadBatchKeeps, LoadSQLTablesKeeps
<1> QED
  BY <1>3, <1>4, <1>5, <1>6

-----------------------------------------------------------------------------
LEMMA ListAgain ==
  ASSUME LoadInv, NEW db \in DBs, NEW wanted, NEW w, LoadTables(node, db, wanted, w),
         UNCHANGED <<engine, treeFilters, curBases>>
  PROVE  LoadInv'
<1>1. From(node, db)
  BY DEF From
<1>2. Redis => LoadBatch(node, db, TRUE, w)
  BY DEF LoadTables
<1> QED
  BY <1>1, <1>2, LoadBatchKeeps, LoadSQLTablesKeeps

LEMMA SetTableFilterKeeps ==
  ASSUME LoadInv, NEW db \in DBs, NEW filter, SetTableFilter(db, filter)
  PROVE  LoadInv' /\ UNCHANGED catalog
<1>1. /\ UNCHANGED <<engine, catalog, curBases, calls, callSeq>> /\ db \in node.shown
      /\ treeFilters' = IF filter = None THEN SDrop(treeFilters, {db}) ELSE SPut(treeFilters, db, filter)
  BY DEF SetTableFilter, KeepRest
<1>2. node # None /\ DOMAIN node = NodeFields
  BY DEF SetTableFilter, InTree, LoadInv, TreeInv
<1>3. FilterOf(db)' = filter /\ \A x : x # db => FilterOf(x)' = FilterOf(x)
  BY <1>1 DEF FilterOf, SDrop, SPut
<1>4. CASE ~Redis
  <2>1. UNCHANGED <<node, current, timers, scanOps>>
    BY <1>4 DEF SetTableFilter
  <2>2. CallsInv' /\ (\A e \in calls' : AnswerFits(e)')
    BY <1>1, <2>1 DEF LoadInv, CallsInv, AnswerFits
  <2>3. TreeInv' /\ EngineInv' /\ SchemaInv'
    BY <1>1, <2>1 DEF LoadInv, TreeInv, EngineInv, SchemaInv, Redis
  <2>4. SpinInv'
    BY <1>1, <2>1 DEF LoadInv, SpinInv, Spins, Scans, Stuck
  <2>5. FilterInv'
    BY <1>1, <1>4, <2>1 DEF LoadInv, FilterInv, EngineInv, Redis
  <2> QED
    BY <1>1, <2>2, <2>3, <2>4, <2>5 DEF LoadInv
<1>5. CASE Redis
  <2> DEFINE base == CancelledScans(node, {db})
             new == [cursor |-> 0, filter |-> filter, complete |-> FALSE,
                     limited |-> FALSE, loading |-> TRUE, shut |-> FALSE]
  <2>1. /\ current' = Bumped({db}) /\ timers' = timers \cup {db} /\ scanOps' = [scanOps EXCEPT ![db] = 0]
        /\ node' = [base EXCEPT !.lists = SPut(@, db, {}), !.errors = @ \ {db}, !.scans = SPut(@, db, new)]
    BY <1>5 DEF SetTableFilter
  <2>2. DOMAIN new = ScanFields /\ new.filter = filter
    BY DEF ScanFields
  <2>3. IsCancelled(base, node, {db})
    BY <1>2, CancelledTree DEF LoadInv, TreeInv
  <2> HIDE DEF base, new
  <2>4. /\ DOMAIN node' = NodeFields /\ node'.loading = node.loading /\ node'.shown = node.shown
        /\ node'.lists = SPut(node.lists, db, {}) /\ node'.busy = node.busy /\ node'.schema = node.schema
        /\ node'.scans = SPut(base.scans, db, new)
    BY <2>1, <2>3 DEF IsCancelled, NodeFields
  <2>5. /\ DOMAIN node'.scans = DOMAIN node.scans \cup {db} /\ node'.scans[db] = new
        /\ \A x \in DOMAIN node.scans : x # db => node'.scans[x] = node.scans[x]
    BY <2>3, <2>4 DEF IsCancelled, SPut
  <2>6. /\ current' \in [DBs -> Nat] /\ scanOps' \in [DBs -> Nat] /\ scanOps'[db] = 0
        /\ \A x \in DBs : x # db => current'[x] = current[x] /\ scanOps'[x] = scanOps[x]
    BY <2>1 DEF Bumped, LoadInv, CallsInv
  <2>7. CallsInv' /\ (\A e \in calls' : AnswerFits(e)')
    BY <1>1, <2>1, <2>6 DEF LoadInv, CallsInv, AnswerFits
  <2>8. TreeInv' /\ EngineInv'
    <3>1. TreeInv'
      BY <1>2, <2>2, <2>4, <2>5 DEF LoadInv, TreeInv
    <3> QED
      BY <1>1, <1>2, <1>5, <2>4, <3>1 DEF LoadInv, EngineInv, Redis
  <2>9. SpinInv'
    <3>1. \A x \in DBs : x # db => (Scans(x) => Scans(x)') /\ (Stuck(x)' => Stuck(x))
      BY <1>1, <2>5, <2>6 DEF Scans, Stuck
    <3>2. node'.busy = {}
      BY <1>2, <1>5, <2>4 DEF LoadInv, EngineInv
    <3>3. node'.loading => \E e \in calls' : e.kind = "bases" /\ e.id = curBases'
      BY <1>1, <1>2, <2>4 DEF LoadInv, SpinInv
    <3>4. ASSUME NEW x \in DBs, Stuck(x)'
          PROVE  IF x \in node'.shown THEN x \in timers' \/ Scans(x)' ELSE x \notin DOMAIN node'.lists
      <4>1. CASE x = db
        BY <1>1, <2>1, <2>4, <4>1
      <4>2. CASE x # db
        <5>1. x \in DOMAIN node'.lists <=> x \in DOMAIN node.lists
          BY <2>4, <4>2 DEF SPut
        <5> QED
          BY <1>2, <2>1, <2>4, <3>1, <3>4, <4>2, <5>1 DEF LoadInv, SpinInv
      <4> QED
        BY <4>1, <4>2
    <3> QED
      BY <3>2, <3>3, <3>4 DEF SpinInv
  <2>10. FilterInv'
    <3>1. ASSUME NEW e \in calls', e.kind = "batch", e.id = scanOps'[e.db], e.id = current'[e.db]
          PROVE  e.arg.filter = FilterOf(e.db)'
      <4>1. e.db \in DBs /\ e.id # 0
        BY <1>1, <3>1 DEF LoadInv, CallsInv
      <4>2. e.db # db
        BY <2>6, <3>1, <4>1
      <4> QED
        BY <1>1, <1>3, <2>6, <3>1, <4>1, <4>2 DEF LoadInv, FilterInv
    <3>2. \A x \in DOMAIN node'.scans : node'.scans[x].filter = FilterOf(x)'
      BY <1>2, <1>3, <1>5, <2>2, <2>5 DEF LoadInv, FilterInv
    <3>3. \A x \in DOMAIN node'.lists : node'.lists[x] \subseteq Matching[FilterOf(x)']
      BY <1>2, <1>3, <1>5, <2>4 DEF LoadInv, FilterInv, SPut
    <3> QED
      BY <3>1, <3>2, <3>3 DEF FilterInv
  <2>11. SchemaInv'
    <3>1. DOMAIN node'.schema = {} /\ \A e \in calls' : e.kind # "schemas"
      BY <1>1, <1>2, <1>5, <2>4 DEF LoadInv, EngineInv, Redis
    <3> QED
      BY <3>1 DEF SchemaInv
  <2> QED
    BY <1>1, <2>7, <2>8, <2>9, <2>10, <2>11 DEF LoadInv
<1> QED
  BY <1>4, <1>5

LEMMA FilterTimerKeeps ==
  ASSUME LoadInv, NEW db \in DBs, FilterTimer(db)
  PROVE  LoadInv' /\ UNCHANGED catalog
<1>1. db \in timers /\ UNCHANGED <<engine, catalog, treeFilters, curBases>>
  BY DEF FilterTimer, KeepRest
<1>2. Redis
  BY <1>1 DEF LoadInv, EngineInv
<1>3. CASE node # None /\ db \in node.shown
  <2>1. LoadBatch(node, db, TRUE, 0)
    BY <1>3 DEF FilterTimer
  <2>2. From(node, db)
    BY DEF From
  <2> QED
    BY <1>1, <1>2, <2>1, <2>2, LoadBatchKeeps
<1>4. CASE ~(node # None /\ db \in node.shown)
  <2>1. timers' = timers \ {db} /\ UNCHANGED <<node, current, scanOps, calls, callSeq>>
    BY <1>4 DEF FilterTimer
  <2>2. CallsInv' /\ (\A e \in calls' : AnswerFits(e)')
    BY <1>1, <2>1 DEF LoadInv, CallsInv, AnswerFits
  <2>3. TreeInv' /\ EngineInv' /\ SchemaInv'
    BY <1>1, <1>2, <2>1 DEF LoadInv, TreeInv, EngineInv, SchemaInv, Redis
  <2>4. SpinInv'
    BY <1>1, <1>4, <2>1 DEF LoadInv, SpinInv, Spins, Scans, Stuck
  <2>5. FilterInv'
    BY <1>1, <2>1 DEF LoadInv, FilterInv, FilterOf, Redis
  <2> QED
    BY <1>1, <2>2, <2>3, <2>4, <2>5 DEF LoadInv
<1> QED
  BY <1>3, <1>4

LEMMA BrowsingKeeps ==
  ASSUME LoadInv, Browsing
  PROVE  LoadInv' /\ UNCHANGED catalog
<1>1. ASSUME NEW db \in DBs, RefreshDatabase(db) PROVE LoadInv' /\ UNCHANGED catalog
  BY <1>1, ListAgain DEF RefreshDatabase, KeepRest
<1>2. ASSUME NEW db \in DBs, NEW s, SetDatabaseSchema(db, s) PROVE LoadInv' /\ UNCHANGED catalog
  BY <1>2, ListAgain DEF SetDatabaseSchema, KeepRest
<1>3. ASSUME NEW db \in DBs, ScanMoreRedisKeys(db) PROVE LoadInv' /\ UNCHANGED catalog
  <2>1. /\ LoadBatch(node, db, FALSE, 0) /\ Redis /\ node # None /\ db \in node.shown
        /\ UNCHANGED <<engine, treeFilters, curBases, catalog>>
    BY <1>3 DEF ScanMoreRedisKeys, KeepRest, InTree
  <2>2. From(node, db)
    BY DEF From
  <2> QED
    BY <2>1, <2>2, LoadBatchKeeps
<1>4. CASE BrowseAgain \/ RetryConnection
  <2>1. LoadDatabases(node) /\ UNCHANGED <<engine, catalog, treeFilters, current, scanOps, timers>>
    BY <1>4 DEF BrowseAgain, RetryConnection, KeepRest
  <2> QED
    BY <2>1, LoadDatabasesKeeps
<1>5. CASE CloseConnection
  <2>1. CancelScans(DBs) /\ node' = None /\ UNCHANGED <<engine, catalog, calls, callSeq>>
    BY <1>5 DEF CloseConnection, KeepRest
  <2> QED
    BY <2>1, ClosedKeeps
<1> QED
  BY <1>1, <1>2, <1>3, <1>4, <1>5, ToggleConnectionKeeps, ToggleDatabaseKeeps, SetTableFilterKeeps, FilterTimerKeeps
     DEF Browsing

-----------------------------------------------------------------------------
(* Actions                                                                 *)

\* A database is dropped: the tree and the filters forget it.
LEMMA DroppedKeeps ==
  ASSUME LoadInv, ~Redis, NEW db, CancelScans({db}), node' = WithoutDatabase(CancelledScans(node, {db}), db),
         UNCHANGED <<engine, curBases, calls, callSeq>>
  PROVE  LoadInv'
<1>1. /\ CallsInv' /\ (\A e \in calls' : AnswerFits(e)')
      /\ \A x \in DBs : current'[x] = current[x]
      /\ timers' = {} /\ scanOps' = [x \in DBs |-> 0]
  BY CancelledCalls
<1> DEFINE base == CancelledScans(node, {db})
<1>2. node = None => node' = None
  BY DEF CancelledScans, WithoutDatabase
<1>3. node # None => IsCancelled(base, node, {db})
  BY CancelledTree DEF LoadInv, TreeInv
<1>4. node # None => DOMAIN node.scans = {}
  BY DEF LoadInv, EngineInv
<1> HIDE DEF base
<1>5. node' = base \/ node' = [base EXCEPT !.dbs = @ \ {db}, !.lists = SDrop(@, {db}), !.scans = SDrop(@, {db}), !.shown = @ \ {db}]
  BY DEF WithoutDatabase, base
<1>6. node' # None => /\ node # None /\ DOMAIN node' = NodeFields /\ node'.loading = node.loading
                      /\ node'.lists = node.lists \/ node'.lists = SDrop(node.lists, {db})
                      /\ node'.busy = node.busy /\ node'.errors = node.errors /\ node'.schema = node.schema
                      /\ DOMAIN node'.scans = {}
  <2>1. node # None => /\ DOMAIN base = NodeFields /\ base.loading = node.loading /\ base.lists = node.lists
                       /\ base.busy = node.busy /\ base.errors = node.errors /\ base.schema = node.schema
                       /\ DOMAIN base.scans = {}
    BY <1>3, <1>4 DEF IsCancelled
  <2>2. DOMAIN base.scans = {} => DOMAIN SDrop(base.scans, {db}) = {}
    BY DEF SDrop
  <2>3. CASE node' = base
    BY <1>2, <2>1, <2>3
  <2>4. CASE node' = [base EXCEPT !.dbs = @ \ {db}, !.lists = SDrop(@, {db}), !.scans = SDrop(@, {db}), !.shown = @ \ {db}]
    BY <1>2, <2>1, <2>2, <2>4 DEF NodeFields
  <2> QED
    BY <1>5, <2>3, <2>4
<1>7. node' # None => \A x \in DOMAIN node'.lists : x \in DOMAIN node.lists /\ node'.lists[x] = node.lists[x]
  BY <1>6 DEF SDrop
<1>8. TreeInv'
  BY <1>6 DEF LoadInv, TreeInv
<1>9. EngineInv'
  BY <1>1, <1>6 DEF LoadInv, EngineInv, Redis
<1>10. SpinInv'
  <2>1. ASSUME node' # None, NEW x \in node'.busy PROVE Spins(x)'
    <3>1. Spins(x) /\ x \in DBs
      BY <1>6, <2>1 DEF LoadInv, SpinInv, TreeInv
    <3> QED
      BY <1>1, <3>1 DEF Spins
  <2> QED
    BY <1>6, <2>1 DEF LoadInv, SpinInv, Stuck
<1>11. FilterInv'
  BY DEF LoadInv, FilterInv, EngineInv, Redis
<1>12. SchemaInv'
  <2>1. \A e \in calls : e.kind \in {"schemas", "tables"} => current'[e.db] = current[e.db]
    BY <1>1 DEF LoadInv, CallsInv
  <2>2. ASSUME node' # None, NEW e \in calls', e.kind = "tables", e.id = current'[e.db], e.db \in DOMAIN node'.schema
        PROVE  e.arg = node'.schema[e.db]
    BY <1>6, <2>1, <2>2 DEF LoadInv, SchemaInv
  <2>3. ASSUME node' # None, NEW e \in calls', e.kind = "schemas", e.id = current'[e.db]
        PROVE  e.db \in node'.busy \/ e.db \notin DOMAIN node'.lists
    BY <1>6, <1>7, <2>1, <2>3 DEF LoadInv, SchemaInv
  <2>4. ASSUME node' # None, NEW x \in DOMAIN node'.lists \cap DOMAIN node'.schema,
               x \notin node'.busy \cup node'.errors, NEW t \in node'.lists[x]
        PROVE  SchemaOf[t] = node'.schema[x]
    <3>1. x \in DOMAIN node.lists \cap DOMAIN node.schema /\ node'.lists[x] = node.lists[x]
      BY <1>6, <1>7, <2>4
    <3>2. x \notin node.busy \cup node.errors /\ node'.schema[x] = node.schema[x] /\ node # None
      BY <1>6, <2>4
    <3> QED
      BY <2>4, <3>1, <3>2 DEF LoadInv, SchemaInv
  <2> QED
    BY <2>2, <2>3, <2>4 DEF SchemaInv
<1> QED
  BY <1>1, <1>8, <1>9, <1>10, <1>11, <1>12 DEF LoadInv

\* A database has another account now: it is closed, and what was asked of it counts no more.
LEMMA CredentialKeeps ==
  ASSUME LoadInv, NEW db \in DBs, current' = [current EXCEPT ![db] = 0],
         node' = IF node = None THEN None
                 ELSE [node EXCEPT !.shown = @ \ {db}, !.lists = SDrop(@, {db}), !.busy = @ \ {db}, !.errors = @ \ {db}],
         UNCHANGED <<engine, treeFilters, curBases, scanOps, timers, calls, callSeq>>
  PROVE  LoadInv'
<1>1. /\ current' \in [DBs -> Nat] /\ current'[db] = 0 /\ \A x \in DBs : x # db => current'[x] = current[x]
  BY DEF LoadInv, CallsInv
<1>2. CallsInv' /\ (\A e \in calls' : AnswerFits(e)')
  BY <1>1 DEF LoadInv, CallsInv, AnswerFits
<1>3. node' # None => /\ node # None /\ DOMAIN node' = NodeFields /\ node'.loading = node.loading
                      /\ node'.shown = node.shown \ {db} /\ node'.lists = SDrop(node.lists, {db})
                      /\ node'.busy = node.busy \ {db} /\ node'.errors = node.errors \ {db}
                      /\ node'.schema = node.schema /\ node'.scans = node.scans
  BY DEF LoadInv, TreeInv, NodeFields
<1>4. node' # None => /\ db \notin DOMAIN node'.lists /\ DOMAIN node'.lists \subseteq DOMAIN node.lists
                      /\ \A x \in DOMAIN node.lists : x # db => x \in DOMAIN node'.lists /\ node'.lists[x] = node.lists[x]
  BY <1>3 DEF SDrop
<1>5. TreeInv'
  BY <1>3 DEF LoadInv, TreeInv
<1>6. EngineInv'
  BY <1>3 DEF LoadInv, EngineInv, Redis
<1>7. SpinInv'
  <2>1. \A x \in DBs : x # db => (Scans(x) => Scans(x)') /\ (Spins(x) => Spins(x)')
    BY <1>1 DEF Scans, Spins
  <2>2. node' # None => \A x : Stuck(x)' <=> Stuck(x)
    BY <1>3 DEF Stuck
  <2>3. ASSUME node' # None, NEW x \in node'.busy PROVE Spins(x)'
    <3>1. x # db /\ x \in DBs /\ Spins(x)
      BY <1>3, <2>3 DEF LoadInv, SpinInv, TreeInv
    <3> QED
      BY <2>1, <3>1
  <2>4. ASSUME node' # None, NEW x \in DBs, Stuck(x)'
        PROVE  IF x \in node'.shown THEN x \in timers' \/ Scans(x)' ELSE x \notin DOMAIN node'.lists
    <3>1. CASE x = db
      BY <1>3, <1>4, <2>4, <3>1
    <3>2. CASE x # db
      BY <1>3, <1>4, <2>1, <2>2, <2>4, <3>2 DEF LoadInv, SpinInv
    <3> QED
      BY <3>1, <3>2
  <2>5. node' # None /\ node'.loading => \E e \in calls' : e.kind = "bases" /\ e.id = curBases'
    BY <1>3 DEF LoadInv, SpinInv
  <2> QED
    BY <2>3, <2>4, <2>5 DEF SpinInv
<1>8. FilterInv'
  <2>1. \A x : FilterOf(x)' = FilterOf(x)
    BY DEF FilterOf
  <2>2. ASSUME NEW e \in calls', e.kind = "batch", e.id = scanOps'[e.db], e.id = current'[e.db]
        PROVE  e.arg.filter = FilterOf(e.db)
    <3>1. e.db \in DBs /\ e.id # 0
      BY <2>2 DEF LoadInv, CallsInv
    <3> QED
      BY <1>1, <2>2, <3>1 DEF LoadInv, FilterInv
  <2>3. Redis /\ node' # None => \A x \in DOMAIN node'.scans : node'.scans[x].filter = FilterOf(x)
    BY <1>3 DEF LoadInv, FilterInv
  <2>4. Redis /\ node' # None => \A x \in DOMAIN node'.lists : node'.lists[x] \subseteq Matching[FilterOf(x)]
    BY <1>3, <1>4 DEF LoadInv, FilterInv
  <2> QED
    BY <2>1, <2>2, <2>3, <2>4 DEF FilterInv, Redis
<1>9. SchemaInv'
  <2>1. \A e \in calls : e.kind \in {"schemas", "tables"} /\ e.id = current'[e.db] => e.db # db /\ e.id = current[e.db]
    BY <1>1 DEF LoadInv, CallsInv
  <2>2. ASSUME node' # None, NEW e \in calls', e.kind = "tables", e.id = current'[e.db], e.db \in DOMAIN node'.schema
        PROVE  e.arg = node'.schema[e.db]
    BY <1>3, <2>1, <2>2 DEF LoadInv, SchemaInv
  <2>3. ASSUME node' # None, NEW e \in calls', e.kind = "schemas", e.id = current'[e.db]
        PROVE  e.db \in node'.busy \/ e.db \notin DOMAIN node'.lists
    BY <1>3, <1>4, <2>1, <2>3 DEF LoadInv, SchemaInv
  <2>4. ASSUME node' # None, NEW x \in DOMAIN node'.lists \cap DOMAIN node'.schema,
               x \notin node'.busy \cup node'.errors, NEW t \in node'.lists[x]
        PROVE  SchemaOf[t] = node'.schema[x]
    <3>1. x # db /\ x \in DOMAIN node.lists \cap DOMAIN node.schema /\ node'.lists[x] = node.lists[x]
      BY <1>3, <1>4, <2>4
    <3>2. x \notin node.busy \cup node.errors /\ node'.schema[x] = node.schema[x] /\ node # None
      BY <1>3, <2>4, <3>1
    <3> QED
      BY <2>4, <3>1, <3>2 DEF LoadInv, SchemaInv
  <2> QED
    BY <2>2, <2>3, <2>4 DEF SchemaInv
<1> QED
  BY <1>2, <1>5, <1>6, <1>7, <1>8, <1>9 DEF LoadInv

\* The tree forgets a dropped table.
LEMMA ForgottenKeeps ==
  ASSUME LoadInv, node # None, NEW db, NEW table, node' = [node EXCEPT !.lists[db] = @ \ {table}],
         UNCHANGED <<engine, treeFilters, curBases, current, scanOps, timers, calls, callSeq>>
  PROVE  LoadInv'
<1>1. /\ DOMAIN node' = NodeFields /\ node'.loading = node.loading /\ node'.shown = node.shown
      /\ node'.lists = [node.lists EXCEPT ![db] = @ \ {table}]
      /\ node'.busy = node.busy /\ node'.errors = node.errors /\ node'.schema = node.schema /\ node'.scans = node.scans
  BY DEF LoadInv, TreeInv, NodeFields
<1>2. DOMAIN node'.lists = DOMAIN node.lists /\ \A x \in DOMAIN node.lists : node'.lists[x] \subseteq node.lists[x]
  BY <1>1
<1>3. CallsInv' /\ (\A e \in calls' : AnswerFits(e)')
  BY DEF LoadInv, CallsInv, AnswerFits
<1>4. TreeInv' /\ EngineInv'
  BY <1>1 DEF LoadInv, TreeInv, EngineInv, Redis
<1>5. SpinInv'
  <2>1. \A x : (Stuck(x)' <=> Stuck(x)) /\ (Spins(x) => Spins(x)') /\ (Scans(x) => Scans(x)')
    BY <1>1 DEF Stuck, Spins, Scans
  <2> QED
    BY <1>1, <1>2, <2>1 DEF LoadInv, SpinInv
<1>6. FilterInv'
  BY <1>1, <1>2 DEF LoadInv, FilterInv, FilterOf, Redis
<1>7. SchemaInv'
  BY <1>1, <1>2 DEF LoadInv, SchemaInv
<1> QED
  BY <1>3, <1>4, <1>5, <1>6, <1>7 DEF LoadInv

-----------------------------------------------------------------------------
\* Actions are on databases there may be, and of Redis only what its menus offer.
LEMMA ActionsKeep ==
  ASSUME LoadInv, AskedInv, NEW a \in todo, ActionDone(a) \/ ActionFails(a) \/ ActionEnds(a)
  PROVE  LoadInv'
<1>1. CASE ActionFails(a)
  BY <1>1, LoadsRest DEF ActionFails, loadVars
<1>2. CASE ActionEnds(a)
  <2>1. UNCHANGED <<engine, treeFilters, curBases, current, scanOps, timers, calls, callSeq>>
    BY <1>2 DEF ActionEnds
  <2>2. \/ UNCHANGED node
        \/ node # None /\ node' = [node EXCEPT !.lists[a.db] = @ \ {a.table}]
    BY <1>2 DEF ActionEnds
  <2> QED
    BY <2>1, <2>2, LoadsRest, ForgottenKeeps
<1>3. CASE ActionDone(a)
  <2>1. UNCHANGED engine
    BY <1>3 DEF ActionDone
  <2>2. CASE a.kind = "drop-database"
    <3>1. CancelScans({a.db}) /\ node' = WithoutDatabase(CancelledScans(node, {a.db}), a.db)
          /\ UNCHANGED <<curBases, calls, callSeq>>
      BY <1>3, <2>2 DEF ActionDone
    <3>2. ~Redis
      BY <2>2 DEF AskedInv
    <3> QED
      BY <2>1, <3>1, <3>2, DroppedKeeps
  <2>3. CASE a.kind = "delete-connection"
    <3>1. CancelScans(DBs) /\ node' = None /\ UNCHANGED <<calls, callSeq>>
      BY <1>3, <2>3 DEF ActionDone
    <3> QED
      BY <2>1, <3>1, ClosedKeeps
  <2>4. CASE a.kind = "credential"
    <3>1. /\ current' = [current EXCEPT ![a.db] = 0]
          /\ node' = IF node = None THEN None
                     ELSE [node EXCEPT !.shown = @ \ {a.db}, !.lists = SDrop(@, {a.db}),
                                       !.busy = @ \ {a.db}, !.errors = @ \ {a.db}]
          /\ UNCHANGED <<treeFilters, curBases, scanOps, timers, calls, callSeq>>
      BY <1>3, <2>4 DEF ActionDone
    <3>2. a.db \in DBs
      BY <2>4 DEF AskedInv
    <3> QED
      BY <2>1, <3>1, <3>2, CredentialKeeps
  <2>5. CASE a.kind = "test-credential"
    <3>1. UNCHANGED <<treeFilters, curBases>> /\ UNCHANGED loadVars
      BY <1>3, <2>5 DEF ActionDone
    <3> QED
      BY <2>1, <3>1, LoadsRest DEF loadVars
  <2>6. CASE a.kind \notin {"drop-database", "delete-connection", "credential", "test-credential"}
    <3>1. LoadTables(node, a.db, None, a.table) /\ UNCHANGED <<treeFilters, curBases>>
      BY <1>3, <2>6 DEF ActionDone
    <3>2. a.db \in DBs
      BY <2>6 DEF AskedInv
    <3> QED
      BY <2>1, <3>1, <3>2, ListAgain
  <2> QED
    BY <2>2, <2>3, <2>4, <2>5, <2>6
<1> QED
  BY <1>1, <1>2, <1>3

\* The server's tables are tables.
LEMMA CatalogKeeps ==
  ASSUME \A db \in DOMAIN catalog : catalog[db] \subseteq Tables, NEW a, catalog' \in Outcomes(a)
  PROVE  \A db \in DOMAIN catalog' : catalog'[db] \subseteq Tables
<1>1. CASE a.kind = "drop-database"
  BY <1>1 DEF Outcomes, SDrop
<1>2. CASE a.kind = "drop"
  BY <1>2 DEF Outcomes
<1>3. CASE a.kind = "copy"
  BY <1>3 DEF Outcomes, Spare
<1>4. CASE a.kind = "rename"
  BY <1>4 DEF Outcomes, Spare
<1>5. CASE a.kind = "create-key"
  BY <1>5 DEF Outcomes
<1>6. CASE a.kind \notin {"drop-database", "drop", "copy", "rename", "create-key"}
  BY <1>6 DEF Outcomes
<1> QED
  BY <1>1, <1>2, <1>3, <1>4, <1>5, <1>6

\* The dialogs leave the tree alone, but for the statement that creates a table.
Quiet ==
  \/ AskConnection \/ ConfirmAction \/ CancelAsk \/ CancelRename \/ SubmitRename \/ SubmitKey
  \/ CloseForms \/ CloseCreateSQL \/ UseCredential("credential") \/ UseCredential("test-credential")
  \/ \E own, user \in BOOLEAN : EditCredential(own, user)
  \/ \E form \in KeyForms : EditKey(form)
  \/ \E db \in DBs : \/ AskDatabase(db) \/ OpenCredential(db) \/ OpenNewKey(db)
                     \/ \E t \in Tables : \/ StartRename(db, t)
                                          \/ \E kind \in TableMenu : AskTable(kind, db, t)

LEMMA QuietKeeps ==
  ASSUME Quiet
  PROVE  UNCHANGED <<engine, catalog, treeFilters, curBases>> /\ UNCHANGED loadVars
<1>1. \A kind, db, table : AskFor(kind, db, table) =>
        UNCHANGED <<engine, catalog, treeFilters, curBases>> /\ UNCHANGED loadVars
  BY DEF AskFor
<1>2. CASE AskConnection \/ ConfirmAction \/ CancelAsk
  BY <1>1, <1>2 DEF AskConnection, ConfirmAction, CancelAsk
<1>3. CASE CancelRename \/ SubmitRename \/ SubmitKey
  BY <1>3 DEF CancelRename, SubmitRename, SubmitKey, KeepButRename, KeepButDialogs
<1>4. CASE CloseForms \/ CloseCreateSQL \/ UseCredential("credential") \/ UseCredential("test-credential")
  BY <1>4 DEF CloseForms, CloseCreateSQL, UseCredential, KeepButDialogs
<1>5. ASSUME NEW own, NEW user, EditCredential(own, user)
      PROVE  UNCHANGED <<engine, catalog, treeFilters, curBases>> /\ UNCHANGED loadVars
  BY <1>5 DEF EditCredential, KeepButDialogs
<1>6. ASSUME NEW form, EditKey(form)
      PROVE  UNCHANGED <<engine, catalog, treeFilters, curBases>> /\ UNCHANGED loadVars
  BY <1>6 DEF EditKey, KeepButDialogs
<1>7. ASSUME NEW db, AskDatabase(db) \/ OpenCredential(db) \/ OpenNewKey(db)
      PROVE  UNCHANGED <<engine, catalog, treeFilters, curBases>> /\ UNCHANGED loadVars
  BY <1>1, <1>7 DEF AskDatabase, OpenCredential, OpenNewKey, KeepButDialogs
<1>8. ASSUME NEW db, NEW t, NEW kind, StartRename(db, t) \/ AskTable(kind, db, t)
      PROVE  UNCHANGED <<engine, catalog, treeFilters, curBases>> /\ UNCHANGED loadVars
  BY <1>1, <1>8 DEF StartRename, AskTable, KeepButRename
<1> QED
  BY <1>2, <1>3, <1>4, <1>5, <1>6, <1>7, <1>8 DEF Quiet

-----------------------------------------------------------------------------
(* What is asked and done                                                  *)

AskOk(q) == /\ DOMAIN q = {"kind", "db", "table", "running"}
            /\ q.db \in DBs \/ q.kind = "delete-connection"
            /\ Redis => q.kind # "drop-database"
TodoOk(a) == /\ DOMAIN a = {"kind", "db", "table", "step"}
             /\ a.db \in DBs \/ a.kind = "delete-connection"
             /\ Redis => a.kind # "drop-database"

LEMMA AskedBy ==
  ASSUME AskedInv, NEW kind, NEW db, NEW table, AskFor(kind, db, table),
         db \in DBs \/ kind = "delete-connection", Redis => kind # "drop-database"
  PROVE  AskedInv'
<1> DEFINE q == [kind |-> kind, db |-> db, table |-> table, running |-> FALSE]
<1>1. ask' = q /\ UNCHANGED <<engine, rename, credential, keyDialog, todo>>
  BY DEF AskFor
<1>2. DOMAIN q = {"kind", "db", "table", "running"} /\ q.db = db /\ q.kind = kind
  OBVIOUS
<1> HIDE DEF q
<1> QED
  BY <1>1, <1>2 DEF AskedInv, Redis

LEMMA StartedBy ==
  ASSUME AskedInv, NEW kind, NEW db, NEW table, StartAction(kind, db, table),
         db \in DBs \/ kind = "delete-connection", Redis => kind # "drop-database"
  PROVE  \A a \in todo' : TodoOk(a)
<1> DEFINE s == [kind |-> kind, db |-> db, table |-> table, step |-> 0]
<1>1. todo' = todo \cup {s}
  BY DEF StartAction
<1>2. DOMAIN s = {"kind", "db", "table", "step"} /\ s.db = db /\ s.kind = kind
  OBVIOUS
<1> HIDE DEF s
<1> QED
  BY <1>1, <1>2 DEF AskedInv, TodoOk

LEMMA AskedKept ==
  ASSUME AskedInv, UNCHANGED <<engine, ask, rename, credential, keyDialog>>, \A a \in todo' : TodoOk(a)
  PROVE  AskedInv'
BY DEF AskedInv, TodoOk, Redis

LEMMA AskedInvStep ==
  ASSUME AskedInv, [SideNext]_sideVars
  PROVE  AskedInv'
<1>1. CASE UNCHANGED <<engine, ask, rename, credential, keyDialog, todo>>
  BY <1>1 DEF AskedInv, Redis
<1>2. CASE UNCHANGED sideVars
  BY <1>1, <1>2 DEF sideVars
<1>3. CASE Answers
  <2>1. PICK c \in calls : \/ ServerAnswers(c) \/ DatabasesListed(c) \/ SchemasListed(c) \/ TablesListed(c)
                            \/ BatchScanned(c) \/ CreateSQLShown(c)
    BY <1>3 DEF Answers
  <2>2. UNCHANGED <<engine, ask, rename, credential, keyDialog, todo>>
    BY <2>1 DEF ServerAnswers, DatabasesListed, SchemasListed, TablesListed, BatchScanned, CreateSQLShown,
                KeepButDialogs, dialogVars
  <2> QED
    BY <1>1, <2>2
<1>4. CASE Browsing
  <2>1. KeepRest
    BY <1>4 DEF Browsing, ToggleConnection, BrowseAgain, RetryConnection, CloseConnection, ToggleDatabase,
                RefreshDatabase, ScanMoreRedisKeys, FilterTimer, SetDatabaseSchema, SetTableFilter
  <2> QED
    BY <1>1, <2>1 DEF KeepRest, dialogVars
<1>5. CASE Acting
  <2>1. ASSUME NEW db \in DBs, NEW t, NEW kind, AskTable(kind, db, t) PROVE AskedInv'
    BY <2>1, AskedBy DEF AskTable
  <2>2. ASSUME NEW db \in DBs, AskDatabase(db) PROVE AskedInv'
    <3>1. ~Redis
      BY <2>2 DEF AskDatabase, DatabaseMenu
    <3> QED
      BY <2>2, <3>1, AskedBy DEF AskDatabase
  <2>3. CASE AskConnection
    BY <2>3, AskedBy DEF AskConnection
  <2>4. CASE ConfirmAction
    <3>1. /\ ask # None /\ ask' = [ask EXCEPT !.running = TRUE] /\ StartAction(ask.kind, ask.db, ask.table)
          /\ UNCHANGED <<engine, rename, credential, keyDialog>>
      BY <2>4 DEF ConfirmAction
    <3>2. AskOk(ask)
      BY <3>1 DEF AskedInv, AskOk
    <3>3. \A a \in todo' : TodoOk(a)
      BY <3>1, <3>2, StartedBy DEF AskOk
    <3>4. AskOk(ask')
      BY <3>1, <3>2 DEF AskOk
    <3> QED
      BY <3>1, <3>3, <3>4 DEF AskedInv, AskOk, TodoOk, Redis
  <2>5. CASE CancelAsk
    BY <2>5 DEF CancelAsk, AskedInv, Redis
  <2>6. ASSUME NEW db \in DBs, NEW t, StartRename(db, t) PROVE AskedInv'
    <3>1. rename' = [db |-> db, table |-> t] /\ UNCHANGED <<engine, ask, credential, keyDialog, todo>>
      BY <2>6 DEF StartRename, KeepButRename
    <3>2. DOMAIN rename' = {"db", "table"} /\ rename'.db \in DBs
      BY <3>1
    <3> QED
      BY <3>1, <3>2 DEF AskedInv, Redis
  <2>7. CASE CancelRename
    BY <2>7 DEF CancelRename, KeepButRename, AskedInv, Redis
  <2>8. CASE SubmitRename
    <3>1. rename # None /\ StartAction("rename", rename.db, rename.table) /\ UNCHANGED <<engine, ask, rename, credential, keyDialog>>
      BY <2>8 DEF SubmitRename, KeepButRename
    <3>2. rename.db \in DBs
      BY <3>1 DEF AskedInv
    <3> QED
      BY <3>1, <3>2, StartedBy, AskedKept
  <2>9. CASE SubmitKey
    <3>1. keyDialog # None /\ StartAction("create-key", keyDialog.db, None) /\ UNCHANGED <<engine, ask, rename, credential, keyDialog>>
      BY <2>9 DEF SubmitKey, KeepButDialogs
    <3>2. keyDialog.db \in DBs
      BY <3>1 DEF AskedInv
    <3> QED
      BY <3>1, <3>2, StartedBy, AskedKept
  <2>10. ASSUME NEW kind \in {"credential", "test-credential"}, UseCredential(kind) PROVE AskedInv'
    <3>1. credential # None /\ StartAction(kind, credential.db, None) /\ UNCHANGED <<engine, ask, rename, credential, keyDialog>>
      BY <2>10 DEF UseCredential, KeepButDialogs
    <3>2. credential.db \in DBs
      BY <3>1 DEF AskedInv
    <3> QED
      BY <3>1, <3>2, StartedBy, AskedKept
  <2>11. CASE CloseForms
    BY <2>11 DEF CloseForms, KeepButDialogs, AskedInv, Redis
  <2>12. CASE CloseCreateSQL
    BY <1>1, <2>12 DEF CloseCreateSQL, KeepButDialogs
  <2>13. ASSUME NEW own, NEW user, EditCredential(own, user) PROVE AskedInv'
    <3>1. credential # None /\ credential' = [credential EXCEPT !.own = own, !.user = user] /\ UNCHANGED <<engine, ask, rename, keyDialog, todo>>
      BY <2>13 DEF EditCredential, KeepButDialogs
    <3>2. DOMAIN credential' = {"db", "own", "user"} /\ credential'.db \in DBs
      BY <3>1 DEF AskedInv
    <3> QED
      BY <3>1, <3>2 DEF AskedInv, Redis
  <2>14. ASSUME NEW form, EditKey(form) PROVE AskedInv'
    <3>1. keyDialog # None /\ keyDialog' = [keyDialog EXCEPT !.form = form] /\ UNCHANGED <<engine, ask, rename, credential, todo>>
      BY <2>14 DEF EditKey, KeepButDialogs
    <3>2. DOMAIN keyDialog' = {"db", "form"} /\ keyDialog'.db \in DBs
      BY <3>1 DEF AskedInv
    <3> QED
      BY <3>1, <3>2 DEF AskedInv, Redis
  <2>15. ASSUME NEW db \in DBs, OpenCredential(db) PROVE AskedInv'
    <3>1. credential' = [db |-> db, own |-> FALSE, user |-> FALSE] /\ UNCHANGED <<engine, ask, rename, keyDialog, todo>>
      BY <2>15 DEF OpenCredential, KeepButDialogs
    <3>2. DOMAIN credential' = {"db", "own", "user"} /\ credential'.db \in DBs
      BY <3>1
    <3> QED
      BY <3>1, <3>2 DEF AskedInv, Redis
  <2>16. ASSUME NEW db \in DBs, OpenNewKey(db) PROVE AskedInv'
    <3> DEFINE form == [type |-> "string", named |-> FALSE, ttl |-> TRUE, parts |-> {}]
    <3>1. keyDialog' = [db |-> db, form |-> form] /\ UNCHANGED <<engine, ask, rename, credential, todo>>
      BY <2>16 DEF OpenNewKey, KeepButDialogs
    <3> HIDE DEF form
    <3>2. DOMAIN keyDialog' = {"db", "form"} /\ keyDialog'.db \in DBs
      BY <3>1
    <3> QED
      BY <3>1, <3>2 DEF AskedInv, Redis
  <2>17. ASSUME NEW db, NEW t, ShowCreateSQL(db, t) PROVE AskedInv'
    BY <1>1, <2>17 DEF ShowCreateSQL, KeepButDialogs
  <2>18. ASSUME NEW a \in todo, NEW closes, End(a, closes), UNCHANGED engine PROVE AskedInv'
    BY <2>18 DEF End, AskedInv, Redis
  <2>19. ASSUME NEW a \in todo, ActionFails(a) \/ ActionEnds(a) PROVE AskedInv'
    BY <2>18, <2>19 DEF ActionFails, ActionEnds
  <2>20. ASSUME NEW a \in todo, ActionDone(a) PROVE AskedInv'
    <3>1. UNCHANGED engine
      BY <2>20 DEF ActionDone
    <3>2. CASE a.kind \in {"drop-database", "delete-connection", "credential", "test-credential"}
      <4>1. End(a, TRUE) \/ End(a, FALSE)
        BY <2>20, <3>2 DEF ActionDone
      <4> QED
        BY <2>18, <3>1, <4>1
    <3>3. CASE a.kind \notin {"drop-database", "delete-connection", "credential", "test-credential"}
      <4> DEFINE b == [a EXCEPT !.step = callSeq + 1]
      <4>1. todo' = (todo \ {a}) \cup {b} /\ UNCHANGED dialogVars
        BY <2>20, <3>3 DEF ActionDone
      <4>2. TodoOk(a)
        BY DEF AskedInv, TodoOk
      <4>3. TodoOk(b)
        BY <4>2 DEF TodoOk
      <4> HIDE DEF b
      <4>4. \A x \in todo' : TodoOk(x)
        BY <4>1, <4>3 DEF AskedInv, TodoOk
      <4> QED
        BY <3>1, <4>1, <4>4, AskedKept DEF dialogVars
    <3> QED
      BY <3>2, <3>3
  <2> QED
    BY <1>5, <2>1, <2>2, <2>3, <2>4, <2>5, <2>6, <2>7, <2>8, <2>9, <2>10, <2>11, <2>12, <2>13, <2>14, <2>15, <2>16,
       <2>17, <2>19, <2>20 DEF Acting
<1> QED
  BY <1>2, <1>3, <1>4, <1>5 DEF SideNext

-----------------------------------------------------------------------------
(* The theorem                                                             *)

LEMMA SideInvInit ==
  ASSUME SideInit
  PROVE  SideInv
<1>1. calls = {} /\ node = None /\ todo = {} /\ treeFilters = <<>>
  BY DEF SideInit
<1>2. CallsInv
  BY DEF SideInit, CallsInv
<1>3. AnswersInv
  BY DEF SideInit, AnswersInv
<1>4. TreeInv /\ EngineInv /\ SpinInv /\ FilterInv /\ SchemaInv
  BY DEF SideInit, TreeInv, EngineInv, SpinInv, FilterInv, SchemaInv
<1>5. AskedInv
  BY DEF SideInit, AskedInv
<1> QED
  BY <1>2, <1>3, <1>4, <1>5 DEF SideInv

LEMMA LoadInvStep ==
  ASSUME SideInv, [SideNext]_sideVars, None \notin {SchemaOf[t] : t \in Tables}
  PROVE  LoadInv' /\ AnswersInv'
<1>1. LoadInv /\ AskedInv /\ AnswersInv
  BY DEF SideInv, LoadInv, AnswersInv
<1>2. LoadInv' /\ UNCHANGED catalog => LoadInv' /\ AnswersInv'
  BY <1>1 DEF LoadInv, AnswersInv
<1>3. CASE UNCHANGED sideVars
  BY <1>1, <1>2, <1>3, LoadsRest DEF sideVars
<1>4. CASE Answers
  BY <1>1, <1>2, <1>4, ServerAnswersKeeps, DatabasesListedKeeps, SchemasListedKeeps, TablesListedKeeps,
     BatchScannedKeeps, CreateSQLShownKeeps DEF Answers
<1>5. CASE Browsing
  BY <1>1, <1>2, <1>5, BrowsingKeeps
<1>6. CASE Quiet
  BY <1>1, <1>2, <1>6, QuietKeeps, LoadsRest DEF loadVars
<1>7. ASSUME NEW db, NEW t, ShowCreateSQL(db, t) PROVE LoadInv' /\ AnswersInv'
  BY <1>1, <1>2, <1>7, ShowCreateSQLKeeps
<1>8. ASSUME NEW a \in todo, ActionDone(a) \/ ActionFails(a) \/ ActionEnds(a) PROVE LoadInv' /\ AnswersInv'
  <2>1. LoadInv'
    BY <1>1, <1>8, ActionsKeep
  <2>2. UNCHANGED catalog \/ catalog' \in Outcomes(a)
    BY <1>8 DEF ActionDone, ActionFails, ActionEnds
  <2>3. \A db \in DOMAIN catalog' : catalog'[db] \subseteq Tables
    BY <1>1, <2>2, CatalogKeeps DEF AnswersInv
  <2> QED
    BY <2>1, <2>3 DEF LoadInv, AnswersInv
<1>9. Acting => Quiet \/ (\E db \in DBs, t \in Tables : ShowCreateSQL(db, t))
                \/ \E a \in todo : ActionDone(a) \/ ActionFails(a) \/ ActionEnds(a)
  BY DEF Acting, Quiet
<1> QED
  BY <1>3, <1>4, <1>5, <1>6, <1>7, <1>8, <1>9 DEF SideNext

LEMMA SideInvHolds ==
  ASSUME None \notin {SchemaOf[t] : t \in Tables}
  PROVE  SideSpec => []SideInv
<1>1. SideInit => SideInv
  BY SideInvInit
<1>2. SideInv /\ [SideNext]_sideVars => SideInv'
  <2>1. SideInv /\ [SideNext]_sideVars => LoadInv' /\ AnswersInv' /\ AskedInv'
    BY LoadInvStep, AskedInvStep DEF SideInv
  <2> QED
    BY <2>1 DEF SideInv, LoadInv
<1> QED
  BY <1>1, <1>2, PTL DEF SideSpec

\* What the tree shows of a database is what its filter and its schema ask for, however the
\* answers overtook each other (sidebar-actions.ts:221, 257).
THEOREM ShownIsAsked ==
  ASSUME None \notin {SchemaOf[t] : t \in Tables}
  PROVE  SideSpec => []TreeShowsWhatWasAsked
<1>1. SideInv => TreeShowsWhatWasAsked
  BY DEF SideInv, FilterInv, SchemaInv, TreeShowsWhatWasAsked
<1> QED
  BY <1>1, SideInvHolds, PTL

\* What the tree says that it is loading has a request on its way, or the timer that will
\* send one (sidebar-actions.ts:35-52, 285, 457, 727).
THEOREM WhatSpinsIsLoading ==
  ASSUME None \notin {SchemaOf[t] : t \in Tables}
  PROVE  SideSpec => []SpinnersEnd
<1>1. SideInv => SpinnersEnd
  <2> SUFFICES ASSUME SideInv, node # None PROVE SpinnersEnd
    BY DEF SpinnersEnd
  <2>1. \A db \in node.shown \cap DOMAIN node.scans : node.scans[db].loading /\ ~node.scans[db].shut =>
          db \in timers \/ Scans(db)
    BY DEF SideInv, TreeInv, SpinInv, Stuck
  <2>2. /\ node.loading => \E c \in calls : c.kind = "bases" /\ c.id = curBases
        /\ \A db \in node.busy : Spins(db)
    BY DEF SideInv, SpinInv
  <2>3. \A db \in node.busy : \E c \in calls : c.kind \in {"schemas", "tables"} /\ c.id = current[db]
    <3> TAKE db \in node.busy
    <3>1. PICK c \in calls : c.kind \in {"schemas", "tables"} /\ c.db = db /\ c.id = current[db]
      BY <2>2 DEF Spins
    <3> QED
      BY <3>1
  <2>4. \A db \in node.shown \cap DOMAIN node.scans : node.scans[db].loading /\ ~node.scans[db].shut =>
          db \in timers \/ \E c \in calls : c.kind = "batch" /\ c.id = scanOps[db] /\ c.id = current[db]
    <3> TAKE db \in node.shown \cap DOMAIN node.scans
    <3> HAVE node.scans[db].loading /\ ~node.scans[db].shut
    <3>1. CASE db \in timers
      BY <3>1
    <3>2. CASE Scans(db)
      <4>1. PICK c \in calls : c.kind = "batch" /\ c.db = db /\ c.id = scanOps[db] /\ c.id = current[db]
        BY <3>2 DEF Scans
      <4> QED
        BY <4>1
    <3> QED
      BY <2>1, <3>1, <3>2
  <2>5. node.loading => \E c \in calls : c.kind = "bases" /\ c.id = curBases
    BY <2>2
  <2> QED
    BY <2>3, <2>4, <2>5, Zenon DEF SpinnersEnd
<1> QED
  BY <1>1, SideInvHolds, PTL
=============================================================================
