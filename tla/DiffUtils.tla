------------------------------ MODULE DiffUtils -----------------------------
(***************************************************************************)
(* The pure parts of the database comparison                               *)
(* (renderer/components/diff/diff-panel-utils.ts, diff-panel-hooks.ts and  *)
(* what the result tabs derive from the entries).  Entries are a function  *)
(* from the tables listed to their state; Order lists all table names in   *)
(* the order localeCompare gives them.                                     *)
(***************************************************************************)
EXTENDS Unset, Integers, FiniteSets, Sequences, SequencesExt

CONSTANTS Order,         \* the table names, sorted
          RowResults,    \* what comparing rows may find: same, changed, skipped
          MaxHistory     \* 8 in the code

Names == ToSet(Order)
Position(t) == CHOOSE i \in DOMAIN Order : Order[i] = t
Precedes(t, u) == Position(t) < Position(u)

\* localeCompare orders the names: of any that are given one comes first.
ASSUME NamesAssumption ==
  \A S \in SUBSET Names : S # {} => \E t \in S : \A u \in S : ~Precedes(u, t)
Options == {1, 5, 10, 20, 50}
DefaultConcurrency == 5

\* What comparing one table may answer: its schema, and its rows if asked for.
Comparison(data) ==
  [schema : {"none", "modified"}, rows : IF data THEN RowResults ELSE {"none"}]
NoComparison == [schema |-> "none", rows |-> "none"]

InitialEntries(src, tgt) ==
  [t \in src \cup tgt |->
     [source |-> t \in src, target |-> t \in tgt,
      status |-> IF t \in src \cap tgt THEN "queued" ELSE "done",
      schema |-> IF t \notin tgt THEN "only-in-source"
                 ELSE IF t \notin src THEN "only-in-target" ELSE "none",
      rows |-> "none"]]

IsShared(e) == e.source /\ e.target
Listed(S) == SelectSeq(Order, LAMBDA t : t \in S)
Shared(entries) == {t \in DOMAIN entries : IsShared(entries[t])}
SharedTables(entries) == Listed(Shared(entries))

UpdateEntry(entries, t, status, result) ==
  IF t \in DOMAIN entries
  THEN [entries EXCEPT ![t].status = status, ![t].schema = result.schema, ![t].rows = result.rows]
  ELSE entries

\* Workers take the tables in order: each one first, at least one of them, and then
\* the next that is left.
First(S) == CHOOSE t \in S : \A u \in S : ~Precedes(u, t)
FirstOnes(S, n) == {t \in S : Cardinality({u \in S : Precedes(u, t)}) < n}
TakenFirst(S, limit) == IF S = {} THEN {} ELSE {First(S)} \cup FirstOnes(S, limit)

SharedStats(entries) ==
  LET shared == SharedTables(entries)
      settled == SelectSeq(shared, LAMBDA t : entries[t].status \in {"done", "error"})
      open == SelectSeq(shared, LAMBDA t : entries[t].status \notin {"done", "error"})
  IN  [total |-> Len(shared), done |-> Len(settled),
       pending |-> IF open = <<>> THEN None ELSE Head(open)]

TableDiffs(entries) == {t \in DOMAIN entries : entries[t].schema # "none"}
RowComparisons(entries) == {t \in DOMAIN entries : entries[t].rows # "none"}
HasNoRowDifferences(e) == e.rows = "same"
ChangedRows(entries) == {t \in DOMAIN entries : entries[t].rows = "changed"}

HasSchemaChange(e) == ~IsShared(e) \/ e.schema # "none"
HasRowChange(e) == e.rows = "changed"
HasChange(e) == e.status = "error" \/ HasSchemaChange(e) \/ HasRowChange(e)

StatusFilters == {"all", "comparing", "changed", "schema-changed", "row-changed"}
\* matches: the tables whose name contains the search text; all of them if it is blank.
FilterEntries(entries, filter, matches) ==
  {t \in DOMAIN entries \cap matches :
     CASE filter = "all" -> TRUE
       [] filter = "comparing" -> entries[t].status = "comparing"
       [] filter = "schema-changed" -> HasSchemaChange(entries[t])
       [] filter = "row-changed" -> HasRowChange(entries[t])
       [] filter = "changed" -> HasChange(entries[t])}

FirstWith(seq, entries, status) ==
  SelectSeq(seq, LAMBDA t : entries[t].status = status)

\* The table whose details are shown: the chosen one while it is listed.
PreferredTable(entries, listed, current) ==
  LET seq == Listed(listed)
      ranked == FirstWith(seq, entries, "comparing") \o FirstWith(seq, entries, "queued")
                \o FirstWith(seq, entries, "error") \o seq
  IN  IF current \in listed THEN current ELSE IF ranked = <<>> THEN None ELSE Head(ranked)

StatusOfRun(e, phase) ==
  CASE e.status \in {"error", "done"} -> e.status
    [] OTHER -> IF e.status = "comparing" THEN "running" ELSE "queued"

\* What an entry reads as: a run that was cancelled leaves entries unfinished.
DisplayStatus(e, phase) ==
  CASE e.status \in {"error", "done"} -> e.status
    [] OTHER -> IF phase = "cancelled" THEN "cancelled"
                ELSE IF e.status = "comparing" THEN "running" ELSE "queued"

\* The words of a table's row: its badges, and whether its status adds anything.
Badges(e) ==
  IF e.status = "error" THEN {"error"}
  ELSE IF ~e.source THEN {"target-only"}
  ELSE IF ~e.target THEN {"source-only"}
  ELSE LET found == {b \in {"running", "schema", "rows-skipped", "rows-changed", "identical"} :
                       CASE b = "running" -> e.status = "comparing"
                         [] b = "schema" -> e.schema # "none"
                         [] b = "rows-skipped" -> e.rows = "skipped"
                         [] b = "rows-changed" -> HasRowChange(e)
                         [] b = "identical" -> HasNoRowDifferences(e) /\ e.schema = "none"}
       IN  IF found = {} /\ e.status = "queued" THEN {"queued"} ELSE found

StatusWord(e) ==
  CASE e.status = "error" -> "failed"
    [] ~e.source -> "target-only"
    [] ~e.target -> "source-only"
    [] e.status \in {"queued", "comparing"} -> e.status
    [] e.rows = "skipped" -> "row-skipped"
    [] e.rows = "same" /\ e.schema = "none" -> "identical"
    [] e.rows = "none" /\ e.schema = "none" -> "no-differences"
    [] OTHER -> "ready"

\* The row shows its word unless a badge says the same.
RowWord(e) == IF StatusWord(e) \in Badges(e) THEN None ELSE StatusWord(e)

\* What the details of a table offer.
DetailActions(e) ==
  {a \in {"retry", "compare", "open-source", "open-target"} :
     CASE a = "retry" -> e.status = "error"
       [] a = "compare" -> IsShared(e)
       [] a = "open-source" -> e.source
       [] a = "open-target" -> e.target}

AtMost(seq, n) == SubSeq(seq, 1, IF Len(seq) < n THEN Len(seq) ELSE n)
Distinct(seq) ==
  FoldLeft(LAMBDA acc, x : IF x \in ToSet(acc) THEN acc ELSE Append(acc, x), <<>>, seq)

OrderedDiffTables(compared, diffs) ==
  IF compared # <<>> THEN SelectSeq(compared, LAMBDA t : t \in ToSet(diffs)) ELSE diffs

IndexOf(seq, t) == SelectInSeq(seq, LAMBDA x : x = t)
At(seq, i) == IF i \in DOMAIN seq THEN seq[i] ELSE None

\* The tables with row differences before and after the one shown.
RowDiffNavigation(comparedTables, diffTables, current) ==
  LET compared == Distinct(comparedTables)
      ordered == OrderedDiffTables(compared, Distinct(diffTables))
      i == IndexOf(ordered, current)
      c == IndexOf(compared, current)
      before == SelectSeq(ordered, LAMBDA t : IndexOf(compared, t) < c)
      after == SelectSeq(ordered, LAMBDA t : IndexOf(compared, t) > c)
  IN  CASE i > 0 -> [previous |-> At(ordered, i - 1), next |-> At(ordered, i + 1), position |-> i]
        [] i = 0 /\ c = 0 -> [previous |-> None, next |-> At(ordered, 1), position |-> 0]
        [] OTHER -> [previous |-> At(before, Len(before)), next |-> At(after, 1), position |-> 0]

\* The next tables worth fetching ahead.
UpcomingDiffTables(comparedTables, diffTables, current, limit) ==
  LET compared == Distinct(comparedTables)
      ordered == OrderedDiffTables(compared, Distinct(diffTables))
      i == IndexOf(ordered, current)
      c == IndexOf(compared, current)
      rest == CASE i > 0 -> SubSeq(ordered, i + 1, Len(ordered))
                [] i = 0 /\ c = 0 -> ordered
                [] OTHER -> SelectSeq(ordered, LAMBDA t : IndexOf(compared, t) > c)
  IN  AtMost(rest, limit)

IsComplete(sel) == \A side \in {"source", "target"} : sel[side].conn # None /\ sel[side].db # None

ParseHistory(raw) == AtMost(Distinct(SelectSeq(raw, IsComplete)), MaxHistory)

\* Stored preferences are parsed field by field; a field that is not understood
\* falls back, and the concurrency must be one of the options.
ParseConcurrency(n) == IF n \in Options THEN n ELSE DefaultConcurrency
DefaultPreferences ==
  [filter |-> "all", concurrency |-> DefaultConcurrency, tab |-> "status", setup |-> TRUE,
   search |-> Names, history |-> <<>>]
ParsePreferences(raw) ==
  IF raw = None THEN DefaultPreferences
  ELSE [filter |-> IF raw.filter \in StatusFilters THEN raw.filter ELSE "all",
        concurrency |-> ParseConcurrency(raw.concurrency),
        tab |-> IF raw.tab \in {"tables", "status", "schema", "data"} THEN raw.tab
                ELSE IF raw.legacyTables THEN "tables" ELSE "status",
        setup |-> TRUE, search |-> raw.search, history |-> ParseHistory(raw.history)]

\* A concurrency stored by an older version fills a setting nobody touched.
MigrateConcurrency(setting, stored) ==
  IF setting # DefaultConcurrency THEN setting ELSE stored

\* The newest selection first, each once, the oldest forgotten at the limit.
UpsertHistory(history, sel) ==
  IF ~IsComplete(sel) THEN history
  ELSE AtMost(<<sel>> \o SelectSeq(history, LAMBDA h : h # sel), MaxHistory)

ValidHistory(history, conns) ==
  SelectSeq(history, LAMBDA h : h["source"].conn \in conns /\ h["target"].conn \in conns)
=============================================================================
