------------------------------- MODULE Compare ------------------------------
(***************************************************************************)
(* The compare panel (renderer/components/diff/DiffPanel.tsx and           *)
(* diff-panel-hooks.ts): choosing two databases, comparing their tables    *)
(* with a limited number of requests at a time, cancelling, retrying one   *)
(* table, and the results that stay on the screen meanwhile.               *)
(*                                                                         *)
(* A run is one call of runCompare.  Its requests go on after the run was  *)
(* cancelled or replaced, so that answers of several runs arrive in any    *)
(* order; runId is compareRunIdRef, against which each answer is checked.  *)
(***************************************************************************)
EXTENDS DiffUtils, JobStore

CONSTANTS Connections, \* connections that can be compared (all but Redis)
          Databases,
          Stored,      \* preferences and settings the panel may start with
          Listings,    \* what listing both databases may answer
          MaxRuns,     \* bound on compareRunIdRef
          MaxEdits,    \* bound on changes to the form
          MaxBrowses   \* changes after which the results are no longer browsed

ASSUME CompareAssumption ==
  MaxRuns \in Nat /\ Listings \subseteq [source : SUBSET Names, target : SUBSET Names]

Sides == {"source", "target"}
NoEndpoint == [conn |-> None, db |-> None]
EmptyForm == [side \in Sides |-> NoEndpoint]
Busy == {"loading-tables", "comparing"}
NoRun == [stage |-> "none"]

VARIABLES
  form,      \* the databases chosen
  setup,     \* connections refreshed?  history restored?  changes so far, and the
             \* source last asked for from the sidebar, which the ui store keeps
  lists,     \* the database list of each side
  fetches,   \* requests for database lists; live while their effect is
  prefs,     \* preferences (kept in localStorage) and the row comparison setting
  browse,    \* the table whose details are shown, and the show-all switch
  phase, context, tables, entries, showSync,
  runs,      \* [1..MaxRuns -> run]
  runId,     \* compareRunIdRef
  retries,   \* requests of retryTable
  jobs, seq, \* the job store and its sequence
  job,       \* compareJobIdRef
  mountedAt  \* seq when the panel was mounted: later compare jobs are its own

formVars == <<form, setup, lists, fetches>>
resultVars == <<phase, context, tables, entries, showSync>>
runVars == <<runs, runId, retries>>
jobVars == <<jobs, seq, job, mountedAt>>
compareVars == <<formVars, prefs, browse, resultVars, runVars, jobVars>>

\* A panel that is mounted takes the source asked for from the sidebar, again if it
\* took it before.
FreshPanel ==
  LET c == setup.prefill.conn
  IN  /\ form' = [EmptyForm EXCEPT !.source = setup.prefill]
      /\ setup' = [setup EXCEPT !.ready = FALSE, !.restored = c # None]
      /\ lists' = [side \in Sides |-> [of |-> None, loading |-> side = "source" /\ c # None]]
      /\ fetches' = {[q EXCEPT !.live = FALSE] : q \in fetches}
                    \cup {[side |-> "source", conn |-> x, live |-> TRUE] : x \in {c} \ {None}}
FreshResults ==
  /\ browse' = [selected |-> None, showAll |-> FALSE]
  /\ phase' = "idle" /\ context' = None /\ showSync' = FALSE
  /\ tables' = [side \in Sides |-> {}] /\ entries' = [t \in {} |-> 0]

CompareInit ==
  /\ form = EmptyForm
  /\ setup = [ready |-> FALSE, restored |-> FALSE, edits |-> 0, prefill |-> NoEndpoint]
  /\ lists = [side \in Sides |-> [of |-> None, loading |-> FALSE]]
  /\ fetches = {}
  /\ \E s \in Stored :
       LET parsed == ParsePreferences(s.raw)
       IN  prefs = [data |-> s.data, limit |-> MigrateConcurrency(s.limit, parsed.concurrency)]
                   @@ parsed
  /\ browse = [selected |-> None, showAll |-> FALSE]
  /\ phase = "idle" /\ context = None /\ showSync = FALSE
  /\ tables = [side \in Sides |-> {}] /\ entries = [t \in {} |-> 0]
  /\ runs = [i \in 1..MaxRuns |-> NoRun] /\ runId = 0 /\ retries = {}
  /\ jobs = NoJobs /\ seq = 0 /\ job = None /\ mountedAt = 0

-----------------------------------------------------------------------------
(* What is derived on every rendering                                      *)

Loading == phase \in Busy
HasDiff == context # None
FullyIdentical ==
  /\ HasDiff /\ phase = "done"
  /\ \A t \in DOMAIN entries : entries[t].status # "error"
  /\ TableDiffs(entries) = {}
  /\ context.data => \A t \in RowComparisons(entries) : HasNoRowDifferences(entries[t])
CanPlanSync == phase = "done" /\ HasDiff /\ TableDiffs(entries) # {}
HasRowResults(es, p) == p.data /\ HasDiff /\ RowComparisons(es) # {}

\* The content tab offers "compare again" when it has nothing to show, and that
\* button is not disabled while a comparison runs.
MayCompare == ~Loading \/ (prefs.tab = "data" /\ prefs.data /\ ~HasRowResults(entries, prefs))
MaySwap == ~Loading /\ form # EmptyForm

\* Effects that follow a rendering: the chosen table must be listed, the content
\* tab needs row comparison, and an empty schema tab gives way to the content tab.
TabAfter(p) ==
  IF ~p.data /\ p.tab = "data" THEN "status"
  ELSE IF /\ p.tab = "schema" /\ phase' = "done" /\ p.data
          /\ TableDiffs(entries') = {} /\ context' # None /\ RowComparisons(entries') # {}
       THEN "data" ELSE p.tab
Settle(p, b) ==
  /\ prefs' = [p EXCEPT !.tab = TabAfter(p)]
  /\ browse' = [b EXCEPT !.selected =
                  PreferredTable(entries', FilterEntries(entries', p.filter, p.search), b.selected)]

-----------------------------------------------------------------------------
(* The form                                                                *)

\* useDatabaseList: a new connection voids the request for the former one.
FollowForm(f) ==
  LET changed == {side \in Sides : f[side].conn # form[side].conn}
  IN  /\ form' = f
      /\ lists' = [side \in Sides |->
           IF side \in changed THEN [of |-> None, loading |-> f[side].conn # None] ELSE lists[side]]
      /\ fetches' = {[q EXCEPT !.live = @ /\ q.side \notin changed] : q \in fetches}
                    \cup {[side |-> side, conn |-> f[side].conn, live |-> TRUE] :
                            side \in {x \in changed : f[x].conn # None}}

DatabasesListed(q, ok) ==
  /\ fetches' = fetches \ {q}
  /\ lists' = IF q.live THEN [lists EXCEPT ![q.side] =
                                [of |-> IF ok THEN q.conn ELSE @.of, loading |-> FALSE]]
              ELSE lists
  /\ UNCHANGED <<form, setup, prefs, browse, resultVars, runVars, jobVars>>

Edited(f) ==
  /\ setup.edits < MaxEdits
  /\ FollowForm(f)
  /\ setup' = [setup EXCEPT !.edits = @ + 1]
  /\ UNCHANGED <<browse, resultVars, runVars, jobVars>>

ChooseConnection(side, c) ==
  Edited([form EXCEPT ![side] = [conn |-> c, db |-> None]]) /\ UNCHANGED prefs
\* A database is chosen from the list, once it is there; none may always be chosen.
ChooseDatabase(side, d) ==
  /\ form[side].conn # None /\ ~lists[side].loading
  /\ d = None \/ lists[side].of = form[side].conn
  /\ Edited([form EXCEPT ![side].db = d]) /\ UNCHANGED prefs
SwapEndpoints ==
  /\ MaySwap
  /\ Edited([source |-> form.target, target |-> form.source]) /\ UNCHANGED prefs
PickHistory(h) ==
  /\ h \in ToSet(ValidHistory(prefs.history, Connections))
  /\ Edited(h) /\ UNCHANGED prefs
\* The selection shown in the form is forgotten, or the whole history.
SelectedHistory ==
  {h \in ToSet(ValidHistory(prefs.history, Connections)) : prefs.setup /\ h = form}
ForgetHistory(gone) ==
  /\ setup.edits < MaxEdits /\ gone # {}
  /\ prefs' = [prefs EXCEPT !.history = SelectSeq(@, LAMBDA h : h \notin gone)]
  /\ setup' = [setup EXCEPT !.edits = @ + 1]
  /\ UNCHANGED <<form, lists, fetches, browse, resultVars, runVars, jobVars>>

\* "Compare this database" of the sidebar; nothing is restored over it.
Prefill(c, d) ==
  /\ setup.edits < MaxEdits
  /\ FollowForm([form EXCEPT !.source = [conn |-> c, db |-> d]])
  /\ setup' = [setup EXCEPT !.edits = @ + 1, !.restored = TRUE,
                             !.prefill = [conn |-> c, db |-> d]]
  /\ prefs' = [prefs EXCEPT !.setup = TRUE]
  /\ UNCHANGED <<browse, resultVars, runVars, jobVars>>

\* The connections were read: the latest selection is restored into an empty form.
ConnectionsReady ==
  LET valid == ValidHistory(prefs.history, Connections)
  IN  /\ ~setup.ready
      /\ setup' = [setup EXCEPT !.ready = TRUE, !.restored = TRUE]
      /\ IF ~setup.restored /\ form = EmptyForm /\ valid # <<>>
         THEN FollowForm(Head(valid)) ELSE UNCHANGED <<form, lists, fetches>>
      /\ UNCHANGED <<prefs, browse, resultVars, runVars, jobVars>>

-----------------------------------------------------------------------------
(* A comparison                                                            *)

RunCompare ==
  /\ MayCompare /\ IsComplete(form) /\ runId < MaxRuns
  /\ runId' = runId + 1
  /\ seq' = seq + 1 /\ job' = seq + 1 /\ jobs' = StartJob(jobs, seq + 1, "compare", "diff")
  /\ showSync' = FALSE /\ phase' = "loading-tables"
  /\ context' = [form |-> form, data |-> prefs.data]
  /\ tables' = [side \in Sides |-> {}] /\ entries' = [t \in {} |-> 0]
  /\ runs' = [runs EXCEPT ![runId + 1] =
                [stage |-> "listing", ctx |-> context', job |-> seq + 1, limit |-> prefs.limit,
                 todo |-> {}, out |-> {}, failed |-> FALSE]]
  /\ Settle([prefs EXCEPT !.tab = "status", !.setup = FALSE, !.history = UpsertHistory(@, form)],
            [selected |-> None, showAll |-> FALSE])
  /\ UNCHANGED <<formVars, retries, mountedAt>>

\* finishJob: only the job the panel still holds is finished.
Finish(i, status) ==
  IF job = runs[i].job THEN job' = None /\ jobs' = FinishJob(jobs, job, status)
  ELSE UNCHANGED <<job, jobs>>
RunOver(i) == runs' = [runs EXCEPT ![i] = NoRun]

TablesListed(i, l) ==
  LET es == InitialEntries(l.source, l.target)
      shared == Shared(es)
      taken == TakenFirst(shared, runs[i].limit)
  IN  /\ runs[i].stage = "listing" /\ i = runId
      /\ tables' = [source |-> l.source, target |-> l.target]
      /\ IF shared = {}
         THEN entries' = es /\ phase' = "done" /\ RunOver(i) /\ Finish(i, "done")
         ELSE /\ entries' = [t \in DOMAIN es |->
                   IF t \in taken THEN [es[t] EXCEPT !.status = "comparing"] ELSE es[t]]
              /\ phase' = "comparing"
              /\ runs' = [runs EXCEPT ![i].stage = "tables", ![i].out = taken,
                            ![i].todo = shared \ taken]
              /\ UNCHANGED <<job, jobs>>
      /\ UNCHANGED <<context, showSync>>
      /\ Settle(prefs, browse)
      /\ UNCHANGED <<formVars, runId, retries, seq, mountedAt>>

ListingFailed(i) ==
  /\ runs[i].stage = "listing" /\ i = runId
  /\ context' = None /\ phase' = "idle"
  /\ tables' = [side \in Sides |-> {}] /\ entries' = [t \in {} |-> 0]
  /\ RunOver(i) /\ Finish(i, "error")
  /\ UNCHANGED showSync
  /\ Settle(prefs, browse)
  /\ UNCHANGED <<formVars, runId, retries, seq, mountedAt>>

NeverLate(i) == FALSE
Late(i) == i # runId
LateListing(i) ==
  /\ runs[i].stage = "listing" /\ Late(i)
  /\ RunOver(i)
  /\ UNCHANGED <<formVars, prefs, browse, resultVars, runId, retries, jobVars>>

\* The answer for one table, after which its worker takes the next table; the
\* worker that ends last ends the run.  A late answer changes nothing that is
\* shown, and its worker runs through the tables left without asking.
Answered(i, t, ok, result) ==
  LET failed == runs[i].failed \/ ~ok
      rest == IF Late(i) THEN {} ELSE runs[i].todo
      next == IF rest = {} THEN {} ELSE {First(rest)}
      out == (runs[i].out \ {t}) \cup next
      settled == UpdateEntry(entries, t, IF ok THEN "done" ELSE "error",
                             IF ok THEN result ELSE NoComparison)
  IN  /\ runs[i].stage = "tables" /\ t \in runs[i].out
      /\ entries' = IF Late(i) THEN entries
                    ELSE [x \in DOMAIN settled |->
                            IF x \in next THEN [settled[x] EXCEPT !.status = "comparing"]
                            ELSE settled[x]]
      /\ IF out # {}
         THEN /\ runs' = [runs EXCEPT ![i].out = out, ![i].failed = failed,
                            ![i].todo = rest \ next]
              /\ UNCHANGED <<phase, job, jobs>>
         ELSE /\ RunOver(i)
              /\ IF Late(i) THEN UNCHANGED <<phase, job, jobs>>
                 ELSE phase' = "done" /\ Finish(i, IF failed THEN "error" ELSE "done")
      /\ UNCHANGED <<context, tables, showSync>>
      /\ Settle(prefs, browse)
      /\ UNCHANGED <<formVars, runId, retries, seq, mountedAt>>

\* stopCompare, which a compare job calls when it is cancelled; the job of a panel
\* that was closed stops nothing in the panel opened since.
CancelCompareJob(id) ==
  /\ MayCancel(jobs, id) /\ jobs[id].kind = "compare"
  /\ jobs' = CancelJob(jobs, id)
  /\ IF Loading /\ id > mountedAt
     THEN runId < MaxRuns /\ runId' = runId + 1 /\ phase' = "cancelled" /\ job' = None
     ELSE UNCHANGED <<runId, phase, job>>
  /\ UNCHANGED <<context, tables, entries, showSync>>
  /\ Settle(prefs, browse)
  /\ UNCHANGED <<formVars, runs, retries, seq, mountedAt>>

RetryTable(t) ==
  /\ HasDiff /\ t \in DOMAIN entries /\ "retry" \in DetailActions(entries[t])
  /\ browse.selected = t
  /\ entries' = [entries EXCEPT ![t].status = "comparing"]
  /\ retries' = retries \cup {[run |-> runId, table |-> t, ctx |-> context]}
  /\ UNCHANGED <<phase, context, tables, showSync>>
  /\ Settle(prefs, browse)
  /\ UNCHANGED <<formVars, runs, runId, jobVars>>

RetryAnswered(r, ok, result) ==
  /\ r \in retries /\ retries' = retries \ {r}
  /\ entries' = IF Late(r.run) THEN entries
                ELSE UpdateEntry(entries, r.table, IF ok THEN "done" ELSE "error",
                                 IF ok THEN result ELSE NoComparison)
  /\ UNCHANGED <<phase, context, tables, showSync>>
  /\ Settle(prefs, browse)
  /\ UNCHANGED <<formVars, runs, runId, jobVars>>

\* A table was dropped in the workspace; an event for a database that is compared
\* takes it off that side's list and away from the results.
SidesAt(at) == {side \in Sides : HasDiff /\ context.form[side] = at}
TableDropped(at, t) ==
  /\ setup.edits < MaxEdits
  /\ setup' = [setup EXCEPT !.edits = @ + 1]
  /\ tables' = [side \in Sides |->
                  IF side \in SidesAt(at) THEN tables[side] \ {t} ELSE tables[side]]
  /\ entries' = IF SidesAt(at) = {} THEN entries ELSE Restrict(entries, DOMAIN entries \ {t})
  /\ UNCHANGED <<phase, context, showSync>>
  /\ Settle(prefs, [browse EXCEPT !.selected = IF @ = t THEN None ELSE @])
  /\ UNCHANGED <<form, lists, fetches, runVars, jobVars>>

\* The tab is closed, and opened again later: the unmounted panel voids its run and
\* its requests, and leaves its job to the store.
CloseTab ==
  /\ runId < MaxRuns /\ runId' = runId + 1
  /\ FreshPanel /\ FreshResults
  /\ prefs' = [prefs EXCEPT !.setup = TRUE]
  /\ job' = None /\ mountedAt' = seq
  /\ UNCHANGED <<runs, retries, jobs, seq>>

OpenSync ==
  /\ CanPlanSync /\ showSync' = TRUE
  /\ UNCHANGED <<formVars, prefs, browse, phase, context, tables, entries, runVars, jobVars>>

-----------------------------------------------------------------------------
(* Looking at the results                                                  *)

Browse(p, b) ==
  /\ setup.edits < MaxBrowses /\ setup' = [setup EXCEPT !.edits = @ + 1]
  /\ UNCHANGED resultVars
  /\ Settle(p, b)
  /\ UNCHANGED <<form, lists, fetches, runVars, jobVars>>

SelectTab(tab) == Browse([prefs EXCEPT !.tab = tab], browse)
SetFilter(filter) == Browse([prefs EXCEPT !.filter = filter], browse)
SetSearch(matches) == Browse([prefs EXCEPT !.search = matches], browse)
SelectTable(t) ==
  /\ t \in FilterEntries(entries, prefs.filter, prefs.search)
  /\ Browse(prefs, [browse EXCEPT !.selected = t])
ToggleCompareRows == Browse([prefs EXCEPT !.data = ~@], browse)
SetConcurrency(n) == ~Loading /\ n \in Options /\ Browse([prefs EXCEPT !.limit = n], browse)
ToggleSetup == Browse([prefs EXCEPT !.setup = ~@], browse)
ToggleShowAll == HasRowResults(entries, prefs) /\ Browse(prefs, [browse EXCEPT !.showAll = ~@])
ShowRowDiffs ==
  /\ prefs.data /\ ChangedRows(entries) # {}
  /\ Browse([prefs EXCEPT !.tab = "data"], browse)

\* The side's table, or the row comparison, that a table of the results opens.
OpenedTable(side, t) == [kind |-> "table", at |-> context.form[side], table |-> t]
OpenedComparison(t) ==
  [kind |-> "table-compare", form |-> context.form, table |-> t,
   compared |-> Listed(RowComparisons(entries)), differing |-> Listed(ChangedRows(entries))]

-----------------------------------------------------------------------------
Endpoints == [conn : Connections, db : Databases]

RunAnswers ==
  \E i \in 1..MaxRuns :
     \/ \E l \in Listings : TablesListed(i, l)
     \/ ListingFailed(i)
     \/ LateListing(i)
     \/ /\ runs[i].stage = "tables"
        /\ \E t \in runs[i].out, ok \in BOOLEAN :
             \E r \in IF ok THEN Comparison(runs[i].ctx.data) ELSE {NoComparison} :
               Answered(i, t, ok, r)
RetryAnswers ==
  \E r \in retries, ok \in BOOLEAN :
    \E x \in IF ok THEN Comparison(r.ctx.data) ELSE {NoComparison} : RetryAnswered(r, ok, x)
Answers == RunAnswers \/ RetryAnswers

FormActions ==
  \/ \E side \in Sides, c \in Connections \cup {None} : ChooseConnection(side, c)
  \/ \E side \in Sides, d \in Databases \cup {None} : ChooseDatabase(side, d)
  \/ SwapEndpoints
  \/ \E h \in ToSet(prefs.history) : PickHistory(h)
  \/ ForgetHistory(SelectedHistory)
  \/ ForgetHistory(ToSet(prefs.history))
  \/ \E c \in Connections, d \in Databases : Prefill(c, d)
  \/ ConnectionsReady
  \/ \E q \in fetches, ok \in BOOLEAN : DatabasesListed(q, ok)

CompareActions ==
  \/ RunCompare
  \/ \E id \in DOMAIN jobs : CancelCompareJob(id)
  \/ \E t \in Names : RetryTable(t)
  \/ \E t \in Names, at \in Endpoints : TableDropped(at, t)
  \/ CloseTab

BrowseActions ==
  \/ \E tab \in {"tables", "status", "schema", "data"} : SelectTab(tab)
  \/ \E f \in StatusFilters : SetFilter(f)
  \/ \E m \in {Names} \cup {{t} : t \in Names} : SetSearch(m)
  \/ \E t \in Names : SelectTable(t)
  \/ ToggleCompareRows \/ ToggleSetup \/ ToggleShowAll \/ ShowRowDiffs
  \/ \E n \in Options : SetConcurrency(n)

-----------------------------------------------------------------------------
(* Properties                                                              *)

\* A table's result changes only through the answer to a request made for the
\* comparison on the screen: what was asked for other databases, or before a
\* cancellation, never shows (compareRunIdRef, diff-panel-hooks.ts:303, 346, 357).
AnsweredBy(t) ==
  \/ \E i \in 1..MaxRuns :
       /\ runs[i].stage = "tables" /\ t \in runs[i].out /\ runs[i].ctx = context /\ i = runId
       /\ runs'[i].stage = "none" \/ t \notin runs'[i].out
  \/ \E r \in retries \ retries' : r.table = t /\ r.ctx = context /\ r.run = runId
ResultsBelongToTheScreen ==
  [][\A t \in DOMAIN entries \cap DOMAIN entries' :
       entries[t].status # entries'[t].status /\ entries'[t].status \in {"done", "error"}
         => AnsweredBy(t)]_compareVars

\* A table shown as running or queued has a request, or a worker that is to take it
\* when its own request is answered: no spinner turns for ever
\* (ComparisonStatusPanel.tsx:52).
Awaited(t) ==
  \/ /\ runId > 0 /\ runs[runId].stage = "tables" /\ runs[runId].out # {}
     /\ t \in runs[runId].out \cup runs[runId].todo
  \/ \E r \in retries : r.table = t /\ r.run = runId
NoEndlessSpinner ==
  \A t \in DOMAIN entries :
    DisplayStatus(entries[t], phase) \in {"running", "queued"} => Awaited(t)

\* A list of databases is that of the connection chosen, however late the answers
\* to earlier choices arrive (useDatabaseList, diff-panel-hooks.ts:115).
ListsFollowTheForm ==
  \A side \in Sides : lists[side].of \in {None, form[side].conn}
=============================================================================
