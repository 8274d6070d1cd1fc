---------------------------- MODULE SyncPanelProofs ---------------------------
(***************************************************************************)
(* Theorems of the comparison panel and the sync dialog over it, with the  *)
(* jobs of the status bar they share: SyncPanel!Spec, for any tables, any  *)
(* listings of them, any batch limits and any number of comparisons; and   *)
(* of what else a comparison shows: the rows of two tables (TableCompare), *)
(* the cache of their pages (CompareCache) and the controls of the panel   *)
(* (DiffScreen).                                                           *)
(*                                                                         *)
(* The inductive invariant of the first has a part for the panel           *)
(* (CompareInv) and three for what the dialog keeps: its executions        *)
(* (SyncsInv), what is on the screen (DialogInv) and the plans that were   *)
(* asked for (PreviewsInv).  First every action of the panel keeps         *)
(* CompareInv, whatever the dialog does; then what a step of the panel may *)
(* do to the jobs and the results is summed up (PanelJobs, PanelResults),  *)
(* and only that is used to show that the dialog's part is kept.  The      *)
(* controls keep CompareInv too, since their steps are steps of the panel. *)
(***************************************************************************)
EXTENDS SyncPanel, DiffScreen, CompareCache, TableCompare, FiniteSetTheorems,
        WellFoundedInduction, TLAPS

-----------------------------------------------------------------------------
(* The panel                                                               *)

\* A table among the results.
Entry == [source : BOOLEAN, target : BOOLEAN,
          status : {"queued", "comparing", "done", "error"},
          schema : {"none", "modified", "only-in-source", "only-in-target"},
          rows : RowResults \cup {"none"}]

\* A comparison under way: what waits has not been handed out, and it is over when nothing is
\* handed out any more.
RunIsSound(r) ==
  /\ r \in [stage : {"listing", "tables"}, ctx : {r.ctx}, job : {r.job}, limit : {r.limit},
            todo : SUBSET Names, out : SUBSET Names, failed : {r.failed}]
  /\ r.out \cap r.todo = {}
  /\ r.stage = "tables" => r.out # {}

\* The jobs the panel and its dialog start.
PanelJob == [kind : {"compare", "sync"}, tab : {"diff"}, status : {"running"} \cup Terminal,
             cancellable : BOOLEAN]

\* What the panel's results and the jobs are; jobs are numbered in the order they start.
CompareTypes ==
  /\ runId \in Nat /\ seq \in Nat /\ mountedAt \in Nat /\ mountedAt <= seq
  /\ phase \in {"idle", "loading-tables", "comparing", "done", "cancelled"}
  /\ entries \in [DOMAIN entries -> Entry] /\ DOMAIN entries \subseteq Names
  /\ jobs \in [DOMAIN jobs -> PanelJob] /\ DOMAIN jobs \subseteq 1..seq

\* Comparisons are numbered in the order they start.
RunsInv ==
  /\ runs = [i \in 1..MaxRuns |-> runs[i]] /\ runId <= MaxRuns
  /\ \A i \in 1..MaxRuns : runs[i] = NoRun \/ (i <= runId /\ RunIsSound(runs[i]))

\* The run on the screen: its stage is the phase, its databases and its job are the panel's.
CurrentInv ==
  /\ phase = "loading-tables" <=> runId > 0 /\ runs[runId].stage = "listing"
  /\ phase = "comparing" <=> runId > 0 /\ runs[runId].stage = "tables"
  /\ Loading => /\ runs[runId].ctx = context
                /\ job = runs[runId].job /\ job > mountedAt /\ job \in DOMAIN jobs
                /\ IsActive(jobs[job]) /\ jobs[job].kind = "compare"
  /\ ~Loading => job = None

\* Results are shown once there are tables, and retries were asked for by runs that began.
EntriesInv ==
  /\ phase \in {"idle", "loading-tables"} => DOMAIN entries = {}
  /\ \A r \in retries : /\ r.run \in Nat /\ r.run <= runId
                        /\ r.run = runId => r.ctx = context /\ phase \notin {"idle", "loading-tables"}

\* What is shown as running or queued is waited for, unless the comparison was cancelled.
SpinnerInv ==
  \A t \in DOMAIN entries :
    entries[t].status \in {"queued", "comparing"} /\ phase # "cancelled" => Awaited(t)

CompareInv == CompareTypes /\ RunsInv /\ CurrentInv /\ EntriesInv /\ SpinnerInv

-----------------------------------------------------------------------------
(* The dialog                                                              *)

\* An execution, a plan that was asked for and a dialog have the fields of one.
IsSync(s) ==
  s \in [req : {s.req}, plan : {s.plan}, cancelled : BOOLEAN, over : BOOLEAN]
IsPreview(p) == p \in [id : {p.id}, req : {p.req}, live : {p.live}]
IsDialog(d) ==
  d \in [tables : {d.tables}, structure : {d.structure}, data : {d.data},
         strategy : {d.strategy}, preview : {d.preview}, previewing : {d.previewing},
         confirming : {d.confirming}, outcome : {d.outcome}, running : {d.running},
         last : {d.last}]

\* The jobs of kind "sync" are those of executions: cancelled with them, and not active once the
\* execution has answered.
SyncsInv ==
  /\ syncs = [id \in DOMAIN syncs |-> syncs[id]] /\ DOMAIN syncs \subseteq 1..seq
  /\ \A id \in DOMAIN syncs : IsSync(syncs[id])
  /\ \A id \in DOMAIN jobs :
       /\ jobs[id].kind = "sync" <=> id \in DOMAIN syncs
       /\ id \in DOMAIN syncs => /\ syncs[id].cancelled <=> jobs[id].status = "cancelled"
                                 /\ syncs[id].over => ~IsActive(jobs[id])

\* An open dialog shows its last execution: whether that goes on, and how its job ended; a
\* question is asked about the plan on the screen, with nothing under way.
DialogInv ==
  Mounted =>
    /\ phase = "done" /\ IsDialog(dialog)
    /\ dialog.last # None => /\ dialog.last \in DOMAIN syncs
                             /\ syncs[dialog.last].over <=> dialog.running = None
    /\ dialog.running # None => dialog.running = dialog.last
    /\ dialog.outcome # None =>
         /\ dialog.last # None
         /\ dialog.running # None => dialog.outcome = "cancelled"
         /\ dialog.last \in DOMAIN jobs => dialog.outcome = jobs[dialog.last].status
    /\ dialog.confirming # None =>
         /\ ~dialog.previewing /\ dialog.running = None
         /\ dialog.preview # None => dialog.preview.id = dialog.confirming

\* One plan at most is waited for, and the dialog says so.
PreviewsInv ==
  \A p \in previews :
    /\ IsPreview(p)
    /\ p.live => /\ Mounted /\ dialog.previewing
                 /\ \A q \in previews : q.live => q = p

IInv == CompareInv /\ SyncsInv /\ DialogInv /\ PreviewsInv

-----------------------------------------------------------------------------
(* Tables, jobs and results                                                *)

\* The first of some tables is one of them.
LEMMA FirstBelongs ==
  ASSUME NEW S \in SUBSET Names, S # {}
  PROVE  First(S) \in S
<1>1. \E t \in S : \A u \in S : ~Precedes(u, t)
  BY NamesAssumption
<1> QED
  BY <1>1 DEF First

\* A batch is taken from what waits, and is empty only if nothing waits.
LEMMA TakenBelong ==
  ASSUME NEW S \in SUBSET Names, NEW limit
  PROVE  /\ TakenFirst(S, limit) \subseteq S
         /\ S # {} => TakenFirst(S, limit) # {}
  BY FirstBelongs DEF TakenFirst, FirstOnes

\* Starting a job adds one that runs under a number of its own.
LEMMA StartedJobs ==
  ASSUME NEW js, NEW n \in Nat, NEW kind \in {"compare", "sync"},
         js \in [DOMAIN js -> PanelJob], DOMAIN js \subseteq 1..n,
         NEW started, started = StartJob(js, n + 1, kind, "diff")
  PROVE  /\ started \in [DOMAIN started -> PanelJob]
         /\ DOMAIN started = DOMAIN js \cup {n + 1}
<1> DEFINE new == [kind |-> kind, tab |-> "diff", status |-> "running", cancellable |-> TRUE]
<1>1. new \in PanelJob
  BY DEF PanelJob, Terminal
<1>2. started = [x \in DOMAIN js \cup {n + 1} |-> IF x = n + 1 THEN new ELSE js[x]]
  BY DEF StartJob
<1>3. \A x \in DOMAIN js : x # n + 1 /\ js[x] \in PanelJob
  OBVIOUS
<1> QED
  BY <1>1, <1>2, <1>3

LEMMA StartedJob ==
  ASSUME NEW js, NEW n \in Nat, NEW kind, DOMAIN js \subseteq 1..n,
         NEW started, started = StartJob(js, n + 1, kind, "diff")
  PROVE  /\ started[n + 1].kind = kind /\ started[n + 1].status = "running"
         /\ \A id \in DOMAIN js : id # n + 1 /\ started[id] = js[id]
<1> DEFINE new == [kind |-> kind, tab |-> "diff", status |-> "running", cancellable |-> TRUE]
<1>1. started = [x \in DOMAIN js \cup {n + 1} |-> IF x = n + 1 THEN new ELSE js[x]]
  BY DEF StartJob
<1>2. \A x \in DOMAIN js : x # n + 1
  OBVIOUS
<1> QED
  BY <1>1, <1>2

\* What the panel's invariant is about.
panelVars == <<phase, context, entries, runVars, jobVars>>

LEMMA NoEntries ==
  ASSUME NEW es, es = [t \in {} |-> 0]
  PROVE  es \in [DOMAIN es -> Entry] /\ DOMAIN es = {}
  OBVIOUS

LEMMA CompareStartsRight == CompareInit => CompareInv
<1> SUFFICES ASSUME CompareInit PROVE CompareInv
  OBVIOUS
<1>0. /\ phase = "idle" /\ showSync = FALSE /\ entries = [t \in {} |-> 0] /\ retries = {}
      /\ runs = [i \in 1..MaxRuns |-> NoRun] /\ runId = 0
      /\ jobs = NoJobs /\ seq = 0 /\ job = None /\ mountedAt = 0
  BY DEF CompareInit
<1> USE CompareAssumption, <1>0
<1>1. CompareTypes
  <2>1. entries \in [DOMAIN entries -> Entry] /\ DOMAIN entries \subseteq Names
    BY NoEntries
  <2>2. jobs \in [DOMAIN jobs -> PanelJob] /\ DOMAIN jobs \subseteq 1..seq
    BY DEF NoJobs
  <2>3. /\ runId \in Nat /\ seq \in Nat /\ mountedAt \in Nat /\ mountedAt <= seq
        /\ phase \in {"idle", "loading-tables", "comparing", "done", "cancelled"}
    OBVIOUS
  <2> QED
    BY <2>1, <2>2, <2>3, Zenon DEF CompareTypes
<1>2. RunsInv
  BY DEF RunsInv
<1>3. CurrentInv
  BY DEF CurrentInv, Loading, Busy
<1>4. EntriesInv
  BY DEF EntriesInv
<1>5. SpinnerInv
  BY DEF SpinnerInv
<1> QED
  BY <1>1, <1>2, <1>3, <1>4, <1>5 DEF CompareInv

LEMMA CompareRests ==
  ASSUME CompareInv, UNCHANGED panelVars
  PROVE  CompareInv'
<1> USE DEF panelVars, runVars, jobVars
<1>1. CompareTypes'
  BY DEF CompareInv, CompareTypes
<1>2. RunsInv'
  BY DEF CompareInv, RunsInv
<1>3. CurrentInv'
  BY DEF CompareInv, CurrentInv, Loading
<1>4. EntriesInv'
  BY DEF CompareInv, EntriesInv
<1>5. SpinnerInv'
  BY DEF CompareInv, SpinnerInv, Awaited
<1> QED
  BY <1>1, <1>2, <1>3, <1>4, <1>5 DEF CompareInv

\* A run is started, goes on or is over.
LEMMA RunsChange ==
  ASSUME RunsInv, CompareTypes, NEW i \in 1..MaxRuns, NEW r,
         runs' = [runs EXCEPT ![i] = r], runId' \in Nat, runId <= runId', runId' <= MaxRuns,
         r = NoRun \/ (i <= runId' /\ RunIsSound(r))
  PROVE  RunsInv' /\ \A k \in 1..MaxRuns : runs'[k] = IF k = i THEN r ELSE runs[k]
<1>1. runs' = [k \in 1..MaxRuns |-> IF k = i THEN r ELSE runs[k]]
  BY DEF RunsInv
<1>2. \A k \in 1..MaxRuns : k <= runId => k <= runId'
  BY DEF CompareTypes
<1>3. \A k \in 1..MaxRuns : runs'[k] = IF k = i THEN r ELSE runs[k]
  BY <1>1
<1>4. runs' = [k \in 1..MaxRuns |-> runs'[k]]
  BY <1>1
<1>5. ASSUME NEW k \in 1..MaxRuns
      PROVE  runs'[k] = NoRun \/ (k <= runId' /\ RunIsSound(runs'[k]))
  <2>1. CASE k = i
    BY <2>1, <1>3
  <2>2. CASE k # i
    BY <2>2, <1>2, <1>3 DEF RunsInv
  <2> QED
    BY <2>1, <2>2
<1> QED
  BY <1>3, <1>4, <1>5 DEF RunsInv

LEMMA RunCompareKeeps == ASSUME CompareInv, RunCompare PROVE CompareInv'
<1> DEFINE r == [stage |-> "listing", ctx |-> context', job |-> seq + 1, limit |-> prefs.limit,
                 todo |-> {}, out |-> {}, failed |-> FALSE]
<1>1. /\ runId < MaxRuns /\ runId' = runId + 1 /\ phase' = "loading-tables"
      /\ seq' = seq + 1 /\ job' = seq + 1 /\ retries' = retries /\ mountedAt' = mountedAt
  BY DEF RunCompare
<1>2. entries' = [t \in {} |-> 0] /\ jobs' = StartJob(jobs, seq + 1, "compare", "diff")
  BY DEF RunCompare
<1>3. runs' = [runs EXCEPT ![runId + 1] = r]
  BY DEF RunCompare
<1>4. RunIsSound(r) /\ r.stage = "listing" /\ r.job = seq + 1 /\ r.ctx = context'
  BY DEF RunIsSound
<1> HIDE DEF r
<1>5. CompareTypes /\ RunsInv /\ EntriesInv
  BY DEF CompareInv
<1>6. /\ jobs' \in [DOMAIN jobs' -> PanelJob] /\ DOMAIN jobs' \subseteq 1..(seq + 1)
      /\ seq + 1 \in DOMAIN jobs' /\ jobs'[seq + 1].kind = "compare" /\ IsActive(jobs'[seq + 1])
  <2>1. seq \in Nat /\ jobs \in [DOMAIN jobs -> PanelJob] /\ DOMAIN jobs \subseteq 1..seq
    BY <1>5 DEF CompareTypes
  <2>2. jobs' \in [DOMAIN jobs' -> PanelJob] /\ DOMAIN jobs' = DOMAIN jobs \cup {seq + 1}
    BY <1>2, <2>1, StartedJobs
  <2>3. jobs'[seq + 1].kind = "compare" /\ jobs'[seq + 1].status = "running"
    BY <1>2, <2>1, StartedJob
  <2> QED
    BY <2>1, <2>2, <2>3 DEF IsActive, Terminal
<1>7. RunsInv' /\ runs'[runId'] = r
  <2>1. runId + 1 \in 1..MaxRuns /\ runId' \in Nat /\ runId <= runId' /\ runId' <= MaxRuns
    BY <1>1, <1>5, CompareAssumption DEF CompareTypes
  <2>2. r = NoRun \/ (runId + 1 <= runId' /\ RunIsSound(r))
    BY <1>1, <1>4, <2>1
  <2>3. RunsInv' /\ \A k \in 1..MaxRuns : runs'[k] = IF k = runId + 1 THEN r ELSE runs[k]
    BY <1>3, <1>5, <2>1, <2>2, RunsChange
  <2> QED
    BY <1>1, <2>1, <2>3
<1>8. CompareTypes'
  <2>1. entries' \in [DOMAIN entries' -> Entry] /\ DOMAIN entries' \subseteq Names
    BY <1>2, NoEntries
  <2> QED
    BY <1>1, <1>5, <1>6, <2>1 DEF CompareTypes
<1>9. CurrentInv'
  BY <1>1, <1>4, <1>5, <1>6, <1>7 DEF CurrentInv, CompareTypes, Loading, Busy, IsActive
<1>10. EntriesInv' /\ SpinnerInv'
  BY <1>1, <1>2, <1>5 DEF EntriesInv, SpinnerInv, CompareTypes
<1> QED
  BY <1>7, <1>8, <1>9, <1>10 DEF CompareInv

\* Ending a job changes its status alone.
LEMMA FinishedJobs ==
  ASSUME NEW js, NEW id, NEW status \in Terminal, js \in [DOMAIN js -> PanelJob],
         NEW over, over = FinishJob(js, id, status)
  PROVE  /\ over \in [DOMAIN over -> PanelJob] /\ DOMAIN over = DOMAIN js
         /\ \A x \in DOMAIN js : /\ over[x].kind = js[x].kind
                                 /\ over[x].status = IF x = id THEN status ELSE js[x].status
<1>1. CASE id \notin DOMAIN js
  BY <1>1 DEF FinishJob
<1>2. CASE id \in DOMAIN js
  <2> DEFINE new == [js[id] EXCEPT !.status = status, !.cancellable = FALSE]
  <2>1. over = [x \in DOMAIN js |-> IF x = id THEN new ELSE js[x]]
    BY <1>2 DEF FinishJob
  <2>2. new \in PanelJob /\ new.kind = js[id].kind /\ new.status = status
    BY <1>2 DEF PanelJob
  <2> HIDE DEF new
  <2>3. \A x \in DOMAIN js : over[x] = IF x = id THEN new ELSE js[x]
    BY <2>1
  <2>4. over \in [DOMAIN over -> PanelJob] /\ DOMAIN over = DOMAIN js
    BY <2>1, <2>2
  <2> QED
    BY <2>2, <2>3, <2>4
<1> QED
  BY <1>1, <1>2

\* The first results: tables of both databases are queued, the others are settled.
LEMMA FirstEntries ==
  ASSUME NEW src \in SUBSET Names, NEW tgt \in SUBSET Names, NEW es, es = InitialEntries(src, tgt)
  PROVE  /\ es \in [DOMAIN es -> Entry] /\ DOMAIN es = src \cup tgt
         /\ Shared(es) \subseteq DOMAIN es
         /\ \A t \in DOMAIN es : es[t].status # "comparing"
         /\ \A t \in DOMAIN es : es[t].status = "queued" => t \in Shared(es)
<1>1. \A t \in src \cup tgt :
        es[t] = [source |-> t \in src, target |-> t \in tgt,
                 status |-> IF t \in src \cap tgt THEN "queued" ELSE "done",
                 schema |-> IF t \notin tgt THEN "only-in-source"
                            ELSE IF t \notin src THEN "only-in-target" ELSE "none",
                 rows |-> "none"]
  BY DEF InitialEntries
<1>2. es \in [DOMAIN es -> Entry] /\ DOMAIN es = src \cup tgt
  BY DEF InitialEntries, Entry
<1>3. Shared(es) \subseteq DOMAIN es
  BY DEF Shared
<1>4. ASSUME NEW t \in DOMAIN es
      PROVE  es[t].status # "comparing" /\ (es[t].status = "queued" => t \in Shared(es))
  <2>0. es[t] = [source |-> t \in src, target |-> t \in tgt,
                 status |-> IF t \in src \cap tgt THEN "queued" ELSE "done",
                 schema |-> IF t \notin tgt THEN "only-in-source"
                            ELSE IF t \notin src THEN "only-in-target" ELSE "none",
                 rows |-> "none"]
    BY <1>1, <1>2
  <2>1. es[t].status = IF t \in src \cap tgt THEN "queued" ELSE "done"
    BY <2>0
  <2>2. es[t].source = (t \in src)
    BY <2>0
  <2>3. es[t].target = (t \in tgt)
    BY <2>0
  <2> QED
    BY <2>1, <2>2, <2>3 DEF Shared, IsShared
<1> QED
  BY <1>2, <1>3, <1>4

\* Some entries are marked as being compared.
LEMMA MarkedEntries ==
  ASSUME NEW es, es \in [DOMAIN es -> Entry], NEW marked, NEW new,
         new = [t \in DOMAIN es |->
                  IF t \in marked THEN [es[t] EXCEPT !.status = "comparing"] ELSE es[t]]
  PROVE  /\ new \in [DOMAIN new -> Entry] /\ DOMAIN new = DOMAIN es
         /\ \A t \in DOMAIN es : /\ t \notin marked => new[t] = es[t]
                                 /\ t \in marked => new[t].status = "comparing"
<1>1. \A t \in DOMAIN es : /\ [es[t] EXCEPT !.status = "comparing"] \in Entry
                           /\ [es[t] EXCEPT !.status = "comparing"].status = "comparing"
  BY DEF Entry
<1> QED
  BY <1>1

\* What the comparison of a table gives, and a table that is given it.
Result(r) == r.schema \in {"none", "modified"} /\ r.rows \in RowResults \cup {"none"}

LEMMA UpdatedEntry ==
  ASSUME NEW es, NEW t, es \in [DOMAIN es -> Entry], t \in DOMAIN es,
         NEW status, status \in {"done", "error"}, NEW result, Result(result)
  PROVE  [es[t] EXCEPT !.status = status, !.schema = result.schema, !.rows = result.rows] \in Entry
  BY ZenonT(60) DEF Entry, Result

LEMMA UpdatedEntries ==
  ASSUME NEW es, NEW t, es \in [DOMAIN es -> Entry],
         NEW status, status \in {"done", "error"}, NEW result, Result(result)
  PROVE  /\ UpdateEntry(es, t, status, result) \in [DOMAIN es -> Entry]
         /\ \A x \in DOMAIN es :
              IF x = t THEN UpdateEntry(es, t, status, result)[x].status \in {"done", "error"}
              ELSE UpdateEntry(es, t, status, result)[x] = es[x]
<1> DEFINE e == [es[t] EXCEPT !.status = status, !.schema = result.schema, !.rows = result.rows]
           new == UpdateEntry(es, t, status, result)
<1>1. CASE t \notin DOMAIN es
  BY <1>1 DEF UpdateEntry
<1>2. CASE t \in DOMAIN es
  <2>0. e \in Entry
    BY <1>2, UpdatedEntry
  <2>1. e \in Entry /\ e.status \in {"done", "error"}
    BY <1>2, <2>0 DEF Entry
  <2>2. new = [x \in DOMAIN es |-> IF x = t THEN e ELSE es[x]]
    BY <1>2 DEF UpdateEntry
  <2> HIDE DEF e, new
  <2>3. new \in [DOMAIN es -> Entry]
    BY <2>1, <2>2
  <2>4. ASSUME NEW x \in DOMAIN es
        PROVE  IF x = t THEN new[x].status \in {"done", "error"} ELSE new[x] = es[x]
    <3>1. CASE x = t
      BY <2>1, <2>2, <3>1
    <3>2. CASE x # t
      BY <2>2, <3>2
    <3> QED
      BY <3>1, <3>2
  <2> QED
    BY <2>3, <2>4 DEF new
<1> QED
  BY <1>1, <1>2

\* The run on the screen while a comparison is on.
LEMMA Screen ==
  ASSUME CompareInv, NEW i \in 1..MaxRuns, i = runId, runs[i].stage \in {"listing", "tables"}
  PROVE  /\ job = runs[i].job /\ job \in DOMAIN jobs /\ runs[i].ctx = context
         /\ RunIsSound(runs[i])
         /\ phase = IF runs[i].stage = "listing" THEN "loading-tables" ELSE "comparing"
<1>1. CompareTypes /\ RunsInv /\ CurrentInv
  BY DEF CompareInv
<1>2. runId > 0 /\ runs[i] # NoRun
  BY DEF NoRun
<1>3. phase = IF runs[i].stage = "listing" THEN "loading-tables" ELSE "comparing"
  BY <1>1, <1>2 DEF CurrentInv
<1>4. Loading
  BY <1>3 DEF Loading, Busy
<1> QED
  BY <1>1, <1>2, <1>3, <1>4 DEF CurrentInv, RunsInv

LEMMA TablesListedKeeps ==
  ASSUME CompareInv, NEW i \in 1..MaxRuns, NEW l \in Listings, TablesListed(i, l)
  PROVE  CompareInv'
<1> DEFINE es == InitialEntries(l.source, l.target)
           shared == Shared(es)
           taken == TakenFirst(shared, runs[i].limit)
<1>1. /\ runs[i].stage = "listing" /\ i = runId /\ context' = context /\ runId' = runId
      /\ retries' = retries /\ seq' = seq /\ mountedAt' = mountedAt
  BY DEF TablesListed
<1>2. CompareTypes /\ RunsInv /\ CurrentInv /\ EntriesInv
  BY DEF CompareInv
<1>3. /\ job = runs[i].job /\ job \in DOMAIN jobs /\ runs[i].ctx = context
      /\ RunIsSound(runs[i]) /\ phase = "loading-tables"
  BY <1>1, Screen
<1>4. /\ es \in [DOMAIN es -> Entry] /\ DOMAIN es \subseteq Names /\ shared \subseteq DOMAIN es
      /\ \A t \in DOMAIN es : es[t].status # "comparing"
      /\ \A t \in DOMAIN es : es[t].status = "queued" => t \in shared
  <2>1. l.source \in SUBSET Names /\ l.target \in SUBSET Names
    BY CompareAssumption
  <2>2. es \in [DOMAIN es -> Entry] /\ DOMAIN es = l.source \cup l.target
    BY <2>1, FirstEntries
  <2>3. shared \subseteq DOMAIN es
    BY DEF Shared
  <2>4. \A t \in DOMAIN es : es[t].status # "comparing"
    BY <2>1, FirstEntries
  <2>5. \A t \in DOMAIN es : es[t].status = "queued" => t \in shared
    BY <2>1, FirstEntries
  <2> QED
    BY <2>1, <2>2, <2>3, <2>4, <2>5, Zenon
<1>5. /\ shared = {} => /\ entries' = es /\ phase' = "done" /\ RunOver(i) /\ Finish(i, "done")
      /\ shared # {} =>
           /\ entries' = [t \in DOMAIN es |->
                            IF t \in taken THEN [es[t] EXCEPT !.status = "comparing"] ELSE es[t]]
           /\ phase' = "comparing" /\ job' = job /\ jobs' = jobs
           /\ runs' = [runs EXCEPT ![i].stage = "tables", ![i].out = taken,
                         ![i].todo = shared \ taken]
  BY DEF TablesListed
<1>6. taken \subseteq shared /\ (shared # {} => taken # {})
  BY <1>4, TakenBelong
<1> HIDE DEF es, shared, taken
<1>7. EntriesInv'
  BY <1>1, <1>2, <1>3, <1>5 DEF EntriesInv
<1>8. CASE shared = {}
  <2>1. /\ entries' = es /\ phase' = "done" /\ runs' = [runs EXCEPT ![i] = NoRun]
        /\ job' = None /\ jobs' = FinishJob(jobs, job, "done")
    BY <1>3, <1>5, <1>8 DEF RunOver, Finish
  <2>2. jobs' \in [DOMAIN jobs' -> PanelJob] /\ DOMAIN jobs' = DOMAIN jobs
    BY <1>2, <2>1, FinishedJobs DEF CompareTypes, Terminal
  <2>3. CompareTypes'
    BY <1>1, <1>2, <1>4, <2>1, <2>2 DEF CompareTypes
  <2>4. RunsInv' /\ runs'[i] = NoRun
    BY <1>1, <1>2, <2>1, RunsChange DEF CompareTypes, RunsInv
  <2>5. CurrentInv'
    BY <1>1, <2>1, <2>4 DEF CurrentInv, Loading, Busy, NoRun
  <2>6. SpinnerInv'
    BY <1>4, <1>8, <2>1 DEF SpinnerInv
  <2> QED
    BY <1>7, <2>3, <2>4, <2>5, <2>6 DEF CompareInv
<1>9. CASE shared # {}
  <2> DEFINE r == [runs[i] EXCEPT !.stage = "tables", !.out = taken, !.todo = shared \ taken]
  <2>1. /\ phase' = "comparing" /\ job' = job /\ jobs' = jobs
        /\ runs' = [runs EXCEPT ![i] = r]
    BY <1>5, <1>9
  <2>2. /\ RunIsSound(r) /\ r.stage = "tables" /\ r.out = taken /\ r.todo = shared \ taken
        /\ r.job = runs[i].job /\ r.ctx = runs[i].ctx
    BY <1>3, <1>4, <1>6, <1>9 DEF RunIsSound
  <2> HIDE DEF r
  <2>3. /\ entries' \in [DOMAIN entries' -> Entry] /\ DOMAIN entries' = DOMAIN es
        /\ \A t \in DOMAIN es : t \notin taken => entries'[t] = es[t]
    <3>1. entries' = [t \in DOMAIN es |->
                        IF t \in taken THEN [es[t] EXCEPT !.status = "comparing"] ELSE es[t]]
      BY <1>5, <1>9
    <3>2. es \in [DOMAIN es -> Entry]
      BY <1>4
    <3> QED
      BY <3>1, <3>2, MarkedEntries
  <2>4. CompareTypes'
    BY <1>1, <1>2, <1>4, <2>1, <2>3 DEF CompareTypes
  <2>5. RunsInv' /\ runs'[i] = r
    BY SMTT(60), <1>1, <1>2, <2>1, <2>2, RunsChange DEF CompareTypes, RunsInv
  <2>6. CurrentInv'
    BY <1>1, <1>2, <1>3, <2>1, <2>2, <2>5 DEF CurrentInv, Loading, Busy
  <2>7. \A t \in DOMAIN entries' :
          entries'[t].status \in {"queued", "comparing"} => t \in taken \cup (shared \ taken)
    BY <1>4, <2>3
  <2>8. SpinnerInv'
    BY <1>1, <1>6, <1>9, <2>2, <2>5, <2>7 DEF SpinnerInv, Awaited
  <2> QED
    BY <1>7, <2>4, <2>5, <2>6, <2>8 DEF CompareInv
<1> QED
  BY <1>8, <1>9

LEMMA ListingFailedKeeps ==
  ASSUME CompareInv, NEW i \in 1..MaxRuns, ListingFailed(i)
  PROVE  CompareInv'
<1>1. /\ runs[i].stage = "listing" /\ i = runId /\ runId' = runId /\ phase' = "idle"
      /\ retries' = retries /\ seq' = seq /\ mountedAt' = mountedAt
  BY DEF ListingFailed
<1>2. /\ entries' = [t \in {} |-> 0] /\ runs' = [runs EXCEPT ![i] = NoRun]
      /\ Finish(i, "error")
  BY DEF ListingFailed, RunOver
<1>3. CompareTypes /\ RunsInv /\ CurrentInv /\ EntriesInv
  BY DEF CompareInv
<1>4. job = runs[i].job /\ phase = "loading-tables"
  BY <1>1, Screen
<1>5. job' = None /\ jobs' = FinishJob(jobs, job, "error")
  BY <1>2, <1>4 DEF Finish
<1>6. jobs' \in [DOMAIN jobs' -> PanelJob] /\ DOMAIN jobs' = DOMAIN jobs
  BY <1>3, <1>5, FinishedJobs DEF CompareTypes, Terminal
<1>7. entries' \in [DOMAIN entries' -> Entry] /\ DOMAIN entries' = {}
  BY <1>2, NoEntries
<1>8. CompareTypes'
  BY <1>1, <1>3, <1>6, <1>7 DEF CompareTypes
<1>9. RunsInv' /\ runs'[i] = NoRun
  BY <1>1, <1>2, <1>3, RunsChange DEF CompareTypes, RunsInv
<1>10. CurrentInv'
  BY <1>1, <1>5, <1>9 DEF CurrentInv, Loading, Busy, NoRun
<1>11. EntriesInv' /\ SpinnerInv'
  BY <1>1, <1>3, <1>4, <1>7 DEF EntriesInv, SpinnerInv
<1> QED
  BY <1>8, <1>9, <1>10, <1>11 DEF CompareInv

\* A run that is not on the screen ends or goes on without changing anything there.
LEMMA LateRunKeeps ==
  ASSUME CompareInv, NEW i \in 1..MaxRuns, i # runId, NEW r,
         runs' = [runs EXCEPT ![i] = r], r = NoRun \/ (i <= runId /\ RunIsSound(r)),
         UNCHANGED <<phase, context, entries, runId, retries, jobVars>>
  PROVE  CompareInv'
<1>1. CompareTypes /\ RunsInv /\ CurrentInv /\ EntriesInv /\ SpinnerInv
  BY DEF CompareInv
<1>2. /\ phase' = phase /\ context' = context /\ entries' = entries /\ runId' = runId
      /\ retries' = retries /\ jobs' = jobs /\ seq' = seq /\ job' = job /\ mountedAt' = mountedAt
  BY DEF jobVars
<1>3. RunsInv' /\ runs'[runId] = runs[runId]
  <2>1. RunsInv' /\ \A k \in 1..MaxRuns : runs'[k] = IF k = i THEN r ELSE runs[k]
    BY <1>1, <1>2, RunsChange DEF CompareTypes, RunsInv
  <2>2. CASE runId \in 1..MaxRuns
    BY <2>1, <2>2
  <2>3. CASE runId \notin 1..MaxRuns
    BY <1>1, <2>1, <2>3 DEF RunsInv
  <2> QED
    BY <2>1, <2>2, <2>3
<1>4. CompareTypes'
  BY <1>1, <1>2 DEF CompareTypes
<1>5. CurrentInv'
  BY <1>1, <1>2, <1>3 DEF CurrentInv, Loading
<1>6. EntriesInv'
  BY <1>1, <1>2 DEF EntriesInv
<1>7. SpinnerInv'
  BY <1>1, <1>2, <1>3 DEF SpinnerInv, Awaited
<1> QED
  BY <1>3, <1>4, <1>5, <1>6, <1>7 DEF CompareInv

LEMMA LateListingKeeps ==
  ASSUME CompareInv, NEW i \in 1..MaxRuns, LateListing(i)
  PROVE  CompareInv'
<1>1. /\ i # runId /\ runs' = [runs EXCEPT ![i] = NoRun]
      /\ UNCHANGED <<phase, context, entries, runId, retries, jobVars>>
  BY DEF LateListing, Late, RunOver, resultVars
<1> QED
  BY <1>1, LateRunKeeps

LEMMA LateAnswerKeeps ==
  ASSUME CompareInv, NEW i \in 1..MaxRuns, NEW t, NEW ok, NEW result,
         Answered(i, t, ok, result), i # runId
  PROVE  CompareInv'
<1> DEFINE out == runs[i].out \ {t}
           failed == runs[i].failed \/ ~ok
           r == [runs[i] EXCEPT !.out = out, !.failed = failed, !.todo = {}]
<1>1. /\ runs[i].stage = "tables"
      /\ UNCHANGED <<phase, context, entries, runId, retries, jobVars>>
  BY DEF Answered, Late, jobVars
<1>2. /\ out # {} => runs' = [runs EXCEPT ![i] = r]
      /\ out = {} => runs' = [runs EXCEPT ![i] = NoRun]
  BY ZenonT(60) DEF Answered, Late, RunOver
<1>3. i <= runId /\ RunIsSound(runs[i])
  BY <1>1 DEF CompareInv, RunsInv, NoRun
<1>4. out # {} => RunIsSound(r)
  BY <1>3 DEF RunIsSound
<1> HIDE DEF r, out, failed
<1>5. CASE out = {}
  BY <1>1, <1>2, <1>5, LateRunKeeps
<1>6. CASE out # {}
  BY <1>1, <1>2, <1>3, <1>4, <1>6, LateRunKeeps
<1> QED
  BY <1>5, <1>6

\* Jobs that are no comparison in progress come, end and go.
LEMMA JobsChange ==
  ASSUME CompareInv, UNCHANGED <<phase, context, entries, runVars, job, mountedAt>>,
         seq' \in Nat, seq <= seq',
         jobs' \in [DOMAIN jobs' -> PanelJob], DOMAIN jobs' \subseteq 1..seq',
         \A id \in DOMAIN jobs :
           id = job => id \in DOMAIN jobs' /\ jobs'[id].status = jobs[id].status
                                           /\ jobs'[id].kind = jobs[id].kind
  PROVE  CompareInv'
<1>1. CompareTypes /\ RunsInv /\ CurrentInv /\ EntriesInv /\ SpinnerInv
  BY DEF CompareInv
<1>2. /\ phase' = phase /\ context' = context /\ entries' = entries /\ runs' = runs
      /\ runId' = runId /\ retries' = retries /\ job' = job /\ mountedAt' = mountedAt
  BY DEF runVars
<1>3. CompareTypes'
  BY <1>1, <1>2 DEF CompareTypes
<1>4. RunsInv' /\ EntriesInv'
  BY <1>1, <1>2 DEF RunsInv, EntriesInv
<1>5. CurrentInv'
  BY <1>1, <1>2 DEF CurrentInv, Loading, IsActive
<1>6. SpinnerInv'
  BY <1>1, <1>2 DEF SpinnerInv, Awaited
<1> QED
  BY <1>3, <1>4, <1>5, <1>6 DEF CompareInv

LEMMA CancelCompareJobKeeps ==
  ASSUME CompareInv, NEW id, CancelCompareJob(id)
  PROVE  CompareInv'
<1>1. /\ id \in DOMAIN jobs /\ jobs' = FinishJob(jobs, id, "cancelled")
      /\ entries' = entries /\ context' = context /\ runs' = runs /\ retries' = retries
      /\ seq' = seq /\ mountedAt' = mountedAt
  BY DEF CancelCompareJob, MayCancel, CancelJob
<1>2. CompareTypes /\ RunsInv /\ CurrentInv /\ EntriesInv
  BY DEF CompareInv
<1>3. /\ jobs' \in [DOMAIN jobs' -> PanelJob] /\ DOMAIN jobs' = DOMAIN jobs
      /\ \A x \in DOMAIN jobs : /\ jobs'[x].kind = jobs[x].kind
                                /\ x # id => jobs'[x].status = jobs[x].status
  <2>1. jobs \in [DOMAIN jobs -> PanelJob] /\ "cancelled" \in Terminal
    BY <1>2 DEF CompareTypes, Terminal
  <2>2. jobs' \in [DOMAIN jobs' -> PanelJob] /\ DOMAIN jobs' = DOMAIN jobs
    BY <1>1, <2>1, FinishedJobs
  <2>3. \A x \in DOMAIN jobs : /\ jobs'[x].kind = jobs[x].kind
                               /\ x # id => jobs'[x].status = jobs[x].status
    BY <1>1, <2>1, FinishedJobs
  <2> QED
    BY <2>2, <2>3
<1>4. CASE Loading /\ id > mountedAt
  <2>1. runId < MaxRuns /\ runId' = runId + 1 /\ phase' = "cancelled" /\ job' = None
    BY <1>4 DEF CancelCompareJob
  <2>2. CompareTypes'
    BY <1>1, <1>2, <1>3, <2>1 DEF CompareTypes
  <2>3. RunsInv' /\ runs'[runId'] = NoRun
    BY <1>1, <1>2, <2>1, CompareAssumption DEF CompareTypes, RunsInv
  <2>4. CurrentInv'
    BY <2>1, <2>3 DEF CurrentInv, Loading, Busy, NoRun
  <2>5. EntriesInv' /\ SpinnerInv'
    BY <1>1, <1>2, <2>1 DEF EntriesInv, SpinnerInv, CompareTypes
  <2> QED
    BY <2>2, <2>3, <2>4, <2>5 DEF CompareInv
<1>5. CASE ~(Loading /\ id > mountedAt)
  <2>1. runId' = runId /\ phase' = phase /\ job' = job
    BY <1>5 DEF CancelCompareJob
  <2>2. \A x \in DOMAIN jobs : x = job => x # id
    BY <1>2, <1>5, UnsetAssumption DEF CurrentInv, CompareTypes
  <2>3. \A x \in DOMAIN jobs : x = job => x \in DOMAIN jobs' /\ jobs'[x].status = jobs[x].status
                                                           /\ jobs'[x].kind = jobs[x].kind
    BY <1>3, <2>2
  <2>4. UNCHANGED <<phase, context, entries, runVars, job, mountedAt>>
    BY <1>1, <2>1 DEF runVars
  <2>5. seq' \in Nat /\ seq <= seq' /\ DOMAIN jobs' \subseteq 1..seq'
    BY <1>1, <1>2, <1>3 DEF CompareTypes
  <2> QED
    BY <1>3, <2>3, <2>4, <2>5, JobsChange
<1> QED
  BY <1>4, <1>5

LEMMA CloseTabKeeps == ASSUME CompareInv, CloseTab PROVE CompareInv'
<1>1. /\ runId < MaxRuns /\ runId' = runId + 1 /\ phase' = "idle" /\ job' = None
      /\ mountedAt' = seq /\ seq' = seq /\ jobs' = jobs /\ runs' = runs /\ retries' = retries
      /\ entries' = [t \in {} |-> 0]
  BY DEF CloseTab, FreshResults
<1>2. CompareTypes /\ RunsInv /\ EntriesInv
  BY DEF CompareInv
<1>3. entries' \in [DOMAIN entries' -> Entry] /\ DOMAIN entries' = {}
  BY <1>1, NoEntries
<1>4. CompareTypes'
  BY <1>1, <1>2, <1>3 DEF CompareTypes
<1>5. RunsInv' /\ runs'[runId'] = NoRun
  BY <1>1, <1>2, CompareAssumption DEF CompareTypes, RunsInv
<1>6. CurrentInv'
  BY <1>1, <1>5 DEF CurrentInv, Loading, Busy, NoRun
<1>7. EntriesInv' /\ SpinnerInv'
  BY <1>1, <1>2, <1>3 DEF EntriesInv, SpinnerInv, CompareTypes
<1> QED
  BY <1>4, <1>5, <1>6, <1>7 DEF CompareInv

LEMMA ResultsAreSound ==
  ASSUME NEW data, NEW ok, NEW r \in IF ok THEN Comparison(data) ELSE {NoComparison}
  PROVE  Result(IF ok THEN r ELSE NoComparison)
<1>1. Result(NoComparison)
  BY DEF Result, NoComparison
<1>2. CASE ok
  <2>1. r \in Comparison(data)
    BY <1>2
  <2>2. Result(r)
    BY <2>1 DEF Result, Comparison
  <2> QED
    BY <1>2, <2>2
<1>3. CASE ~ok
  BY <1>1, <1>3
<1> QED
  BY <1>2, <1>3

\* The answer for a table of the comparison on the screen.
LEMMA TableAnswerKeeps ==
  ASSUME CompareInv, NEW i \in 1..MaxRuns, NEW t \in runs[i].out, NEW ok, NEW result,
         Answered(i, t, ok, result), i = runId, Result(IF ok THEN result ELSE NoComparison)
  PROVE  CompareInv'
<1> DEFINE todo == runs[i].todo
           next == IF todo = {} THEN {} ELSE {First(todo)}
           out == (runs[i].out \ {t}) \cup next
           failed == runs[i].failed \/ ~ok
           status == IF ok THEN "done" ELSE "error"
           found == IF ok THEN result ELSE NoComparison
           settled == UpdateEntry(entries, t, status, found)
           r == [runs[i] EXCEPT !.out = out, !.failed = failed, !.todo = todo \ next]
<1>1. /\ runs[i].stage = "tables" /\ context' = context /\ runId' = runId /\ retries' = retries
      /\ seq' = seq /\ mountedAt' = mountedAt
  BY DEF Answered
<1>2. entries' = [x \in DOMAIN settled |->
                    IF x \in next THEN [settled[x] EXCEPT !.status = "comparing"] ELSE settled[x]]
  BY DEF Answered, Late
<1>3. /\ out # {} => /\ runs' = [runs EXCEPT ![i] = r]
                     /\ phase' = phase /\ job' = job /\ jobs' = jobs
      /\ out = {} => /\ runs' = [runs EXCEPT ![i] = NoRun] /\ phase' = "done"
                     /\ \E s \in {"done", "error"} : Finish(i, s)
  <2>1. ASSUME out # {} PROVE /\ runs' = [runs EXCEPT ![i] = r]
                              /\ phase' = phase /\ job' = job /\ jobs' = jobs
    <3>1. /\ runs' = [runs EXCEPT ![i].out = out, ![i].failed = failed, ![i].todo = todo \ next]
          /\ UNCHANGED <<phase, job, jobs>>
      BY <2>1 DEF Answered, Late
    <3> QED
      BY ZenonT(60), <3>1
  <2>2. ASSUME out = {} PROVE /\ runs' = [runs EXCEPT ![i] = NoRun] /\ phase' = "done"
                              /\ Finish(i, IF failed THEN "error" ELSE "done")
    BY <2>2 DEF Answered, Late, RunOver
  <2> HIDE DEF out, failed, r
  <2> QED
    BY <2>1, <2>2
<1>4. CompareTypes /\ RunsInv /\ CurrentInv /\ EntriesInv /\ SpinnerInv
  BY DEF CompareInv
<1>5. /\ job = runs[i].job /\ runs[i].ctx = context /\ RunIsSound(runs[i])
      /\ phase = "comparing"
  BY <1>1, Screen
<1>6. next \subseteq todo /\ (todo # {} => next # {})
  BY SMTT(60), <1>5, FirstBelongs DEF RunIsSound
<1>7. out # {} => RunIsSound(r) /\ r.stage = "tables" /\ r.out = out /\ r.todo = todo \ next
                  /\ r.job = runs[i].job /\ r.ctx = runs[i].ctx
  BY ZenonT(60), <1>1, <1>5, <1>6 DEF RunIsSound
<1>8. /\ settled \in [DOMAIN entries -> Entry]
      /\ \A x \in DOMAIN entries : IF x = t THEN settled[x].status \in {"done", "error"}
                                   ELSE settled[x] = entries[x]
  <2>1. Result(found) /\ status \in {"done", "error"} /\ entries \in [DOMAIN entries -> Entry]
    BY <1>4 DEF CompareTypes
  <2>2. settled = UpdateEntry(entries, t, status, found)
    OBVIOUS
  <2> HIDE DEF found, status, settled, next, todo, out, failed, r
  <2>3. settled \in [DOMAIN entries -> Entry]
    BY <2>1, <2>2, UpdatedEntries
  <2>4. \A x \in DOMAIN entries : IF x = t THEN settled[x].status \in {"done", "error"}
                                 ELSE settled[x] = entries[x]
    BY SMTT(60), <2>1, <2>2, UpdatedEntries
  <2> QED
    BY <2>3, <2>4
<1> HIDE DEF settled, r, failed
<1>9. /\ entries' \in [DOMAIN entries' -> Entry] /\ DOMAIN entries' = DOMAIN entries
      /\ \A x \in DOMAIN entries : x \notin next => entries'[x] = settled[x]
  <2>1. settled \in [DOMAIN settled -> Entry] /\ DOMAIN settled = DOMAIN entries
    BY <1>8
  <2> HIDE DEF next
  <2>2. /\ entries' \in [DOMAIN entries' -> Entry] /\ DOMAIN entries' = DOMAIN settled
        /\ \A x \in DOMAIN settled : x \notin next => entries'[x] = settled[x]
    BY ZenonT(60), <1>2, <2>1, MarkedEntries
  <2> QED
    BY <2>1, <2>2
\* A table that still waits has not been answered for.
<1>10. \A x \in DOMAIN entries :
         entries'[x].status \in {"queued", "comparing"} /\ x \notin next
           => x # t /\ entries[x].status \in {"queued", "comparing"}
  BY <1>8, <1>9
<1>11. \A x \in DOMAIN entries :
         entries'[x].status \in {"queued", "comparing"}
           => x \in out \cup (todo \ next) \/ \E q \in retries : q.table = x /\ q.run = runId
  <2>1. \A x \in DOMAIN entries :
          entries[x].status \in {"queued", "comparing"} /\ x # t
            => x \in (runs[i].out \ {t}) \cup todo \/ \E q \in retries : q.table = x /\ q.run = runId
    BY <1>4, <1>5 DEF SpinnerInv, Awaited
  <2> QED
    BY <1>6, <1>10, <2>1
<1>12. EntriesInv'
  BY <1>1, <1>3, <1>4, <1>5 DEF EntriesInv
<1>13. CASE out # {}
  <2>1. CompareTypes'
    BY <1>1, <1>3, <1>4, <1>9, <1>13 DEF CompareTypes
  <2>2. RunsInv' /\ runs'[i] = r
    BY <1>1, <1>3, <1>4, <1>7, <1>13, RunsChange DEF CompareTypes, RunsInv
  <2>3. CurrentInv'
    BY <1>1, <1>3, <1>4, <1>5, <1>7, <1>13, <2>2 DEF CurrentInv, Loading, Busy
  <2>4. runId' > 0 /\ runs'[runId'].stage = "tables" /\ runs'[runId'].out = out
        /\ runs'[runId'].todo = todo \ next
    BY <1>1, <1>7, <1>13, <2>2
  <2> HIDE DEF out, next, todo
  <2>5. SpinnerInv'
    BY <1>1, <1>9, <1>11, <1>13, <2>4 DEF SpinnerInv, Awaited
  <2> QED
    BY <1>12, <2>1, <2>2, <2>3, <2>5 DEF CompareInv
<1>14. CASE out = {}
  <2>1. PICK s \in {"done", "error"} : Finish(i, s)
    BY <1>3, <1>14
  <2>2. job' = None /\ jobs' = FinishJob(jobs, job, s)
    BY <1>5, <2>1 DEF Finish
  <2>3. jobs' \in [DOMAIN jobs' -> PanelJob] /\ DOMAIN jobs' = DOMAIN jobs
    BY <1>4, <2>2, FinishedJobs DEF CompareTypes, Terminal
  <2>4. runs' = [runs EXCEPT ![i] = NoRun] /\ phase' = "done"
    BY <1>3, <1>14
  <2>5. CompareTypes'
    BY <1>1, <1>4, <1>9, <2>3, <2>4 DEF CompareTypes
  <2>6. RunsInv' /\ runs'[i] = NoRun
    BY <1>1, <1>4, <2>4, RunsChange DEF CompareTypes, RunsInv
  <2>7. CurrentInv'
    BY <1>1, <2>2, <2>4, <2>6 DEF CurrentInv, Loading, Busy, NoRun
  <2>8. out \cup (todo \ next) = {}
    BY <1>6, <1>14
  <2> HIDE DEF out, next, todo
  <2>9. SpinnerInv'
    BY <1>1, <1>9, <1>11, <2>8 DEF SpinnerInv, Awaited
  <2> QED
    BY <1>12, <2>5, <2>6, <2>7, <2>9 DEF CompareInv
<1> QED
  BY SMTT(60), <1>13, <1>14

\* The entries change while the runs and the jobs stay what they are: what still waits is
\* what it was or is being retried, and what is no longer retried has its answer.
RetriesAreNew ==
  \A q \in retries' :
    q \in retries \/ (q.run = runId /\ q.ctx = context /\ DOMAIN entries # {})
RetriesAreOver ==
  \A q \in retries :
    \/ q \in retries' \/ q.run # runId \/ q.table \notin DOMAIN entries'
    \/ entries'[q.table].status \in {"done", "error"}
EntriesAreSettled ==
  \A x \in DOMAIN entries' :
    \/ entries'[x] = entries[x] \/ entries'[x].status \in {"done", "error"}
    \/ \E q \in retries' : q.table = x /\ q.run = runId

LEMMA EntriesChange ==
  ASSUME CompareInv, UNCHANGED <<phase, context, runs, runId, jobVars>>,
         entries' \in [DOMAIN entries' -> Entry], DOMAIN entries' \subseteq DOMAIN entries,
         RetriesAreNew, RetriesAreOver, EntriesAreSettled
  PROVE  CompareInv'
<1>1. CompareTypes /\ RunsInv /\ CurrentInv /\ EntriesInv /\ SpinnerInv
  BY DEF CompareInv
<1>2. /\ phase' = phase /\ context' = context /\ runs' = runs /\ runId' = runId /\ jobs' = jobs
      /\ seq' = seq /\ job' = job /\ mountedAt' = mountedAt
  BY DEF jobVars
<1>3. CompareTypes'
  BY <1>1, <1>2 DEF CompareTypes
<1>4. RunsInv' /\ CurrentInv'
  BY <1>1, <1>2 DEF RunsInv, CurrentInv, Loading
<1>5. EntriesInv'
  BY <1>1, <1>2 DEF EntriesInv, CompareTypes, RetriesAreNew
<1>6. ASSUME NEW x \in DOMAIN entries', entries'[x].status \in {"queued", "comparing"},
             phase # "cancelled"
      PROVE  Awaited(x)'
  <2>1. CASE \E q \in retries' : q.table = x /\ q.run = runId
    BY <1>2, <2>1 DEF Awaited
  <2>2. CASE entries'[x] = entries[x]
    <3>1. Awaited(x)
      BY <1>1, <1>6, <2>2 DEF SpinnerInv
    <3> QED
      BY <1>2, <1>6, <3>1 DEF Awaited, RetriesAreOver
  <2> QED
    BY <1>6, <2>1, <2>2 DEF EntriesAreSettled
<1>7. SpinnerInv'
  BY <1>2, <1>6 DEF SpinnerInv
<1> QED
  BY <1>3, <1>4, <1>5, <1>7 DEF CompareInv

LEMMA RetryTableKeeps == ASSUME CompareInv, NEW t, RetryTable(t) PROVE CompareInv'
<1>1. /\ t \in DOMAIN entries /\ entries' = [entries EXCEPT ![t].status = "comparing"]
      /\ retries' = retries \cup {[run |-> runId, table |-> t, ctx |-> context]}
      /\ UNCHANGED <<phase, context, runs, runId, jobVars>>
  BY DEF RetryTable
<1>2. entries \in [DOMAIN entries -> Entry]
  BY DEF CompareInv, CompareTypes
<1>3. /\ entries' \in [DOMAIN entries' -> Entry] /\ DOMAIN entries' = DOMAIN entries
      /\ \A x \in DOMAIN entries' : x # t => entries'[x] = entries[x]
  <2> DEFINE e == [entries[t] EXCEPT !.status = "comparing"]
  <2>1. e \in Entry
    BY <1>1, <1>2 DEF Entry
  <2>2. entries' = [x \in DOMAIN entries |-> IF x = t THEN e ELSE entries[x]]
    BY <1>1, <1>2
  <2> HIDE DEF e
  <2> QED
    BY <1>2, <2>1, <2>2
<1>4. EntriesAreSettled
  <2> DEFINE q == [run |-> runId, table |-> t, ctx |-> context]
  <2>1. q \in retries' /\ q.table = t /\ q.run = runId
    BY <1>1
  <2> QED
    BY <1>3, <2>1 DEF EntriesAreSettled
<1>5. RetriesAreNew
  <2>1. ASSUME NEW q \in retries', q \notin retries PROVE q.run = runId /\ q.ctx = context
    BY <1>1, <2>1
  <2>2. DOMAIN entries # {}
    BY <1>1
  <2> QED
    BY <2>1, <2>2 DEF RetriesAreNew
<1>6. RetriesAreOver
  BY <1>1 DEF RetriesAreOver
<1>7. UNCHANGED <<phase, context, runs, runId, jobVars>>
  BY <1>1
<1> QED
  BY <1>3, <1>4, <1>5, <1>6, <1>7, EntriesChange

LEMMA RetryAnsweredKeeps ==
  ASSUME CompareInv, NEW r, NEW ok, NEW result, RetryAnswered(r, ok, result),
         Result(IF ok THEN result ELSE NoComparison)
  PROVE  CompareInv'
<1> DEFINE status == IF ok THEN "done" ELSE "error"
           found == IF ok THEN result ELSE NoComparison
<1>1. /\ r \in retries /\ retries' = retries \ {r}
      /\ r.run # runId => entries' = entries
      /\ r.run = runId => entries' = UpdateEntry(entries, r.table, status, found)
      /\ UNCHANGED <<phase, context, runs, runId, jobVars>>
  BY DEF RetryAnswered, Late
<1>2. entries \in [DOMAIN entries -> Entry]
  BY DEF CompareInv, CompareTypes
<1>3. Result(found) /\ status \in {"done", "error"}
  OBVIOUS
<1> HIDE DEF found, status
<1>4. UNCHANGED <<phase, context, runs, runId, jobVars>>
  BY <1>1
<1>5. RetriesAreNew
  BY <1>1 DEF RetriesAreNew
<1>6. \/ entries' = entries /\ r.run # runId
      \/ /\ entries' \in [DOMAIN entries -> Entry]
         /\ \A x \in DOMAIN entries :
              IF x = r.table THEN entries'[x].status \in {"done", "error"}
              ELSE entries'[x] = entries[x]
  <2>1. CASE r.run # runId
    BY <1>1, <2>1
  <2>2. CASE r.run = runId
    <3>1. entries' = UpdateEntry(entries, r.table, status, found)
      BY <1>1, <2>2
    <3> QED
      BY <1>2, <1>3, <3>1, UpdatedEntries
  <2> QED
    BY <2>1, <2>2
<1>7. entries' \in [DOMAIN entries' -> Entry] /\ DOMAIN entries' \subseteq DOMAIN entries
  BY <1>2, <1>6
<1>8. RetriesAreOver
  BY <1>1, <1>6, <1>7 DEF RetriesAreOver
<1>9. EntriesAreSettled
  BY <1>2, <1>6 DEF EntriesAreSettled
<1> QED
  BY <1>4, <1>5, <1>7, <1>8, <1>9, EntriesChange

LEMMA TableDroppedKeeps ==
  ASSUME CompareInv, NEW at, NEW t, TableDropped(at, t)
  PROVE  CompareInv'
<1>1. /\ entries' = entries \/ entries' = Restrict(entries, DOMAIN entries \ {t})
      /\ UNCHANGED <<phase, context, runs, runId, retries, jobVars>>
  BY DEF TableDropped, runVars
<1>2. entries \in [DOMAIN entries -> Entry]
  BY DEF CompareInv, CompareTypes
<1>3. /\ entries' \in [DOMAIN entries' -> Entry] /\ DOMAIN entries' \subseteq DOMAIN entries
      /\ \A x \in DOMAIN entries' : entries'[x] = entries[x]
  BY <1>1, <1>2 DEF Restrict
<1>4. UNCHANGED <<phase, context, runs, runId, jobVars>> /\ retries' = retries
  BY <1>1
<1>5. RetriesAreNew /\ RetriesAreOver /\ EntriesAreSettled
  BY <1>3, <1>4 DEF RetriesAreNew, RetriesAreOver, EntriesAreSettled
<1> QED
  BY <1>3, <1>4, <1>5, EntriesChange

-----------------------------------------------------------------------------
(* Every step of the panel                                                 *)

Quiet == OpenSync \/ FormActions \/ BrowseActions
PanelNext ==
  \/ RunAnswers \/ RetryAnswers \/ RunCompare \/ CloseTab
  \/ \E id \in DOMAIN jobs : CancelCompareJob(id)
  \/ \E t \in Names : RetryTable(t)
  \/ \E t \in Names, at \in Endpoints : TableDropped(at, t)
  \/ Quiet

\* The form and the tabs change nothing that the runs, the jobs and the results are.
LEMMA QuietSteps == ASSUME Quiet PROVE UNCHANGED panelVars
<1> USE DEF panelVars, resultVars, runVars
<1>1. CASE OpenSync
  BY <1>1 DEF OpenSync
<1>2. CASE FormActions
  BY <1>2 DEF FormActions, ChooseConnection, ChooseDatabase, SwapEndpoints, PickHistory,
              ForgetHistory, Prefill, ConnectionsReady, DatabasesListed, Edited
<1>3. CASE BrowseActions
  <2>1. (\E p, b : Browse(p, b)) => UNCHANGED panelVars
    BY DEF Browse
  <2> QED
    BY <1>3, <2>1 DEF BrowseActions, SelectTab, SetFilter, SetSearch, SelectTable,
                      ToggleCompareRows, ToggleSetup, ToggleShowAll, ShowRowDiffs, SetConcurrency
<1> QED
  BY <1>1, <1>2, <1>3 DEF Quiet

LEMMA RunAnswersAre ==
  ASSUME RunAnswers
  PROVE  \E i \in 1..MaxRuns :
           \/ \E l \in Listings : TablesListed(i, l)
           \/ ListingFailed(i)
           \/ LateListing(i)
           \/ \E t \in runs[i].out : \E ok, r :
                Answered(i, t, ok, r) /\ Result(IF ok THEN r ELSE NoComparison)
<1>1. PICK i \in 1..MaxRuns :
        \/ \E l \in Listings : TablesListed(i, l)
        \/ ListingFailed(i)
        \/ LateListing(i)
        \/ \E t \in runs[i].out, ok \in BOOLEAN :
             \E r \in IF ok THEN Comparison(runs[i].ctx.data) ELSE {NoComparison} :
               Answered(i, t, ok, r)
  BY DEF RunAnswers
<1>2. ASSUME NEW t \in runs[i].out, NEW ok \in BOOLEAN,
             NEW r \in IF ok THEN Comparison(runs[i].ctx.data) ELSE {NoComparison},
             Answered(i, t, ok, r)
      PROVE  \E u \in runs[i].out : \E good, x :
               Answered(i, u, good, x) /\ Result(IF good THEN x ELSE NoComparison)
  <2>1. Result(IF ok THEN r ELSE NoComparison)
    BY ResultsAreSound
  <2> QED
    BY <1>2, <2>1
<1> QED
  BY <1>1, <1>2

LEMMA RetryAnswersAre ==
  ASSUME RetryAnswers
  PROVE  \E q, ok, r : RetryAnswered(q, ok, r) /\ Result(IF ok THEN r ELSE NoComparison)
<1>1. PICK q \in retries, ok \in BOOLEAN :
        \E x \in IF ok THEN Comparison(q.ctx.data) ELSE {NoComparison} : RetryAnswered(q, ok, x)
  BY DEF RetryAnswers
<1>2. PICK r \in IF ok THEN Comparison(q.ctx.data) ELSE {NoComparison} : RetryAnswered(q, ok, r)
  BY <1>1
<1>3. Result(IF ok THEN r ELSE NoComparison)
  BY ResultsAreSound
<1> QED
  BY <1>2, <1>3

LEMMA PanelKeeps == ASSUME CompareInv, PanelNext PROVE CompareInv'
<1>1. CASE RunAnswers
  <2>1. PICK i \in 1..MaxRuns :
          \/ \E l \in Listings : TablesListed(i, l)
          \/ ListingFailed(i)
          \/ LateListing(i)
          \/ \E t \in runs[i].out : \E ok, r :
               Answered(i, t, ok, r) /\ Result(IF ok THEN r ELSE NoComparison)
    BY <1>1, RunAnswersAre
  <2>2. CASE \E l \in Listings : TablesListed(i, l)
    BY <2>2, TablesListedKeeps
  <2>3. CASE ListingFailed(i)
    BY <2>3, ListingFailedKeeps
  <2>4. CASE LateListing(i)
    BY <2>4, LateListingKeeps
  <2>5. ASSUME NEW t \in runs[i].out, NEW ok, NEW r, Answered(i, t, ok, r),
               Result(IF ok THEN r ELSE NoComparison)
        PROVE  CompareInv'
    <3>1. CASE i = runId
      BY <2>5, <3>1, TableAnswerKeeps
    <3>2. CASE i # runId
      BY <2>5, <3>2, LateAnswerKeeps
    <3> QED
      BY <3>1, <3>2
  <2> QED
    BY <2>1, <2>2, <2>3, <2>4, <2>5
<1>2. CASE RetryAnswers
  <2>1. PICK q, ok, r : RetryAnswered(q, ok, r) /\ Result(IF ok THEN r ELSE NoComparison)
    BY <1>2, RetryAnswersAre
  <2> QED
    BY <2>1, RetryAnsweredKeeps
<1>3. CASE RunCompare
  BY <1>3, RunCompareKeeps
<1>4. CASE CloseTab
  BY <1>4, CloseTabKeeps
<1>5. CASE \E id \in DOMAIN jobs : CancelCompareJob(id)
  BY <1>5, CancelCompareJobKeeps
<1>6. CASE \E t \in Names : RetryTable(t)
  BY <1>6, RetryTableKeeps
<1>7. CASE \E t \in Names, at \in Endpoints : TableDropped(at, t)
  BY <1>7, TableDroppedKeeps
<1>8. CASE Quiet
  BY <1>8, QuietSteps, CompareRests
<1> QED
  BY <1>1, <1>2, <1>3, <1>4, <1>5, <1>6, <1>7, <1>8 DEF PanelNext

\* What the panel may do to the jobs: it starts its own, and ends one that is active.
JobsStep ==
  /\ seq <= seq'
  /\ \A id \in DOMAIN jobs' :
       IF id \in DOMAIN jobs
       THEN /\ jobs'[id].kind = jobs[id].kind
            /\ jobs[id].kind = "sync" \/ ~IsActive(jobs[id]) => jobs'[id].status = jobs[id].status
       ELSE id > seq /\ jobs'[id].kind = "compare"

LEMMA EndedJobs ==
  ASSUME CompareInv, NEW id, NEW status \in Terminal, jobs' = FinishJob(jobs, id, status),
         seq' = seq, id \in DOMAIN jobs => IsActive(jobs[id]) /\ jobs[id].kind = "compare"
  PROVE  JobsStep
<1>1. seq \in Nat /\ jobs \in [DOMAIN jobs -> PanelJob]
  BY DEF CompareInv, CompareTypes
<1>2. DOMAIN jobs' = DOMAIN jobs
  BY <1>1, FinishedJobs
<1>3. \A x \in DOMAIN jobs : /\ jobs'[x].kind = jobs[x].kind
                             /\ jobs'[x].status = IF x = id THEN status ELSE jobs[x].status
  BY <1>1, FinishedJobs
<1> QED
  BY <1>1, <1>2, <1>3 DEF JobsStep, IsActive

LEMMA FinishSteps ==
  ASSUME CompareInv, NEW i, NEW status \in Terminal, Finish(i, status), seq' = seq
  PROVE  JobsStep
<1>1. CASE job = runs[i].job
  <2>1. jobs' = FinishJob(jobs, job, status)
    BY <1>1 DEF Finish
  <2>2. job \in DOMAIN jobs => IsActive(jobs[job]) /\ jobs[job].kind = "compare"
    BY UnsetAssumption DEF CompareInv, CurrentInv, CompareTypes
  <2> QED
    BY <2>1, <2>2, EndedJobs
<1>2. CASE job # runs[i].job
  BY <1>2 DEF Finish, JobsStep, CompareInv, CompareTypes
<1> QED
  BY <1>1, <1>2

LEMMA SameJobs == ASSUME CompareInv, jobs' = jobs, seq' = seq PROVE JobsStep
  BY DEF JobsStep, CompareInv, CompareTypes

LEMMA PanelJobs == ASSUME CompareInv, PanelNext PROVE JobsStep
<1>0. "done" \in Terminal /\ "error" \in Terminal /\ "cancelled" \in Terminal
  BY DEF Terminal
<1>1. CASE RunAnswers
  <2>1. PICK i \in 1..MaxRuns :
          \/ \E l \in Listings : TablesListed(i, l)
          \/ ListingFailed(i)
          \/ LateListing(i)
          \/ \E t \in runs[i].out : \E ok, r : Answered(i, t, ok, r)
    BY <1>1, RunAnswersAre
  <2>2. ASSUME NEW l \in Listings, TablesListed(i, l) PROVE JobsStep
    <3>1. seq' = seq /\ (jobs' = jobs \/ Finish(i, "done"))
      BY <2>2 DEF TablesListed
    <3> QED
      BY <1>0, <3>1, SameJobs, FinishSteps
  <2>3. CASE ListingFailed(i)
    <3>1. seq' = seq /\ Finish(i, "error")
      BY <2>3 DEF ListingFailed
    <3> QED
      BY <1>0, <3>1, FinishSteps
  <2>4. CASE LateListing(i)
    BY <2>4, SameJobs DEF LateListing, jobVars
  <2>5. ASSUME NEW t \in runs[i].out, NEW ok, NEW r, Answered(i, t, ok, r) PROVE JobsStep
    <3>1. seq' = seq /\ (jobs' = jobs \/ Finish(i, "done") \/ Finish(i, "error"))
      BY <2>5 DEF Answered
    <3> QED
      BY SMTT(60), <1>0, <3>1, SameJobs, FinishSteps
  <2> QED
    BY <2>1, <2>2, <2>3, <2>4, <2>5
<1>2. CASE RetryAnswers
  BY <1>2, SameJobs DEF RetryAnswers, RetryAnswered, jobVars
<1>3. CASE RunCompare
  <2>1. seq' = seq + 1 /\ jobs' = StartJob(jobs, seq + 1, "compare", "diff")
    BY <1>3 DEF RunCompare
  <2>2. seq \in Nat /\ jobs \in [DOMAIN jobs -> PanelJob] /\ DOMAIN jobs \subseteq 1..seq
    BY DEF CompareInv, CompareTypes
  <2>3. DOMAIN jobs' = DOMAIN jobs \cup {seq + 1}
    BY <2>1, <2>2, StartedJobs
  <2>4. jobs'[seq + 1].kind = "compare"
    BY <2>1, <2>2, StartedJob
  <2>5. \A id \in DOMAIN jobs : jobs'[id] = jobs[id]
    BY <2>1, <2>2, StartedJob
  <2> QED
    BY <2>1, <2>2, <2>3, <2>4, <2>5 DEF JobsStep
<1>4. CASE CloseTab
  BY <1>4, SameJobs DEF CloseTab
<1>5. CASE \E id \in DOMAIN jobs : CancelCompareJob(id)
  <2>1. PICK id \in DOMAIN jobs : CancelCompareJob(id)
    BY <1>5
  <2>2. /\ jobs' = FinishJob(jobs, id, "cancelled") /\ seq' = seq
        /\ IsActive(jobs[id]) /\ jobs[id].kind = "compare"
    BY <2>1 DEF CancelCompareJob, CancelJob, MayCancel
  <2> QED
    BY <1>0, <2>2, EndedJobs
<1>6. CASE \E t \in Names : RetryTable(t)
  BY <1>6, SameJobs DEF RetryTable, jobVars
<1>7. CASE \E t \in Names, at \in Endpoints : TableDropped(at, t)
  BY <1>7, SameJobs DEF TableDropped, jobVars
<1>8. CASE Quiet
  BY <1>8, QuietSteps, SameJobs DEF panelVars, jobVars
<1> QED
  BY <1>1, <1>2, <1>3, <1>4, <1>5, <1>6, <1>7, <1>8 DEF PanelNext

\* A dialog is opened over results that are complete, and they stay complete under it.
LEMMA PanelScreen ==
  ASSUME CompareInv, PanelNext, Mounted => phase = "done", Mounted'
  PROVE  phase' = "done"
<1>1. CASE showSync' = showSync /\ context' = context /\ phase' = phase
  BY <1>1 DEF Mounted, HasDiff
<1>2. CASE RunAnswers
  <2>1. PICK i \in 1..MaxRuns :
          \/ \E l \in Listings : TablesListed(i, l)
          \/ ListingFailed(i)
          \/ LateListing(i)
          \/ \E t \in runs[i].out : \E ok, r : Answered(i, t, ok, r)
    BY <1>2, RunAnswersAre
  <2>2. ASSUME NEW l \in Listings, TablesListed(i, l) PROVE phase' = "done"
    <3>1. runs[i].stage = "listing" /\ i = runId /\ showSync' = showSync /\ context' = context
      BY <2>2 DEF TablesListed
    <3>2. phase = "loading-tables"
      BY <3>1, Screen
    <3> QED
      BY <3>1, <3>2 DEF Mounted, HasDiff
  <2>3. CASE ListingFailed(i)
    BY <2>3 DEF ListingFailed, Mounted, HasDiff
  <2>4. CASE LateListing(i)
    BY <1>1, <2>4 DEF LateListing, resultVars
  <2>5. ASSUME NEW t \in runs[i].out, NEW ok, NEW r, Answered(i, t, ok, r)
        PROVE  phase' = "done"
    <3>1. /\ runs[i].stage = "tables" /\ showSync' = showSync /\ context' = context
          /\ i # runId => phase' = phase
      BY <2>5 DEF Answered, Late
    <3>2. CASE i = runId
      <4>1. phase = "comparing"
        BY <3>1, <3>2, Screen
      <4> QED
        BY <3>1, <4>1 DEF Mounted, HasDiff
    <3>3. CASE i # runId
      BY <1>1, <3>1, <3>3
    <3> QED
      BY SMTT(60), <3>2, <3>3
  <2> QED
    BY <2>1, <2>2, <2>3, <2>4, <2>5
<1>3. CASE RetryAnswers
  BY <1>1, <1>3 DEF RetryAnswers, RetryAnswered
<1>4. CASE RunCompare \/ CloseTab
  BY <1>4 DEF RunCompare, CloseTab, FreshResults, Mounted
<1>5. CASE \E id \in DOMAIN jobs : CancelCompareJob(id)
  <2>1. PICK id \in DOMAIN jobs : CancelCompareJob(id)
    BY <1>5
  <2>2. showSync' = showSync /\ context' = context /\ (phase' = phase \/ Loading)
    BY <2>1 DEF CancelCompareJob
  <2>3. CASE Loading
    BY <2>2, <2>3 DEF Mounted, HasDiff, Loading, Busy
  <2> QED
    BY <1>1, <2>2, <2>3
<1>6. CASE \E t \in Names : RetryTable(t)
  BY <1>1, <1>6 DEF RetryTable
<1>7. CASE \E t \in Names, at \in Endpoints : TableDropped(at, t)
  BY <1>1, <1>7 DEF TableDropped
<1>8. CASE OpenSync
  BY SMTT(60), <1>8 DEF OpenSync, CanPlanSync
<1>9. CASE FormActions
  BY <1>1, <1>9 DEF FormActions, ChooseConnection, ChooseDatabase, SwapEndpoints, PickHistory,
              ForgetHistory, Prefill, ConnectionsReady, DatabasesListed, Edited, resultVars
<1>10. CASE BrowseActions
  <2>1. (\E p, b : Browse(p, b)) => showSync' = showSync /\ context' = context /\ phase' = phase
    BY DEF Browse, resultVars
  <2> QED
    BY <1>1, <1>10, <2>1 DEF BrowseActions, SelectTab, SetFilter, SetSearch, SelectTable,
                      ToggleCompareRows, ToggleSetup, ToggleShowAll, ShowRowDiffs, SetConcurrency
<1> QED
  BY <1>2, <1>3, <1>4, <1>5, <1>6, <1>7, <1>8, <1>9, <1>10 DEF PanelNext, Quiet

\* A result that is new on the screen is the answer to a request made for the screen.
ResultsStep ==
  \A t \in DOMAIN entries \cap DOMAIN entries' :
    entries[t].status # entries'[t].status /\ entries'[t].status \in {"done", "error"}
      => AnsweredBy(t)

LEMMA AnsweredStep ==
  ASSUME CompareInv, NEW i \in 1..MaxRuns, NEW t \in runs[i].out, NEW ok, NEW result,
         Answered(i, t, ok, result), i = runId
  PROVE  ResultsStep
<1> DEFINE todo == runs[i].todo
           next == IF todo = {} THEN {} ELSE {First(todo)}
           out == (runs[i].out \ {t}) \cup next
           failed == runs[i].failed \/ ~ok
           status == IF ok THEN "done" ELSE "error"
           found == IF ok THEN result ELSE NoComparison
           settled == UpdateEntry(entries, t, status, found)
<1>1. /\ runs[i].stage = "tables"
      /\ entries' = [x \in DOMAIN settled |->
                       IF x \in next THEN [settled[x] EXCEPT !.status = "comparing"] ELSE settled[x]]
  BY ZenonT(60) DEF Answered, Late
<1>2. \/ out # {} /\ runs' = [runs EXCEPT ![i].out = out, ![i].failed = failed,
                                        ![i].todo = todo \ next]
      \/ runs' = [runs EXCEPT ![i] = NoRun]
  BY DEF Answered, Late, RunOver
<1>3. RunIsSound(runs[i]) /\ runs[i].ctx = context /\ RunsInv
  BY <1>1, Screen DEF CompareInv
<1>4. t \notin next
  BY SMTT(60), <1>3, FirstBelongs DEF RunIsSound
<1>5. \/ runs'[i].stage = "none" \/ t \notin runs'[i].out
  <2>1. t \notin out
    BY <1>4
  <2>2. CASE runs' = [runs EXCEPT ![i] = NoRun]
    BY <1>3, <2>2 DEF RunsInv, NoRun
  <2>3. CASE runs' = [runs EXCEPT ![i].out = out, ![i].failed = failed, ![i].todo = todo \ next]
    <3> DEFINE r == [runs[i] EXCEPT !.out = out, !.failed = failed, !.todo = todo \ next]
    <3>1. runs' = [runs EXCEPT ![i] = r]
      BY <2>3
    <3>2. r.out = out
      BY <1>3 DEF RunIsSound
    <3> HIDE DEF r, out
    <3> QED
      BY <1>3, <2>1, <3>1, <3>2 DEF RunsInv
  <2> QED
    BY <1>2, <2>2, <2>3
<1>6. AnsweredBy(t)
  BY <1>1, <1>3, <1>5 DEF AnsweredBy
<1>7. ASSUME NEW x \in DOMAIN entries \cap DOMAIN entries', x # t,
             entries'[x].status \in {"done", "error"}
      PROVE  entries'[x].status = entries[x].status
  <2>1. entries \in [DOMAIN entries -> Entry]
    BY DEF CompareInv, CompareTypes
  <2>2. settled = entries \/ settled = [entries EXCEPT ![t] = settled[t]]
    BY DEF UpdateEntry
  <2> HIDE DEF settled
  <2>3. x \in DOMAIN settled /\ settled[x] = entries[x]
    BY <1>7, <2>1, <2>2
  <2>4. CASE x \in next
    <3>1. entries'[x].status = "comparing"
      BY <1>1, <2>1, <2>3, <2>4 DEF Entry
    <3> QED
      BY <1>7, <3>1
  <2>5. CASE x \notin next
    BY <1>1, <2>3, <2>5
  <2> QED
    BY <2>4, <2>5
<1> QED
  BY SMTT(60), <1>6, <1>7 DEF ResultsStep

LEMMA PanelResults == ASSUME CompareInv, PanelNext PROVE ResultsStep
<1>1. CASE entries' = entries \/ DOMAIN entries = {} \/ DOMAIN entries' = {}
  BY <1>1 DEF ResultsStep
<1>2. CASE RunAnswers
  <2>1. PICK i \in 1..MaxRuns :
          \/ \E l \in Listings : TablesListed(i, l)
          \/ ListingFailed(i)
          \/ LateListing(i)
          \/ \E t \in runs[i].out : \E ok, r : Answered(i, t, ok, r)
    BY <1>2, RunAnswersAre
  <2>2. CASE \/ \E l \in Listings : TablesListed(i, l)
             \/ ListingFailed(i)
    <3>1. runs[i].stage = "listing" /\ i = runId
      BY <2>2 DEF TablesListed, ListingFailed
    <3>2. phase = "loading-tables"
      BY <3>1, Screen
    <3> QED
      BY <1>1, <3>2 DEF CompareInv, EntriesInv
  <2>3. CASE LateListing(i)
    BY <1>1, <2>3 DEF LateListing, resultVars
  <2>4. ASSUME NEW t \in runs[i].out, NEW ok, NEW r, Answered(i, t, ok, r)
        PROVE  ResultsStep
    <3>1. i # runId => entries' = entries
      BY <2>4 DEF Answered, Late
    <3> QED
      BY <1>1, <2>4, <3>1, AnsweredStep
  <2> QED
    BY <2>1, <2>2, <2>3, <2>4
<1>3. CASE RetryAnswers
  <2>1. PICK q, ok, r : RetryAnswered(q, ok, r) /\ Result(IF ok THEN r ELSE NoComparison)
    BY <1>3, RetryAnswersAre
  <2> DEFINE status == IF ok THEN "done" ELSE "error"
             found == IF ok THEN r ELSE NoComparison
  <2>2. /\ q \in retries \ retries'
        /\ q.run # runId => entries' = entries
        /\ q.run = runId => entries' = UpdateEntry(entries, q.table, status, found)
    BY <2>1 DEF RetryAnswered, Late
  <2>3. CASE q.run = runId
    <3>1. AnsweredBy(q.table)
      BY <2>2, <2>3 DEF AnsweredBy, CompareInv, EntriesInv
    <3>2. entries \in [DOMAIN entries -> Entry] /\ Result(found) /\ status \in {"done", "error"}
      BY <2>1 DEF CompareInv, CompareTypes
    <3>3. entries' = UpdateEntry(entries, q.table, status, found)
      BY <2>2, <2>3
    <3> HIDE DEF status, found
    <3>4. \A x \in DOMAIN entries : x # q.table => entries'[x] = entries[x]
      BY <3>2, <3>3, UpdatedEntries
    <3> QED
      BY <3>1, <3>4 DEF ResultsStep
  <2> QED
    BY <1>1, <2>2, <2>3
<1>4. CASE RunCompare \/ CloseTab
  <2>1. entries' = [t \in {} |-> 0]
    BY <1>4 DEF RunCompare, CloseTab, FreshResults
  <2> QED
    BY <1>1, <2>1
<1>5. CASE \E id \in DOMAIN jobs : CancelCompareJob(id)
  BY <1>1, <1>5 DEF CancelCompareJob
<1>6. CASE \E t \in Names : RetryTable(t)
  <2>1. PICK t \in Names : RetryTable(t)
    BY <1>6
  <2>2. t \in DOMAIN entries /\ entries' = [entries EXCEPT ![t].status = "comparing"]
    BY <2>1 DEF RetryTable
  <2>3. entries \in [DOMAIN entries -> Entry]
    BY DEF CompareInv, CompareTypes
  <2> DEFINE e == [entries[t] EXCEPT !.status = "comparing"]
  <2>4. e.status = "comparing"
    BY <2>2, <2>3 DEF Entry
  <2>5. entries' = [entries EXCEPT ![t] = e]
    BY <2>2
  <2> HIDE DEF e
  <2> QED
    BY <2>2, <2>3, <2>4, <2>5 DEF ResultsStep
<1>7. CASE \E t \in Names, at \in Endpoints : TableDropped(at, t)
  <2>1. PICK t \in Names, at \in Endpoints : TableDropped(at, t)
    BY <1>7
  <2>2. entries' = entries \/ entries' = Restrict(entries, DOMAIN entries \ {t})
    BY <2>1 DEF TableDropped
  <2>3. \A x \in DOMAIN entries' : entries'[x] = entries[x]
    BY <2>2 DEF Restrict
  <2> QED
    BY <2>3 DEF ResultsStep
<1>8. CASE Quiet
  BY <1>1, <1>8, QuietSteps DEF panelVars
<1> QED
  BY <1>2, <1>3, <1>4, <1>5, <1>6, <1>7, <1>8 DEF PanelNext

-----------------------------------------------------------------------------
(* The dialog over it                                                      *)

\* Executions and their jobs while the panel moves.
LEMMA SyncsRest ==
  ASSUME CompareInv, CompareInv', SyncsInv, syncs' = syncs, JobsStep
  PROVE  SyncsInv'
<1>1. \A id \in DOMAIN syncs : id <= seq
  BY DEF SyncsInv, CompareInv, CompareTypes
<1>2. DOMAIN syncs \subseteq 1..seq'
  BY DEF SyncsInv, CompareInv, CompareTypes, JobsStep
<1>3. ASSUME NEW id \in DOMAIN jobs'
      PROVE  /\ jobs'[id].kind = "sync" <=> id \in DOMAIN syncs
             /\ id \in DOMAIN syncs => /\ syncs[id].cancelled <=> jobs'[id].status = "cancelled"
                                       /\ syncs[id].over => ~IsActive(jobs'[id])
  <2>1. CASE id \in DOMAIN jobs
    BY <1>3, <2>1 DEF SyncsInv, JobsStep, IsActive
  <2>2. CASE id \notin DOMAIN jobs
    <3>1. id > seq /\ jobs'[id].kind = "compare"
      BY <1>3, <2>2 DEF JobsStep
    <3>2. id \notin DOMAIN syncs
      BY <1>1, <3>1 DEF CompareInv, CompareTypes
    <3> QED
      BY <3>1, <3>2
  <2> QED
    BY <2>1, <2>2
<1> QED
  BY <1>2, <1>3 DEF SyncsInv

LEMMA FreshDialogs ==
  ASSUME NEW es
  PROVE  /\ IsDialog(FreshDialog(es)) /\ FreshDialog(es).last = None
         /\ FreshDialog(es).running = None /\ FreshDialog(es).outcome = None
         /\ FreshDialog(es).confirming = None /\ FreshDialog(es).preview = None
<1>1. IsDialog(FreshDialog(es))
  BY DEF FreshDialog, IsDialog
<1> QED
  BY <1>1 DEF FreshDialog

\* The dialog follows a step of the panel below it.
LEMMA FollowKeeps ==
  ASSUME CompareInv, SyncsInv, DialogInv, PreviewsInv, JobsStep, NEW redrawn,
         Mounted' => phase' = "done", Follow(redrawn)
  PROVE  DialogInv' /\ PreviewsInv'
<1>1. syncs' = syncs
  BY DEF Follow
<1>2. CASE ~Mounted'
  <2>1. previews' = Void(previews)
    BY <1>2 DEF Follow
  <2>2. \A p \in previews' : IsPreview(p) /\ ~p.live
    BY <2>1 DEF Void, PreviewsInv, IsPreview
  <2> QED
    BY <1>2, <2>2 DEF DialogInv, PreviewsInv
<1>3. CASE Mounted' /\ ~Mounted
  <2>1. dialog' = FreshDialog(entries') /\ previews' = previews
    BY <1>3 DEF Follow
  <2>2. /\ IsDialog(dialog') /\ dialog'.last = None /\ dialog'.running = None
        /\ dialog'.outcome = None /\ dialog'.confirming = None
    BY <2>1, FreshDialogs
  <2>3. \A p \in previews : IsPreview(p) /\ ~p.live
    BY <1>3 DEF PreviewsInv
  <2> QED
    BY <1>3, <2>1, <2>2, <2>3 DEF DialogInv, PreviewsInv
<1>4. ASSUME Mounted, Mounted', dialog.last \in DOMAIN jobs', dialog.last # None
      PROVE  dialog.last \in DOMAIN jobs /\ jobs'[dialog.last].status = jobs[dialog.last].status
  <2>1. dialog.last \in DOMAIN syncs /\ dialog.last <= seq
    BY <1>4 DEF DialogInv, SyncsInv, CompareInv, CompareTypes
  <2>2. dialog.last \in DOMAIN jobs
    BY <1>4, <2>1 DEF JobsStep, CompareInv, CompareTypes, SyncsInv
  <2> QED
    BY <1>4, <2>1, <2>2 DEF JobsStep, SyncsInv
<1>5. CASE Mounted /\ Mounted' /\ ~redrawn
  <2>1. dialog' = dialog /\ previews' = previews
    BY <1>5 DEF Follow
  <2> QED
    BY <1>1, <1>4, <1>5, <2>1 DEF DialogInv, PreviewsInv
<1>6. CASE Mounted /\ Mounted' /\ redrawn
  <2> DEFINE fresh == FreshDialog(entries')
             filled == [fresh EXCEPT !.strategy = dialog.strategy,
                          !.running = dialog.running, !.last = dialog.last,
                          !.previewing = dialog.previewing, !.confirming = dialog.confirming]
             other == [filled EXCEPT !.previewing = FALSE, !.confirming = None]
  <2>1. /\ dialog' = IF BuildReq(filled) = BuildReq(dialog) THEN filled ELSE other
        /\ previews' = IF BuildReq(dialog') = BuildReq(dialog) THEN previews ELSE Void(previews)
    BY <1>6 DEF Follow, Refill
  <2>0. IsDialog(fresh) /\ fresh.outcome = None /\ fresh.preview = None
    BY FreshDialogs
  <2> HIDE DEF fresh
  <2>2. /\ IsDialog(filled) /\ filled.running = dialog.running /\ filled.last = dialog.last
        /\ filled.outcome = None /\ filled.preview = None
        /\ filled.previewing = dialog.previewing /\ filled.confirming = dialog.confirming
    <3>1. IsDialog(filled)
      BY <2>0 DEF IsDialog
    <3> QED
      BY <2>0, <3>1 DEF IsDialog
  <2> HIDE DEF filled
  <2>3. /\ IsDialog(other) /\ other.running = dialog.running /\ other.last = dialog.last
        /\ other.outcome = None /\ other.preview = None /\ other.confirming = None
        /\ BuildReq(other) = BuildReq(filled)
    <3>1. IsDialog(other)
      BY <2>2 DEF IsDialog
    <3> QED
      BY <2>2, <3>1 DEF IsDialog, BuildReq
  <2> HIDE DEF other
  <2>4. DialogInv'
    BY <1>1, <1>6, <2>1, <2>2, <2>3 DEF DialogInv
  <2>5. CASE BuildReq(filled) = BuildReq(dialog)
    <3>1. previews' = previews /\ dialog'.previewing = dialog.previewing
      BY <2>1, <2>2, <2>5
    <3> QED
      BY <1>6, <2>4, <3>1 DEF PreviewsInv
  <2>6. CASE BuildReq(filled) # BuildReq(dialog)
    <3>1. previews' = Void(previews)
      BY <2>1, <2>3, <2>6
    <3>2. \A p \in previews' : IsPreview(p) /\ ~p.live
      BY <3>1 DEF Void, PreviewsInv, IsPreview
    <3> QED
      BY <2>4, <3>2 DEF PreviewsInv
  <2> QED
    BY <2>4, <2>5, <2>6
<1> QED
  BY <1>2, <1>3, <1>5, <1>6

\* A step of the dialog that leaves the panel and the executions alone.
LEMMA DialogRests ==
  ASSUME IInv, UNCHANGED <<compareVars, syncs>>
  PROVE  /\ CompareInv' /\ SyncsInv'
         /\ Mounted' = Mounted /\ phase' = phase /\ jobs' = jobs /\ syncs' = syncs
<1>1. UNCHANGED panelVars /\ UNCHANGED <<showSync, context, phase, jobs, seq, syncs>>
  BY DEF compareVars, resultVars, jobVars, panelVars
<1>2. CompareInv'
  BY <1>1, CompareRests DEF IInv
<1>3. SyncsInv'
  BY <1>1 DEF IInv, SyncsInv
<1>4. Mounted' = Mounted
  BY <1>1 DEF Mounted, HasDiff
<1> QED
  BY <1>1, <1>2, <1>3, <1>4

LEMMA VoidPreviews ==
  ASSUME PreviewsInv, NEW ps, ps = Void(previews)
  PROVE  \A p \in ps : IsPreview(p) /\ ~p.live
  BY DEF Void, PreviewsInv, IsPreview

LEMMA ChooseKeeps ==
  ASSUME IInv, NEW d, Choose(d), IsDialog(d), d.running = dialog.running, d.last = dialog.last,
         d.outcome = dialog.outcome, d.confirming = dialog.confirming
  PROVE  IInv'
<1>1. /\ Mounted /\ dialog.confirming = None /\ previews' = Void(previews)
      /\ dialog' = [d EXCEPT !.preview = None, !.previewing = FALSE]
      /\ UNCHANGED <<compareVars, syncs>>
  BY DEF Choose
<1>2. /\ CompareInv' /\ SyncsInv'
      /\ Mounted' = Mounted /\ phase' = phase /\ jobs' = jobs /\ syncs' = syncs
  BY <1>1, DialogRests
<1>3. IsDialog(dialog')
  BY <1>1 DEF IsDialog
<1>4. /\ dialog'.running = dialog.running /\ dialog'.last = dialog.last
      /\ dialog'.outcome = dialog.outcome /\ dialog'.confirming = None
  BY <1>1 DEF IsDialog
<1>5. DialogInv'
  BY <1>1, <1>2, <1>3, <1>4 DEF IInv, DialogInv
<1>6. PreviewsInv'
  BY <1>1, VoidPreviews DEF IInv, PreviewsInv
<1> QED
  BY <1>2, <1>5, <1>6 DEF IInv

LEMMA TogglesKeep ==
  ASSUME IInv, (\E t \in Names : Toggle(t)) \/ SetStructure \/ SetData
               \/ \E s \in Strategies : SetStrategy(s)
  PROVE  IInv'
<1>1. ASSUME Mounted PROVE IsDialog(dialog)
  BY <1>1 DEF IInv, DialogInv
<1>2. ASSUME NEW x, NEW d, Choose(d),
             \/ d = [dialog EXCEPT !.tables = x] \/ d = [dialog EXCEPT !.structure = x]
             \/ d = [dialog EXCEPT !.data = x] \/ d = [dialog EXCEPT !.strategy = x]
      PROVE  IInv'
  <2>1. IsDialog(dialog)
    BY <1>1, <1>2 DEF Choose
  <2>2. IsDialog(d)
    BY <1>2, <2>1 DEF IsDialog
  <2>3. /\ d.running = dialog.running /\ d.last = dialog.last
        /\ d.outcome = dialog.outcome /\ d.confirming = dialog.confirming
    BY <1>2, <2>1 DEF IsDialog
  <2> QED
    BY <1>2, <2>2, <2>3, ChooseKeeps
<1>3. CASE \E t \in Names : Toggle(t)
  BY <1>2, <1>3 DEF Toggle
<1>4. CASE SetStructure \/ SetData
  BY <1>2, <1>4 DEF SetStructure, SetData
<1>5. CASE \E s \in Strategies : SetStrategy(s)
  BY <1>2, <1>5 DEF SetStrategy
<1> QED
  BY <1>3, <1>4, <1>5

LEMMA PreviewKeeps == ASSUME IInv, Preview PROVE IInv'
<1>1. /\ Mounted /\ dialog.confirming = None
      /\ dialog' = [dialog EXCEPT !.preview = None, !.previewing = TRUE]
      /\ previews' = Void(previews) \cup {[id |-> asked + 1, req |-> BuildReq(dialog), live |-> TRUE]}
      /\ UNCHANGED <<compareVars, syncs>>
  BY DEF Preview
<1>2. /\ CompareInv' /\ SyncsInv'
      /\ Mounted' = Mounted /\ phase' = phase /\ jobs' = jobs /\ syncs' = syncs
  BY <1>1, DialogRests
<1>3. IsDialog(dialog)
  BY <1>1 DEF IInv, DialogInv
<1>4. /\ IsDialog(dialog') /\ dialog'.previewing = TRUE
      /\ dialog'.running = dialog.running /\ dialog'.last = dialog.last
      /\ dialog'.outcome = dialog.outcome /\ dialog'.confirming = None
  <2>1. IsDialog(dialog')
    BY <1>1, <1>3 DEF IsDialog
  <2> QED
    BY <1>1, <1>3, <2>1 DEF IsDialog
<1>5. DialogInv'
  BY <1>1, <1>2, <1>4 DEF IInv, DialogInv
<1>6. PreviewsInv'
  <2> DEFINE new == [id |-> asked + 1, req |-> BuildReq(dialog), live |-> TRUE]
  <2>1. IsPreview(new) /\ new.live = TRUE
    BY DEF IsPreview
  <2>2. \A p \in Void(previews) : IsPreview(p) /\ ~p.live
    BY VoidPreviews DEF IInv
  <2>3. previews' = Void(previews) \cup {new}
    BY <1>1
  <2> HIDE DEF new
  <2> QED
    BY <1>1, <1>2, <1>4, <2>1, <2>2, <2>3 DEF PreviewsInv
<1> QED
  BY <1>2, <1>5, <1>6 DEF IInv

LEMMA PreviewedKeeps == ASSUME IInv, NEW p, NEW ok, Previewed(p, ok) PROVE IInv'
<1>1. /\ p \in previews /\ previews' = previews \ {p} /\ UNCHANGED <<compareVars, syncs>>
      /\ ~Mounted \/ ~p.live => dialog' = dialog
  BY DEF Previewed
<1>2. /\ CompareInv' /\ SyncsInv'
      /\ Mounted' = Mounted /\ phase' = phase /\ jobs' = jobs /\ syncs' = syncs
  BY <1>1, DialogRests
<1>3. CASE ~Mounted \/ ~p.live
  <2>1. DialogInv' /\ PreviewsInv'
    BY <1>1, <1>2, <1>3 DEF IInv, DialogInv, PreviewsInv
  <2> QED
    BY <1>2, <2>1 DEF IInv
<1>4. CASE Mounted /\ p.live
  <2>1. \E x : dialog' = [dialog EXCEPT !.previewing = FALSE, !.preview = x]
    <3> DEFINE x == IF ok /\ p.req = BuildReq(dialog) THEN [id |-> p.id, req |-> p.req]
                    ELSE dialog.preview
    <3>1. dialog' = [dialog EXCEPT !.previewing = FALSE, !.preview = x]
      BY <1>4 DEF Previewed
    <3> HIDE DEF x
    <3> QED
      BY <3>1
  <2>2. PICK x : dialog' = [dialog EXCEPT !.previewing = FALSE, !.preview = x]
    BY <2>1
  <2>3. IsDialog(dialog) /\ dialog.confirming = None
    BY <1>1, <1>4 DEF IInv, DialogInv, PreviewsInv
  <2>4. /\ IsDialog(dialog') /\ dialog'.running = dialog.running /\ dialog'.last = dialog.last
        /\ dialog'.outcome = dialog.outcome /\ dialog'.confirming = None
    <3>1. IsDialog(dialog')
      BY <2>2, <2>3 DEF IsDialog
    <3> QED
      BY <2>2, <2>3, <3>1 DEF IsDialog
  <2>5. DialogInv'
    BY <1>2, <1>4, <2>4 DEF IInv, DialogInv
  <2>6. PreviewsInv'
    BY <1>1, <1>4 DEF IInv, PreviewsInv
  <2> QED
    BY <1>2, <2>5, <2>6 DEF IInv
<1> QED
  BY <1>3, <1>4

LEMMA QuestionsKeep == ASSUME IInv, AskToExecute \/ Dismiss PROVE IInv'
<1>1. /\ Mounted /\ previews' = previews /\ UNCHANGED <<compareVars, syncs>>
      /\ \/ /\ dialog' = [dialog EXCEPT !.confirming = dialog.preview.id]
            /\ dialog.running = None /\ ~dialog.previewing
         \/ dialog' = [dialog EXCEPT !.confirming = None]
  BY DEF AskToExecute, Dismiss, MayExecute
<1>2. /\ CompareInv' /\ SyncsInv'
      /\ Mounted' = Mounted /\ phase' = phase /\ jobs' = jobs /\ syncs' = syncs
  BY <1>1, DialogRests
<1>3. IsDialog(dialog)
  BY <1>1 DEF IInv, DialogInv
<1>4. IsDialog(dialog')
  BY <1>1, <1>3 DEF IsDialog
<1>5. /\ dialog'.running = dialog.running /\ dialog'.last = dialog.last
      /\ dialog'.outcome = dialog.outcome /\ dialog'.previewing = dialog.previewing
      /\ dialog'.preview = dialog.preview
      /\ \/ /\ dialog'.confirming = dialog.preview.id
            /\ dialog.running = None /\ ~dialog.previewing
         \/ dialog'.confirming = None
  BY <1>1, <1>3 DEF IsDialog
<1>6. DialogInv'
  BY <1>1, <1>2, <1>4, <1>5 DEF IInv, DialogInv
<1>7. PreviewsInv'
  BY <1>1, <1>2, <1>5 DEF IInv, PreviewsInv
<1> QED
  BY <1>2, <1>6, <1>7 DEF IInv

LEMMA CloseDialogKeeps == ASSUME IInv, CloseDialog PROVE IInv'
<1>1. /\ showSync' = FALSE /\ previews' = Void(previews)
      /\ UNCHANGED panelVars /\ UNCHANGED <<jobs, seq, syncs>>
  BY DEF CloseDialog, panelVars, jobVars
<1>2. ~Mounted'
  BY <1>1 DEF Mounted
<1>3. CompareInv'
  BY <1>1, CompareRests DEF IInv
<1>4. SyncsInv'
  BY <1>1 DEF IInv, SyncsInv
<1>5. \A p \in previews' : IsPreview(p) /\ ~p.live
  BY <1>1, VoidPreviews DEF IInv
<1>6. DialogInv' /\ PreviewsInv'
  BY <1>2, <1>5 DEF DialogInv, PreviewsInv
<1> QED
  BY <1>3, <1>4, <1>6 DEF IInv


LEMMA ClearFinishedKeeps == ASSUME IInv, ClearFinishedJobs PROVE IInv'
<1>1. /\ jobs' = Restrict(jobs, ActiveJobs(jobs)) /\ seq' = seq
      /\ UNCHANGED <<phase, context, entries, showSync, runVars, job, mountedAt, syncVars>>
  BY DEF ClearFinishedJobs, ClearFinished, resultVars
<1>2. CompareInv /\ CompareTypes /\ CurrentInv /\ SyncsInv /\ DialogInv /\ PreviewsInv
  BY DEF IInv, CompareInv
<1>3. /\ DOMAIN jobs' = ActiveJobs(jobs) /\ ActiveJobs(jobs) \subseteq DOMAIN jobs
      /\ \A id \in ActiveJobs(jobs) : jobs'[id] = jobs[id]
  BY <1>1 DEF Restrict, ActiveJobs
<1>4. jobs' \in [DOMAIN jobs' -> PanelJob]
  BY <1>1, <1>2, <1>3 DEF Restrict, CompareTypes
<1>5. CompareInv'
  <2>1. UNCHANGED <<phase, context, entries, runVars, job, mountedAt>>
    BY <1>1
  <2>2. seq' \in Nat /\ seq <= seq' /\ DOMAIN jobs' \subseteq 1..seq'
    BY <1>1, <1>2, <1>3 DEF CompareTypes
  <2>3. \A id \in DOMAIN jobs :
          id = job => id \in DOMAIN jobs' /\ jobs'[id].status = jobs[id].status
                                          /\ jobs'[id].kind = jobs[id].kind
    BY <1>2, <1>3, UnsetAssumption DEF CurrentInv, CompareTypes, ActiveJobs
  <2> QED
    BY <1>2, <1>4, <2>1, <2>2, <2>3, JobsChange
<1>6. syncs' = syncs /\ dialog' = dialog /\ previews' = previews /\ Mounted' = Mounted
      /\ phase' = phase
  BY <1>1 DEF syncVars, Mounted, HasDiff
<1>7. SyncsInv'
  BY <1>1, <1>2, <1>3, <1>6 DEF SyncsInv
<1>8. DialogInv'
  BY <1>2, <1>3, <1>6 DEF DialogInv
<1>9. PreviewsInv'
  BY <1>2, <1>6 DEF PreviewsInv
<1> QED
  BY <1>5, <1>7, <1>8, <1>9 DEF IInv

\* What starts an execution, and with what.
LEMMA ConfirmStarts ==
  ASSUME IInv, Confirm
  PROVE  \/ UNCHANGED <<seq, jobs, syncs>>
         \/ /\ seq' = seq + 1 /\ jobs' = StartJob(jobs, seq + 1, "sync", "diff")
            /\ DOMAIN syncs' = DOMAIN syncs \cup {seq + 1}
            /\ \A id \in DOMAIN syncs : id # seq + 1 /\ syncs'[id] = syncs[id]
            /\ IsSync(syncs'[seq + 1]) /\ ~syncs'[seq + 1].cancelled /\ ~syncs'[seq + 1].over
            /\ syncs'[seq + 1].plan = dialog.confirming
            /\ syncs'[seq + 1].req = BuildReq(dialog)
            /\ syncs' = [id \in DOMAIN syncs' |-> syncs'[id]]
            /\ dialog' = [dialog EXCEPT !.running = seq + 1, !.last = seq + 1,
                                        !.confirming = None, !.outcome = None]
<1>1. CASE ~CanStart(dialog)
  BY <1>1 DEF Confirm
<1>2. CASE CanStart(dialog)
  <2> DEFINE new == [req |-> dialog.preview.req, plan |-> dialog.preview.id,
                     cancelled |-> FALSE, over |-> FALSE]
  <2>1. /\ Mounted /\ dialog.confirming # None
        /\ seq' = seq + 1 /\ jobs' = StartJob(jobs, seq + 1, "sync", "diff")
        /\ syncs' = [id \in DOMAIN syncs \cup {seq + 1} |->
                       IF id = seq + 1 THEN new ELSE syncs[id]]
        /\ dialog' = [dialog EXCEPT !.running = seq + 1, !.last = seq + 1,
                                    !.confirming = None, !.outcome = None]
    BY <1>2 DEF Confirm
  <2>2. dialog.preview # None /\ dialog.preview.req = BuildReq(dialog)
    BY <1>2 DEF CanStart, Plan
  <2>3. dialog.preview.id = dialog.confirming
    BY <2>1, <2>2 DEF IInv, DialogInv
  <2>4. /\ IsSync(new) /\ new.cancelled = FALSE /\ new.over = FALSE
        /\ new.plan = dialog.preview.id /\ new.req = dialog.preview.req
    BY DEF IsSync
  <2>5. seq \in Nat /\ DOMAIN syncs \subseteq 1..seq
    BY DEF IInv, CompareInv, CompareTypes, SyncsInv
  <2> HIDE DEF new
  <2>6. /\ DOMAIN syncs' = DOMAIN syncs \cup {seq + 1} /\ syncs'[seq + 1] = new
        /\ \A id \in DOMAIN syncs : id # seq + 1 /\ syncs'[id] = syncs[id]
        /\ syncs' = [id \in DOMAIN syncs' |-> syncs'[id]]
    BY <2>1, <2>5
  <2> QED
    BY <2>1, <2>2, <2>3, <2>4, <2>6
<1> QED
  BY <1>1, <1>2

LEMMA ConfirmKeeps == ASSUME IInv, Confirm PROVE IInv'
<1>1. /\ Mounted /\ dialog.confirming # None /\ previews' = previews
      /\ UNCHANGED <<phase, context, entries, showSync, runVars, job, mountedAt>>
  BY DEF Confirm, resultVars
<1>2. CompareInv /\ CompareTypes /\ CurrentInv /\ SyncsInv /\ DialogInv /\ PreviewsInv
  BY DEF IInv, CompareInv
<1>3. Mounted' = Mounted /\ phase' = phase
  BY <1>1 DEF Mounted, HasDiff
<1>4. IsDialog(dialog) /\ ~dialog.previewing /\ dialog.running = None
  BY <1>1, <1>2 DEF DialogInv
<1>5. \A p \in previews : ~p.live
  BY <1>2, <1>4 DEF PreviewsInv
<1>6. PreviewsInv'
  BY <1>1, <1>2, <1>5 DEF PreviewsInv
<1>7. CASE UNCHANGED <<seq, jobs, syncs>>
  <2>1. dialog' = [dialog EXCEPT !.confirming = None]
    <3>1. seq \in Nat
      BY <1>2 DEF CompareTypes
    <3> QED
      BY <1>7, <3>1 DEF Confirm
  <2>2. CompareInv'
    BY <1>1, <1>2, <1>7, CompareRests DEF panelVars, jobVars
  <2>3. SyncsInv'
    BY <1>2, <1>7 DEF SyncsInv
  <2>4. IsDialog(dialog')
    BY <1>4, <2>1 DEF IsDialog
  <2>5. /\ dialog'.confirming = None /\ dialog'.last = dialog.last
        /\ dialog'.running = dialog.running /\ dialog'.outcome = dialog.outcome
    BY <1>4, <2>1 DEF IsDialog
  <2>6. DialogInv'
    BY <1>1, <1>2, <1>3, <1>7, <2>4, <2>5 DEF DialogInv
  <2> QED
    BY <1>6, <2>2, <2>3, <2>6 DEF IInv
<1>8. CASE ~UNCHANGED <<seq, jobs, syncs>>
  <2>1. /\ seq' = seq + 1 /\ jobs' = StartJob(jobs, seq + 1, "sync", "diff")
        /\ DOMAIN syncs' = DOMAIN syncs \cup {seq + 1}
        /\ \A id \in DOMAIN syncs : id # seq + 1 /\ syncs'[id] = syncs[id]
        /\ IsSync(syncs'[seq + 1]) /\ ~syncs'[seq + 1].cancelled /\ ~syncs'[seq + 1].over
        /\ syncs' = [id \in DOMAIN syncs' |-> syncs'[id]]
        /\ dialog' = [dialog EXCEPT !.running = seq + 1, !.last = seq + 1,
                                    !.confirming = None, !.outcome = None]
    BY <1>8, ConfirmStarts
  <2>2. seq \in Nat /\ jobs \in [DOMAIN jobs -> PanelJob] /\ DOMAIN jobs \subseteq 1..seq
    BY <1>2 DEF CompareTypes
  <2>3. jobs' \in [DOMAIN jobs' -> PanelJob] /\ DOMAIN jobs' = DOMAIN jobs \cup {seq + 1}
    BY <2>1, <2>2, StartedJobs
  <2>4. jobs'[seq + 1].kind = "sync" /\ jobs'[seq + 1].status = "running"
    BY <2>1, <2>2, StartedJob
  <2>5. \A id \in DOMAIN jobs : id # seq + 1 /\ jobs'[id] = jobs[id]
    BY <2>1, <2>2, StartedJob
  <2>6. CompareInv'
    <3>1. UNCHANGED <<phase, context, entries, runVars, job, mountedAt>>
      BY <1>1
    <3>2. seq' \in Nat /\ seq <= seq' /\ DOMAIN jobs' \subseteq 1..seq'
      BY <2>1, <2>2, <2>3
    <3>3. \A id \in DOMAIN jobs :
            id = job => id \in DOMAIN jobs' /\ jobs'[id].status = jobs[id].status
                                            /\ jobs'[id].kind = jobs[id].kind
      BY <2>3, <2>5
    <3> QED
      BY <1>2, <2>3, <3>1, <3>2, <3>3, JobsChange
  <2>7. SyncsInv'
    <3>1. DOMAIN syncs' \subseteq 1..seq' /\ \A id \in DOMAIN syncs' : IsSync(syncs'[id])
      BY <1>2, <2>1, <2>2 DEF SyncsInv
    <3>2. ASSUME NEW id \in DOMAIN jobs'
          PROVE  /\ jobs'[id].kind = "sync" <=> id \in DOMAIN syncs'
                 /\ id \in DOMAIN syncs' =>
                      /\ syncs'[id].cancelled <=> jobs'[id].status = "cancelled"
                      /\ syncs'[id].over => ~IsActive(jobs'[id])
      <4>1. CASE id = seq + 1
        BY <2>1, <2>4, <4>1
      <4>2. CASE id # seq + 1
        BY <1>2, <2>1, <2>3, <2>5, <4>2 DEF SyncsInv
      <4> QED
        BY <4>1, <4>2
    <3> QED
      BY <2>1, <3>1, <3>2 DEF SyncsInv
  <2>8. IsDialog(dialog')
    BY <1>4, <2>1 DEF IsDialog
  <2>9. /\ dialog'.confirming = None /\ dialog'.last = seq + 1
        /\ dialog'.running = seq + 1 /\ dialog'.outcome = None
    BY <1>4, <2>1 DEF IsDialog
  <2>10. DialogInv'
    BY <1>1, <1>2, <1>3, <2>1, <2>2, <2>8, <2>9, UnsetAssumption DEF DialogInv
  <2> QED
    BY <1>6, <2>6, <2>7, <2>10 DEF IInv
<1> QED
  BY <1>7, <1>8

\* An execution is cancelled or ends, and its job with it.
LEMMA SyncChanges ==
  ASSUME IInv, NEW id \in DOMAIN syncs, NEW s, IsSync(s), syncs' = [syncs EXCEPT ![id] = s],
         jobs' = jobs \/ \E status \in Terminal : jobs' = FinishJob(jobs, id, status),
         UNCHANGED <<phase, context, entries, runVars, seq, job, mountedAt>>,
         id \in DOMAIN jobs' => /\ s.cancelled <=> jobs'[id].status = "cancelled"
                                /\ s.over => ~IsActive(jobs'[id])
  PROVE  /\ CompareInv' /\ SyncsInv' /\ DOMAIN syncs' = DOMAIN syncs
         /\ syncs'[id] = s
         /\ \A x \in DOMAIN syncs : x # id => syncs'[x] = syncs[x]
         /\ DOMAIN jobs' = DOMAIN jobs
         /\ \A x \in DOMAIN jobs : x # id => jobs'[x].status = jobs[x].status
<1>1. CompareInv /\ CompareTypes /\ CurrentInv /\ SyncsInv
  BY DEF IInv, CompareInv
<1>2. /\ jobs' \in [DOMAIN jobs' -> PanelJob] /\ DOMAIN jobs' = DOMAIN jobs
      /\ \A x \in DOMAIN jobs : /\ jobs'[x].kind = jobs[x].kind
                                /\ x # id => jobs'[x].status = jobs[x].status
  <2>1. jobs \in [DOMAIN jobs -> PanelJob]
    BY <1>1 DEF CompareTypes
  <2>2. CASE jobs' = jobs
    BY <2>1, <2>2
  <2>3. CASE \E status \in Terminal : jobs' = FinishJob(jobs, id, status)
    <3>1. PICK status \in Terminal : jobs' = FinishJob(jobs, id, status)
      BY <2>3
    <3>2. jobs' \in [DOMAIN jobs' -> PanelJob] /\ DOMAIN jobs' = DOMAIN jobs
      BY <2>1, <3>1, FinishedJobs
    <3>3. \A x \in DOMAIN jobs : /\ jobs'[x].kind = jobs[x].kind
                                 /\ x # id => jobs'[x].status = jobs[x].status
      BY <2>1, <3>1, FinishedJobs
    <3> QED
      BY <3>2, <3>3
  <2> QED
    BY <2>2, <2>3
<1>3. /\ DOMAIN syncs' = DOMAIN syncs /\ syncs'[id] = s
      /\ \A x \in DOMAIN syncs : x # id => syncs'[x] = syncs[x]
      /\ syncs' = [x \in DOMAIN syncs' |-> syncs'[x]]
  BY <1>1 DEF SyncsInv
<1>4. CompareInv'
  <2>1. \A x \in DOMAIN jobs : x = job => jobs[x].kind = "compare"
    BY <1>1, UnsetAssumption DEF CurrentInv, CompareTypes
  <2>2. id \in DOMAIN jobs => jobs[id].kind = "sync"
    BY <1>1 DEF SyncsInv
  <2>3. \A x \in DOMAIN jobs :
          x = job => x \in DOMAIN jobs' /\ jobs'[x].status = jobs[x].status
                                        /\ jobs'[x].kind = jobs[x].kind
    BY <1>2, <2>1, <2>2
  <2>4. UNCHANGED <<phase, context, entries, runVars, job, mountedAt>>
    OBVIOUS
  <2>5. seq' \in Nat /\ seq <= seq' /\ DOMAIN jobs' \subseteq 1..seq'
    BY <1>1, <1>2 DEF CompareTypes
  <2> QED
    BY <1>1, <1>2, <2>3, <2>4, <2>5, JobsChange
<1>5. SyncsInv'
  <2>1. DOMAIN syncs' \subseteq 1..seq' /\ \A x \in DOMAIN syncs' : IsSync(syncs'[x])
    BY <1>1, <1>3 DEF SyncsInv
  <2>2. ASSUME NEW x \in DOMAIN jobs'
        PROVE  /\ jobs'[x].kind = "sync" <=> x \in DOMAIN syncs'
               /\ x \in DOMAIN syncs' =>
                    /\ syncs'[x].cancelled <=> jobs'[x].status = "cancelled"
                    /\ syncs'[x].over => ~IsActive(jobs'[x])
    <3>1. CASE x = id
      BY <1>1, <1>2, <1>3, <3>1 DEF SyncsInv
    <3>2. CASE x # id
      BY <1>1, <1>2, <1>3, <3>2 DEF SyncsInv, IsActive
    <3> QED
      BY <3>1, <3>2
  <2> QED
    BY <1>3, <2>1, <2>2 DEF SyncsInv
<1> QED
  BY <1>2, <1>3, <1>4, <1>5

LEMMA CancelSyncKeeps == ASSUME IInv, NEW id, CancelSync(id) PROVE IInv'
<1> DEFINE s == [syncs[id] EXCEPT !.cancelled = TRUE]
<1>1. /\ id \in DOMAIN jobs /\ IsActive(jobs[id]) /\ jobs[id].kind = "sync"
      /\ jobs' = FinishJob(jobs, id, "cancelled") /\ previews' = previews
      /\ UNCHANGED <<phase, context, entries, showSync, runVars, seq, job, mountedAt>>
      /\ Owns(id) => dialog' = [dialog EXCEPT !.outcome = "cancelled"]
      /\ ~Owns(id) => dialog' = dialog
  BY DEF CancelSync, MayCancel, CancelJob, resultVars
<1>2. CompareInv /\ CompareTypes /\ SyncsInv /\ DialogInv /\ PreviewsInv
  BY DEF IInv, CompareInv
<1>3. id \in DOMAIN syncs /\ IsSync(syncs[id]) /\ syncs[id].over = FALSE
  BY <1>1, <1>2 DEF SyncsInv, IsSync
<1>4. syncs' = [syncs EXCEPT ![id] = s]
  BY DEF CancelSync
<1>5. IsSync(s) /\ s.cancelled = TRUE /\ s.over = FALSE
  BY <1>3 DEF IsSync
<1> HIDE DEF s
<1>6. jobs'[id].status = "cancelled"
  BY <1>1, <1>2, FinishedJobs DEF CompareTypes, Terminal
<1>7. /\ CompareInv' /\ SyncsInv' /\ DOMAIN syncs' = DOMAIN syncs
      /\ syncs'[id] = s
      /\ \A x \in DOMAIN syncs : x # id => syncs'[x] = syncs[x]
      /\ DOMAIN jobs' = DOMAIN jobs
      /\ \A x \in DOMAIN jobs : x # id => jobs'[x].status = jobs[x].status
  <2>1. id \in DOMAIN jobs' => /\ s.cancelled <=> jobs'[id].status = "cancelled"
                               /\ s.over => ~IsActive(jobs'[id])
    BY <1>5, <1>6
  <2>2. \E status \in Terminal : jobs' = FinishJob(jobs, id, status)
    BY <1>1 DEF Terminal
  <2>3. UNCHANGED <<phase, context, entries, runVars, seq, job, mountedAt>>
    BY <1>1
  <2> QED
    BY <1>3, <1>4, <1>5, <2>1, <2>2, <2>3, SyncChanges
<1>8. Mounted' = Mounted /\ phase' = phase
  BY <1>1 DEF Mounted, HasDiff
<1>9. DialogInv' /\ PreviewsInv'
  <2>1. CASE Owns(id)
    <3>1. Mounted /\ dialog.running = id /\ id # None
      BY <1>2, <1>3, <2>1, UnsetAssumption DEF Owns, SyncsInv, CompareTypes
    <3>2. IsDialog(dialog) /\ dialog.last = id /\ dialog.confirming = None
      BY <1>2, <3>1 DEF DialogInv
    <3>3. IsDialog(dialog')
      BY <1>1, <2>1, <3>2 DEF IsDialog
    <3>4. /\ dialog'.last = id /\ dialog'.running = id /\ dialog'.outcome = "cancelled"
          /\ dialog'.confirming = None /\ dialog'.previewing = dialog.previewing
      BY <1>1, <2>1, <3>1, <3>2 DEF IsDialog
    <3>5. DialogInv'
      BY <1>2, <1>3, <1>5, <1>6, <1>7, <1>8, <3>1, <3>3, <3>4 DEF DialogInv
    <3> QED
      BY <1>1, <1>2, <1>8, <3>4, <3>5 DEF PreviewsInv
  <2>2. CASE ~Owns(id)
    <3>1. dialog' = dialog
      BY <1>1, <2>2
    <3>2. Mounted => dialog.last # id
      BY <1>2, <1>3, <2>2, UnsetAssumption DEF DialogInv, Owns, SyncsInv, CompareTypes
    <3>3. DialogInv'
      BY <1>2, <1>7, <1>8, <3>1, <3>2 DEF DialogInv
    <3> QED
      BY <1>1, <1>2, <1>8, <3>1, <3>3 DEF PreviewsInv
  <2> QED
    BY <2>1, <2>2
<1> QED
  BY <1>7, <1>9 DEF IInv

LEMMA ExecutedKeeps ==
  ASSUME IInv, NEW id, NEW outcome \in {"done", "error", "failed"}, Executed(id, outcome)
  PROVE  IInv'
<1> DEFINE s == [syncs[id] EXCEPT !.over = TRUE]
           status == StatusOf(outcome)
<1>1. /\ id \in DOMAIN syncs /\ ~syncs[id].over /\ previews' = previews
      /\ UNCHANGED <<phase, context, entries, showSync, runVars, seq, job, mountedAt>>
      /\ syncs[id].cancelled => jobs' = jobs
      /\ ~syncs[id].cancelled => jobs' = FinishJob(jobs, id, status)
      /\ ~Owns(id) => dialog' = dialog
  BY DEF Executed, resultVars
<1>2. CompareInv /\ CompareTypes /\ SyncsInv /\ DialogInv /\ PreviewsInv
  BY DEF IInv, CompareInv
<1>3. IsSync(syncs[id])
  BY <1>1, <1>2 DEF SyncsInv
<1>4. syncs' = [syncs EXCEPT ![id] = s]
  BY DEF Executed
<1>5. IsSync(s) /\ s.cancelled = syncs[id].cancelled /\ s.over = TRUE
  BY <1>3 DEF IsSync
<1>6. status \in {"done", "error"}
  BY DEF StatusOf
<1>7. Owns(id) => \E x : /\ dialog' = [dialog EXCEPT !.running = None, !.preview = None, !.outcome = x]
                         /\ ~syncs[id].cancelled => x = status
                         /\ syncs[id].cancelled => x \in {"cancelled", dialog.outcome}
  <2> DEFINE x == IF ~syncs[id].cancelled THEN status
                  ELSE IF outcome = "failed" THEN "cancelled" ELSE dialog.outcome
  <2>1. Owns(id) => dialog' = [dialog EXCEPT !.running = None, !.preview = None, !.outcome = x]
    <3>1. ASSUME Owns(id)
          PROVE  dialog' = [dialog EXCEPT !.running = None, !.preview = None, !.outcome =
                              IF ~syncs[id].cancelled THEN StatusOf(outcome)
                              ELSE IF outcome = "failed" THEN "cancelled" ELSE @]
      BY <3>1 DEF Executed
    <3> QED
      BY <3>1
  <2>2. (~syncs[id].cancelled => x = status) /\ (syncs[id].cancelled => x \in {"cancelled", dialog.outcome})
    OBVIOUS
  <2> HIDE DEF x, status
  <2> QED
    BY <2>1, <2>2
<1> HIDE DEF s, status
<1>8. id \in DOMAIN jobs =>
        IF syncs[id].cancelled THEN jobs'[id].status = "cancelled" ELSE jobs'[id].status = status
  <2>1. CASE syncs[id].cancelled
    BY <1>1, <1>2, <2>1 DEF SyncsInv
  <2>2. CASE ~syncs[id].cancelled
    BY <1>1, <1>2, <1>6, <2>2, FinishedJobs DEF CompareTypes, Terminal
  <2> QED
    BY <2>1, <2>2
<1>9. /\ CompareInv' /\ SyncsInv' /\ DOMAIN syncs' = DOMAIN syncs
      /\ syncs'[id] = s
      /\ \A x \in DOMAIN syncs : x # id => syncs'[x] = syncs[x]
      /\ DOMAIN jobs' = DOMAIN jobs
      /\ \A x \in DOMAIN jobs : x # id => jobs'[x].status = jobs[x].status
  <2>0. DOMAIN jobs' = DOMAIN jobs
    BY <1>1, <1>2, <1>6, FinishedJobs DEF CompareTypes, Terminal
  <2>1. id \in DOMAIN jobs' => /\ s.cancelled <=> jobs'[id].status = "cancelled"
                               /\ s.over => ~IsActive(jobs'[id])
    BY <1>5, <1>6, <1>8, <2>0 DEF IsActive, Terminal
  <2>2. jobs' = jobs \/ \E x \in Terminal : jobs' = FinishJob(jobs, id, x)
    BY <1>1, <1>6 DEF Terminal
  <2>3. UNCHANGED <<phase, context, entries, runVars, seq, job, mountedAt>>
    BY <1>1
  <2> QED
    BY <1>1, <1>4, <1>5, <2>1, <2>2, <2>3, SyncChanges
<1>10. Mounted' = Mounted /\ phase' = phase
  BY <1>1 DEF Mounted, HasDiff
<1>11. DialogInv' /\ PreviewsInv'
  <2>1. CASE Owns(id)
    <3>1. Mounted /\ dialog.running = id /\ id # None
      BY <1>1, <1>2, <2>1, UnsetAssumption DEF Owns, SyncsInv, CompareTypes
    <3>2. /\ IsDialog(dialog) /\ dialog.last = id /\ dialog.confirming = None
          /\ dialog.outcome \in {None, "cancelled"}
      BY <1>2, <3>1 DEF DialogInv
    <3>3. PICK x : /\ dialog' = [dialog EXCEPT !.running = None, !.preview = None, !.outcome = x]
                   /\ ~syncs[id].cancelled => x = status
                   /\ syncs[id].cancelled => x \in {"cancelled", dialog.outcome}
      BY <1>7, <2>1
    <3>4. IsDialog(dialog')
      BY <3>2, <3>3 DEF IsDialog
    <3>5. /\ dialog'.last = id /\ dialog'.running = None /\ dialog'.outcome = x
          /\ dialog'.confirming = None /\ dialog'.previewing = dialog.previewing
      BY <3>2, <3>3 DEF IsDialog
    <3>6. x # None /\ id \in DOMAIN jobs => x = jobs'[id].status
      BY <1>8, <3>2, <3>3
    <3>7. DialogInv'
      BY <1>1, <1>2, <1>5, <1>9, <1>10, <3>1, <3>4, <3>5, <3>6 DEF DialogInv
    <3> QED
      BY <1>1, <1>2, <1>10, <3>5, <3>7 DEF PreviewsInv
  <2>2. CASE ~Owns(id)
    <3>1. dialog' = dialog
      BY <1>1, <2>2
    <3>2. Mounted => dialog.last # id
      BY <1>1, <1>2, <2>2, UnsetAssumption DEF DialogInv, Owns, SyncsInv, CompareTypes
    <3>3. DialogInv'
      BY <1>2, <1>9, <1>10, <3>1, <3>2 DEF DialogInv
    <3> QED
      BY <1>1, <1>2, <1>10, <3>1, <3>3 DEF PreviewsInv
  <2> QED
    BY <2>1, <2>2
<1> QED
  BY <1>9, <1>11 DEF IInv

-----------------------------------------------------------------------------
(* The specification                                                       *)

LEMMA NextSteps ==
  ASSUME Next PROVE (PanelNext /\ \E redrawn : Follow(redrawn)) \/ DialogActions
<1>1. CASE BelowTheDialog
  BY <1>1 DEF BelowTheDialog, PanelNext, Quiet, FormActions
<1>2. CASE BesideTheDialog
  BY <1>2 DEF BesideTheDialog, PanelNext, Quiet, FormActions
<1>3. CASE DialogActions
  BY <1>3
<1> QED
  BY <1>1, <1>2, <1>3 DEF Next, DialogNext

LEMMA StartsRight == Init => IInv
<1> SUFFICES ASSUME Init PROVE IInv
  OBVIOUS
<1>1. /\ showSync = FALSE /\ jobs = NoJobs /\ seq = 0
      /\ syncs = [id \in {} |-> 0] /\ previews = {}
  BY DEF Init, CompareInit, SyncInit
<1>2. CompareInv
  BY CompareStartsRight DEF Init
<1>3. SyncsInv
  BY <1>1 DEF SyncsInv, NoJobs
<1>4. DialogInv /\ PreviewsInv
  BY <1>1 DEF DialogInv, PreviewsInv, Mounted
<1> QED
  BY <1>2, <1>3, <1>4 DEF IInv

LEMMA StepKeeps == ASSUME IInv, Next PROVE IInv'
<1>1. CASE PanelNext /\ \E redrawn : Follow(redrawn)
  <2>1. CompareInv /\ SyncsInv /\ DialogInv /\ PreviewsInv
    BY DEF IInv
  <2>2. PICK redrawn : Follow(redrawn)
    BY <1>1
  <2>3. CompareInv'
    BY <1>1, <2>1, PanelKeeps
  <2>4. JobsStep
    BY <1>1, <2>1, PanelJobs
  <2>5. Mounted => phase = "done"
    BY <2>1 DEF DialogInv
  <2>6. Mounted' => phase' = "done"
    BY <1>1, <2>1, <2>5, PanelScreen
  <2>7. DialogInv' /\ PreviewsInv'
    BY <2>1, <2>2, <2>4, <2>6, FollowKeeps
  <2>8. SyncsInv'
    BY <2>1, <2>2, <2>3, <2>4, SyncsRest DEF Follow
  <2> QED
    BY <2>3, <2>7, <2>8 DEF IInv
<1>2. CASE DialogActions
  <2>1. CASE (\E t \in Names : Toggle(t)) \/ SetStructure \/ SetData
             \/ \E s \in Strategies : SetStrategy(s)
    BY <2>1, TogglesKeep
  <2>2. CASE Preview
    BY <2>2, PreviewKeeps
  <2>3. CASE \E p \in previews, ok \in BOOLEAN : Previewed(p, ok)
    BY <2>3, PreviewedKeeps
  <2>4. CASE AskToExecute \/ Dismiss
    BY <2>4, QuestionsKeep
  <2>5. CASE Confirm
    BY <2>5, ConfirmKeeps
  <2>6. CASE \E id \in DOMAIN jobs : CancelSync(id)
    BY <2>6, CancelSyncKeeps
  <2>7. CASE \E id \in DOMAIN syncs, o \in {"done", "error", "failed"} : Executed(id, o)
    BY <2>7, ExecutedKeeps
  <2>8. CASE CloseDialog
    BY <2>8, CloseDialogKeeps
  <2>9. CASE ClearFinishedJobs
    BY <2>9, ClearFinishedKeeps
  <2> QED
    BY <1>2, <2>1, <2>2, <2>3, <2>4, <2>5, <2>6, <2>7, <2>8, <2>9 DEF DialogActions
<1> QED
  BY <1>1, <1>2, NextSteps

LEMMA StutterKeeps == ASSUME IInv, UNCHANGED vars PROVE IInv'
<1>1. UNCHANGED panelVars /\ UNCHANGED <<context, showSync, jobs, seq, phase, dialog, previews, syncs>>
  BY DEF vars, compareVars, syncVars, resultVars, jobVars, panelVars
<1>2. CompareInv'
  BY <1>1, CompareRests DEF IInv
<1>3. Mounted' = Mounted
  BY <1>1 DEF Mounted, HasDiff
<1>4. SyncsInv' /\ DialogInv' /\ PreviewsInv'
  BY <1>1, <1>3 DEF IInv, SyncsInv, DialogInv, PreviewsInv
<1> QED
  BY <1>2, <1>4 DEF IInv

\* The panel and the dialog agree with their jobs and with each other in every state
\* (diff-panel-hooks.ts:282-441, SyncPanel.tsx:100-289, job-store.ts:62-137).
THEOREM InvariantHolds == Spec => []IInv
<1>1. Init => IInv
  BY StartsRight
<1>2. IInv /\ [Next]_vars => IInv'
  BY StepKeeps, StutterKeeps
<1> QED
  BY <1>1, <1>2, PTL DEF Spec

\* No table is shown as running or queued for ever: it has a request under way, or a
\* worker of the run on the screen that is to take it (ComparisonStatusPanel.tsx:52).
THEOREM SpinnersEnd == Spec => []NoEndlessSpinner
<1>1. IInv => NoEndlessSpinner
  <2> SUFFICES ASSUME IInv, NEW t \in DOMAIN entries,
                      DisplayStatus(entries[t], phase) \in {"running", "queued"}
               PROVE  Awaited(t)
    BY DEF NoEndlessSpinner
  <2>1. entries[t].status \in {"queued", "comparing", "done", "error"}
    BY DEF IInv, CompareInv, CompareTypes, Entry
  <2>2. entries[t].status \in {"queued", "comparing"} /\ phase # "cancelled"
    BY <2>1 DEF DisplayStatus
  <2> QED
    BY <2>2 DEF IInv, CompareInv, SpinnerInv
<1> QED
  BY <1>1, InvariantHolds, PTL

\* What the dialog says of its execution is what the status bar says of the job
\* (SyncPanel.tsx:161, job-store.ts:104), whatever order cancelling and the answer come in.
THEOREM OutcomesAgree == Spec => []OutcomeAgreesWithJob
<1>1. IInv => OutcomeAgreesWithJob
  BY DEF IInv, DialogInv, OutcomeAgreesWithJob
<1> QED
  BY <1>1, InvariantHolds, PTL

\* Nothing that was asked for another comparison ever shows among the results of this
\* one (compareRunIdRef, diff-panel-hooks.ts:303, 346, 357).
THEOREM ResultsAreTheScreens == Spec => ResultsBelongToTheScreen
<1>1. IInv /\ [Next]_vars => [ResultsStep]_compareVars
  <2> SUFFICES ASSUME IInv, Next, compareVars' # compareVars PROVE ResultsStep
    BY DEF vars
  <2>1. CASE PanelNext
    BY <2>1, PanelResults DEF IInv
  <2>2. CASE DialogActions
    <3>1. entries' = entries
      <4> USE DEF compareVars, resultVars
      <4>1. (\E d : Choose(d)) => entries' = entries
        BY DEF Choose
      <4>2. (\E t \in Names : Toggle(t)) \/ SetStructure \/ SetData
               \/ (\E s \in Strategies : SetStrategy(s)) => entries' = entries
        BY <4>1 DEF Toggle, SetStructure, SetData, SetStrategy
      <4>3. Preview \/ (\E p \in previews, ok \in BOOLEAN : Previewed(p, ok)) => entries' = entries
        BY DEF Preview, Previewed
      <4>4. AskToExecute \/ Dismiss \/ Confirm \/ CloseDialog \/ ClearFinishedJobs
              => entries' = entries
        BY SMTT(60) DEF AskToExecute, Dismiss, Confirm, CloseDialog, ClearFinishedJobs
      <4>5. (\E id \in DOMAIN jobs : CancelSync(id))
              \/ (\E id \in DOMAIN syncs, o \in {"done", "error", "failed"} : Executed(id, o))
              => entries' = entries
        BY DEF CancelSync, Executed
      <4> QED
        BY <2>2, <4>2, <4>3, <4>4, <4>5 DEF DialogActions
    <3> QED
      BY <3>1 DEF ResultsStep
  <2> QED
    BY <2>1, <2>2, NextSteps
<1>2. ResultsBelongToTheScreen <=> [][ResultsStep]_compareVars
  BY PTL DEF ResultsBelongToTheScreen, ResultsStep
<1> QED
  BY <1>1, <1>2, InvariantHolds, PTL DEF Spec

ConfirmStep ==
  \A id \in DOMAIN syncs' \ DOMAIN syncs :
    /\ syncs'[id].plan = dialog.confirming
    /\ syncs'[id].req = BuildReq(dialog)
CancelledStep ==
  \A id \in DOMAIN jobs \cap DOMAIN jobs' :
    jobs[id].status = "cancelled" => jobs'[id].status = "cancelled"

LEMMA DialogSteps == ASSUME IInv, DialogActions PROVE ConfirmStep /\ CancelledStep
<1>1. CASE syncs' = syncs /\ jobs' = jobs
  BY <1>1 DEF ConfirmStep, CancelledStep
<1>2. CASE (\E t \in Names : Toggle(t)) \/ SetStructure \/ SetData
           \/ \E s \in Strategies : SetStrategy(s)
  <2>1. (\E d : Choose(d)) => syncs' = syncs /\ jobs' = jobs
    BY DEF Choose, compareVars, jobVars
  <2> QED
    BY <1>1, <1>2, <2>1 DEF Toggle, SetStructure, SetData, SetStrategy
<1>3. CASE Preview \/ (\E p \in previews, ok \in BOOLEAN : Previewed(p, ok)) \/ AskToExecute
           \/ Dismiss \/ CloseDialog
  BY <1>1, <1>3 DEF Preview, Previewed, AskToExecute, Dismiss, CloseDialog, compareVars, jobVars
<1>4. CASE Confirm
  <2>1. CASE UNCHANGED <<seq, jobs, syncs>>
    BY <1>1, <2>1
  <2>2. CASE ~UNCHANGED <<seq, jobs, syncs>>
    <3>1. jobs' = StartJob(jobs, seq + 1, "sync", "diff") /\ ConfirmStep
      BY <1>4, <2>2, ConfirmStarts DEF ConfirmStep
    <3>2. seq \in Nat /\ DOMAIN jobs \subseteq 1..seq
      BY DEF IInv, CompareInv, CompareTypes
    <3>3. \A id \in DOMAIN jobs : jobs'[id] = jobs[id]
      <4>1. \A id \in DOMAIN jobs : id # seq + 1
        BY <3>2
      <4>2. jobs' = [x \in DOMAIN jobs \cup {seq + 1} |->
                      IF x = seq + 1 THEN [kind |-> "sync", tab |-> "diff", status |-> "running",
                                           cancellable |-> TRUE]
                      ELSE jobs[x]]
        BY <3>1 DEF StartJob
      <4> QED
        BY <4>1, <4>2
    <3> QED
      BY <3>1, <3>3 DEF CancelledStep
  <2> QED
    BY <2>1, <2>2
<1>5. CASE \E id \in DOMAIN jobs : CancelSync(id)
  <2>1. PICK id \in DOMAIN jobs : CancelSync(id)
    BY <1>5
  <2>2. jobs' = FinishJob(jobs, id, "cancelled") /\ syncs' = [syncs EXCEPT ![id].cancelled = TRUE]
    BY <2>1 DEF CancelSync, CancelJob
  <2>3. jobs \in [DOMAIN jobs -> PanelJob] /\ "cancelled" \in Terminal
    BY DEF IInv, CompareInv, CompareTypes, Terminal
  <2>4. \A x \in DOMAIN jobs : jobs'[x].status = IF x = id THEN "cancelled" ELSE jobs[x].status
    BY <2>2, <2>3, FinishedJobs
  <2> QED
    BY <2>2, <2>4 DEF ConfirmStep, CancelledStep
<1>6. CASE \E id \in DOMAIN syncs, o \in {"done", "error", "failed"} : Executed(id, o)
  <2>1. PICK id \in DOMAIN syncs, o \in {"done", "error", "failed"} : Executed(id, o)
    BY <1>6
  <2> DEFINE status == StatusOf(o)
  <2>2. /\ syncs' = [syncs EXCEPT ![id].over = TRUE]
        /\ jobs' = jobs \/ (~syncs[id].cancelled /\ jobs' = FinishJob(jobs, id, status))
    BY <2>1 DEF Executed
  <2>3. status \in Terminal /\ jobs \in [DOMAIN jobs -> PanelJob]
    BY DEF IInv, CompareInv, CompareTypes, StatusOf, Terminal
  <2> HIDE DEF status
  <2>4. CASE ~syncs[id].cancelled /\ jobs' = FinishJob(jobs, id, status)
    <3>1. \A x \in DOMAIN jobs : jobs'[x].status = IF x = id THEN status ELSE jobs[x].status
      BY <2>3, <2>4, FinishedJobs
    <3>2. id \in DOMAIN jobs => jobs[id].status # "cancelled"
      BY <2>4 DEF IInv, SyncsInv
    <3> QED
      BY <2>2, <3>1, <3>2 DEF ConfirmStep, CancelledStep
  <2> QED
    BY <2>2, <2>4 DEF ConfirmStep, CancelledStep
<1>7. CASE ClearFinishedJobs
  <2>1. syncs' = syncs /\ \A id \in DOMAIN jobs' : jobs'[id] = jobs[id]
    BY <1>7 DEF ClearFinishedJobs, ClearFinished, Restrict, syncVars
  <2> QED
    BY <2>1 DEF ConfirmStep, CancelledStep
<1> QED
  BY <1>2, <1>3, <1>4, <1>5, <1>6, <1>7 DEF DialogActions

LEMMA PanelSteps ==
  ASSUME IInv, PanelNext, NEW redrawn, Follow(redrawn) PROVE ConfirmStep /\ CancelledStep
<1>1. ConfirmStep
  BY DEF Follow, ConfirmStep
<1>2. JobsStep
  BY PanelJobs DEF IInv
<1> QED
  BY <1>1, <1>2 DEF JobsStep, CancelledStep, IsActive, Terminal

LEMMA BothSteps == ASSUME IInv, [Next]_vars PROVE [ConfirmStep]_vars /\ [CancelledStep]_vars
<1>1. ASSUME Next PROVE ConfirmStep /\ CancelledStep
  BY <1>1, NextSteps, DialogSteps, PanelSteps
<1> QED
  BY <1>1

\* An execution runs the plan that was on the screen when the question was asked, for the
\* request the form shows when it is confirmed (SyncPanel.tsx:161, 171): results that come
\* in over an open question, which refill the request, never change what was agreed to.
THEOREM ExecutionsAreConfirmed == Spec => RunsWhatWasConfirmed
<1>1. IInv /\ [Next]_vars => [ConfirmStep]_vars
  BY BothSteps
<1>2. RunsWhatWasConfirmed <=> [][ConfirmStep]_vars
  BY PTL DEF RunsWhatWasConfirmed, ConfirmStep
<1> QED
  BY <1>1, <1>2, InvariantHolds, PTL DEF Spec

\* A job that was cancelled stays cancelled, though its work may still end well and finish
\* overwrites any state (job-store.ts:104).
THEOREM CancelledJobsStay == Spec => CancelledStaysCancelled
<1>1. IInv /\ [Next]_vars => [CancelledStep]_vars
  BY BothSteps
<1>2. CancelledStaysCancelled <=> [][CancelledStep]_vars
  BY PTL DEF CancelledStaysCancelled, CancelledStep
<1> QED
  BY <1>1, <1>2, InvariantHolds, PTL DEF Spec

-----------------------------------------------------------------------------
(* The rows of a table                                                     *)

\* While the question whether to delete rows is open, nothing but that delete runs, and
\* the rows it counted are those that are selected.
AskedInv ==
  /\ "kind" \in DOMAIN work
  /\ confirm # None /\ confirm.kind = "delete-rows" =>
       /\ work.kind \in {"none", "delete"}
       /\ confirm.count = Cardinality(Keys(picked[confirm.side]))

\* Loading and turning pages leaves the question, the selection and the work alone.
LEMMA PagesOnly ==
  ASSUME \/ Loads \/ CancelLoading \/ Reload \/ UNCHANGED tcVars
         \/ (\E p : GoToPage(p)) \/ (\E size : SetPageSize(size))
  PROVE  picked' = picked /\ confirm' = confirm /\ work' = work
<1>1. CASE Loads
  <2>1. ASSUME NEW n \in DOMAIN loads, NEW side \in TCSides, ReadPage(n, side) \/ LookUp(n, side)
        PROVE  picked' = picked /\ confirm' = confirm /\ work' = work
    BY <2>1 DEF ReadPage, LookUp
  <2>2. ASSUME NEW n \in DOMAIN loads, Loaded(n) \/ LoadFailed(n) \/ LoadIgnored(n)
        PROVE  picked' = picked /\ confirm' = confirm /\ work' = work
    BY <2>2 DEF Loaded, LoadFailed, LoadIgnored
  <2> QED
    BY <1>1, <2>1, <2>2 DEF Loads
<1>2. CASE CancelLoading \/ Reload
  BY <1>2 DEF CancelLoading, Reload
<1>3. CASE (\E p : GoToPage(p)) \/ (\E size : SetPageSize(size))
  BY <1>3 DEF GoToPage, SetPageSize
<1>4. CASE UNCHANGED tcVars
  BY <1>4 DEF tcVars
<1> QED
  BY <1>1, <1>2, <1>3, <1>4

\* Rows are selected only while no question is open.
LEMMA NoQuestionThen ==
  ASSUME NEW side, NEW k,
         ToggleRow(side, k) \/ ToggleRange(side, k) \/ ToggleAllVisible(side)
  PROVE  confirm = None /\ confirm' = None /\ work' = work
BY DEF ToggleRow, ToggleRange, ToggleAllVisible

\* Every step keeps AskedInv, and begins a delete of as many rows as were asked about.
LEMMA AskedStep ==
  ASSUME AskedInv, [TCNext]_tcVars
  PROVE  /\ AskedInv'
         /\ work.kind # "delete" /\ work'.kind = "delete" => Cardinality(work'.keys) = confirm.count
<1> DEFINE Begins == work.kind # "delete" /\ work'.kind = "delete" =>
                       Cardinality(work'.keys) = confirm.count
<1> USE DEF AskedInv
<1>1. CASE \/ Loads \/ CancelLoading \/ Reload \/ UNCHANGED tcVars
           \/ (\E p : GoToPage(p)) \/ (\E size : SetPageSize(size))
  BY <1>1, PagesOnly
<1>2. ASSUME NEW side, NEW k,
             ToggleRow(side, k) \/ ToggleRange(side, k) \/ ToggleAllVisible(side)
      PROVE  AskedInv' /\ Begins
  BY <1>2, NoQuestionThen
<1>3. ASSUME NEW side, RequestDelete(side) PROVE AskedInv' /\ Begins
  BY <1>3 DEF RequestDelete, OffersDelete, TCBusy
<1>4. CASE Copy
  BY <1>4 DEF Copy
<1>5. CASE RequestOverwrite \/ DismissConfirm
  BY <1>5 DEF RequestOverwrite, DismissConfirm
<1>6. ASSUME NEW k, NEW ok, CopyRow(k, ok) PROVE AskedInv' /\ Begins
  BY <1>6 DEF CopyRow
<1>7. CASE CopyDone
  BY <1>7 DEF CopyDone, Idle
<1>8. CASE ConfirmDelete
  BY <1>8 DEF ConfirmDelete, TCBusy
<1>9. CASE DeleteApplied
  BY SMTT(60), <1>9 DEF DeleteApplied
<1>10. CASE DeleteFailed \/ DeleteAnswered
  BY <1>10 DEF DeleteFailed, DeleteAnswered, Idle
<1>11. CASE ConfirmOverwrite
  BY <1>11 DEF ConfirmOverwrite, Idle
<1>12. ASSUME NEW rows, OverwriteApplied(rows) PROVE AskedInv' /\ Begins
  BY <1>12 DEF OverwriteApplied
<1>13. CASE CancelOverwrite
  BY <1>13 DEF CancelOverwrite
<1>14. CASE OverwriteReturned \/ OverwriteThrew
  BY <1>14 DEF OverwriteReturned, OverwriteThrew, Idle
<1>15. CASE UserChoices
  BY <1>15, <1>1, <1>2, <1>3, <1>4, <1>5 DEF UserChoices
<1>16. CASE Writes
  BY <1>16, <1>6, <1>7, <1>8, <1>9, <1>10, <1>11, <1>12, <1>13, <1>14 DEF Writes
<1> QED
  BY <1>1, <1>15, <1>16 DEF TCNext

\* A delete takes exactly as many rows as its question counted, whatever pages were turned,
\* read and completed in between (TableCompareView.tsx:271, 289).
THEOREM DeletesAreAsked == TCSpec => DeletesWhatWasAsked
<1>1. TCInit => AskedInv
  BY DEF TCInit, AskedInv, Idle
<1> QED
  BY <1>1, AskedStep, PTL DEF TCSpec, DeletesWhatWasAsked

-----------------------------------------------------------------------------
(* Pages of a table                                                        *)

LEMMA PlaceType ==
  ASSUME NEW S \in SUBSET Nat, IsFiniteSet(S), NEW k
  PROVE  IsFiniteSet({j \in S : j < k}) /\ Place(S, k) \in Nat
<1>1. {j \in S : j < k} \in SUBSET S
  OBVIOUS
<1> QED
  BY <1>1, FS_Subset, FS_CardinalityType DEF Place

\* Each key has its place in a table, and the least of them has the first.
LEMMA PlaceBound ==
  ASSUME NEW S \in SUBSET Nat, IsFiniteSet(S), NEW k \in S
  PROVE  Place(S, k) < Cardinality(S)
<1> DEFINE before == {j \in S : j < k}
<1>1. IsFiniteSet(before) /\ Place(S, k) \in Nat /\ Cardinality(S) \in Nat
  BY PlaceType, FS_CardinalityType
<1>2. k \notin before /\ before \cup {k} \in SUBSET S
  OBVIOUS
<1>3. Cardinality(before) = Place(S, k)
  BY DEF Place
<1> HIDE DEF before
<1>4. Cardinality(before \cup {k}) = Place(S, k) + 1
  BY <1>1, <1>2, <1>3, FS_AddElement
<1>5. Cardinality(before \cup {k}) <= Cardinality(S)
  BY <1>2, FS_Subset
<1> QED
  BY <1>1, <1>4, <1>5

LEMMA FirstPlace ==
  ASSUME NEW S \in SUBSET Nat, IsFiniteSet(S), S # {}
  PROVE  \E k \in S : Place(S, k) = 0
<1>1. \E m \in S : \A n \in S : ~ (<<n, m>> \in OpToRel(<, Nat))
  BY NatLessThanWellFounded, WFMin
<1>2. PICK m \in S : \A n \in S : ~ (n < m)
  BY <1>1 DEF OpToRel
<1>3. {j \in S : j < m} = {}
  BY <1>2
<1> QED
  BY <1>3, FS_EmptySet DEF Place

\* The keys on a page.
OnPage(rows, p, size) ==
  {k \in Keys(rows) : Place(Keys(rows), k) \in ((p - 1) * size)..(p * size - 1)}

LEMMA PageHas ==
  ASSUME NEW rows, NEW p, NEW size
  PROVE  /\ Keys(PageOf(rows, p, size).rows) = OnPage(rows, p, size)
         /\ OnPage(rows, p, size) \in SUBSET Keys(rows)
         /\ \A k \in OnPage(rows, p, size) : PageOf(rows, p, size).rows[k] = rows[k]
<1>1. PageOf(rows, p, size).rows = Only(rows, OnPage(rows, p, size))
  BY DEF PageOf, OnPage
<1>2. OnPage(rows, p, size) \in SUBSET Keys(rows)
  BY DEF OnPage
<1> QED
  BY <1>1, <1>2 DEF Only, Keys

LEMMA PageTotal ==
  ASSUME NEW rows, Keys(rows) \in SUBSET Nat, IsFiniteSet(Keys(rows)),
         NEW p \in Nat \ {0}, NEW size \in Nat \ {0}
  PROVE  PageOf(rows, p, size).total \in Nat
<1> DEFINE on == OnPage(rows, p, size)
           offset == (p - 1) * size
           more == Cardinality(Keys(rows)) > p * size
<1>1. PageOf(rows, p, size).total = IF on = {} THEN 0 ELSE offset + Cardinality(on) + IF more THEN 1 ELSE 0
  BY DEF PageOf, OnPage
<1>2. Cardinality(on) \in Nat
  BY PageHas, FS_Subset, FS_CardinalityType
<1>3. offset \in Nat
  <2>1. p - 1 \in Nat
    OBVIOUS
  <2> QED
    BY <2>1
<1> HIDE DEF on, offset, more
<1> QED
  BY <1>1, <1>2, <1>3

\* A page with as many rows as its total is the whole table, unless it is after its end.
LEMMA WholePage ==
  ASSUME NEW rows, Keys(rows) \in SUBSET Nat, IsFiniteSet(Keys(rows)),
         NEW p \in Nat \ {0}, NEW size \in Nat \ {0},
         Cardinality(Keys(PageOf(rows, p, size).rows)) = PageOf(rows, p, size).total,
         p = 1 \/ Keys(PageOf(rows, p, size).rows) # {}
  PROVE  Keys(PageOf(rows, p, size).rows) = Keys(rows)
<1> DEFINE S == Keys(rows)
           on == OnPage(rows, p, size)
           offset == (p - 1) * size
           more == Cardinality(S) > p * size
<1>1. /\ on = {k \in S : Place(S, k) \in offset..(p * size - 1)}
      /\ Keys(PageOf(rows, p, size).rows) = on
      /\ PageOf(rows, p, size).total = IF on = {} THEN 0 ELSE offset + Cardinality(on) + IF more THEN 1 ELSE 0
  <2>1. on = {k \in S : Place(S, k) \in offset..(p * size - 1)}
    BY DEF OnPage
  <2>2. Keys(PageOf(rows, p, size).rows) = on
    BY PageHas
  <2>3. PageOf(rows, p, size).total = IF on = {} THEN 0 ELSE offset + Cardinality(on) + IF more THEN 1 ELSE 0
    BY DEF PageOf, OnPage
  <2> QED
    BY <2>1, <2>2, <2>3
<1>2. Cardinality(on) \in Nat /\ Cardinality(S) \in Nat
  BY PageHas, FS_Subset, FS_CardinalityType
<1>3. offset \in Nat /\ (offset = 0 => p = 1)
  <2>1. p - 1 \in Nat
    OBVIOUS
  <2>2. offset \in Nat
    BY <2>1
  <2>3. ASSUME p # 1 PROVE offset # 0
    <3>1. p - 1 \in Nat \ {0}
      BY <2>3
    <3>2. \A m, n \in Nat \ {0} : m * n # 0
      OBVIOUS
    <3> QED
      BY <3>1, <3>2
  <2> QED
    BY <2>2, <2>3
<1>4. \A k \in S : Place(S, k) \in Nat /\ Place(S, k) < Cardinality(S)
  BY PlaceType, PlaceBound
<1>5. CASE on = {}
  <2>1. p = 1
    BY <1>1, <1>5
  <2>2. (p - 1) * size = 0 /\ p * size - 1 = size - 1
    BY <2>1
  <2>3. S = {}
    <3>1. SUFFICES ASSUME S # {} PROVE FALSE
      OBVIOUS
    <3>2. PICK k \in S : Place(S, k) = 0
      BY <3>1, FirstPlace
    <3>3. 0 \in offset..(p * size - 1)
      BY <2>2
    <3> QED
      BY <1>1, <1>5, <3>2, <3>3
  <2> QED
    BY <1>1, <1>5, <2>3
<1>6. CASE on # {}
  <2>1. offset = 0 /\ ~more
    <3> HIDE DEF on, offset, more, S
    <3> QED
      BY <1>1, <1>2, <1>3, <1>6
  <2>2. p * size - 1 = size - 1 /\ p * size = size
    BY <1>3, <2>1
  <2>3. Cardinality(S) <= size
    BY <1>2, <2>1, <2>2
  <2>4. \A k \in S : Place(S, k) \in offset..(p * size - 1)
    <3> SUFFICES ASSUME NEW k \in S PROVE Place(S, k) \in offset..(size - 1)
      BY <2>2
    <3>1. offset = 0 /\ Place(S, k) \in Nat /\ Place(S, k) < size
      <4> HIDE DEF offset, S
      <4> QED
        BY <1>2, <1>4, <2>1, <2>3
    <3> HIDE DEF offset, S
    <3> QED
      BY <3>1
  <2> QED
    BY <1>1, <2>4
<1> QED
  BY <1>5, <1>6

LEMMA TotalIsNumber ==
  ASSUME NEW f, \A side \in TCSides : f[side].data # None => f[side].data.total \in Nat
  PROVE  TotalRows(f) \in Nat
<1> DEFINE known == {s \in TCSides : f[s].data # None}
           totals == {f[side].data.total : side \in known}
<1>1. totals \in SUBSET Nat
  OBVIOUS
<1>2. TotalRows(f) = IF totals = {} THEN 0 ELSE CHOOSE m \in totals : \A k \in totals : k <= m
  BY DEF TotalRows
<1>3. totals # {} => \E m \in totals : \A k \in totals : k <= m
  <2>1. known \in SUBSET {"source", "target"}
    BY DEF TCSides
  <2>2. known = {} \/ known = {"source"} \/ known = {"target"} \/ known = {"source", "target"}
    BY <2>1
  <2> HIDE DEF known
  <2>3. CASE known = {"source"} \/ known = {"target"}
    <3>1. PICK s : known = {s}
      BY <2>3
    <3> DEFINE t == f[s].data.total
    <3>2. totals = {t}
      BY <3>1
    <3>3. t \in Nat
      BY <1>1, <3>2
    <3>4. t <= t
      <4> HIDE DEF t
      <4> QED
        BY <3>3
    <3> HIDE DEF t, totals
    <3> QED
      BY <3>2, <3>4
  <2>4. CASE known = {"source", "target"}
    <3> DEFINE x == f["source"].data.total
               y == f["target"].data.total
    <3>1. totals = {x, y}
      BY <2>4
    <3>2. x \in Nat /\ y \in Nat
      BY <1>1, <3>1
    <3> HIDE DEF x, y, totals
    <3>3. x <= y \/ y <= x
      BY <3>2
    <3> QED
      BY <3>1, <3>2, <3>3
  <2>5. CASE known = {}
    BY <2>5
  <2> QED
    BY <2>2, <2>3, <2>4, <2>5
<1> HIDE DEF totals
<1>4. CASE totals = {}
  BY <1>2, <1>4
<1>5. CASE totals # {}
  <2>1. (CHOOSE m \in totals : \A k \in totals : k <= m) \in totals
    BY <1>3, <1>5
  <2> QED
    BY <1>1, <1>2, <1>5, <2>1
<1> QED
  BY <1>4, <1>5

LEMMA ClampedIsPage ==
  ASSUME NEW f, \A side \in TCSides : f[side].data # None => f[side].data.total \in Nat,
         pageSize \in Nat \ {0}, NEW n \in Nat \ {0}
  PROVE  Clamped(n, f) \in Nat \ {0}
<1>1. TotalRows(f) \in Nat
  BY TotalIsNumber
<1>2. (TotalRows(f) + pageSize - 1) \div pageSize \in Nat
  <2>1. TotalRows(f) + pageSize - 1 \in Nat
    BY <1>1
  <2> QED
    BY <2>1
<1>3. LastPage(f) \in Nat \ {0}
  BY <1>2 DEF LastPage
<1> QED
  BY <1>3 DEF Clamped, Least

-----------------------------------------------------------------------------
(* What the panes show, as the tables are                                  *)

\* What a copy has not tried yet has not failed either.
WorkShape ==
  /\ "kind" \in DOMAIN work
  /\ work.kind = "copy" =>
       /\ DOMAIN work = {"kind", "todo", "failed", "all"}
       /\ work.failed \cap Keys(work.todo) = {} /\ Keys(work.todo) \subseteq work.all
  /\ work.kind = "delete" =>
       /\ DOMAIN work = {"kind", "side", "keys", "affected"}
       /\ work.affected \in Nat \cup {None}
  /\ work.kind = "overwrite" => DOMAIN work = {"kind", "stage", "cancelled"}

\* The work under way has changed a table, or may have.
Dirty ==
  \/ work.kind = "copy" /\ ~(work.all \subseteq Keys(work.todo) \cup work.failed)
  \/ work.kind = "delete" /\ work.affected # None
  \/ work.kind = "overwrite" /\ work.stage = "applied"
Clean == ~stale /\ ~Dirty

ServerShape ==
  DOMAIN server = TCSides /\ \A side \in TCSides : Keys(server[side]) \in SUBSET RowKeys
PageShape == page \in Nat \ {0} /\ pageSize \in PageSizes
PanesShape ==
  /\ DOMAIN pane = TCSides
  /\ \A side \in TCSides :
       /\ DOMAIN pane[side] = {"data", "loading", "error"}
       /\ pane[side].data # None =>
            /\ DOMAIN pane[side].data = {"rows", "shown", "total", "exact"}
            /\ pane[side].data.total \in Nat
LoadsShape ==
  /\ loaded \in Nat /\ DOMAIN loads \subseteq 1..loaded
  /\ \A n \in DOMAIN loads :
       /\ DOMAIN loads[n] = {"live", "page", "size", "pages", "extra"}
       /\ DOMAIN loads[n].pages = TCSides /\ DOMAIN loads[n].extra = TCSides
       /\ loads[n].live =>
            /\ loads[n].page = page /\ loads[n].size = pageSize
            /\ \A side \in TCSides : loads[n].pages[side] # None => loads[n].pages[side].total \in Nat
RowsShape == ServerShape /\ PageShape /\ PanesShape /\ LoadsShape

\* The page on the screen as its table is, and what it is completed with.
Own(side) == PageOf(server[side], page, pageSize)
Looked(side) == Only(server[side], MissingKeys(Own(side), Own(Peer(side))))

\* A load that will be shown has read what is still so, unless something was written under it
\* that a later load follows; and the panes then show no less.
LoadsCurrent ==
  Clean => \A n \in DOMAIN loads : loads[n].live => \A side \in TCSides :
    /\ loads[n].pages[side] # None => loads[n].pages[side] = Own(side)
    /\ loads[n].extra[side] # None => BothRead(n) /\ loads[n].extra[side] = Looked(side)
PanesCurrent ==
  Clean /\ Settled => \A side \in TCSides : pane[side].data.rows = Merge(Own(side).rows, Looked(side))

RowsInv == WorkShape /\ RowsShape /\ LoadsCurrent /\ PanesCurrent

\* A step that neither reads nor writes rows.
LEMMA RowsRest ==
  ASSUME RowsInv, UNCHANGED <<server, page, pageSize, loads, loaded, pane>>, WorkShape', Clean' => Clean
  PROVE  RowsInv'
<1>1. RowsShape'
  BY DEF RowsInv, RowsShape, ServerShape, PageShape, PanesShape, LoadsShape
<1>2. /\ \A side : Own(side)' = Own(side) /\ Looked(side)' = Looked(side)
      /\ \A n : BothRead(n)' <=> BothRead(n)
      /\ Settled' <=> Settled
  BY DEF Own, Looked, BothRead, Settled, PaneLoading
<1>3. LoadsCurrent'
  BY <1>2 DEF RowsInv, LoadsCurrent
<1>4. PanesCurrent'
  BY <1>2 DEF RowsInv, PanesCurrent
<1> QED
  BY <1>1, <1>3, <1>4 DEF RowsInv

\* A step that writes rows, which will be read again.
LEMMA RowsWritten ==
  ASSUME RowsInv, UNCHANGED <<page, pageSize, loads, loaded, pane>>, WorkShape', ServerShape', Dirty'
  PROVE  RowsInv'
<1>1. RowsShape'
  BY DEF RowsInv, RowsShape, PageShape, PanesShape, LoadsShape
<1>2. LoadsCurrent' /\ PanesCurrent'
  BY DEF LoadsCurrent, PanesCurrent, Clean
<1> QED
  BY <1>1, <1>2 DEF RowsInv

\* Whatever has been written, a new load of a page has still to read it.
LEMMA RowsReloaded ==
  ASSUME RowsInv, NEW p \in Nat \ {0}, NEW size \in PageSizes, LoadPage(p, size),
         \E side \in TCSides : pane'[side].loading,
         WorkShape', ServerShape', PanesShape'
  PROVE  RowsInv'
<1>1. /\ loaded' = loaded + 1 /\ page' = p /\ pageSize' = size
      /\ DOMAIN loads' = DOMAIN loads \cup {loaded + 1}
      /\ \A n \in DOMAIN loads' :
           loads'[n] = IF n = loaded + 1 THEN NewLoad(p, size) ELSE Disposed[n]
  BY DEF LoadPage
<1>2. LoadsShape
  BY DEF RowsInv, RowsShape
<1>3. ASSUME NEW n \in DOMAIN loads, n # loaded + 1
      PROVE  /\ n \in 1..(loaded + 1)
             /\ DOMAIN loads'[n] = DOMAIN loads[n] /\ ~loads'[n].live
             /\ loads'[n].pages = loads[n].pages /\ loads'[n].extra = loads[n].extra
  <2>1. loads'[n] = [loads[n] EXCEPT !.live = FALSE]
    BY <1>1, <1>3 DEF Disposed
  <2>2. n \in 1..loaded /\ loaded \in Nat
    BY <1>2 DEF LoadsShape
  <2> QED
    BY <1>2, <2>1, <2>2 DEF LoadsShape
<1>4. loads'[loaded + 1] = NewLoad(p, size)
  BY <1>1
<1>5. LoadsShape'
  <2>1. loaded' \in Nat /\ loaded + 1 \in 1..loaded'
    BY <1>1, <1>2 DEF LoadsShape
  <2>2. DOMAIN loads' \subseteq 1..loaded'
    BY <1>1, <1>3, <2>1
  <2> QED
    BY <1>1, <1>2, <1>3, <1>4, <2>1, <2>2 DEF LoadsShape, NewLoad, Unread
<1>6. LoadsCurrent'
  <2>1. \A n \in DOMAIN loads' : loads'[n].live => n = loaded + 1
    BY <1>1, <1>3
  <2>2. \A side \in TCSides : loads'[loaded + 1].pages[side] = None /\ loads'[loaded + 1].extra[side] = None
    BY <1>4 DEF NewLoad, Unread
  <2> QED
    BY <2>1, <2>2 DEF LoadsCurrent
<1>7. PanesCurrent'
  BY DEF PanesCurrent, Settled, PaneLoading
<1>8. PageShape'
  BY <1>1 DEF PageShape
<1> QED
  BY <1>5, <1>6, <1>7, <1>8 DEF RowsInv, RowsShape

LEMMA StartedPanes ==
  ASSUME PanesShape, StartLoading
  PROVE  PanesShape' /\ \E side \in TCSides : pane'[side].loading
BY DEF PanesShape, StartLoading, TCSides

\* Reloading the page, with whatever has been written.
LEMMA RowsAgain ==
  ASSUME RowsInv, LoadPage(page, pageSize), StartLoading, WorkShape', server' = server
  PROVE  RowsInv'
<1>1. page \in Nat \ {0} /\ pageSize \in PageSizes /\ PanesShape /\ ServerShape'
  BY DEF RowsInv, RowsShape, PageShape, ServerShape
<1> QED
  BY <1>1, StartedPanes, RowsReloaded

LEMMA TableIsFinite ==
  ASSUME PairsAssumption, ServerShape, NEW side \in TCSides
  PROVE  Keys(server[side]) \in SUBSET Nat /\ IsFiniteSet(Keys(server[side]))
<1>1. Keys(server[side]) \in SUBSET RowKeys
  BY DEF ServerShape
<1> QED
  BY <1>1, FS_Subset DEF PairsAssumption

LEMMA PeersAreSides == \A side \in TCSides : Peer(side) \in TCSides
  BY DEF TCSides, Peer

\* Reading a page, and looking up what the other page shows of it.
LEMMA RowsReadPage ==
  ASSUME PairsAssumption, RowsInv, NEW n \in DOMAIN loads, NEW side \in TCSides, ReadPage(n, side)
  PROVE  RowsInv'
<1> DEFINE read == PageOf(server[side], loads[n].page, loads[n].size)
<1>1. /\ loads' = [loads EXCEPT ![n].pages[side] = read] /\ loads[n].pages[side] = None
      /\ UNCHANGED <<server, page, pageSize, loaded, pane, work, stale>>
  BY DEF ReadPage
<1>2. LoadsShape /\ PageShape /\ ServerShape
  BY DEF RowsInv, RowsShape
<1>3. /\ DOMAIN loads' = DOMAIN loads
      /\ \A m \in DOMAIN loads : m # n => loads'[m] = loads[m]
      /\ DOMAIN loads'[n] = DOMAIN loads[n] /\ DOMAIN loads'[n].pages = TCSides
      /\ loads'[n].live = loads[n].live /\ loads'[n].page = loads[n].page
      /\ loads'[n].size = loads[n].size /\ loads'[n].extra = loads[n].extra
      /\ loads'[n].pages[side] = read
      /\ \A s \in TCSides : s # side => loads'[n].pages[s] = loads[n].pages[s]
  <2> HIDE DEF read
  <2> QED
    BY <1>1, <1>2 DEF LoadsShape
<1>4. loads[n].live => read = Own(side)
  BY <1>2 DEF LoadsShape, Own
<1>5. loads[n].live => read.total \in Nat
  <2>1. page \in Nat \ {0} /\ pageSize \in Nat \ {0}
    BY <1>2 DEF PageShape, PairsAssumption
  <2>2. Own(side).total \in Nat
    BY <1>2, <2>1, TableIsFinite, PageTotal DEF Own
  <2> QED
    BY <1>4, <2>2
<1> HIDE DEF read
<1>6. LoadsShape'
  BY <1>1, <1>2, <1>3, <1>5 DEF LoadsShape
<1>7. RowsShape' /\ WorkShape'
  BY <1>1, <1>6 DEF RowsInv, RowsShape, ServerShape, PageShape, PanesShape, WorkShape
<1>8. /\ \A s : Own(s)' = Own(s) /\ Looked(s)' = Looked(s)
      /\ Settled' <=> Settled
      /\ Clean' <=> Clean
  BY <1>1 DEF Own, Looked, Settled, PaneLoading, Clean, Dirty
<1>9. LoadsCurrent'
  <2> SUFFICES ASSUME Clean, NEW m \in DOMAIN loads, loads'[m].live, NEW s \in TCSides
               PROVE  /\ loads'[m].pages[s] # None => loads'[m].pages[s] = Own(s)
                      /\ loads'[m].extra[s] # None => BothRead(m)' /\ loads'[m].extra[s] = Looked(s)
    BY <1>3, <1>8 DEF LoadsCurrent
  <2>1. LoadsCurrent /\ loads[m].live
    BY <1>3 DEF RowsInv
  <2>2. CASE m # n
    BY <1>3, <2>1, <2>2 DEF LoadsCurrent, BothRead
  <2>3. CASE m = n
    <3>1. ~BothRead(n)
      BY <1>1 DEF BothRead
    <3>2. loads[n].extra[s] = None
      BY <2>1, <2>3, <3>1 DEF LoadsCurrent
    <3>3. CASE s = side
      BY <1>3, <1>4, <2>1, <2>3, <3>2, <3>3
    <3>4. CASE s # side
      BY <1>3, <2>1, <2>3, <3>2, <3>4 DEF LoadsCurrent
    <3> QED
      BY <3>3, <3>4
  <2> QED
    BY <2>2, <2>3
<1>10. PanesCurrent'
  BY <1>1, <1>8 DEF RowsInv, PanesCurrent
<1> QED
  BY <1>7, <1>9, <1>10 DEF RowsInv

LEMMA RowsLookUp ==
  ASSUME RowsInv, NEW n \in DOMAIN loads, NEW side \in TCSides, LookUp(n, side)
  PROVE  RowsInv'
<1> DEFINE found == Only(server[side], MissingKeys(loads[n].pages[side], loads[n].pages[Peer(side)]))
<1>1. /\ loads' = [loads EXCEPT ![n].extra[side] = found] /\ BothRead(n) /\ loads[n].live
      /\ UNCHANGED <<server, page, pageSize, loaded, pane, work, stale>>
  BY DEF LookUp
<1>2. LoadsShape /\ LoadsCurrent
  BY DEF RowsInv, RowsShape
<1>3. /\ DOMAIN loads' = DOMAIN loads
      /\ \A m \in DOMAIN loads : m # n => loads'[m] = loads[m]
      /\ DOMAIN loads'[n] = DOMAIN loads[n] /\ DOMAIN loads'[n].extra = TCSides
      /\ loads'[n].live = loads[n].live /\ loads'[n].page = loads[n].page
      /\ loads'[n].size = loads[n].size /\ loads'[n].pages = loads[n].pages
      /\ loads'[n].extra[side] = found
      /\ \A s \in TCSides : s # side => loads'[n].extra[s] = loads[n].extra[s]
  <2> HIDE DEF found
  <2> QED
    BY <1>1, <1>2 DEF LoadsShape
<1>4. Clean => found = Looked(side)
  <2> SUFFICES ASSUME Clean PROVE found = Looked(side)
    OBVIOUS
  <2>1. \A s \in TCSides : loads[n].pages[s] = Own(s)
    BY <1>1, <1>2 DEF LoadsCurrent, BothRead
  <2> QED
    BY <2>1, PeersAreSides DEF Looked
<1> HIDE DEF found
<1>5. LoadsShape'
  BY <1>1, <1>2, <1>3 DEF LoadsShape
<1>6. RowsShape' /\ WorkShape'
  BY <1>1, <1>5 DEF RowsInv, RowsShape, ServerShape, PageShape, PanesShape, WorkShape
<1>7. /\ \A s : Own(s)' = Own(s) /\ Looked(s)' = Looked(s)
      /\ Settled' <=> Settled
      /\ Clean' <=> Clean
  BY <1>1 DEF Own, Looked, Settled, PaneLoading, Clean, Dirty
<1>8. \A m \in DOMAIN loads : BothRead(m)' <=> BothRead(m)
  BY <1>3 DEF BothRead
<1>9. LoadsCurrent'
  BY <1>1, <1>2, <1>3, <1>4, <1>7, <1>8 DEF LoadsCurrent
<1>10. PanesCurrent'
  BY <1>1, <1>7 DEF RowsInv, PanesCurrent
<1> QED
  BY <1>6, <1>9, <1>10 DEF RowsInv

\* A load that ends: what is left of the others is as it was.
LEMMA LoadsForgotten ==
  ASSUME RowsInv, NEW n, UNCHANGED <<server, page, pageSize, loaded, work, stale>>, loads' = Forget(n)
  PROVE  /\ LoadsShape' /\ ServerShape' /\ PageShape' /\ WorkShape' /\ LoadsCurrent'
         /\ \A s : Own(s)' = Own(s) /\ Looked(s)' = Looked(s)
         /\ Clean' <=> Clean
<1>1. DOMAIN loads' = DOMAIN loads \ {n} /\ \A m \in DOMAIN loads' : loads'[m] = loads[m]
  BY DEF Forget
<1>2. LoadsShape'
  BY <1>1 DEF RowsInv, RowsShape, LoadsShape
<1>3. ServerShape' /\ PageShape' /\ WorkShape'
  BY DEF RowsInv, RowsShape, ServerShape, PageShape, WorkShape
<1>4. /\ \A s : Own(s)' = Own(s) /\ Looked(s)' = Looked(s)
      /\ Clean' <=> Clean
  BY DEF Own, Looked, Clean, Dirty
<1>5. \A m \in DOMAIN loads' : m \in DOMAIN loads /\ (BothRead(m)' <=> BothRead(m))
  BY <1>1 DEF BothRead
<1>6. LoadsCurrent'
  BY <1>1, <1>4, <1>5 DEF RowsInv, LoadsCurrent
<1> QED
  BY <1>2, <1>3, <1>4, <1>6

LEMMA RowsLoaded ==
  ASSUME PairsAssumption, RowsInv, NEW n \in DOMAIN loads, Loaded(n)
  PROVE  RowsInv'
<1> DEFINE next == [side \in TCSides |-> [data |-> Complete(n, side), loading |-> FALSE, error |-> FALSE]]
           here == Clamped(page, next)
<1>1. /\ BothRead(n) /\ loads[n].live /\ \A side \in TCSides : loads[n].extra[side] # None
      /\ UNCHANGED <<server, work>>
      /\ IF here # page
         THEN /\ pane' = [side \in TCSides |-> [next[side] EXCEPT !.loading = TRUE]]
              /\ LoadPage(here, pageSize)
         ELSE /\ pane' = next /\ loads' = Forget(n)
              /\ UNCHANGED <<page, pageSize, loaded, stale>>
  BY DEF Loaded
<1>2. LoadsShape /\ LoadsCurrent /\ PageShape /\ ServerShape /\ WorkShape
  BY DEF RowsInv, RowsShape
<1>3. \A side \in TCSides :
        /\ DOMAIN Complete(n, side) = {"rows", "shown", "total", "exact"}
        /\ Complete(n, side).total \in Nat
        /\ Complete(n, side).rows = Merge(loads[n].pages[side].rows, loads[n].extra[side])
  BY <1>1, <1>2 DEF Complete, LoadsShape, BothRead
<1>4. \A side \in TCSides :
        next[side] = [data |-> Complete(n, side), loading |-> FALSE, error |-> FALSE]
  OBVIOUS
<1>5. here \in Nat \ {0}
  <2>1. page \in Nat \ {0} /\ pageSize \in Nat \ {0}
    BY <1>2 DEF PageShape, PairsAssumption
  <2>2. \A side \in TCSides : next[side].data.total \in Nat
    BY <1>3
  <2> HIDE DEF next
  <2> QED
    BY <2>1, <2>2, ClampedIsPage
<1>6. CASE here # page
  <2>1. pane' = [side \in TCSides |-> [next[side] EXCEPT !.loading = TRUE]]
    BY <1>1, <1>6
  <2>2. \A side \in TCSides :
          pane'[side] = [data |-> Complete(n, side), loading |-> TRUE, error |-> FALSE]
    BY <2>1
  <2>3. DOMAIN pane' = TCSides
    BY <2>1
  <2>4. PanesShape' /\ \E side \in TCSides : pane'[side].loading
    <3>1. PanesShape'
      BY <1>3, <2>2, <2>3 DEF PanesShape
    <3>2. PICK s \in TCSides : TRUE
      BY DEF TCSides
    <3>3. pane'[s] = [data |-> Complete(n, s), loading |-> TRUE, error |-> FALSE]
      BY Zenon, <2>2
    <3>4. pane'[s].loading
      BY <3>3
    <3> QED
      BY <3>1, <3>4
  <2>5. ServerShape' /\ WorkShape' /\ pageSize \in PageSizes
    BY <1>1, <1>2 DEF ServerShape, WorkShape, PageShape
  <2>6. LoadPage(here, pageSize)
    BY <1>1, <1>6
  <2> HIDE DEF here
  <2> QED
    BY <1>5, <2>4, <2>5, <2>6, RowsReloaded
<1>7. CASE here = page
  <2>1. pane' = next /\ loads' = Forget(n) /\ UNCHANGED <<server, page, pageSize, loaded, work, stale>>
    BY <1>1, <1>7
  <2>2. PanesShape'
    BY <1>3, <1>4, <2>1 DEF PanesShape
  <2>3. /\ LoadsShape' /\ ServerShape' /\ PageShape' /\ WorkShape' /\ LoadsCurrent'
        /\ \A s : Own(s)' = Own(s) /\ Looked(s)' = Looked(s)
        /\ Clean' <=> Clean
    BY <2>1, LoadsForgotten
  <2>4. PanesCurrent'
    <3> SUFFICES ASSUME Clean, NEW side \in TCSides
                 PROVE  pane'[side].data.rows = Merge(Own(side).rows, Looked(side))
      BY <2>3 DEF PanesCurrent
    <3>1. loads[n].pages[side] = Own(side) /\ loads[n].extra[side] = Looked(side)
      BY <1>1, <1>2 DEF LoadsCurrent, BothRead
    <3>2. pane'[side].data = Complete(n, side)
      BY <1>4, <2>1
    <3> QED
      BY <1>3, <3>1, <3>2
  <2> QED
    BY <2>2, <2>3, <2>4 DEF RowsInv, RowsShape
<1> QED
  BY <1>6, <1>7

LEMMA RowsEnded ==
  ASSUME RowsInv, NEW n \in DOMAIN loads, LoadFailed(n) \/ LoadIgnored(n)
  PROVE  RowsInv'
<1>1. /\ UNCHANGED <<server, page, pageSize, loaded, work, stale>> /\ loads' = Forget(n)
      /\ \/ pane' = pane
         \/ pane' = [side \in TCSides |-> [data |-> None, loading |-> FALSE, error |-> TRUE]]
  BY DEF LoadFailed, LoadIgnored
<1>2. /\ LoadsShape' /\ ServerShape' /\ PageShape' /\ WorkShape' /\ LoadsCurrent'
      /\ \A s : Own(s)' = Own(s) /\ Looked(s)' = Looked(s)
      /\ Clean' <=> Clean
  BY <1>1, LoadsForgotten
<1>3. CASE pane' = pane
  <2>1. PanesShape'
    BY <1>3 DEF RowsInv, RowsShape, PanesShape
  <2>2. Settled' <=> Settled
    BY <1>3 DEF Settled, PaneLoading
  <2>3. PanesCurrent'
    BY <1>2, <1>3, <2>2 DEF RowsInv, PanesCurrent
  <2> QED
    BY <1>2, <2>1, <2>3 DEF RowsInv, RowsShape
<1>4. CASE pane' = [side \in TCSides |-> [data |-> None, loading |-> FALSE, error |-> TRUE]]
  <2>1. PanesShape'
    BY <1>4 DEF PanesShape
  <2>2. ~Settled'
    BY <1>4 DEF Settled, TCSides
  <2> QED
    BY <1>2, <2>1, <2>2 DEF RowsInv, RowsShape, PanesCurrent
<1> QED
  BY <1>1, <1>3, <1>4

-----------------------------------------------------------------------------
(* Choices of the user, and writes                                         *)

LEMMA RowsChoices ==
  ASSUME PairsAssumption, RowsInv, UserChoices
  PROVE  RowsInv'
<1>1. PageShape /\ PanesShape /\ ServerShape /\ WorkShape
  BY DEF RowsInv, RowsShape
<1>2. CASE CancelLoading
  <2>1. /\ UNCHANGED <<server, page, pageSize, loaded, work>> /\ loads' = Disposed /\ stale' = TRUE
        /\ pane' = [side \in TCSides |-> [pane[side] EXCEPT !.loading = FALSE, !.error = (pane[side].data = None)]]
    BY <1>2 DEF CancelLoading
  <2>2. /\ DOMAIN loads' = DOMAIN loads
        /\ \A n \in DOMAIN loads : loads'[n] = [loads[n] EXCEPT !.live = FALSE]
    BY <2>1 DEF Disposed
  <2>3. LoadsShape'
    <3>1. LoadsShape
      BY DEF RowsInv, RowsShape
    <3>2. \A n \in DOMAIN loads : /\ DOMAIN loads'[n] = DOMAIN loads[n] /\ ~loads'[n].live
                                 /\ loads'[n].pages = loads[n].pages /\ loads'[n].extra = loads[n].extra
      BY <2>2, <3>1 DEF LoadsShape
    <3> QED
      BY <2>1, <2>2, <3>1, <3>2 DEF LoadsShape
  <2>4. PanesShape'
    BY <1>1, <2>1 DEF PanesShape
  <2>5. ServerShape' /\ PageShape' /\ WorkShape'
    BY <1>1, <2>1 DEF ServerShape, PageShape, WorkShape
  <2> QED
    BY <2>1, <2>3, <2>4, <2>5 DEF RowsInv, RowsShape, LoadsCurrent, PanesCurrent, Clean
<1>3. CASE Reload
  BY <1>1, <1>3, RowsAgain DEF Reload, WorkShape
<1>4. ASSUME NEW p \in 1..Cardinality(RowKeys), GoToPage(p) PROVE RowsInv'
  <2>1. /\ LoadPage(Clamped(p, pane), pageSize) /\ StartLoading /\ UNCHANGED <<server, work>>
    BY <1>4 DEF GoToPage
  <2>2. p \in Nat \ {0} /\ pageSize \in Nat \ {0} /\ pageSize \in PageSizes
    BY <1>1 DEF PageShape, PairsAssumption
  <2>3. Clamped(p, pane) \in Nat \ {0}
    BY <1>1, <2>2, ClampedIsPage DEF PanesShape
  <2>4. WorkShape' /\ ServerShape'
    BY <1>1, <2>1 DEF WorkShape, ServerShape
  <2> QED
    BY <1>1, <2>1, <2>2, <2>3, <2>4, StartedPanes, RowsReloaded
<1>5. ASSUME NEW size \in PageSizes, SetPageSize(size) PROVE RowsInv'
  <2>1. LoadPage(1, size) /\ StartLoading /\ UNCHANGED <<server, work>> /\ 1 \in Nat \ {0}
    BY <1>5 DEF SetPageSize
  <2>2. WorkShape' /\ ServerShape'
    BY <1>1, <2>1 DEF WorkShape, ServerShape
  <2> QED
    BY <1>1, <2>1, <2>2, StartedPanes, RowsReloaded
<1>6. ASSUME NEW side \in TCSides,
             \/ \E k \in RowKeys : ToggleRow(side, k) \/ ToggleRange(side, k)
             \/ ToggleAllVisible(side) \/ RequestDelete(side)
      PROVE  RowsInv'
  <2>1. UNCHANGED <<server, page, pageSize, loads, loaded, pane, work, stale>>
    BY <1>6 DEF ToggleRow, ToggleRange, ToggleAllVisible, RequestDelete
  <2> QED
    BY <1>1, <2>1, RowsRest DEF WorkShape, Clean, Dirty
<1>7. CASE Copy
  <2>1. /\ UNCHANGED <<server, page, pageSize, loads, loaded, pane, stale>> /\ ~TCBusy
        /\ work' = [kind |-> "copy", todo |-> picked.source, failed |-> {}, all |-> Keys(picked.source)]
    <3>1. "copy" \in ToolbarOffers
      BY <1>7 DEF Copy
    <3>2. CopyEnabled
      BY <3>1 DEF ToolbarOffers
    <3> QED
      BY <1>7, <3>2 DEF Copy, CopyEnabled
  <2>2. WorkShape' /\ ~Dirty'
    BY <2>1 DEF WorkShape, Dirty
  <2> QED
    BY <2>1, <2>2, RowsRest DEF Clean, Dirty, TCBusy
<1>8. CASE RequestOverwrite \/ DismissConfirm
  <2>1. UNCHANGED <<server, page, pageSize, loads, loaded, pane, work, stale>>
    BY <1>8 DEF RequestOverwrite, DismissConfirm
  <2> QED
    BY <1>1, <2>1, RowsRest DEF WorkShape, Clean, Dirty
<1> QED
  BY <1>2, <1>3, <1>4, <1>5, <1>6, <1>7, <1>8 DEF UserChoices

LEMMA RowsCopied ==
  ASSUME PairsAssumption, RowsInv, NEW k \in RowKeys, NEW ok \in BOOLEAN, CopyRow(k, ok)
  PROVE  RowsInv'
<1> DEFINE todo == Only(work.todo, Keys(work.todo) \ {k})
<1>1. /\ work.kind = "copy" /\ k \in Keys(work.todo)
      /\ server' = IF ok THEN [server EXCEPT !.target = Merge(Only(work.todo, {k}), @)] ELSE server
      /\ work' = [work EXCEPT !.todo = todo, !.failed = IF ok THEN @ ELSE @ \cup {k}]
      /\ UNCHANGED <<page, pageSize, loads, loaded, pane, stale>>
  BY DEF CopyRow
<1>2. WorkShape /\ ServerShape
  BY DEF RowsInv, RowsShape
<1>3. Keys(todo) = Keys(work.todo) \ {k}
  BY DEF Only, Keys
<1> HIDE DEF todo
<1>4. /\ DOMAIN work' = DOMAIN work /\ work'.kind = "copy" /\ work'.todo = todo /\ work'.all = work.all
      /\ work'.failed = IF ok THEN work.failed ELSE work.failed \cup {k}
  BY <1>1, <1>2 DEF WorkShape
<1>5. WorkShape'
  BY <1>1, <1>2, <1>3, <1>4 DEF WorkShape
<1>6. CASE ok
  <2>1. server' = [server EXCEPT !.target = Merge(Only(work.todo, {k}), @)]
    BY <1>1, <1>6
  <2>2. /\ DOMAIN server' = DOMAIN server /\ server'["source"] = server["source"]
        /\ server'["target"] = Merge(Only(work.todo, {k}), server["target"])
    BY <1>2, <2>1 DEF ServerShape, TCSides
  <2>3. Keys(server'["target"]) \subseteq Keys(server["target"]) \cup {k}
    BY <2>2 DEF Merge, Only, Keys
  <2>4. ServerShape'
    BY <1>2, <2>2, <2>3 DEF ServerShape, TCSides
  <2>5. Dirty'
    BY <1>1, <1>2, <1>3, <1>4, <1>6 DEF Dirty, WorkShape
  <2> QED
    BY <1>1, <1>5, <2>4, <2>5, RowsWritten
<1>7. CASE ~ok
  <2>1. server' = server
    BY <1>1, <1>7
  <2>2. Dirty => Dirty'
    BY <1>1, <1>2, <1>3, <1>4, <1>7 DEF Dirty, WorkShape
  <2> QED
    BY <1>1, <1>5, <2>1, <2>2, RowsRest DEF Clean
<1> QED
  BY <1>6, <1>7

\* Rows are deleted on one of the sides.
SidesInv ==
  /\ confirm # None => confirm.side \in TCSides
  /\ work.kind = "delete" => work.side \in TCSides

LEMMA SidesStep ==
  ASSUME WorkShape, SidesInv, [TCNext]_tcVars
  PROVE  SidesInv'
<1> USE DEF SidesInv
<1>1. CASE \/ Loads \/ CancelLoading \/ Reload \/ UNCHANGED tcVars
           \/ (\E p : GoToPage(p)) \/ (\E size : SetPageSize(size))
  BY <1>1, PagesOnly
<1>2. ASSUME NEW side, NEW k,
             ToggleRow(side, k) \/ ToggleRange(side, k) \/ ToggleAllVisible(side)
      PROVE  SidesInv'
  BY <1>2, NoQuestionThen
<1>3. ASSUME NEW side \in TCSides, RequestDelete(side) PROVE SidesInv'
  BY <1>3 DEF RequestDelete
<1>4. CASE Copy \/ RequestOverwrite \/ DismissConfirm
  BY <1>4 DEF Copy, RequestOverwrite, DismissConfirm, TCSides
<1>5. ASSUME NEW k, NEW ok, CopyRow(k, ok) PROVE SidesInv'
  BY <1>5 DEF CopyRow, WorkShape
<1>6. CASE CopyDone \/ DeleteFailed \/ DeleteAnswered \/ OverwriteReturned \/ OverwriteThrew
  <2>1. work' = Idle /\ (confirm' = confirm \/ confirm' = None)
    <3>1. CASE CopyDone
      BY <3>1 DEF CopyDone
    <3>2. CASE DeleteFailed
      BY <3>2 DEF DeleteFailed
    <3>3. CASE DeleteAnswered
      BY <3>3 DEF DeleteAnswered
    <3>4. CASE OverwriteReturned
      BY <3>4 DEF OverwriteReturned
    <3>5. CASE OverwriteThrew
      BY <3>5 DEF OverwriteThrew
    <3> QED
      BY <1>6, <3>1, <3>2, <3>3, <3>4, <3>5
  <2> QED
    BY <2>1 DEF Idle
<1>7. CASE ConfirmDelete
  BY <1>7 DEF ConfirmDelete
<1>8. CASE DeleteApplied
  <2>1. /\ work.kind = "delete" /\ confirm' = confirm
        /\ work' = [work EXCEPT !.affected = Cardinality(work.keys \cap Keys(server[work.side]))]
    BY <1>8 DEF DeleteApplied
  <2>2. work'.side = work.side
    BY <2>1 DEF WorkShape
  <2> QED
    BY <2>1, <2>2
<1>9. CASE ConfirmOverwrite
  BY <1>9 DEF ConfirmOverwrite, Idle
<1>10. ASSUME NEW rows, OverwriteApplied(rows) PROVE SidesInv'
  BY <1>10 DEF OverwriteApplied, WorkShape
<1>11. CASE CancelOverwrite
  BY <1>11 DEF CancelOverwrite, WorkShape
<1>12. CASE UserChoices
  BY <1>12, <1>1, <1>2, <1>3, <1>4 DEF UserChoices
<1>13. CASE Writes
  BY <1>13, <1>5, <1>6, <1>7, <1>8, <1>9, <1>10, <1>11 DEF Writes
<1> QED
  BY <1>1, <1>12, <1>13 DEF TCNext

LEMMA RowsDeleted ==
  ASSUME PairsAssumption, RowsInv, SidesInv,
         ConfirmDelete \/ DeleteApplied \/ DeleteFailed \/ DeleteAnswered
  PROVE  RowsInv'
<1>1. WorkShape /\ ServerShape /\ PageShape /\ PanesShape
  BY DEF RowsInv, RowsShape
<1>2. CASE ConfirmDelete
  <2>1. /\ UNCHANGED <<server, page, pageSize, loads, loaded, pane, stale>>
        /\ work.kind = "none" /\ work' = [kind |-> "delete", side |-> confirm.side,
                                          keys |-> Keys(picked[confirm.side]), affected |-> None]
    BY <1>2 DEF ConfirmDelete, TCBusy
  <2>2. WorkShape' /\ ~Dirty' /\ ~Dirty
    BY <2>1 DEF WorkShape, Dirty
  <2> QED
    BY <2>1, <2>2, RowsRest DEF Clean
<1>3. CASE DeleteApplied
  <2> DEFINE both == work.keys \cap Keys(server[work.side])
             left == Only(server[work.side], Keys(server[work.side]) \ work.keys)
  <2>1. /\ work.kind = "delete" /\ UNCHANGED <<page, pageSize, loads, loaded, pane, stale>>
        /\ server' = [server EXCEPT ![work.side] = left]
        /\ work' = [work EXCEPT !.affected = Cardinality(both)]
    BY <1>3 DEF DeleteApplied
  <2>2. work.side \in TCSides
    BY <2>1 DEF SidesInv
  <2>3. Cardinality(both) \in Nat
    <3>1. both \in SUBSET Keys(server[work.side])
      OBVIOUS
    <3> QED
      BY <1>1, <2>2, <3>1, TableIsFinite, FS_Subset, FS_CardinalityType
  <2>4. Keys(left) \in SUBSET Keys(server[work.side])
    BY DEF Only, Keys
  <2> HIDE DEF both, left
  <2>5. ServerShape'
    <3>1. DOMAIN server' = TCSides
      BY <1>1, <2>1 DEF ServerShape
    <3>2. \A side \in TCSides : server'[side] = IF side = work.side THEN left ELSE server[side]
      BY <1>1, <2>1 DEF ServerShape
    <3> QED
      BY <1>1, <2>4, <3>1, <3>2 DEF ServerShape
  <2>6. DOMAIN work' = DOMAIN work /\ work'.kind = "delete" /\ work'.affected = Cardinality(both)
    BY <1>1, <2>1 DEF WorkShape
  <2>7. WorkShape' /\ Dirty'
    BY <1>1, <2>1, <2>3, <2>6, UnsetAssumption DEF WorkShape, Dirty
  <2> QED
    BY <2>1, <2>5, <2>7, RowsWritten
<1>4. CASE DeleteFailed
  <2>1. /\ UNCHANGED <<server, page, pageSize, loads, loaded, pane>>
        /\ work.kind = "delete" /\ work' = Idle /\ stale' = (stale \/ work.affected # None)
    BY <1>4 DEF DeleteFailed
  <2>2. WorkShape' /\ ~Dirty'
    BY <2>1 DEF WorkShape, Dirty, Idle
  <2> QED
    BY <2>1, <2>2, RowsRest DEF Clean, Dirty
<1>5. CASE DeleteAnswered
  <2> DEFINE waits(side) == [pane[side] EXCEPT !.loading = TRUE, !.error = FALSE]
  <2>1. /\ work.kind = "delete" /\ work.affected # None /\ work' = Idle /\ server' = server
        /\ LoadPage(Clamped(page, pane'), pageSize)
        /\ pane' = [side \in TCSides |->
             IF side # work.side \/ waits(side).data = None THEN waits(side)
             ELSE [waits(side) EXCEPT !.data = Deleted(@)]]
    BY <1>5 DEF DeleteAnswered
  <2>2. \A side \in TCSides :
          /\ DOMAIN waits(side) = {"data", "loading", "error"}
          /\ waits(side).data = pane[side].data /\ waits(side).loading = TRUE
    BY <1>1 DEF PanesShape
  <2>3. work.affected \in Nat
    BY <1>1, <2>1 DEF WorkShape
  <2>4. ASSUME NEW data, DOMAIN data = {"rows", "shown", "total", "exact"}, data.total \in Nat
        PROVE  DOMAIN Deleted(data) = {"rows", "shown", "total", "exact"} /\ Deleted(data).total \in Nat
    <3>1. DOMAIN Deleted(data) = DOMAIN data /\ Deleted(data).total = data.total - Least(data.total, work.affected)
      BY <2>4 DEF Deleted
    <3> QED
      BY <2>3, <2>4, <3>1 DEF Least
  <2> HIDE DEF waits
  <2>5. ASSUME NEW side \in TCSides
        PROVE  /\ DOMAIN pane'[side] = {"data", "loading", "error"} /\ pane'[side].loading = TRUE
               /\ pane'[side].data # None =>
                    /\ DOMAIN pane'[side].data = {"rows", "shown", "total", "exact"}
                    /\ pane'[side].data.total \in Nat
    <3>1. CASE side # work.side \/ waits(side).data = None
      <4>1. pane'[side] = waits(side)
        BY <2>1, <3>1
      <4> QED
        BY <1>1, <2>2, <4>1 DEF PanesShape
    <3>2. CASE side = work.side /\ waits(side).data # None
      <4>1. pane'[side] = [waits(side) EXCEPT !.data = Deleted(@)]
        BY <2>1, <3>2
      <4>2. /\ DOMAIN pane'[side] = {"data", "loading", "error"} /\ pane'[side].loading = TRUE
            /\ pane'[side].data = Deleted(pane[side].data)
        BY <2>2, <4>1
      <4> QED
        BY <1>1, <2>2, <2>4, <3>2, <4>2 DEF PanesShape
    <3> QED
      BY <3>1, <3>2
  <2>6. PanesShape' /\ \E side \in TCSides : pane'[side].loading
    <3>1. DOMAIN pane' = TCSides
      BY <2>1
    <3>2. PICK side \in TCSides : TRUE
      BY DEF TCSides
    <3>3. pane'[side].loading
      BY <2>5
    <3>4. PanesShape'
      BY <2>5, <3>1 DEF PanesShape
    <3> QED
      BY <3>3, <3>4
  <2>7. Clamped(page, pane') \in Nat \ {0}
    <3>1. page \in Nat \ {0} /\ pageSize \in Nat \ {0}
      BY <1>1 DEF PageShape, PairsAssumption
    <3> QED
      BY <2>5, <3>1, ClampedIsPage
  <2>8. WorkShape' /\ ServerShape' /\ pageSize \in PageSizes
    BY <1>1, <2>1 DEF WorkShape, ServerShape, PageShape, Idle
  <2>9. LoadPage(Clamped(page, pane'), pageSize)
    BY <2>1
  <2> QED
    BY <2>6, <2>7, <2>8, <2>9, RowsReloaded
<1> QED
  BY <1>2, <1>3, <1>4, <1>5

LEMMA RowsOverwritten ==
  ASSUME RowsInv,
         \/ ConfirmOverwrite \/ CancelOverwrite \/ OverwriteReturned \/ OverwriteThrew
         \/ \E rows \in {server.source, NoRows, server.target} : OverwriteApplied(rows)
  PROVE  RowsInv'
<1>1. WorkShape /\ ServerShape
  BY DEF RowsInv, RowsShape
<1>2. CASE ConfirmOverwrite
  <2>1. /\ UNCHANGED <<server, page, pageSize, loads, loaded, pane, stale>> /\ work.kind = "none"
        /\ work' \in {Idle, [kind |-> "overwrite", stage |-> "running", cancelled |-> FALSE]}
    BY <1>2 DEF ConfirmOverwrite, TCBusy
  <2>2. WorkShape' /\ ~Dirty' /\ ~Dirty
    BY <2>1 DEF WorkShape, Dirty, Idle
  <2> QED
    BY <2>1, <2>2, RowsRest DEF Clean
<1>3. CASE CancelOverwrite
  <2>1. /\ UNCHANGED <<server, page, pageSize, loads, loaded, pane, stale>> /\ work.kind = "overwrite"
        /\ work' = [work EXCEPT !.cancelled = TRUE]
    BY <1>3 DEF CancelOverwrite
  <2>2. DOMAIN work' = DOMAIN work /\ work'.kind = "overwrite" /\ work'.stage = work.stage
    BY <1>1, <2>1 DEF WorkShape
  <2>3. WorkShape' /\ (Dirty' <=> Dirty)
    BY <1>1, <2>1, <2>2 DEF WorkShape, Dirty
  <2> QED
    BY <2>1, <2>3, RowsRest DEF Clean
<1>4. ASSUME NEW rows \in {server.source, NoRows, server.target}, OverwriteApplied(rows) PROVE RowsInv'
  <2>1. /\ UNCHANGED <<page, pageSize, loads, loaded, pane, stale>> /\ work.kind = "overwrite"
        /\ server' = [server EXCEPT !.target = rows]
        /\ work' = [work EXCEPT !.stage = "applied"]
    BY <1>4 DEF OverwriteApplied
  <2>2. Keys(rows) \in SUBSET RowKeys
    BY <1>1 DEF ServerShape, TCSides, NoRows, Keys
  <2>3. ServerShape'
    BY <1>1, <2>1, <2>2 DEF ServerShape, TCSides
  <2>4. DOMAIN work' = DOMAIN work /\ work'.kind = "overwrite" /\ work'.stage = "applied"
    BY <1>1, <2>1 DEF WorkShape
  <2>5. WorkShape' /\ Dirty'
    BY <1>1, <2>1, <2>4 DEF WorkShape, Dirty
  <2> QED
    BY <2>1, <2>3, <2>5, RowsWritten
<1>5. CASE OverwriteReturned
  <2>1. LoadPage(page, pageSize) /\ StartLoading /\ work' = Idle /\ server' = server
    BY <1>5 DEF OverwriteReturned
  <2>2. WorkShape'
    BY <2>1 DEF WorkShape, Idle
  <2> QED
    BY <2>1, <2>2, RowsAgain
<1>6. CASE OverwriteThrew
  <2>1. /\ work' = Idle /\ server' = server
        /\ \/ LoadPage(page, pageSize) /\ StartLoading
           \/ stale' = TRUE /\ UNCHANGED <<page, pageSize, loads, loaded, pane>>
    BY <1>6 DEF OverwriteThrew
  <2>2. WorkShape'
    BY <2>1 DEF WorkShape, Idle
  <2>3. CASE LoadPage(page, pageSize) /\ StartLoading
    BY <2>1, <2>2, <2>3, RowsAgain
  <2>4. CASE stale' = TRUE /\ UNCHANGED <<page, pageSize, loads, loaded, pane>>
    BY <2>1, <2>2, <2>4, RowsRest DEF Clean
  <2> QED
    BY <2>1, <2>3, <2>4
<1> QED
  BY <1>2, <1>3, <1>4, <1>5, <1>6

LEMMA RowsAllCopied ==
  ASSUME RowsInv, CopyDone
  PROVE  RowsInv'
<1>1. /\ work.kind = "copy" /\ work.todo = NoRows /\ work' = Idle /\ server' = server
      /\ IF work.all # work.failed THEN LoadPage(page, pageSize) /\ StartLoading
         ELSE UNCHANGED <<page, pageSize, loads, loaded, pane, stale>>
  BY DEF CopyDone
<1>2. WorkShape' /\ ~Dirty'
  BY <1>1 DEF WorkShape, Dirty, Idle
<1>3. CASE work.all # work.failed
  BY <1>1, <1>2, <1>3, RowsAgain
<1>4. CASE work.all = work.failed
  <2>1. ~Dirty
    BY <1>1, <1>4 DEF Dirty
  <2> QED
    BY <1>1, <1>2, <1>4, <2>1, RowsRest DEF Clean
<1> QED
  BY <1>3, <1>4

LEMMA RowsStep ==
  ASSUME PairsAssumption, RowsInv, SidesInv, [TCNext]_tcVars
  PROVE  RowsInv'
<1>1. CASE Loads
  <2>1. PICK n \in DOMAIN loads :
          \/ \E side \in TCSides : ReadPage(n, side) \/ LookUp(n, side)
          \/ Loaded(n) \/ LoadFailed(n) \/ LoadIgnored(n)
    BY <1>1 DEF Loads
  <2> QED
    BY <2>1, RowsReadPage, RowsLookUp, RowsLoaded, RowsEnded
<1>2. CASE Writes
  BY <1>2, RowsCopied, RowsAllCopied, RowsDeleted, RowsOverwritten DEF Writes
<1>3. CASE UNCHANGED tcVars
  <2>1. UNCHANGED <<server, page, pageSize, loads, loaded, pane, work, stale>>
    BY <1>3 DEF tcVars
  <2> QED
    BY <2>1, RowsRest DEF RowsInv, WorkShape, Clean, Dirty
<1> QED
  BY <1>1, <1>2, <1>3, RowsChoices DEF TCNext

LEMMA RowsStart == ASSUME PairsAssumption, TCInit PROVE RowsInv /\ SidesInv
<1>1. /\ server \in Tables /\ page = 1 /\ pageSize \in PageSizes
      /\ DOMAIN loads = {1} /\ loads[1] = NewLoad(1, pageSize) /\ loaded = 1
      /\ pane = [side \in TCSides |-> [data |-> None, loading |-> TRUE, error |-> FALSE]]
      /\ work = Idle /\ confirm = None
  BY DEF TCInit
<1>2. WorkShape /\ SidesInv
  BY <1>1 DEF WorkShape, SidesInv, Idle
<1>3. ServerShape /\ PageShape /\ PanesShape
  BY <1>1 DEF ServerShape, PageShape, PanesShape, PairsAssumption
<1>4. LoadsShape
  BY <1>1 DEF LoadsShape, NewLoad, Unread
<1>5. LoadsCurrent
  BY <1>1 DEF LoadsCurrent, NewLoad, Unread
<1>6. PanesCurrent
  BY <1>1 DEF PanesCurrent, Settled, TCSides
<1> QED
  BY <1>2, <1>3, <1>4, <1>5, <1>6 DEF RowsInv, RowsShape

\* Of each row that a settled pair of panes shows, a side that has it shows it.
LEMMA BothShown ==
  ASSUME PairsAssumption, RowsInv, Clean, Settled, \A side \in TCSides : ~BeyondItsEnd(side),
         NEW k \in AlignedKeys, NEW side \in TCSides
  PROVE  /\ k \in Keys(pane[side].data.rows) <=> k \in Keys(server[side])
         /\ k \in Keys(server[side]) => pane[side].data.rows[k] = server[side][k]
<1> DEFINE own(s) == Own(s).rows
<1>1. ServerShape /\ page \in Nat \ {0} /\ pageSize \in Nat \ {0}
  BY DEF RowsInv, RowsShape, PageShape, PairsAssumption
<1>2. \A s \in TCSides : pane[s].data.rows = Merge(own(s), Looked(s))
  BY DEF RowsInv, PanesCurrent
<1>3. ASSUME NEW s \in TCSides
      PROVE  /\ Keys(own(s)) \in SUBSET Keys(server[s])
             /\ \A j \in Keys(own(s)) : own(s)[j] = server[s][j]
  BY PageHas DEF Own
<1>4. ASSUME NEW s \in TCSides
      PROVE  /\ Keys(Looked(s)) = Keys(server[s]) \cap MissingKeys(Own(s), Own(Peer(s)))
             /\ \A j \in Keys(Looked(s)) : Looked(s)[j] = server[s][j]
  BY DEF Looked, Only, Keys
<1>5. ASSUME NEW s \in TCSides
      PROVE  /\ Keys(pane[s].data.rows) = Keys(own(s)) \cup Keys(Looked(s))
             /\ \A j \in Keys(pane[s].data.rows) : pane[s].data.rows[j] = server[s][j]
  <2>1. pane[s].data.rows =
          [j \in Keys(own(s)) \cup Keys(Looked(s)) |-> IF j \in Keys(own(s)) THEN own(s)[j] ELSE Looked(s)[j]]
    BY <1>2 DEF Merge
  <2> HIDE DEF own
  <2>2. Keys(pane[s].data.rows) = Keys(own(s)) \cup Keys(Looked(s))
    BY <2>1 DEF Keys
  <2>3. ASSUME NEW j \in Keys(pane[s].data.rows) PROVE pane[s].data.rows[j] = server[s][j]
    BY <1>3, <1>4, <2>1, <2>2
  <2> QED
    BY <2>2, <2>3
<1>6. \A s \in TCSides : MissingKeys(Own(s), Own(Peer(s))) \subseteq Keys(own(Peer(s)))
  BY DEF MissingKeys
<1>7. k \in Keys(own(side)) \/ k \in Keys(own(Peer(side)))
  <2>1. PICK s \in TCSides : k \in Keys(pane[s].data.rows)
    BY DEF AlignedKeys
  <2>2. k \in Keys(own(s)) \/ k \in Keys(own(Peer(s)))
    BY <1>4, <1>5, <1>6, <2>1
  <2>3. s = side \/ (s = Peer(side) /\ side = Peer(s))
    BY DEF TCSides, Peer
  <2> QED
    BY <2>2, <2>3
<1>8. k \in Keys(pane[side].data.rows) => k \in Keys(server[side])
  BY <1>3, <1>4, <1>5
<1>9. ASSUME k \in Keys(server[side]), k \notin Keys(own(side)) PROVE k \in Keys(Looked(side))
  <2>1. k \in Keys(own(Peer(side)))
    BY <1>7, <1>9
  <2>2. CASE Cardinality(Keys(own(side))) # Own(side).total
    <3>1. MissingKeys(Own(side), Own(Peer(side))) = Keys(own(Peer(side))) \ Keys(own(side))
      BY <2>2 DEF MissingKeys
    <3> QED
      BY <1>4, <1>9, <2>1, <3>1
  <2>3. CASE Cardinality(Keys(own(side))) = Own(side).total
    <3>1. MissingKeys(Own(side), Own(Peer(side))) = {}
      BY <2>3 DEF MissingKeys
    <3>2. page = 1 \/ Keys(own(side)) # {}
      BY <1>1, <1>4, <1>5, <3>1 DEF BeyondItsEnd
    <3>3. Keys(own(side)) = Keys(server[side])
      BY <1>1, <2>3, <3>2, TableIsFinite, WholePage DEF Own
    <3> QED
      BY <1>9, <3>3
  <2> QED
    BY <2>2, <2>3
<1> QED
  BY <1>5, <1>8, <1>9

\* What the panes say of a row is true of the whole tables, whichever pages were turned and
\* however their reads, the looking up of missing rows and the writes were interleaved
\* (table-compare-data-hooks.ts, TableCompareView.tsx:218-378).
THEOREM DiffsAreTrue == ASSUME PairsAssumption PROVE TCSpec => []SettledDiffIsTrue
<1>1. TCInit => RowsInv /\ SidesInv
  BY RowsStart
<1>2. RowsInv /\ SidesInv /\ [TCNext]_tcVars => (RowsInv /\ SidesInv)'
  <2> SUFFICES ASSUME RowsInv, SidesInv, [TCNext]_tcVars PROVE RowsInv' /\ SidesInv'
    OBVIOUS
  <2>1. WorkShape
    BY DEF RowsInv
  <2> QED
    BY <2>1, RowsStep, SidesStep
<1>3. RowsInv /\ SidesInv => SettledDiffIsTrue
  <2> SUFFICES ASSUME RowsInv, Settled, ~TCBusy, ~stale, \A side \in TCSides : ~BeyondItsEnd(side),
                      NEW side \in TCSides, NEW k \in DOMAIN Panes[side].lines
               PROVE  /\ Panes[side].lines[k].kind = TrueKind(k)
                      /\ Panes[side].lines[k].row = IF k \in Keys(server[side]) THEN server[side][k] ELSE None
    BY DEF SettledDiffIsTrue
  <2>1. Clean
    BY DEF Clean, Dirty, TCBusy
  <2>2. /\ k \in AlignedKeys
        /\ Panes[side].lines[k] = PaneLine(side, k)
    <3>1. Panes[side].lines = [j \in PaneRows(side) |-> PaneLine(side, j)]
      BY DEF Panes, PaneView
    <3>2. PaneRows(side) = AlignedKeys
      BY DEF PaneRows, Settled
    <3> QED
      BY <3>1, <3>2
  <2>3. \A s \in TCSides :
          /\ k \in Keys(pane[s].data.rows) <=> k \in Keys(server[s])
          /\ k \in Keys(server[s]) => pane[s].data.rows[k] = server[s][k]
    BY <2>1, <2>2, BothShown
  <2>4. Panes[side].lines[k].row = IF k \in Keys(server[side]) THEN server[side][k] ELSE None
    BY <2>2, <2>3 DEF PaneLine
  <2>5. k \in Keys(pane["source"].data.rows) \/ k \in Keys(pane["target"].data.rows)
    BY <2>2 DEF AlignedKeys, TCSides
  <2>6. "source" \in TCSides /\ "target" \in TCSides
    BY DEF TCSides
  <2>7. Peer("source") = "target" /\ Peer("target") = "source"
    BY DEF Peer
  <2>8. LineKind(k) = TrueKind(k)
    <3>1. /\ k \in Keys(pane["source"].data.rows) <=> k \in Keys(server["source"])
          /\ k \in Keys(pane["target"].data.rows) <=> k \in Keys(server["target"])
      BY <2>3, <2>6
    <3>2. CASE k \notin Keys(server["target"])
      <4>1. RowDiffStatus("source", k) = "source-only"
        BY <2>7, <3>1, <3>2 DEF RowDiffStatus
      <4> QED
        BY <2>5, <3>1, <3>2, <4>1 DEF LineKind, TrueKind, RowDiffKind
    <3>3. CASE k \in Keys(server["target"]) /\ k \notin Keys(server["source"])
      <4>1. RowDiffStatus("target", k) = "target-only"
        BY <2>7, <3>1, <3>3 DEF RowDiffStatus
      <4> QED
        BY <3>1, <3>3, <4>1 DEF LineKind, TrueKind, RowDiffKind
    <3>4. CASE k \in Keys(server["target"]) /\ k \in Keys(server["source"])
      <4>1. pane["source"].data.rows[k] = server["source"][k] /\ pane["target"].data.rows[k] = server["target"][k]
        BY <2>3, <2>6, <3>4
      <4>2. RowDiffStatus("source", k) =
              IF server["source"][k] = server["target"][k] THEN "identical" ELSE "modified"
        BY <2>7, <3>1, <3>4, <4>1 DEF RowDiffStatus
      <4> QED
        BY <3>1, <3>4, <4>2 DEF LineKind, TrueKind, RowDiffKind
    <3> QED
      BY <3>2, <3>3, <3>4
  <2>9. Panes[side].lines[k].kind = TrueKind(k)
    BY <2>2, <2>8 DEF PaneLine
  <2> QED
    BY <2>4, <2>9
<1> QED
  BY <1>1, <1>2, <1>3, PTL DEF TCSpec

-----------------------------------------------------------------------------
(* The pages that are read                                                 *)

\* What was read of a page no earlier than its view last cancelled its reads.
Current(key, rows) == rows \subseteq Nat /\ \A n \in rows : n >= cancelledAt[ScopeOf(key)]

\* The count of what the cache holds is right, and within its limit.
HeldInv ==
  /\ IsFiniteSet(DOMAIN cached) /\ cachedBytes = Cardinality(DOMAIN cached)
  /\ cachedBytes <= MaxCached
  /\ \A k \in DOMAIN cached : /\ DOMAIN cached[k] = {"rows", "place"}
                              /\ cached[k].place \in Nat
\* A read that may still be kept is the one its page waits for, and was begun, and has read,
\* since the last cancellation; so no other read is kept for that page.
ReadsInv ==
  /\ written \in Nat
  /\ scopeVersions \in [Scopes -> Nat] /\ cancelledAt \in [Scopes -> Nat]
  /\ \A s \in Scopes : cancelledAt[s] <= written
  /\ \A id \in DOMAIN operations :
       /\ DOMAIN operations[id] = {"key", "version", "cancelled", "rows"}
       /\ operations[id].key \in Key
       /\ operations[id].version \in Nat
       /\ operations[id].version <= scopeVersions[ScopeOf(operations[id].key)]
       /\ Accepted(operations[id]) =>
            /\ Current(operations[id].key, operations[id].rows)
            /\ operations[id].key \in DOMAIN pending /\ pending[operations[id].key] = id
            /\ operations[id].key \notin DOMAIN cached
  /\ \A k \in DOMAIN pending :
       /\ k \in Key /\ pending[k] \in DOMAIN operations
       /\ operations[pending[k]].key = k /\ ~operations[pending[k]].cancelled
PagesInv == \A k \in DOMAIN cached : k \in Key /\ Current(k, cached[k].rows)
CacheInv == HeldInv /\ ReadsInv /\ PagesInv

LEMMA ScopesOfKeys == \A k \in Key : ScopeOf(k) \in Scopes
  BY DEF Key, ScopeOf

\* Placing what is held anew keeps it.
LEMMA PlacedHolds ==
  ASSUME NEW f, IsFiniteSet(DOMAIN f),
         \A k \in DOMAIN f : DOMAIN f[k] = {"rows", "place"}
  PROVE  /\ DOMAIN Placed(f) = DOMAIN f
         /\ \A k \in DOMAIN f : /\ DOMAIN Placed(f)[k] = {"rows", "place"}
                                /\ Placed(f)[k].rows = f[k].rows
                                /\ Placed(f)[k].place \in Nat
<1>1. DOMAIN Placed(f) = DOMAIN f
  BY DEF Placed
<1>2. ASSUME NEW k \in DOMAIN f
      PROVE  /\ DOMAIN Placed(f)[k] = {"rows", "place"}
             /\ Placed(f)[k].rows = f[k].rows
             /\ Placed(f)[k].place \in Nat
  <2> DEFINE before == {o \in DOMAIN f : f[o].place <= f[k].place}
  <2>1. before \in SUBSET DOMAIN f
    OBVIOUS
  <2>2. Cardinality(before) \in Nat
    BY <2>1, FS_Subset, FS_CardinalityType
  <2>3. Placed(f)[k] = [f[k] EXCEPT !.place = Cardinality(before)]
    BY DEF Placed
  <2> QED
    BY <2>2, <2>3
<1> QED
  BY <1>1, <1>2

\* Of some results that are held one is the oldest.
LEMMA OldestBelongs ==
  ASSUME NEW f, DOMAIN f # {}, \A k \in DOMAIN f : f[k].place \in Nat
  PROVE  Oldest(f) \in DOMAIN f
<1> DEFINE places == {f[k].place : k \in DOMAIN f}
<1>1. places \subseteq Nat /\ places # {}
  OBVIOUS
<1>2. \E m \in places : \A n \in places : ~ (<<n, m>> \in OpToRel(<, Nat))
  <2> HIDE DEF places
  <2> QED
    BY <1>1, NatLessThanWellFounded, WFMin
<1>3. PICK m \in places : \A n \in places : ~ (n < m)
  BY <1>1, <1>2 DEF OpToRel
<1>4. \E k \in DOMAIN f : \A o \in DOMAIN f : f[k].place <= f[o].place
  <2>1. PICK k \in DOMAIN f : f[k].place = m
    OBVIOUS
  <2>2. \A o \in DOMAIN f : f[o].place \in places
    OBVIOUS
  <2> HIDE DEF places
  <2> QED
    BY <1>1, <1>3, <2>1, <2>2
<1> QED
  BY <1>4 DEF Oldest

\* Keeping a result that is not held adds it, or takes the place of the oldest.
LEMMA KeepHolds ==
  ASSUME HeldInv, MaxCached \in Nat, NEW key, NEW rows, key \notin DOMAIN cached, Keep(key, rows)
  PROVE  /\ HeldInv'
         /\ DOMAIN cached' \subseteq DOMAIN cached \cup {key}
         /\ \A k \in DOMAIN cached' : cached'[k].rows = IF k = key THEN rows ELSE cached[k].rows
<1> DEFINE more == Added(key, rows)
<1>1. Cardinality(DOMAIN cached) \in Nat
  BY FS_CardinalityType DEF HeldInv
<1>2. /\ DOMAIN more = DOMAIN cached \cup {key}
      /\ more[key] = [rows |-> rows, place |-> Newest]
      /\ \A k \in DOMAIN cached : more[k] = cached[k]
  BY DEF Added, With
<1>3. Newest \in Nat
  BY <1>1 DEF Newest
<1>4. \A k \in DOMAIN more : DOMAIN more[k] = {"rows", "place"} /\ more[k].place \in Nat
  BY <1>2, <1>3 DEF HeldInv
<1>5. \A k \in DOMAIN more : more[k].rows = IF k = key THEN rows ELSE cached[k].rows
  BY <1>2
<1>6. IsFiniteSet(DOMAIN more) /\ Cardinality(DOMAIN more) = Cardinality(DOMAIN cached) + 1
  BY <1>2, FS_AddElement DEF HeldInv
<1> HIDE DEF more
<1>7. CASE cachedBytes + 1 > MaxCached
  <2> DEFINE less == Without(more, Oldest(more))
  <2>1. cached' = Placed(less) /\ cachedBytes' = cachedBytes
    BY <1>7 DEF Keep, more
  <2>2. Oldest(more) \in DOMAIN more
    BY <1>2, <1>4, OldestBelongs
  <2>3. /\ DOMAIN less = DOMAIN more \ {Oldest(more)}
        /\ \A k \in DOMAIN less : less[k] = more[k]
    BY DEF Without
  <2>4. IsFiniteSet(DOMAIN less) /\ Cardinality(DOMAIN less) = Cardinality(DOMAIN more) - 1
    BY <1>6, <2>2, <2>3, FS_RemoveElement
  <2>5. \A k \in DOMAIN less : DOMAIN less[k] = {"rows", "place"}
    BY <1>4, <2>3
  <2> HIDE DEF less
  <2>6. /\ DOMAIN cached' = DOMAIN less
        /\ \A k \in DOMAIN less : /\ DOMAIN cached'[k] = {"rows", "place"}
                                  /\ cached'[k].rows = less[k].rows
                                  /\ cached'[k].place \in Nat
    BY <2>1, <2>4, <2>5, PlacedHolds
  <2>7. cachedBytes' = Cardinality(DOMAIN cached') /\ cachedBytes' <= MaxCached
    BY <1>1, <1>6, <2>1, <2>4, <2>6 DEF HeldInv
  <2>8. HeldInv'
    BY <2>4, <2>6, <2>7 DEF HeldInv
  <2> QED
    BY <1>2, <1>5, <2>3, <2>6, <2>8
<1>8. CASE ~(cachedBytes + 1 > MaxCached)
  <2>1. cached' = more /\ cachedBytes' = cachedBytes + 1
    BY <1>8 DEF Keep, more
  <2>2. cachedBytes' <= MaxCached /\ cachedBytes' = Cardinality(DOMAIN cached')
    BY <1>1, <1>6, <1>8, <2>1 DEF HeldInv
  <2> QED
    BY <1>2, <1>4, <1>5, <1>6, <2>1, <2>2 DEF HeldInv
<1> QED
  BY <1>7, <1>8

LEMMA FetchKeeps == ASSUME CacheInv, NEW key \in Key, Fetch(key) PROVE CacheInv'
<1> USE DEF CacheInv
<1>1. UNCHANGED <<cachedBytes, scopeVersions, written, cancelledAt>>
  BY DEF Fetch
<1>2. CASE key \in DOMAIN cached
  <2> DEFINE moved == [cached EXCEPT ![key].place = Newest]
  <2>1. cached' = Placed(moved) /\ pending' = pending /\ operations' = operations
    BY <1>2 DEF Fetch
  <2>2. DOMAIN moved = DOMAIN cached
    OBVIOUS
  <2>3. \A k \in DOMAIN cached : /\ DOMAIN moved[k] = {"rows", "place"}
                                 /\ moved[k].rows = cached[k].rows
    BY DEF HeldInv
  <2> HIDE DEF moved
  <2>4. /\ DOMAIN cached' = DOMAIN cached
        /\ \A k \in DOMAIN cached : /\ DOMAIN cached'[k] = {"rows", "place"}
                                    /\ cached'[k].rows = cached[k].rows
                                    /\ cached'[k].place \in Nat
    BY ZenonT(60), <2>1, <2>2, <2>3, PlacedHolds DEF HeldInv
  <2>5. HeldInv'
    BY <1>1, <2>4 DEF HeldInv
  <2>6. ReadsInv'
    BY <1>1, <2>1, <2>4 DEF ReadsInv, Accepted, Current
  <2>7. PagesInv'
    BY <1>1, <2>4 DEF PagesInv, Current
  <2> QED
    BY <2>5, <2>6, <2>7
<1>3. CASE key \in DOMAIN pending \ DOMAIN cached
  <2>1. UNCHANGED <<cached, pending, operations>>
    BY <1>3 DEF Fetch
  <2> QED
    BY <1>1, <2>1 DEF HeldInv, ReadsInv, PagesInv, Accepted, Current
<1>4. CASE key \notin DOMAIN pending \cup DOMAIN cached
  <2>1. cached' = cached
    BY <1>4 DEF Fetch
  <2>2. PICK id \in 1..MaxReads :
          /\ id \notin DOMAIN operations
          /\ operations' = With(operations, id,
                             [key |-> key, version |-> scopeVersions[ScopeOf(key)],
                              cancelled |-> FALSE, rows |-> {}])
          /\ pending' = With(pending, key, id)
    BY <1>4 DEF Fetch
  <2> DEFINE new == [key |-> key, version |-> scopeVersions[ScopeOf(key)],
                     cancelled |-> FALSE, rows |-> {}]
  <2>3. /\ DOMAIN operations' = DOMAIN operations \cup {id} /\ operations'[id] = new
        /\ \A i \in DOMAIN operations : operations'[i] = operations[i]
    BY <2>2 DEF With
  <2>4. /\ DOMAIN pending' = DOMAIN pending \cup {key} /\ pending'[key] = id
        /\ \A k \in DOMAIN pending : pending'[k] = pending[k]
    BY <1>4, <2>2 DEF With
  <2>5. \A k \in DOMAIN pending' :
          /\ k \in Key /\ pending'[k] \in DOMAIN operations'
          /\ operations'[pending'[k]].key = k /\ ~operations'[pending'[k]].cancelled
    <3>1. ASSUME NEW k \in DOMAIN pending
          PROVE  /\ k \in Key /\ pending'[k] \in DOMAIN operations'
                 /\ operations'[pending'[k]].key = k /\ ~operations'[pending'[k]].cancelled
      BY <2>3, <2>4 DEF ReadsInv
    <3>2. operations'[pending'[key]].key = key /\ ~operations'[pending'[key]].cancelled
      BY <2>3, <2>4
    <3> QED
      BY <2>3, <2>4, <3>1, <3>2
  <2>6. ASSUME NEW i \in DOMAIN operations'
        PROVE  /\ DOMAIN operations'[i] = {"key", "version", "cancelled", "rows"}
               /\ operations'[i].key \in Key
               /\ operations'[i].version \in Nat
               /\ operations'[i].version <= scopeVersions[ScopeOf(operations'[i].key)]
               /\ Accepted(operations[i])' =>
                    /\ Current(operations'[i].key, operations'[i].rows)
                    /\ operations'[i].key \in DOMAIN pending'
                    /\ pending'[operations'[i].key] = i
                    /\ operations'[i].key \notin DOMAIN cached
    <3>1. CASE i = id
      BY <1>4, <2>3, <2>4, <3>1, ScopesOfKeys DEF ReadsInv, Current
    <3>2. CASE i # id
      <4>1. i \in DOMAIN operations /\ operations'[i] = operations[i]
        BY <2>3, <3>2
      <4>2. Accepted(operations[i])' <=> Accepted(operations[i])
        BY <1>1, <4>1 DEF Accepted
      <4> QED
        BY <1>4, <2>4, <4>1, <4>2 DEF ReadsInv
    <3> QED
      BY <3>1, <3>2
  <2>7. ReadsInv'
    BY <1>1, <2>1, <2>5, <2>6 DEF ReadsInv, Current
  <2> QED
    BY <1>1, <2>1, <2>7 DEF HeldInv, PagesInv, Current
<1> QED
  BY <1>2, <1>3, <1>4

LEMMA ReadRowsKeeps == ASSUME CacheInv, NEW id \in DOMAIN operations, ReadRows(id) PROVE CacheInv'
<1> USE DEF CacheInv
<1>1. /\ UNCHANGED <<cached, cachedBytes, pending, scopeVersions, written, cancelledAt>>
      /\ operations' = [operations EXCEPT ![id].rows = {written}]
  BY DEF ReadRows
<1>2. /\ DOMAIN operations' = DOMAIN operations
      /\ DOMAIN operations'[id] = DOMAIN operations[id]
      /\ operations'[id].rows = {written}
      /\ operations'[id].key = operations[id].key
      /\ operations'[id].version = operations[id].version
      /\ operations'[id].cancelled = operations[id].cancelled
      /\ \A i \in DOMAIN operations : i # id => operations'[i] = operations[i]
  BY <1>1 DEF ReadsInv
<1>3. Current(operations[id].key, {written})
  BY ScopesOfKeys DEF ReadsInv, Current
<1>4. \A i \in DOMAIN operations : Accepted(operations[i])' <=> Accepted(operations[i])
  BY <1>1, <1>2 DEF Accepted
<1>5. ASSUME NEW i \in DOMAIN operations
      PROVE  /\ DOMAIN operations'[i] = {"key", "version", "cancelled", "rows"}
             /\ operations'[i].key = operations[i].key
             /\ operations'[i].version = operations[i].version
             /\ operations'[i].cancelled = operations[i].cancelled
             /\ Accepted(operations[i]) => Current(operations[i].key, operations'[i].rows)
  BY <1>2, <1>3 DEF ReadsInv
<1>6. \A k \in DOMAIN pending' :
        /\ k \in Key /\ pending'[k] \in DOMAIN operations'
        /\ operations'[pending'[k]].key = k /\ ~operations'[pending'[k]].cancelled
  BY <1>1, <1>2, <1>5 DEF ReadsInv
<1>7. ASSUME NEW i \in DOMAIN operations
      PROVE  /\ operations'[i].key \in Key
             /\ operations'[i].version \in Nat
             /\ operations'[i].version <= scopeVersions'[ScopeOf(operations'[i].key)]
             /\ Accepted(operations[i])' =>
                  /\ Current(operations[i].key, operations[i].rows)'
                  /\ operations'[i].key \in DOMAIN pending' /\ pending'[operations'[i].key] = i
                  /\ operations'[i].key \notin DOMAIN cached'
  <2>1. /\ operations[i].key \in Key /\ operations[i].version \in Nat
        /\ operations[i].version <= scopeVersions[ScopeOf(operations[i].key)]
        /\ Accepted(operations[i]) =>
             /\ operations[i].key \in DOMAIN pending /\ pending[operations[i].key] = i
             /\ operations[i].key \notin DOMAIN cached
    BY DEF ReadsInv
  <2>2. Current(operations[i].key, operations'[i].rows) => Current(operations[i].key, operations[i].rows)'
    BY <1>1, <1>5 DEF Current
  <2> QED
    BY <1>1, <1>4, <1>5, <2>1, <2>2
<1>8. ReadsInv'
  BY <1>1, <1>2, <1>5, <1>6, <1>7 DEF ReadsInv
<1> QED
  BY <1>1, <1>8 DEF HeldInv, PagesInv, Current

\* A read that has been answered is gone, and its page is not waited for any more.
LEMMA ArrivedKeeps ==
  ASSUME CacheInv, NEW id \in DOMAIN operations, NEW ok, Arrive(id, ok)
  PROVE  /\ UNCHANGED <<scopeVersions, written, cancelledAt>>
         /\ DOMAIN operations' = DOMAIN operations \ {id}
         /\ \A i \in DOMAIN operations' : operations'[i] = operations[i]
         /\ DOMAIN pending' = {k \in DOMAIN pending : pending[k] # id}
         /\ \A k \in DOMAIN pending' : pending'[k] = pending[k]
<1> USE DEF CacheInv
<1>1. UNCHANGED <<scopeVersions, written, cancelledAt>>
  BY DEF Arrive
<1>2. operations' = Without(operations, id)
  BY DEF Arrive
<1>3. pending' = IF operations[id].key \in DOMAIN pending /\ pending[operations[id].key] = id
                 THEN Without(pending, operations[id].key) ELSE pending
  BY DEF Arrive
<1>4. \A k \in DOMAIN pending : pending[k] = id => k = operations[id].key
  BY DEF ReadsInv
<1>5. /\ DOMAIN pending' = {k \in DOMAIN pending : pending[k] # id}
      /\ \A k \in DOMAIN pending' : pending'[k] = pending[k]
  BY <1>3, <1>4 DEF Without
<1> QED
  BY <1>1, <1>2, <1>5 DEF Without

LEMMA ArriveKeeps ==
  ASSUME CacheInv, MaxCached \in Nat, NEW id \in DOMAIN operations, NEW ok \in BOOLEAN, Arrive(id, ok)
  PROVE  CacheInv'
<1> USE DEF CacheInv
<1> DEFINE op == operations[id]
<1>1. /\ UNCHANGED <<scopeVersions, written, cancelledAt>>
      /\ DOMAIN operations' = DOMAIN operations \ {id}
      /\ \A i \in DOMAIN operations' : operations'[i] = operations[i]
      /\ DOMAIN pending' = {k \in DOMAIN pending : pending[k] # id}
      /\ \A k \in DOMAIN pending' : pending'[k] = pending[k]
  BY ArrivedKeeps
<1>2. /\ HeldInv' /\ PagesInv'
      /\ \/ DOMAIN cached' \subseteq DOMAIN cached
         \/ Accepted(op) /\ DOMAIN cached' \subseteq DOMAIN cached \cup {op.key}
  <2>1. CASE ok /\ Accepted(op)
    <3>1. Keep(op.key, op.rows)
      BY <2>1 DEF Arrive
    <3>2. op.key \notin DOMAIN cached /\ op.key \in Key /\ Current(op.key, op.rows)
      BY <2>1 DEF ReadsInv
    <3>3. /\ HeldInv'
          /\ DOMAIN cached' \subseteq DOMAIN cached \cup {op.key}
          /\ \A k \in DOMAIN cached' : cached'[k].rows = IF k = op.key THEN op.rows ELSE cached[k].rows
      <4> HIDE DEF op
      <4> QED
        BY <3>1, <3>2, KeepHolds
    <3>4. PagesInv'
      BY <1>1, <3>2, <3>3 DEF PagesInv, Current
    <3> QED
      BY <2>1, <3>3, <3>4
  <2>2. CASE ~(ok /\ Accepted(op))
    <3>1. UNCHANGED <<cached, cachedBytes>>
      BY <2>2 DEF Arrive
    <3> QED
      BY <1>1, <3>1 DEF HeldInv, PagesInv, Current
  <2> QED
    BY <2>1, <2>2
<1>3. \A i \in DOMAIN operations' : Accepted(operations[i])' <=> Accepted(operations[i])
  BY <1>1 DEF Accepted
<1>4. ASSUME NEW i \in DOMAIN operations', Accepted(operations[i])
      PROVE  /\ operations[i].key \in DOMAIN pending' /\ pending'[operations[i].key] = i
             /\ operations[i].key \notin DOMAIN cached'
  <2>1. /\ i \in DOMAIN operations /\ i # id
        /\ operations[i].key \in DOMAIN pending /\ pending[operations[i].key] = i
        /\ operations[i].key \notin DOMAIN cached
    BY <1>1, <1>4 DEF ReadsInv
  <2>2. Accepted(op) => pending[op.key] = id
    BY DEF ReadsInv
  <2>3. operations[i].key \notin DOMAIN cached'
    BY <1>2, <2>1, <2>2
  <2> QED
    BY <1>1, <2>1, <2>3
<1>5. \A k \in DOMAIN pending' :
        /\ k \in Key /\ pending'[k] \in DOMAIN operations'
        /\ operations'[pending'[k]].key = k /\ ~operations'[pending'[k]].cancelled
  <2>1. ASSUME NEW k \in DOMAIN pending'
        PROVE  /\ k \in DOMAIN pending /\ pending'[k] = pending[k] /\ pending[k] # id
    BY <1>1
  <2> QED
    BY <1>1, <2>1 DEF ReadsInv
<1>6. ReadsInv'
  BY <1>1, <1>3, <1>4, <1>5 DEF ReadsInv, Current
<1> QED
  BY <1>2, <1>6

LEMMA CancelScopeKeeps ==
  ASSUME CacheInv, MaxCached \in Nat, NEW s \in Scopes, CancelScope(s)
  PROVE  CacheInv'
<1> USE DEF CacheInv
<1> DEFINE kept == {k \in DOMAIN cached : ScopeOf(k) # s}
           gone == {k \in DOMAIN cached : ScopeOf(k) = s}
           f == [k \in kept |-> cached[k]]
<1>1. /\ scopeVersions' = [scopeVersions EXCEPT ![s] = @ + 1]
      /\ cancelledAt' = [cancelledAt EXCEPT ![s] = written] /\ written' = written
      /\ cached' = Placed(f) /\ cachedBytes' = cachedBytes - Cardinality(gone)
      /\ pending' = DropPending(s)
      /\ operations' = [i \in DOMAIN operations |->
           IF ScopeOf(operations[i].key) = s THEN [operations[i] EXCEPT !.cancelled = TRUE]
           ELSE operations[i]]
  BY DEF CancelScope
<1>2. /\ IsFiniteSet(kept) /\ Cardinality(kept) = cachedBytes - Cardinality(gone)
      /\ Cardinality(kept) <= cachedBytes
  <2>1. kept = DOMAIN cached \ gone /\ DOMAIN cached \cap gone = gone /\ kept \in SUBSET DOMAIN cached
    OBVIOUS
  <2>2. IsFiniteSet(DOMAIN cached) /\ cachedBytes = Cardinality(DOMAIN cached)
    BY DEF HeldInv
  <2> HIDE DEF kept, gone
  <2>3. IsFiniteSet(kept) /\ Cardinality(kept) <= cachedBytes
    BY <2>1, <2>2, FS_Subset
  <2>4. Cardinality(kept) = cachedBytes - Cardinality(gone)
    BY <2>1, <2>2, FS_Difference
  <2> QED
    BY <2>3, <2>4
<1>3. /\ DOMAIN f = kept
      /\ \A k \in kept : f[k] = cached[k] /\ DOMAIN f[k] = {"rows", "place"}
  BY DEF HeldInv
<1>4. /\ DOMAIN cached' = kept
      /\ \A k \in kept : /\ DOMAIN cached'[k] = {"rows", "place"}
                          /\ cached'[k].rows = cached[k].rows /\ cached'[k].place \in Nat
  <2>1. cached' = Placed(f)
    BY <1>1
  <2> HIDE DEF f, kept
  <2>2. IsFiniteSet(DOMAIN f) /\ \A k \in DOMAIN f : DOMAIN f[k] = {"rows", "place"}
    BY <1>2, <1>3
  <2>3. /\ DOMAIN cached' = DOMAIN f
        /\ \A k \in DOMAIN f : /\ DOMAIN cached'[k] = {"rows", "place"}
                               /\ cached'[k].rows = f[k].rows /\ cached'[k].place \in Nat
    BY <2>1, <2>2, PlacedHolds
  <2> QED
    BY <1>3, <2>3
<1>5. HeldInv'
  <2>1. cachedBytes \in Nat
    BY FS_CardinalityType DEF HeldInv
  <2>2. Cardinality(kept) \in Nat
    BY <1>2, FS_CardinalityType
  <2>3. cachedBytes' = Cardinality(kept)
    BY <1>1, <1>2
  <2>4. cachedBytes' <= MaxCached
    <3> HIDE DEF kept
    <3> QED
      BY <1>2, <2>1, <2>2, <2>3 DEF HeldInv
  <2> QED
    BY <1>2, <1>4, <2>3, <2>4 DEF HeldInv
<1>6. \A t \in Scopes : /\ scopeVersions'[t] = IF t = s THEN scopeVersions[t] + 1 ELSE scopeVersions[t]
                        /\ cancelledAt'[t] = IF t = s THEN written ELSE cancelledAt[t]
  BY <1>1 DEF ReadsInv
<1>7. PagesInv'
  BY <1>4, <1>6, ScopesOfKeys DEF PagesInv, Current
<1>8. ASSUME NEW i \in DOMAIN operations
      PROVE  /\ DOMAIN operations'[i] = {"key", "version", "cancelled", "rows"}
             /\ operations'[i].key = operations[i].key
             /\ operations'[i].version = operations[i].version
             /\ operations'[i].rows = operations[i].rows
             /\ operations'[i].cancelled <=> operations[i].cancelled \/ ScopeOf(operations[i].key) = s
  <2>1. DOMAIN operations[i] = {"key", "version", "cancelled", "rows"}
    BY DEF ReadsInv
  <2>2. operations'[i] = IF ScopeOf(operations[i].key) = s
                         THEN [operations[i] EXCEPT !.cancelled = TRUE] ELSE operations[i]
    BY <1>1
  <2>3. CASE ScopeOf(operations[i].key) = s
    BY <2>1, <2>2, <2>3
  <2>4. CASE ScopeOf(operations[i].key) # s
    BY <2>1, <2>2, <2>4
  <2> QED
    BY <2>3, <2>4
<1>9. DOMAIN operations' = DOMAIN operations
  BY <1>1
<1>10. /\ DOMAIN pending' = {k \in DOMAIN pending : ScopeOf(k) # s}
       /\ \A k \in DOMAIN pending' : pending'[k] = pending[k]
  BY <1>1 DEF DropPending
<1>11. \A k \in DOMAIN pending' :
         /\ k \in Key /\ pending'[k] \in DOMAIN operations'
         /\ operations'[pending'[k]].key = k /\ ~operations'[pending'[k]].cancelled
  <2>1. ASSUME NEW k \in DOMAIN pending'
        PROVE  /\ k \in Key /\ pending'[k] \in DOMAIN operations /\ ScopeOf(k) # s
               /\ operations[pending'[k]].key = k /\ ~operations[pending'[k]].cancelled
    BY <1>10 DEF ReadsInv
  <2> QED
    BY <1>8, <1>9, <2>1
<1>12. ASSUME NEW i \in DOMAIN operations
       PROVE  /\ operations[i].version <= scopeVersions'[ScopeOf(operations[i].key)]
              /\ Accepted(operations[i])' =>
                   /\ ScopeOf(operations[i].key) # s
                   /\ Accepted(operations[i])
  <2>1. /\ ScopeOf(operations[i].key) \in Scopes /\ operations[i].version \in Nat
        /\ operations[i].version <= scopeVersions[ScopeOf(operations[i].key)]
        /\ scopeVersions[ScopeOf(operations[i].key)] \in Nat
    BY ScopesOfKeys DEF ReadsInv
  <2>2. operations[i].version <= scopeVersions'[ScopeOf(operations[i].key)]
    BY <1>6, <2>1
  <2>3. CASE ScopeOf(operations[i].key) = s
    BY <1>8, <1>9, <2>2, <2>3 DEF Accepted
  <2>4. CASE ScopeOf(operations[i].key) # s
    BY <1>6, <1>8, <2>1, <2>2, <2>4 DEF Accepted
  <2> QED
    BY <2>3, <2>4
<1>13. ASSUME NEW i \in DOMAIN operations, Accepted(operations[i])'
       PROVE  /\ Current(operations[i].key, operations[i].rows)'
              /\ operations[i].key \in DOMAIN pending' /\ pending'[operations[i].key] = i
              /\ operations[i].key \notin DOMAIN cached'
  <2>1. /\ Accepted(operations[i]) /\ ScopeOf(operations[i].key) # s
        /\ ScopeOf(operations[i].key) \in Scopes
    BY <1>12, <1>13, ScopesOfKeys DEF ReadsInv
  <2>2. Current(operations[i].key, operations[i].rows)'
    BY <1>6, <1>8, <2>1 DEF ReadsInv, Current
  <2> QED
    BY <1>4, <1>10, <2>1, <2>2 DEF ReadsInv
<1>14. /\ written' \in Nat
       /\ scopeVersions' \in [Scopes -> Nat] /\ cancelledAt' \in [Scopes -> Nat]
       /\ \A t \in Scopes : cancelledAt'[t] <= written'
  BY <1>1, <1>6 DEF ReadsInv
<1>15. ReadsInv'
  BY <1>8, <1>9, <1>11, <1>12, <1>13, <1>14 DEF ReadsInv
<1> QED
  BY <1>5, <1>7, <1>15

LEMMA TablesChangeKeeps == ASSUME CacheInv, TablesChange PROVE CacheInv'
<1>1. /\ UNCHANGED <<cached, cachedBytes, pending, operations, scopeVersions, cancelledAt>>
      /\ written' = written + 1
  BY DEF TablesChange
<1>2. \A s \in Scopes : cancelledAt[s] <= written'
  BY <1>1 DEF CacheInv, ReadsInv
<1> QED
  BY <1>1, <1>2 DEF CacheInv, HeldInv, ReadsInv, PagesInv, Accepted, Current

\* Whatever is read, cancelled and written in whatever order, and for any limit, a view finds
\* in the cache only what was read since it last cancelled its reads, joins no read that is
\* cancelled, and the cache counts what it holds (table-compare-data-cache.ts:20, 36, 96, 108).
THEOREM CacheIsCurrent ==
  ASSUME MaxCached \in Nat
  PROVE  CacheSpec => []CacheFollowsCancels
<1>1. CacheInit => CacheInv
  <2> SUFFICES ASSUME CacheInit PROVE CacheInv
    OBVIOUS
  <2>1. HeldInv
    BY FS_EmptySet DEF CacheInit, HeldInv
  <2> QED
    BY <2>1 DEF CacheInit, CacheInv, ReadsInv, PagesInv
<1>2. CacheInv /\ [CacheNext]_cacheVars => CacheInv'
  <2> SUFFICES ASSUME CacheInv, [CacheNext]_cacheVars PROVE CacheInv'
    OBVIOUS
  <2>1. CASE CacheNext
    BY <2>1, FetchKeeps, ReadRowsKeeps, ArriveKeeps, CancelScopeKeeps, TablesChangeKeeps DEF CacheNext
  <2>2. CASE UNCHANGED cacheVars
    BY <2>2 DEF cacheVars, CacheInv, HeldInv, ReadsInv, PagesInv, Accepted, Current
  <2> QED
    BY <2>1, <2>2
<1>3. CacheInv => CacheFollowsCancels
  BY DEF CacheInv, HeldInv, ReadsInv, PagesInv, Current, CacheFollowsCancels
<1> QED
  BY <1>1, <1>2, <1>3, PTL DEF CacheSpec

-----------------------------------------------------------------------------
(* The form                                                                *)

\* The requests for database lists that are still wanted are those of the form.
FormInv ==
  /\ DOMAIN lists = Sides
  /\ \A side \in Sides : DOMAIN lists[side] = {"of", "loading"} /\ lists[side].of \in {None, form[side].conn}
  /\ \A q \in fetches : /\ DOMAIN q = {"side", "conn", "live"} /\ q.side \in Sides
                        /\ q.live => q.conn = form[q.side].conn

LEMMA FollowFormKeeps == ASSUME FormInv, NEW f, FollowForm(f) PROVE FormInv'
<1> DEFINE changed == {side \in Sides : f[side].conn # form[side].conn}
<1>1. /\ form' = f
      /\ lists' = [side \in Sides |->
           IF side \in changed THEN [of |-> None, loading |-> f[side].conn # None] ELSE lists[side]]
      /\ fetches' = {[q EXCEPT !.live = @ /\ q.side \notin changed] : q \in fetches}
                    \cup {[side |-> side, conn |-> f[side].conn, live |-> TRUE] :
                            side \in {x \in changed : f[x].conn # None}}
  BY DEF FollowForm
<1>2. ASSUME NEW side \in Sides
      PROVE  DOMAIN lists'[side] = {"of", "loading"} /\ lists'[side].of \in {None, form'[side].conn}
  <2>1. CASE side \in changed
    BY <1>1, <2>1
  <2>2. CASE side \notin changed
    BY <1>1, <2>2 DEF FormInv
  <2> QED
    BY <2>1, <2>2
<1>3. ASSUME NEW q \in fetches'
      PROVE  /\ DOMAIN q = {"side", "conn", "live"} /\ q.side \in Sides
             /\ q.live => q.conn = form'[q.side].conn
  <2>1. CASE q \in {[side |-> side, conn |-> f[side].conn, live |-> TRUE] :
                      side \in {x \in changed : f[x].conn # None}}
    BY <1>1, <2>1
  <2>2. ASSUME NEW o \in fetches, q = [o EXCEPT !.live = @ /\ o.side \notin changed]
        PROVE  /\ DOMAIN q = {"side", "conn", "live"} /\ q.side \in Sides
               /\ q.live => q.conn = form'[q.side].conn
    <3>1. DOMAIN o = {"side", "conn", "live"} /\ o.side \in Sides /\ (o.live => o.conn = form[o.side].conn)
      BY DEF FormInv
    <3>2. /\ DOMAIN q = {"side", "conn", "live"} /\ q.side = o.side /\ q.conn = o.conn
          /\ q.live => o.live /\ o.side \notin changed
      BY <2>2, <3>1
    <3> QED
      BY <1>1, <3>1, <3>2
  <2> QED
    BY <1>1, <2>1, <2>2
<1> QED
  BY <1>1, <1>2, <1>3 DEF FormInv

LEMMA DatabasesListedKeeps ==
  ASSUME FormInv, NEW q \in fetches, NEW ok, DatabasesListed(q, ok)
  PROVE  FormInv'
<1>1. /\ form' = form /\ fetches' = fetches \ {q}
      /\ lists' = IF q.live THEN [lists EXCEPT ![q.side] =
                                    [of |-> IF ok THEN q.conn ELSE @.of, loading |-> FALSE]]
                  ELSE lists
  BY DEF DatabasesListed
<1>2. DOMAIN q = {"side", "conn", "live"} /\ q.side \in Sides /\ (q.live => q.conn = form[q.side].conn)
  BY DEF FormInv
<1>3. ASSUME NEW side \in Sides
      PROVE  DOMAIN lists'[side] = {"of", "loading"} /\ lists'[side].of \in {None, form[side].conn}
  <2>1. CASE q.live /\ side = q.side
    <3>1. lists'[side] = [of |-> IF ok THEN q.conn ELSE lists[side].of, loading |-> FALSE]
      BY <1>1, <2>1 DEF FormInv
    <3> QED
      BY <1>2, <2>1, <3>1 DEF FormInv
  <2>2. CASE ~(q.live /\ side = q.side)
    BY <1>1, <2>2 DEF FormInv
  <2> QED
    BY <2>1, <2>2
<1>4. DOMAIN lists' = Sides
  BY <1>1 DEF FormInv
<1> QED
  BY <1>1, <1>3, <1>4 DEF FormInv

LEMMA FreshPanelKeeps == ASSUME FormInv, FreshPanel PROVE FormInv'
<1> DEFINE c == setup.prefill.conn
<1>1. /\ form' = [EmptyForm EXCEPT !.source = setup.prefill]
      /\ lists' = [side \in Sides |-> [of |-> None, loading |-> side = "source" /\ c # None]]
      /\ fetches' = {[q EXCEPT !.live = FALSE] : q \in fetches}
                    \cup {[side |-> "source", conn |-> x, live |-> TRUE] : x \in {c} \ {None}}
  BY DEF FreshPanel
<1>2. form'["source"] = setup.prefill
  BY <1>1 DEF EmptyForm, Sides
<1>3. ASSUME NEW q \in fetches'
      PROVE  /\ DOMAIN q = {"side", "conn", "live"} /\ q.side \in Sides
             /\ q.live => q.conn = form'[q.side].conn
  <2>1. CASE q \in {[side |-> "source", conn |-> x, live |-> TRUE] : x \in {c} \ {None}}
    BY <1>2, <2>1 DEF Sides
  <2>2. ASSUME NEW o \in fetches, q = [o EXCEPT !.live = FALSE]
        PROVE  /\ DOMAIN q = {"side", "conn", "live"} /\ q.side \in Sides
               /\ q.live => q.conn = form'[q.side].conn
    BY <2>2 DEF FormInv
  <2> QED
    BY <1>1, <2>1, <2>2
<1> QED
  BY <1>1, <1>3 DEF FormInv

LEMMA FormStep == ASSUME FormInv, PanelNext PROVE FormInv'
<1>1. CASE UNCHANGED <<form, lists, fetches>>
  BY <1>1 DEF FormInv
<1>2. CASE RunAnswers
  <2>1. PICK i \in 1..MaxRuns :
          \/ \E l \in Listings : TablesListed(i, l)
          \/ ListingFailed(i)
          \/ LateListing(i)
          \/ \E t \in runs[i].out : \E ok, r :
               Answered(i, t, ok, r) /\ Result(IF ok THEN r ELSE NoComparison)
    BY SMTT(60), <1>2, RunAnswersAre
  <2>2. UNCHANGED <<form, lists, fetches>>
    BY <2>1 DEF TablesListed, ListingFailed, LateListing, Answered, formVars
  <2> QED
    BY <1>1, <2>2
<1>3. CASE \/ RetryAnswers \/ RunCompare \/ OpenSync \/ BrowseActions
           \/ \E id \in DOMAIN jobs : CancelCompareJob(id)
           \/ \E t \in Names : RetryTable(t)
           \/ \E t \in Names, at \in Endpoints : TableDropped(at, t)
  <2>1. CASE RetryAnswers
    <3>1. PICK q, ok, r : RetryAnswered(q, ok, r) /\ Result(IF ok THEN r ELSE NoComparison)
      BY <2>1, RetryAnswersAre
    <3> QED
      BY <1>1, <3>1 DEF RetryAnswered, formVars
  <2>2. CASE BrowseActions
    <3>1. (\E p, b : Browse(p, b)) => UNCHANGED <<form, lists, fetches>>
      BY DEF Browse
    <3>2. UNCHANGED <<form, lists, fetches>>
      BY <2>2, <3>1 DEF BrowseActions, SelectTab, SetFilter, SetSearch, SelectTable,
                        ToggleCompareRows, ToggleSetup, ToggleShowAll, ShowRowDiffs, SetConcurrency
    <3> QED
      BY <1>1, <3>2
  <2> QED
    BY <1>1, <1>3, <2>1, <2>2 DEF RunCompare, OpenSync, CancelCompareJob, RetryTable, TableDropped, formVars
<1>4. CASE CloseTab
  BY <1>4, FreshPanelKeeps DEF CloseTab
<1>5. CASE FormActions
  <2>1. \/ UNCHANGED <<form, lists, fetches>>
        \/ \E f : FollowForm(f)
        \/ \E q \in fetches, ok \in BOOLEAN : DatabasesListed(q, ok)
    <3>1. ASSUME NEW side, NEW c, ChooseConnection(side, c) PROVE \E f : FollowForm(f)
      BY <3>1 DEF ChooseConnection, Edited
    <3>2. ASSUME NEW side, NEW d, ChooseDatabase(side, d) PROVE \E f : FollowForm(f)
      BY <3>2 DEF ChooseDatabase, Edited
    <3>3. ASSUME SwapEndpoints PROVE \E f : FollowForm(f)
      BY <3>3 DEF SwapEndpoints, Edited
    <3>4. ASSUME NEW h, PickHistory(h) PROVE \E f : FollowForm(f)
      BY <3>4 DEF PickHistory, Edited
    <3>5. ASSUME NEW gone, ForgetHistory(gone) PROVE UNCHANGED <<form, lists, fetches>>
      BY <3>5 DEF ForgetHistory
    <3>6. ASSUME NEW c, NEW d, Prefill(c, d) PROVE \E f : FollowForm(f)
      BY <3>6 DEF Prefill
    <3>7. ASSUME ConnectionsReady
          PROVE  UNCHANGED <<form, lists, fetches>> \/ \E f : FollowForm(f)
      BY <3>7 DEF ConnectionsReady
    <3> QED
      BY <1>5, <3>1, <3>2, <3>3, <3>4, <3>5, <3>6, <3>7 DEF FormActions
  <2> QED
    BY <1>1, <2>1, FollowFormKeeps, DatabasesListedKeeps
<1> QED
  BY <1>2, <1>3, <1>4, <1>5 DEF PanelNext, Quiet

LEMMA ScreenSteps == ASSUME CompareTypes, ScreenNext PROVE PanelNext
<1>1. ASSUME UserActions PROVE PanelNext
  <2> DEFINE ByForm == \/ SwapEndpoints \/ ForgetHistory(ToSet(prefs.history))
                       \/ ForgetHistory(SelectedHistory)
                       \/ \E side \in Sides, c \in Connections \cup {None} : ChooseConnection(side, c)
                       \/ \E side \in Sides, d \in Databases \cup {None} : ChooseDatabase(side, d)
                       \/ \E h \in ToSet(prefs.history) : PickHistory(h)
             ByTabs == \/ ToggleCompareRows \/ ToggleSetup \/ ToggleShowAll \/ ShowRowDiffs
                       \/ \E n \in Options : SetConcurrency(n)
                       \/ \E f \in StatusFilters : SetFilter(f)
                       \/ \E tab \in {"tables", "status", "schema", "data"} : SelectTab(tab)
                       \/ \E m \in {Names} \cup {{t} : t \in Names} : SetSearch(m)
                       \/ \E t \in Names : SelectTable(t)
             ByRuns == \/ RunCompare \/ CancelCompareJob(job) \/ \E t \in DOMAIN entries : RetryTable(t)
  <2>1. ByForm => PanelNext
    BY DEF PanelNext, Quiet, FormActions
  <2>2. ByTabs => PanelNext
    BY DEF PanelNext, Quiet, BrowseActions
  <2>3. ByRuns => PanelNext
    BY DEF PanelNext, CompareTypes, CancelCompareJob, MayCancel
  <2>4. (ShowResult /\ \E tab \in TabItems : SelectTab(tab)) => ByTabs
    BY DEF TabItems
  <2> QED
    BY <1>1, <2>1, <2>2, <2>3, <2>4 DEF UserActions
<1>2. ASSUME OtherEvents PROVE PanelNext
  BY <1>2 DEF OtherEvents, Answers, PanelNext, Quiet, FormActions
<1> QED
  BY <1>1, <1>2 DEF ScreenNext

LEMMA FormRests == ASSUME FormInv, UNCHANGED compareVars PROVE FormInv'
  BY DEF FormInv, compareVars, formVars

-----------------------------------------------------------------------------
(* What the results open                                                   *)

\* A table among the results is listed where the entry says it is; one that only one
\* side has was settled by that, and nothing is asked about it.
EntryIsListed(t) ==
  /\ entries[t].source => t \in tables["source"]
  /\ entries[t].target => t \in tables["target"]
  /\ ~IsShared(entries[t]) =>
       /\ entries[t].source \/ entries[t].target
       /\ entries[t].status = "done" /\ entries[t].rows = "none"
       /\ entries[t].schema = IF entries[t].source THEN "only-in-source" ELSE "only-in-target"
ListedInv ==
  \A t \in DOMAIN entries : EntryIsListed(t) /\ (Awaited(t) => IsShared(entries[t]))

\* Enough to keep it: entries stay as they are, or are of tables both sides have.
LEMMA ListedFollows ==
  ASSUME ListedInv,
         \A t \in DOMAIN entries' :
           /\ t \in DOMAIN entries
           /\ \A side \in Sides : t \in tables[side] => t \in tables'[side]
           /\ \/ entries'[t] = entries[t]
              \/ IsShared(entries[t]) /\ IsShared(entries'[t])
           /\ Awaited(t)' => Awaited(t) \/ IsShared(entries[t])
  PROVE  ListedInv'
<1> SUFFICES ASSUME NEW t \in DOMAIN entries'
             PROVE  EntryIsListed(t)' /\ (Awaited(t)' => IsShared(entries[t])')
  BY DEF ListedInv
<1>1. /\ t \in DOMAIN entries
      /\ t \in tables["source"] => t \in tables'["source"]
      /\ t \in tables["target"] => t \in tables'["target"]
      /\ Awaited(t)' => Awaited(t) \/ IsShared(entries[t])
  BY DEF Sides
<1>2. EntryIsListed(t) /\ (Awaited(t) => IsShared(entries[t]))
  BY <1>1 DEF ListedInv
<1>3. CASE entries'[t] = entries[t]
  BY <1>1, <1>2, <1>3 DEF EntryIsListed, IsShared
<1>4. CASE IsShared(entries[t]) /\ IsShared(entries'[t])
  BY <1>1, <1>2, <1>4 DEF EntryIsListed, IsShared
<1> QED
  BY <1>3, <1>4

\* The first results say which sides have a table, and settle what only one side has.
LEMMA FirstSides ==
  ASSUME NEW src, NEW tgt, NEW es, es = InitialEntries(src, tgt), NEW t \in DOMAIN es
  PROVE  /\ DOMAIN es[t] = {"source", "target", "status", "schema", "rows"}
         /\ es[t].source <=> t \in src
         /\ es[t].target <=> t \in tgt
         /\ IsShared(es[t]) <=> t \in Shared(es)
         /\ ~IsShared(es[t]) =>
              /\ es[t].source \/ es[t].target
              /\ es[t].status = "done" /\ es[t].rows = "none"
              /\ es[t].schema = IF es[t].source THEN "only-in-source" ELSE "only-in-target"
<1>1. /\ t \in src \cup tgt
      /\ es[t] = [source |-> t \in src, target |-> t \in tgt,
                  status |-> IF t \in src \cap tgt THEN "queued" ELSE "done",
                  schema |-> IF t \notin tgt THEN "only-in-source"
                             ELSE IF t \notin src THEN "only-in-target" ELSE "none",
                  rows |-> "none"]
  BY DEF InitialEntries
<1>2. /\ es[t].status = IF t \in src \cap tgt THEN "queued" ELSE "done"
      /\ es[t].schema = IF t \notin tgt THEN "only-in-source"
                        ELSE IF t \notin src THEN "only-in-target" ELSE "none"
      /\ es[t].rows = "none"
      /\ DOMAIN es[t] = {"source", "target", "status", "schema", "rows"}
  BY <1>1
<1>3. es[t].source = (t \in src)
  BY <1>1
<1>4. es[t].target = (t \in tgt)
  BY <1>1
<1>5. IsShared(es[t]) <=> t \in Shared(es)
  BY DEF Shared
<1> QED
  BY <1>1, <1>2, <1>3, <1>4, <1>5 DEF IsShared

\* Answering changes what a table's entry says of schema and rows only.
LEMMA UpdatedSides ==
  ASSUME NEW es, NEW t, NEW status, NEW result, NEW x \in DOMAIN es,
         DOMAIN es[x] = {"source", "target", "status", "schema", "rows"}
  PROVE  /\ UpdateEntry(es, t, status, result)[x].source = es[x].source
         /\ UpdateEntry(es, t, status, result)[x].target = es[x].target
         /\ x # t => UpdateEntry(es, t, status, result)[x] = es[x]
         /\ DOMAIN UpdateEntry(es, t, status, result) = DOMAIN es
         /\ DOMAIN UpdateEntry(es, t, status, result)[x] = DOMAIN es[x]
<1> DEFINE e == [es[t] EXCEPT !.status = status, !.schema = result.schema, !.rows = result.rows]
           new == UpdateEntry(es, t, status, result)
<1>1. CASE t \notin DOMAIN es
  BY <1>1 DEF UpdateEntry
<1>2. CASE t \in DOMAIN es
  <2>1. new = [y \in DOMAIN es |-> IF y = t THEN e ELSE es[y]]
    BY <1>2 DEF UpdateEntry
  <2>2. x = t => e.source = es[x].source /\ e.target = es[x].target /\ DOMAIN e = DOMAIN es[x]
    OBVIOUS
  <2> HIDE DEF e
  <2>3. new[x] = IF x = t THEN e ELSE es[x]
    BY <2>1
  <2>4. DOMAIN new = DOMAIN es
    BY <2>1
  <2> QED
    BY <2>2, <2>3, <2>4
<1> QED
  BY <1>1, <1>2

LEMMA EntryFields ==
  ASSUME CompareTypes, NEW t \in DOMAIN entries
  PROVE  /\ DOMAIN entries[t] = {"source", "target", "status", "schema", "rows"}
         /\ entries[t].source \in BOOLEAN /\ entries[t].target \in BOOLEAN
<1>1. entries[t] \in Entry
  BY DEF CompareTypes
<1> QED
  BY <1>1 DEF Entry

LEMMA NothingListed == ASSUME entries' = [t \in {} |-> 0] PROVE ListedInv'
  BY DEF ListedInv

LEMMA ListedStarts ==
  ASSUME CompareInv, NEW i \in 1..MaxRuns, NEW l \in Listings, TablesListed(i, l)
  PROVE  ListedInv'
<1> DEFINE es == InitialEntries(l.source, l.target)
           shared == Shared(es)
           taken == TakenFirst(shared, runs[i].limit)
<1>1. /\ runs[i].stage = "listing" /\ i = runId /\ runId' = runId /\ retries' = retries
      /\ tables' = [source |-> l.source, target |-> l.target]
  BY DEF TablesListed
<1>2. l.source \in SUBSET Names /\ l.target \in SUBSET Names
  BY CompareAssumption
<1>3. shared \subseteq DOMAIN es /\ DOMAIN es \subseteq Names
  BY <1>2 DEF Shared, InitialEntries
<1>4. \A t \in DOMAIN es :
        /\ DOMAIN es[t] = {"source", "target", "status", "schema", "rows"}
        /\ es[t].source <=> t \in l.source
        /\ es[t].target <=> t \in l.target
        /\ IsShared(es[t]) <=> t \in shared
        /\ ~IsShared(es[t]) =>
             /\ es[t].source \/ es[t].target
             /\ es[t].status = "done" /\ es[t].rows = "none"
             /\ es[t].schema = IF es[t].source THEN "only-in-source" ELSE "only-in-target"
  BY FirstSides
<1>5. taken \subseteq shared
  BY <1>2, <1>3, TakenBelong
<1>6. ASSUME NEW r \in retries PROVE r.run # runId
  BY <1>1 DEF CompareInv, CurrentInv, EntriesInv
<1>7. i > 0 /\ i <= MaxRuns /\ runs = [k \in 1..MaxRuns |-> runs[k]]
  BY CompareAssumption DEF CompareInv, RunsInv
<1>9. /\ DOMAIN entries' = DOMAIN es
      /\ \A t \in DOMAIN es :
           /\ entries'[t].source = es[t].source /\ entries'[t].target = es[t].target
           /\ t \notin shared => entries'[t] = es[t]
  <2>1. CASE shared = {}
    BY <1>1, <2>1 DEF TablesListed
  <2>2. CASE shared # {}
    <3>1. entries' = [t \in DOMAIN es |->
                   IF t \in taken THEN [es[t] EXCEPT !.status = "comparing"] ELSE es[t]]
      BY <2>2 DEF TablesListed
    <3>2. \A t \in DOMAIN es : /\ [es[t] EXCEPT !.status = "comparing"].source = es[t].source
                               /\ [es[t] EXCEPT !.status = "comparing"].target = es[t].target
      BY <1>4
    <3> HIDE DEF es, shared, taken
    <3>3. \A t \in DOMAIN es :
            /\ entries'[t].source = es[t].source /\ entries'[t].target = es[t].target
            /\ t \notin taken => entries'[t] = es[t]
      BY <3>1, <3>2
    <3> QED
      BY <1>5, <3>1, <3>3
  <2> QED
    BY <2>1, <2>2
<1>10. ASSUME NEW t, Awaited(t)' PROVE t \in shared
  <2>1. runs'[runId].stage = "tables" /\ t \in runs'[runId].out \cup runs'[runId].todo
    BY <1>1, <1>6, <1>10 DEF Awaited
  <2>2. CASE shared = {}
    <3>1. runs' = [runs EXCEPT ![i] = NoRun]
      BY <2>2 DEF TablesListed, RunOver
    <3>2. runs'[i] = NoRun
      BY <1>7, <3>1
    <3> QED
      BY <1>1, <2>1, <3>2 DEF NoRun
  <2>3. CASE shared # {}
    <3>1. runs' = [runs EXCEPT ![i].stage = "tables", ![i].out = taken, ![i].todo = shared \ taken]
      BY <2>3 DEF TablesListed
    <3> HIDE DEF es, shared, taken
    <3>2. runs'[i] = [runs[i] EXCEPT !.stage = "tables", !.out = taken, !.todo = shared \ taken]
      BY <1>7, <3>1
    <3>3. RunIsSound(runs[i])
      BY <1>1, <1>7 DEF CompareInv, RunsInv, NoRun
    <3>4. runs'[i].out = taken /\ runs'[i].todo = shared \ taken
      BY <3>2, <3>3 DEF RunIsSound
    <3> QED
      BY <1>1, <1>5, <2>1, <3>4
  <2> QED
    BY <2>2, <2>3
<1> HIDE DEF es, shared, taken
<1> SUFFICES ASSUME NEW t \in DOMAIN entries'
             PROVE  EntryIsListed(t)' /\ (Awaited(t)' => IsShared(entries[t])')
  BY DEF ListedInv
<1>11. tables'["source"] = l.source /\ tables'["target"] = l.target
  BY <1>1
<1>12. IsShared(entries'[t]) <=> t \in shared
  BY <1>4, <1>9 DEF IsShared
<1>13. EntryIsListed(t)'
  BY <1>4, <1>9, <1>11, <1>12 DEF EntryIsListed
<1> QED
  BY <1>10, <1>12, <1>13

\* The answer for a table of the run on the screen: the table, and the one its worker
\* takes next, wait for the run.
LEMMA ListedAnswer ==
  ASSUME CompareInv, ListedInv, NEW i \in 1..MaxRuns, NEW t \in runs[i].out, NEW ok, NEW result,
         Answered(i, t, ok, result)
  PROVE  ListedInv'
<1> DEFINE failed == runs[i].failed \/ ~ok
           rest == IF Late(i) THEN {} ELSE runs[i].todo
           next == IF rest = {} THEN {} ELSE {First(rest)}
           out == (runs[i].out \ {t}) \cup next
           status == IF ok THEN "done" ELSE "error"
           res == IF ok THEN result ELSE NoComparison
           settled == UpdateEntry(entries, t, status, res)
<1>1. /\ runs[i].stage = "tables" /\ tables' = tables /\ runId' = runId /\ retries' = retries
      /\ entries' = IF Late(i) THEN entries
                    ELSE [x \in DOMAIN settled |->
                            IF x \in next THEN [settled[x] EXCEPT !.status = "comparing"]
                            ELSE settled[x]]
      /\ \/ out # {} /\ runs' = [runs EXCEPT ![i].out = out, ![i].failed = failed, ![i].todo = rest \ next]
         \/ out = {} /\ runs' = [runs EXCEPT ![i] = NoRun]
  BY DEF Answered, RunOver
<1>2. runs = [k \in 1..MaxRuns |-> runs[k]] /\ RunIsSound(runs[i])
  BY <1>1 DEF CompareInv, RunsInv, NoRun
<1>3. next \subseteq rest
  <2>1. rest \in SUBSET Names
    BY <1>2 DEF RunIsSound
  <2> QED
    BY <2>1, FirstBelongs
<1> HIDE DEF next, settled
<1>4. /\ \A k \in 1..MaxRuns : k # i => runs'[k] = runs[k]
      /\ runs'[i].stage = "tables" => runs'[i].out = out /\ runs'[i].todo = rest \ next
  <2>1. CASE out # {} /\ runs' = [runs EXCEPT ![i].out = out, ![i].failed = failed, ![i].todo = rest \ next]
    <3> HIDE DEF out, failed, rest
    <3>1. runs'[i] = [runs[i] EXCEPT !.out = out, !.failed = failed, !.todo = rest \ next]
      BY <1>2, <2>1
    <3>2. \A k \in 1..MaxRuns : k # i => runs'[k] = runs[k]
      BY <1>2, <2>1
    <3>3. runs'[i].out = out /\ runs'[i].todo = rest \ next
      BY <1>2, <3>1 DEF RunIsSound
    <3> QED
      BY <3>2, <3>3
  <2>2. CASE runs' = [runs EXCEPT ![i] = NoRun]
    BY <1>2, <2>2 DEF NoRun
  <2> QED
    BY <1>1, <2>1, <2>2
<1>5. CASE Late(i)
  <2>1. \A x : Awaited(x)' => Awaited(x)
    BY <1>1, <1>4, <1>5, CompareAssumption DEF Awaited, Late, CompareInv, CompareTypes, RunsInv
  <2> QED
    BY <1>1, <1>5, <2>1, ListedFollows
<1>6. CASE ~Late(i)
  <2>1. i = runId /\ runId > 0 /\ rest = runs[i].todo
    BY <1>6 DEF Late
  <2>2. \A x \in runs[i].out \cup runs[i].todo : Awaited(x)
    BY <1>1, <2>1 DEF Awaited
  <2>3. ASSUME NEW x, Awaited(x)' PROVE Awaited(x)
    <3>1. CASE \E r \in retries : r.table = x /\ r.run = runId
      BY <3>1 DEF Awaited
    <3>2. CASE ~\E r \in retries : r.table = x /\ r.run = runId
      <4>1. runs'[i].stage = "tables" /\ x \in runs'[i].out \cup runs'[i].todo
        BY <1>1, <2>1, <2>3, <3>2 DEF Awaited
      <4> QED
        BY <1>3, <1>4, <2>1, <2>2, <4>1
    <3> QED
      BY <3>1, <3>2
  <2>4. ASSUME NEW x \in DOMAIN entries'
        PROVE  /\ x \in DOMAIN entries
               /\ \/ entries'[x] = entries[x]
                  \/ IsShared(entries[x]) /\ IsShared(entries'[x])
    <3>1. entries' = [y \in DOMAIN settled |->
                        IF y \in next THEN [settled[y] EXCEPT !.status = "comparing"] ELSE settled[y]]
      BY <1>1, <1>6
    <3>2. DOMAIN settled = DOMAIN entries
      BY DEF settled, UpdateEntry
    <3>3. x \in DOMAIN entries
      BY <3>1, <3>2
    <3>4. /\ settled[x].source = entries[x].source /\ settled[x].target = entries[x].target
          /\ x # t => settled[x] = entries[x]
          /\ DOMAIN settled[x] = {"source", "target", "status", "schema", "rows"}
      BY <3>3, UpdatedSides, EntryFields DEF CompareInv, settled
    <3>5. entries'[x] = IF x \in next THEN [settled[x] EXCEPT !.status = "comparing"] ELSE settled[x]
      BY <3>1, <3>2, <3>3
    <3>6. entries'[x].source = settled[x].source /\ entries'[x].target = settled[x].target
      BY <3>4, <3>5
    <3>7. CASE x = t \/ x \in next
      <4>1. IsShared(entries[x])
        BY <1>3, <2>1, <2>2, <3>3, <3>7 DEF ListedInv
      <4> QED
        BY <3>3, <3>4, <3>6, <4>1 DEF IsShared
    <3>8. CASE ~(x = t \/ x \in next)
      BY <3>3, <3>4, <3>5, <3>8
    <3> QED
      BY <3>7, <3>8
  <2> QED
    BY <1>1, <2>3, <2>4, ListedFollows
<1> QED
  BY SMTT(60), <1>5, <1>6

LEMMA ListedRetries ==
  ASSUME CompareInv, ListedInv,
         (\E t : RetryTable(t))
           \/ \E q, ok, r : RetryAnswered(q, ok, r) /\ Result(IF ok THEN r ELSE NoComparison)
  PROVE  ListedInv'
<1>1. ASSUME NEW t, RetryTable(t) PROVE ListedInv'
  <2>1. /\ t \in DOMAIN entries /\ entries[t].status = "error"
        /\ entries' = [entries EXCEPT ![t].status = "comparing"]
        /\ retries' = retries \cup {[run |-> runId, table |-> t, ctx |-> context]}
        /\ tables' = tables /\ runs' = runs /\ runId' = runId
    BY <1>1 DEF RetryTable, DetailActions, runVars
  <2>2. IsShared(entries[t])
    BY <2>1 DEF ListedInv, EntryIsListed
  <2>3. ASSUME NEW x, Awaited(x)' PROVE Awaited(x) \/ x = t
    BY <2>1, <2>3 DEF Awaited
  <2>4. ASSUME NEW x \in DOMAIN entries'
        PROVE  /\ x \in DOMAIN entries
               /\ \/ entries'[x] = entries[x]
                  \/ IsShared(entries[x]) /\ IsShared(entries'[x])
    <3>1. x \in DOMAIN entries /\ entries[t] \in Entry
      BY <2>1 DEF CompareInv, CompareTypes
    <3>2. entries'[x] = IF x = t THEN [entries[t] EXCEPT !.status = "comparing"] ELSE entries[x]
      BY <2>1, <3>1
    <3> QED
      BY <2>2, <3>1, <3>2 DEF IsShared, Entry
  <2> QED
    BY <2>1, <2>2, <2>3, <2>4, ListedFollows
<1>2. ASSUME NEW q, NEW ok, NEW r, RetryAnswered(q, ok, r)
      PROVE  ListedInv'
  <2> DEFINE status == IF ok THEN "done" ELSE "error"
             res == IF ok THEN r ELSE NoComparison
  <2>1. /\ q \in retries /\ retries' = retries \ {q}
        /\ entries' = IF Late(q.run) THEN entries ELSE UpdateEntry(entries, q.table, status, res)
        /\ tables' = tables /\ runs' = runs /\ runId' = runId
    BY <1>2 DEF RetryAnswered, runVars
  <2>2. \A x : Awaited(x)' => Awaited(x)
    BY <2>1 DEF Awaited
  <2>3. CASE Late(q.run)
    BY <2>1, <2>2, <2>3, ListedFollows
  <2>4. CASE ~Late(q.run)
    <3>1. Awaited(q.table)
      BY <2>1, <2>4 DEF Late, Awaited
    <3>2. ASSUME NEW x \in DOMAIN entries'
          PROVE  /\ x \in DOMAIN entries
                 /\ \/ entries'[x] = entries[x]
                    \/ IsShared(entries[x]) /\ IsShared(entries'[x])
      <4> HIDE DEF status, res
      <4>1. x \in DOMAIN entries
        BY <2>1, <2>4 DEF UpdateEntry
      <4>2. /\ entries'[x].source = entries[x].source /\ entries'[x].target = entries[x].target
            /\ x # q.table => entries'[x] = entries[x]
        BY <2>1, <2>4, <4>1, UpdatedSides, EntryFields DEF CompareInv
      <4> QED
        BY <3>1, <4>1, <4>2 DEF ListedInv, IsShared
    <3> QED
      BY <2>1, <2>2, <3>2, ListedFollows
  <2> QED
    BY <2>3, <2>4
<1> QED
  BY <1>1, <1>2

LEMMA ListedStep == ASSUME CompareInv, ListedInv, PanelNext PROVE ListedInv'
<1>1. CASE RunAnswers
  <2>1. PICK i \in 1..MaxRuns :
          \/ \E l \in Listings : TablesListed(i, l)
          \/ ListingFailed(i)
          \/ LateListing(i)
          \/ \E t \in runs[i].out : \E ok, r :
               Answered(i, t, ok, r) /\ Result(IF ok THEN r ELSE NoComparison)
    BY <1>1, RunAnswersAre
  <2>2. CASE ListingFailed(i)
    BY <2>2, NothingListed DEF ListingFailed
  <2>3. CASE LateListing(i)
    <3>1. /\ runs' = [runs EXCEPT ![i] = NoRun] /\ runId' = runId /\ i # runId
          /\ UNCHANGED <<entries, tables, retries>>
      BY <2>3 DEF LateListing, RunOver, Late, resultVars
    <3>2. \A k \in 1..MaxRuns : k # i => runs'[k] = runs[k]
      BY <3>1 DEF CompareInv, RunsInv
    <3>3. \A x : Awaited(x)' => Awaited(x)
      BY <3>1, <3>2, CompareAssumption DEF Awaited, CompareInv, CompareTypes, RunsInv
    <3> QED
      BY <3>1, <3>3, ListedFollows
  <2> QED
    BY <2>1, <2>2, <2>3, ListedStarts, ListedAnswer
<1>2. CASE RetryAnswers \/ \E t \in Names : RetryTable(t)
  BY <1>2, RetryAnswersAre, ListedRetries
<1>3. CASE RunCompare
  BY <1>3, NothingListed DEF RunCompare
<1>4. CASE CloseTab
  BY <1>4, NothingListed DEF CloseTab, FreshResults
<1>5. CASE \E id \in DOMAIN jobs : CancelCompareJob(id)
  <2>1. /\ UNCHANGED <<entries, tables, runs, retries>>
        /\ runId' = runId \/ (runId < MaxRuns /\ runId' = runId + 1)
    BY <1>5 DEF CancelCompareJob
  <2>2. CASE runId' = runId
    <3>1. \A x : Awaited(x)' => Awaited(x)
      BY <2>1, <2>2 DEF Awaited
    <3> QED
      BY <2>1, <3>1, ListedFollows
  <2>3. CASE runId < MaxRuns /\ runId' = runId + 1
    <3>0. runId \in Nat
      BY DEF CompareInv, CompareTypes
    <3>1. runId + 1 \in 1..MaxRuns
      BY <2>3, <3>0, CompareAssumption
    <3>2. runs[runId + 1] = NoRun
      BY <3>0, <3>1 DEF CompareInv, RunsInv
    <3>3. \A r \in retries : r.run # runId + 1
      BY <3>0 DEF CompareInv, EntriesInv
    <3>4. \A x : ~Awaited(x)'
      BY <2>1, <2>3, <3>2, <3>3 DEF Awaited, NoRun
    <3> QED
      BY <2>1, <3>4, ListedFollows
  <2> QED
    BY <2>1, <2>2, <2>3
<1>6. CASE \E t \in Names, at \in Endpoints : TableDropped(at, t)
  <2>1. PICK t \in Names, at \in Endpoints : TableDropped(at, t)
    BY <1>6
  <2>2. /\ UNCHANGED <<runs, runId, retries>>
        /\ tables' = [side \in Sides |->
                  IF side \in SidesAt(at) THEN tables[side] \ {t} ELSE tables[side]]
        /\ entries' = IF SidesAt(at) = {} THEN entries ELSE Restrict(entries, DOMAIN entries \ {t})
    BY <2>1 DEF TableDropped, runVars
  <2>3. \A x : Awaited(x)' => Awaited(x)
    BY <2>2 DEF Awaited
  <2>4. ASSUME NEW x \in DOMAIN entries'
        PROVE  /\ x \in DOMAIN entries /\ entries'[x] = entries[x]
               /\ \A side \in Sides : x \in tables[side] => x \in tables'[side]
    <3>1. CASE SidesAt(at) = {}
      BY <2>2, <3>1
    <3>2. CASE SidesAt(at) # {}
      <4>1. entries' = [y \in DOMAIN entries \ {t} |-> entries[y]]
        BY <2>2, <3>2 DEF Restrict
      <4> QED
        BY <2>2, <4>1
    <3> QED
      BY <3>1, <3>2
  <2> QED
    BY <2>3, <2>4, ListedFollows
<1>7. CASE Quiet
  <2>1. UNCHANGED tables
    <3>1. CASE OpenSync
      BY <3>1 DEF OpenSync
    <3>2. CASE FormActions
      BY <3>2 DEF FormActions, ChooseConnection, ChooseDatabase, SwapEndpoints, PickHistory,
                  ForgetHistory, Prefill, ConnectionsReady, DatabasesListed, Edited, resultVars
    <3>3. CASE BrowseActions
      <4>1. (\E p, b : Browse(p, b)) => UNCHANGED tables
        BY DEF Browse, resultVars
      <4> QED
        BY <3>3, <4>1 DEF BrowseActions, SelectTab, SetFilter, SetSearch, SelectTable,
                          ToggleCompareRows, ToggleSetup, ToggleShowAll, ShowRowDiffs, SetConcurrency
    <3> QED
      BY <1>7, <3>1, <3>2, <3>3 DEF Quiet
  <2>2. UNCHANGED panelVars
    BY <1>7, QuietSteps
  <2>3. \A x : Awaited(x)' => Awaited(x)
    BY <2>2 DEF Awaited, panelVars, runVars
  <2> QED
    BY <2>1, <2>2, <2>3, ListedFollows DEF panelVars
<1> QED
  BY <1>1, <1>2, <1>3, <1>4, <1>5, <1>6, <1>7 DEF PanelNext

LEMMA ListedRests == ASSUME ListedInv, UNCHANGED compareVars PROVE ListedInv'
<1>1. \A x : Awaited(x)' => Awaited(x)
  BY DEF Awaited, compareVars, runVars
<1> QED
  BY <1>1, ListedFollows DEF compareVars, resultVars

ScreenInv == CompareInv /\ FormInv /\ ListedInv

\* The controls that are on the screen keep the panel's invariant, the lists of databases
\* and what is known of each table together, in whatever order the answers come
\* (diff-panel-hooks.ts:88-441, DiffPanel.tsx:63-301).
THEOREM ScreenInvariantHolds == ScreenSpec => []ScreenInv
<1>1. ScreenInit => ScreenInv
  <2>1. CompareInit => ListedInv
    BY DEF CompareInit, ListedInv
  <2>2. CompareInit => FormInv
    BY DEF CompareInit, FormInv
  <2> QED
    BY <2>1, <2>2, CompareStartsRight DEF ScreenInit, ScreenInv
<1>2. ScreenInv /\ [ScreenNext]_compareVars => ScreenInv'
  <2>1. ASSUME ScreenInv, UNCHANGED compareVars PROVE ScreenInv'
    <3>1. UNCHANGED panelVars
      BY <2>1 DEF compareVars, resultVars, panelVars
    <3> QED
      BY <2>1, <3>1, CompareRests, FormRests, ListedRests DEF ScreenInv
  <2>2. ASSUME ScreenInv, ScreenNext PROVE ScreenInv'
    <3>1. PanelNext
      BY <2>2, ScreenSteps DEF ScreenInv, CompareInv
    <3> QED
      BY <2>2, <3>1, PanelKeeps, FormStep, ListedStep DEF ScreenInv
  <2> QED
    BY <2>1, <2>2
<1> QED
  BY <1>1, <1>2, PTL DEF ScreenSpec

\* A list of databases is that of the connection chosen, however late the answers to
\* earlier choices arrive (useDatabaseList, diff-panel-hooks.ts:115).
THEOREM ListsAreTheForms == ScreenSpec => []ListsFollowTheForm
<1>1. ScreenInv => ListsFollowTheForm
  BY DEF ScreenInv, FormInv, ListsFollowTheForm
<1> QED
  BY <1>1, ScreenInvariantHolds, PTL

\* What the results offer to open was listed on that side and has not been dropped since,
\* however listings, answers, retries and drops of tables are interleaved
\* (diff-panel-hooks.ts:197, 325).
THEOREM OpenedTablesAreListed == ScreenSpec => []OpensWhatIsListed
<1>1. ScreenInv => OpensWhatIsListed
  <2> SUFFICES ASSUME ScreenInv, NEW t \in DOMAIN entries
               PROVE  /\ Offers(t) \cap {"open-source", "compare"} # {} => t \in tables["source"]
                      /\ Offers(t) \cap {"open-target", "compare"} # {} => t \in tables["target"]
    BY DEF OpensWhatIsListed
  <2>1. EntryIsListed(t) /\ entries[t] \in Entry
    BY DEF ScreenInv, ListedInv, CompareInv, CompareTypes
  <2>2. /\ Offers(t) \cap {"open-source", "compare"} # {} => entries[t].source
        /\ Offers(t) \cap {"open-target", "compare"} # {} => entries[t].target
    <3>1. Offers(t) \in {{}, StatusOffers(t), SchemaOffers(t), DataOffers(t)}
      BY DEF Offers
    <3>2. CASE Offers(t) = StatusOffers(t)
      BY <3>2 DEF StatusOffers, DetailActions, IsShared
    <3>3. CASE Offers(t) = SchemaOffers(t)
      BY <2>1, <3>3 DEF SchemaOffers, EntryIsListed, IsShared, Entry, Matching, TableDiffs
    <3>4. CASE Offers(t) = DataOffers(t)
      BY <2>1, <3>4 DEF DataOffers, VisibleRows, Matching, RowComparisons, ChangedRows,
                        EntryIsListed, IsShared
    <3> QED
      BY <3>1, <3>2, <3>3, <3>4
  <2> QED
    BY <2>1, <2>2 DEF EntryIsListed
<1> QED
  BY <1>1, ScreenInvariantHolds, PTL
=============================================================================
