-------------------------------- MODULE Sync --------------------------------
(***************************************************************************)
(* Previewing and executing a sync from one database into another          *)
(* (src-tauri/src/sync/mod.rs).                                            *)
(*                                                                         *)
(* build_plan reads the schemas of both sides into a signature, plans the  *)
(* statements of every table and keeps request and signature under a plan  *)
(* id.  execute_with_progress reads the signature again, uses the plan up, *)
(* lists the target's tables, and then handles the tables one by one on a  *)
(* single connection whose foreign key checks are off.  Meanwhile other    *)
(* clients change either database, a statement may fail, may time out and  *)
(* take effect all the same, and the run may be cancelled at every await.  *)
(*                                                                         *)
(* A definition is the set of a table's columns.  A table's rows are those *)
(* it had before (old) and the batches each run has copied into it.        *)
(***************************************************************************)
EXTENDS Naturals, FiniteSets, Sequences

CONSTANTS Tables,    \* table names
          Defs,      \* table definitions: sets of columns
          Absent,    \* no such table
          Nothing,   \* not read, not planned, no plan
          Requests,  \* the requests the user may make
          Runs,      \* executions
          Mysql,     \* the target is MySQL, not PostgreSQL
          Batches,   \* batches of rows in a source table
          MaxPlans,  \* 64 in the code
          MaxBuilds, \* bound on the plans built
          MaxEdits   \* bound on the schema changes made by others

Strategies == {"skip", "recreate", "append", "truncate"}
Request == [tables : (SUBSET Tables) \ {{}}, structure : BOOLEAN, data : BOOLEAN,
            strategy : Strategies]
Statements == {"drop", "create", "truncate", "insert"}
Step == [setup : Seq(Statements), insert : BOOLEAN, def : Defs \cup {Nothing}]
Signature == [source : Defs, target : Defs \cup {Absent}]

ASSUME RequestsAssumption == Requests \subseteq {r \in Request : r.structure \/ r.data}
ASSUME NamesAssumption == Absent \notin Defs /\ Nothing \notin Defs \cup {Absent}
ASSUME BoundsAssumption ==
  /\ Mysql \in BOOLEAN
  /\ Batches \in Nat /\ MaxPlans \in Nat /\ MaxBuilds \in Nat /\ MaxEdits \in Nat

VARIABLES
  source,    \* [Tables -> definition]
  target,    \* [Tables -> definition, whether old rows are there, batches by run]
  plans,     \* PREVIEWS; a plan expires after fifteen minutes
  built,     \* number of plan ids issued
  build,     \* the build_plan call in progress
  run,       \* [Runs -> state of execute_with_progress]
  pool,      \* do the sessions given back to the pool check foreign keys?
  edits,     \* number of schema changes by others
  disturbed  \* history: runs during which someone else changed a schema

vars == <<source, target, plans, built, build, run, pool, edits, disturbed>>

Blank == [t \in Tables |-> Nothing]
NoBuild == [stage |-> "idle", req |-> Nothing, sign |-> Blank, exists |-> {},
            steps |-> Blank, clean |-> TRUE]
\* did, accepted, shown and clean are history: the actions decided for each table,
\* the plan that was accepted, its steps, and whether the schemas stood still
\* while it was built.
NotStarted == [stage |-> "idle", req |-> Nothing, plan |-> Nothing, sign |-> Blank,
               exists |-> {}, todo |-> {}, table |-> Nothing, setup |-> <<>>,
               copied |-> 0, fk |-> TRUE, done |-> {}, late |-> Nothing,
               did |-> Blank, accepted |-> Nothing, shown |-> Blank, clean |-> FALSE]
Working == {"preflight", "checked", "listed", "tables", "setup", "copy"}

TableState == [def : Defs \cup {Absent}, old : BOOLEAN, rows : [Runs -> 0..Batches]]
Signatures == [Tables -> Signature \cup {Nothing}]
Steps == [Tables -> Step \cup {Nothing}]
Plan == [id : Nat, req : Requests, sign : Signatures, steps : Steps, clean : BOOLEAN,
         expired : BOOLEAN]
BuildState == [stage : {"idle", "preflight", "planning"}, req : Requests \cup {Nothing},
               sign : Signatures, exists : SUBSET Tables, steps : Steps, clean : BOOLEAN]
RunState == [stage : {"idle", "restored", "ended"} \cup Working,
             req : Requests \cup {Nothing}, plan : Nat \cup {Nothing}, sign : Signatures,
             exists : SUBSET Tables, todo : SUBSET Tables, table : Tables \cup {Nothing},
             setup : Seq(Statements), copied : 0..Batches, fk : BOOLEAN,
             done : SUBSET Tables, late : Statements \cup {Nothing}, did : Steps,
             accepted : Nat \cup {Nothing}, shown : Steps, clean : BOOLEAN]

Init ==
  /\ source \in [Tables -> Defs]
  /\ target \in [Tables -> [def : Defs, old : {TRUE}, rows : {[x \in Runs |-> 0]}]
                       \cup [def : {Absent}, old : {FALSE}, rows : {[x \in Runs |-> 0]}]]
  /\ plans = {} /\ built = 0
  /\ build = NoBuild
  /\ run = [x \in Runs |-> NotStarted]
  /\ pool = TRUE
  /\ edits = 0
  /\ disturbed = {}

-----------------------------------------------------------------------------
(* What is planned. *)

SetupDropsAlways(r, exists) ==
  (IF exists /\ r.strategy = "recreate" THEN <<"drop">> ELSE <<>>)
  \o (IF r.structure /\ (~exists \/ r.strategy = "recreate") THEN <<"create">> ELSE <<>>)
  \o (IF r.data /\ exists /\ r.strategy = "truncate" THEN <<"truncate">> ELSE <<>>)

\* plan_table_actions.
SetupOf(r, exists) ==
  (IF ~r.structure THEN <<>>
   ELSE IF ~exists THEN <<"create">>
   ELSE IF r.strategy = "recreate" THEN <<"drop", "create">> ELSE <<>>)
  \o (IF r.data /\ exists /\ r.strategy = "truncate" THEN <<"truncate">> ELSE <<>>)

Skipped(r, exists) == exists /\ r.strategy = "skip"
SkipStep == [setup |-> <<>>, insert |-> FALSE, def |-> Nothing]

\* The actions for table t as its source is now defined.
StepFor(r, t, exists) ==
  IF Skipped(r, exists) THEN SkipStep
  ELSE [setup |-> SetupOf(r, exists), insert |-> r.data, def |-> source[t]]

Existing == {t \in Tables : target[t].def # Absent}

\* preflight: what it reads of a table that the list it began with has or has not,
\* if it can, and what it refuses.
SignatureOf(t, exists) ==
  [source |-> source[t], target |-> IF exists THEN target[t].def ELSE Absent]
Readable(t, exists) == exists => t \in Existing
Refused(r, s) ==
  /\ ~Skipped(r, s.target # Absent)
  /\ \/ s.target = Absent /\ ~r.structure
     \/ /\ s.target # Absent /\ r.data /\ r.strategy # "recreate"
        /\ ~(s.source \subseteq s.target)

Unread(r, sign) == {t \in r.tables : sign[t] = Nothing}

-----------------------------------------------------------------------------
(* build_plan. *)

StartBuild ==
  /\ build.stage = "idle"
  /\ built < MaxBuilds
  /\ \E r \in Requests :
       build' = [NoBuild EXCEPT !.stage = "preflight", !.req = r, !.exists = Existing]
  /\ UNCHANGED <<source, target, plans, built, run, pool, edits, disturbed>>

BuildReads ==
  /\ build.stage = "preflight"
  /\ \E t \in Unread(build.req, build.sign) :
       /\ Readable(t, t \in build.exists)
       /\ ~Refused(build.req, SignatureOf(t, t \in build.exists))
       /\ build' = [build EXCEPT !.sign[t] = SignatureOf(t, t \in build.exists)]
  /\ UNCHANGED <<source, target, plans, built, run, pool, edits, disturbed>>

BuildLists ==
  /\ build.stage = "preflight"
  /\ Unread(build.req, build.sign) = {}
  /\ build' = [build EXCEPT !.stage = "planning", !.exists = Existing]
  /\ UNCHANGED <<source, target, plans, built, run, pool, edits, disturbed>>

BuildPlansTable ==
  /\ build.stage = "planning"
  /\ \E t \in Unread(build.req, build.steps) :
       build' = [build EXCEPT !.steps[t] = StepFor(build.req, t, t \in build.exists)]
  /\ UNCHANGED <<source, target, plans, built, run, pool, edits, disturbed>>

\* The plan is kept: old ones go, and all of them when there are too many.
BuildEnds ==
  /\ build.stage = "planning"
  /\ Unread(build.req, build.steps) = {}
  /\ LET fresh == {p \in plans : ~p.expired}
         kept == IF Cardinality(fresh) >= MaxPlans THEN {} ELSE fresh
     IN plans' = kept \cup {[id |-> built + 1, req |-> build.req, sign |-> build.sign,
                             steps |-> build.steps, clean |-> build.clean,
                             expired |-> FALSE]}
  /\ built' = built + 1
  /\ build' = NoBuild
  /\ UNCHANGED <<source, target, run, pool, edits, disturbed>>

\* A read fails, preflight refuses, or the call is cancelled.
BuildFails ==
  /\ build.stage # "idle"
  /\ build' = NoBuild
  /\ UNCHANGED <<source, target, plans, built, run, pool, edits, disturbed>>

PlanExpires ==
  /\ \E p \in plans : ~p.expired /\ plans' = (plans \ {p}) \cup {[p EXCEPT !.expired = TRUE]}
  /\ UNCHANGED <<source, target, built, build, run, pool, edits, disturbed>>

-----------------------------------------------------------------------------
(* Who notices a schema change. *)

\* A run that is over; what it still has at the server is remembered.
End(x, late) ==
  /\ run' = [run EXCEPT ![x] =
       IF late = Nothing
       THEN [NotStarted EXCEPT !.stage = "ended", !.accepted = run[x].accepted]
       ELSE [NotStarted EXCEPT !.stage = "ended", !.accepted = run[x].accepted,
                               !.req = run[x].req, !.table = run[x].table,
                               !.did = run[x].did, !.late = late]]
  /\ disturbed' = disturbed \ {x}

ActiveBut(who) == {x \in Runs \ who : run[x].stage \in Working}

Disturb(who) ==
  /\ disturbed' = disturbed \cup ActiveBut(who)
  /\ build' = IF build.stage = "idle" THEN build ELSE [build EXCEPT !.clean = FALSE]

-----------------------------------------------------------------------------
(* execute_with_progress, up to the first statement. *)

StartRun(x) ==
  /\ run[x].stage = "idle"
  /\ \E r \in Requests, p \in (1..built) \cup {Nothing} :
       run' = [run EXCEPT ![x].stage = "preflight", ![x].req = r, ![x].plan = p,
                          ![x].exists = Existing]
  /\ UNCHANGED <<source, target, plans, built, build, pool, edits, disturbed>>

RunReads(x) ==
  /\ run[x].stage = "preflight"
  /\ \E t \in Unread(run[x].req, run[x].sign) :
       /\ Readable(t, t \in run[x].exists)
       /\ ~Refused(run[x].req, SignatureOf(t, t \in run[x].exists))
       /\ run' = [run EXCEPT ![x].sign[t] = SignatureOf(t, t \in run[x].exists)]
  /\ UNCHANGED <<source, target, plans, built, build, pool, edits, disturbed>>

\* A read fails or preflight refuses.
RunFailsPreflight(x) ==
  /\ run[x].stage = "preflight"
  /\ End(x, Nothing)
  /\ UNCHANGED <<source, target, plans, built, build, pool, edits>>

MatchesRequest(p, x) == ~p.expired /\ p.req = run[x].req

\* The plan is what is about to be done: young, for this request, and the schemas
\* are the ones it was made for.
Matches(p, x) == ~p.expired /\ p.req = run[x].req /\ p.sign = run[x].sign

Accept(x, p) ==
  run' = [run EXCEPT ![x].stage = "checked", ![x].sign = Blank, ![x].exists = {},
                     ![x].accepted = p.id, ![x].shown = p.steps, ![x].clean = p.clean]

UsePlanAgain(x) ==
  /\ run[x].stage = "preflight" /\ run[x].plan # Nothing
  /\ Unread(run[x].req, run[x].sign) = {}
  /\ \E p \in plans : p.id = run[x].plan /\ Matches(p, x) /\ Accept(x, p)
  /\ UNCHANGED plans
  /\ UNCHANGED <<source, target, built, build, pool, edits, disturbed>>

\* A plan is used up by the first run that names it, accepted or not.
UsePlan(x) ==
  /\ run[x].stage = "preflight" /\ run[x].plan # Nothing
  /\ Unread(run[x].req, run[x].sign) = {}
  /\ plans' = {p \in plans : p.id # run[x].plan}
  /\ \/ \E p \in plans : p.id = run[x].plan /\ Matches(p, x) /\ Accept(x, p)
                          /\ UNCHANGED disturbed
     \/ /\ ~\E p \in plans : p.id = run[x].plan /\ Matches(p, x)
        /\ End(x, Nothing)
  /\ UNCHANGED <<source, target, built, build, pool, edits>>

\* TableCompareView overwrites a table without a preview.
GoWithoutPlan(x) ==
  /\ run[x].stage = "preflight" /\ run[x].plan = Nothing
  /\ Unread(run[x].req, run[x].sign) = {}
  /\ run' = [run EXCEPT ![x].stage = "checked", ![x].sign = Blank, ![x].exists = {}]
  /\ UNCHANGED <<source, target, plans, built, build, pool, edits, disturbed>>

\* target.list_tables, again.
RunLists(x) ==
  /\ run[x].stage = "checked"
  /\ run' = [run EXCEPT ![x].stage = "listed", ![x].exists = Existing]
  /\ UNCHANGED <<source, target, plans, built, build, pool, edits, disturbed>>

\* TargetConn::acquire and SET FOREIGN_KEY_CHECKS=0.
Connect(x) ==
  /\ run[x].stage = "listed"
  /\ run' = [run EXCEPT ![x].stage = "tables", ![x].todo = run[x].req.tables,
                        ![x].fk = ~Mysql]
  /\ UNCHANGED <<source, target, plans, built, build, pool, edits, disturbed>>

-----------------------------------------------------------------------------
(* Statements. *)

NoRows == [x \in Runs |-> 0]
After(x, t, s) ==
  CASE s = "drop" -> [def |-> Absent, old |-> FALSE, rows |-> NoRows]
    [] s = "create" -> [def |-> run[x].did[t].def, old |-> FALSE, rows |-> NoRows]
    [] s = "truncate" -> [target[t] EXCEPT !.old = FALSE, !.rows = NoRows]
    [] s = "insert" -> [target[t] EXCEPT !.rows[x] = @ + 1]
Possible(x, t, s) ==
  CASE s = "drop" -> TRUE
    [] s = "create" -> target[t].def = Absent
    [] s = "truncate" -> target[t].def # Absent
    [] s = "insert" -> target[t].def # Absent /\ run[x].did[t].def \subseteq target[t].def

\* The statement takes effect; dropping, creating and truncating disturbs others.
Apply(x, t, s) ==
  /\ Possible(x, t, s)
  /\ target' = [target EXCEPT ![t] = After(x, t, s)]
  /\ IF s = "insert" THEN UNCHANGED <<build, disturbed>> ELSE Disturb({x})

\* What the run is waiting for.
Pending(x) ==
  IF run[x].stage = "setup" /\ run[x].setup # <<>> THEN Head(run[x].setup)
  ELSE IF run[x].stage = "copy" /\ run[x].copied < Batches THEN "insert" ELSE Nothing

-----------------------------------------------------------------------------
(* execute_with_progress, table by table in the order of the foreign keys. *)

TakeTable(x) ==
  /\ run[x].stage = "tables"
  /\ \E t \in run[x].todo :
       LET step == StepFor(run[x].req, t, t \in run[x].exists) IN
       run' = [run EXCEPT
         ![x].todo = @ \ {t},
         ![x].did[t] = step,
         ![x].stage = IF step = SkipStep THEN "tables" ELSE "setup",
         ![x].table = IF step = SkipStep THEN Nothing ELSE t,
         ![x].setup = step.setup,
         ![x].done = IF step = SkipStep THEN @ \cup {t} ELSE @]
  /\ UNCHANGED <<source, target, plans, built, build, pool, edits, disturbed>>

Setup(x) ==
  /\ run[x].stage = "setup" /\ run[x].setup # <<>>
  /\ Apply(x, run[x].table, Head(run[x].setup))
  /\ run' = [run EXCEPT ![x].setup = Tail(@)]
  /\ UNCHANGED <<source, plans, built, pool, edits>>

\* read_batches starts; a stream holds at least one batch here.
StartCopy(x) ==
  /\ run[x].stage = "setup" /\ run[x].setup = <<>>
  /\ run[x].did[run[x].table].insert
  /\ run' = [run EXCEPT ![x].stage = "copy", ![x].copied = 0]
  /\ UNCHANGED <<source, target, plans, built, build, pool, edits, disturbed>>

CopyBatch(x) ==
  /\ run[x].stage = "copy" /\ run[x].copied < Batches
  /\ Apply(x, run[x].table, "insert")
  /\ run' = [run EXCEPT ![x].copied = @ + 1]
  /\ UNCHANGED <<source, plans, built, pool, edits>>

Leave(x, done) ==
  run' = [run EXCEPT ![x].stage = "tables", ![x].table = Nothing, ![x].setup = <<>>,
                     ![x].copied = 0, ![x].done = done]

TableDoneWhenStreamStops(x) ==
  /\ \/ run[x].stage = "setup" /\ run[x].setup = <<>> /\ ~run[x].did[run[x].table].insert
     \/ run[x].stage = "copy"
  /\ Leave(x, run[x].done \cup {run[x].table})
  /\ UNCHANGED <<source, target, plans, built, build, pool, edits, disturbed>>

TableDone(x) ==
  /\ \/ run[x].stage = "setup" /\ run[x].setup = <<>> /\ ~run[x].did[run[x].table].insert
     \/ run[x].stage = "copy" /\ run[x].copied = Batches
  /\ Leave(x, run[x].done \cup {run[x].table})
  /\ UNCHANGED <<source, target, plans, built, build, pool, edits, disturbed>>

TableFailsAndIsRetried(x) ==
  /\ run[x].stage \in {"setup", "copy"}
  /\ run' = [run EXCEPT ![x].stage = "tables", ![x].todo = @ \cup {run[x].table}]
  /\ UNCHANGED <<source, target, plans, built, build, pool, edits, disturbed>>

\* A read or a statement fails and the run goes on with the next table.  A
\* statement that only exceeded its time may have taken effect.
TableFails(x) ==
  /\ run[x].stage \in {"setup", "copy"}
  /\ Leave(x, run[x].done)
  /\ \/ UNCHANGED <<target, build, disturbed>>
     \/ Pending(x) # Nothing /\ Apply(x, run[x].table, Pending(x))
  /\ UNCHANGED <<source, plans, built, pool, edits>>

RestoreForgotten(x) ==
  /\ run[x].stage = "tables" /\ run[x].todo = {}
  /\ run' = [run EXCEPT ![x].stage = "restored"]
  /\ UNCHANGED <<source, target, plans, built, build, pool, edits, disturbed>>

\* SET FOREIGN_KEY_CHECKS=1.
Restore(x) ==
  /\ run[x].stage = "tables" /\ run[x].todo = {}
  /\ run' = [run EXCEPT ![x].stage = "restored", ![x].fk = TRUE]
  /\ UNCHANGED <<source, target, plans, built, build, pool, edits, disturbed>>

\* complete, with no await since: only now does the pool get the session.
Complete(x) ==
  /\ run[x].stage = "restored"
  /\ pool' = (pool /\ run[x].fk)
  /\ End(x, Nothing)
  /\ UNCHANGED <<source, target, plans, built, build, edits>>

\* A statement outside the tables fails: the session is closed with the run.
Abort(x) ==
  /\ \/ run[x].stage \in {"checked", "listed"}
     \/ run[x].stage = "tables" /\ run[x].todo = {} /\ Mysql
  /\ End(x, Nothing)
  /\ UNCHANGED <<source, target, plans, built, build, pool, edits>>

\* Operations::run drops the future at the await it is in; the session is closed,
\* but the server may not have heard of it yet.
Cancel(x) ==
  /\ run[x].stage \in Working
  /\ \E s \in {Nothing, Pending(x)} : End(x, s)
  /\ UNCHANGED <<source, target, plans, built, build, pool, edits>>

\* KILL QUERY arrives after the statement, or before it.
LateStatement(x) ==
  /\ run[x].late # Nothing
  /\ run' = [run EXCEPT ![x].late = Nothing, ![x].req = Nothing,
                      ![x].table = Nothing, ![x].did = Blank]
  /\ \/ Apply(x, run[x].table, run[x].late)
     \/ UNCHANGED <<target, build, disturbed>>
  /\ UNCHANGED <<source, plans, built, pool, edits>>

-----------------------------------------------------------------------------
(* Other clients. *)

EditSource ==
  /\ edits < MaxEdits
  /\ \E t \in Tables, d \in Defs : d # source[t] /\ source' = [source EXCEPT ![t] = d]
  /\ edits' = edits + 1
  /\ Disturb({})
  /\ UNCHANGED <<target, plans, built, run, pool>>

\* A table is created and filled, altered, or dropped.
EditTarget ==
  /\ edits < MaxEdits
  /\ \E t \in Tables, d \in Defs \cup {Absent} :
       /\ d # target[t].def
       /\ target' = [target EXCEPT ![t] =
            IF d = Absent THEN [def |-> Absent, old |-> FALSE, rows |-> NoRows]
            ELSE IF target[t].def = Absent THEN [def |-> d, old |-> TRUE, rows |-> NoRows]
            ELSE [target[t] EXCEPT !.def = d]]
  /\ edits' = edits + 1
  /\ Disturb({})
  /\ UNCHANGED <<source, plans, built, run, pool>>

-----------------------------------------------------------------------------
BuildPlan == \/ StartBuild \/ BuildReads \/ BuildLists \/ BuildPlansTable
             \/ BuildEnds \/ BuildFails
Proceed(x) ==
  \/ RunReads(x) \/ RunFailsPreflight(x) \/ UsePlan(x) \/ GoWithoutPlan(x)
  \/ RunLists(x) \/ Connect(x) \/ TakeTable(x) \/ Setup(x) \/ StartCopy(x)
  \/ CopyBatch(x) \/ TableDone(x) \/ TableFails(x) \/ Restore(x)
  \/ Complete(x) \/ Abort(x)

Next ==
  \/ BuildPlan \/ PlanExpires \/ EditSource \/ EditTarget
  \/ \E x \in Runs : StartRun(x) \/ Proceed(x) \/ Cancel(x) \/ LateStatement(x)

Spec == Init /\ [][Next]_vars

\* Every read and statement of a run is bounded by a timeout of its own.
FairSpec == Spec /\ \A x \in Runs : WF_vars(Proceed(x))

-----------------------------------------------------------------------------
(* Properties. *)

TypeOK ==
  /\ source \in [Tables -> Defs]
  /\ target \in [Tables -> TableState]
  /\ plans \subseteq Plan
  /\ built \in Nat
  /\ build \in BuildState
  /\ run \in [Runs -> RunState]
  /\ pool \in BOOLEAN
  /\ edits \in Nat
  /\ disturbed \subseteq Runs

\* A preview is good for one execution, however many are started with it.
PlansAreUsedOnce ==
  \A x, y \in Runs : run[x].accepted # Nothing /\ run[x].accepted = run[y].accepted => x = y

\* What is done to a table is what the accepted preview showed for it, unless some
\* schema changed while the preview was built or after the run had started: any
\* change in between makes the run refuse the plan.
ExecutedAsPreviewed ==
  \A x \in Runs, t \in Tables :
    run[x].clean /\ x \notin disturbed /\ run[x].did[t] # Nothing =>
      run[x].did[t] = run[x].shown[t]

\* No session with its foreign key checks off reaches another user of the pool,
\* however the run ends.
PooledSessionsCheckForeignKeys == pool

\* While nobody else changes schemas, a table reported as done has every batch of
\* the source exactly once, and none of its old rows after an overwrite.
DoneMeansCopied ==
  \A x \in Runs : run[x].stage \in Working /\ x \notin disturbed =>
    \A t \in run[x].done : run[x].did[t].insert =>
      /\ target[t].rows[x] = Batches
      /\ run[x].did[t].setup # <<>> => ~target[t].old

\* Rows that were there before are lost only to another client or to a run whose
\* request overwrites structures, or empties tables to import data into them.
Overwrites(r) == \/ r.strategy = "recreate" /\ r.structure
                 \/ r.strategy = "truncate" /\ r.data
OldRowsAreKept ==
  [][\A t \in Tables : target[t].old /\ ~target'[t].old =>
       \/ edits' # edits
       \/ \E x \in Runs : run[x].req # Nothing /\ t \in run[x].req.tables
                          /\ Overwrites(run[x].req)]_vars

\* Every run comes to an end, whatever fails in it.
RunsEnd == \A x \in Runs : run[x].stage = "preflight" ~> run[x].stage = "ended"

\* What docs/code-review-improvement-plan-2026-09-08.md says: once the structure has
\* changed, the old plan is rejected.  So a run drops a table that holds rows only if
\* the preview it was started with showed the drop.
DropsArePreviewed ==
  \A x \in Runs :
    LET t == run[x].table IN
    Pending(x) = "drop" /\ target[t].old /\ run[x].accepted # Nothing =>
      Head(run[x].shown[t].setup) = "drop"
=============================================================================
