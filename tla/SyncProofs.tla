------------------------------ MODULE SyncProofs ------------------------------
(***************************************************************************)
(* Theorems of previews and executions, for any tables, definitions,       *)
(* requests and number of executions, and whatever other clients do.       *)
(***************************************************************************)
EXTENDS Sync, SequenceTheorems, TLAPS

-----------------------------------------------------------------------------
(* The records keep their fields.  An execution changes only its own.      *)

Fields == DOMAIN NotStarted
PlanFields == {"id", "req", "sign", "steps", "clean", "expired"}

Shaped ==
  /\ run = [x \in Runs |-> run[x]]
  /\ \A x \in Runs : DOMAIN run[x] = Fields
  /\ \A p \in plans : DOMAIN p = PlanFields

LEMMA RunFields ==
  Fields = {"stage", "req", "plan", "sign", "exists", "todo", "table", "setup", "copied",
            "fk", "done", "late", "did", "accepted", "shown", "clean"}
BY DEF Fields, NotStarted

RunMoves(x) ==
  /\ run' = [y \in Runs |-> run'[y]]
  /\ \A y \in Runs : DOMAIN run'[y] = Fields
  /\ \A y \in Runs \ {x} : run'[y] = run[y]

LEMMA EndMoves ==
  ASSUME Shaped, NEW x \in Runs, NEW s, End(x, s)
  PROVE  /\ RunMoves(x)
         /\ run'[x].stage = "ended" /\ run'[x].fk /\ run'[x].accepted = run[x].accepted
         /\ run'[x].done = {} /\ ~run'[x].clean /\ run'[x].late = s
         /\ s # Nothing => /\ run'[x].req = run[x].req /\ run'[x].table = run[x].table
                           /\ run'[x].did = run[x].did
BY SMTT(60), RunFields DEF Shaped, RunMoves, End, NotStarted

LEMMA AcceptMoves ==
  ASSUME Shaped, NEW x \in Runs, NEW p, Accept(x, p)
  PROVE  /\ RunMoves(x)
         /\ run'[x].stage = "checked" /\ run'[x].accepted = p.id
         /\ run'[x].shown = p.steps /\ run'[x].clean = p.clean
         /\ \A f \in {"req", "todo", "table", "setup", "copied", "fk", "done", "late", "did"} :
              run'[x][f] = run[x][f]
BY SMTT(60), RunFields DEF Shaped, RunMoves, Accept

\* What TakeTable does with table t, whose planned step is step.
Taken(x, t, step) ==
  /\ run'[x].todo = run[x].todo \ {t}
  /\ run'[x].did = [run[x].did EXCEPT ![t] = step]
  /\ run'[x].setup = step.setup
  /\ \/ /\ step = SkipStep /\ run'[x].stage = "tables"
        /\ run'[x].done = run[x].done \cup {t}
     \/ /\ step # SkipStep /\ run'[x].stage = "setup"
        /\ run'[x].table = t /\ run'[x].done = run[x].done
  /\ \A f \in Fields \ {"todo", "did", "stage", "table", "setup", "done"} :
       run'[x][f] = run[x][f]

LEMMA TakeMoves ==
  ASSUME Shaped, NEW x \in Runs, TakeTable(x)
  PROVE  /\ RunMoves(x) /\ run[x].stage = "tables"
         /\ \E t \in run[x].todo :
              Taken(x, t, StepFor(run[x].req, t, t \in run[x].exists))
<1>1. PICK t \in run[x].todo :
       LET step == StepFor(run[x].req, t, t \in run[x].exists) IN
       run' = [run EXCEPT
         ![x].todo = @ \ {t},
         ![x].did[t] = step,
         ![x].stage = IF step = SkipStep THEN "tables" ELSE "setup",
         ![x].table = IF step = SkipStep THEN Nothing ELSE t,
         ![x].setup = step.setup,
         ![x].done = IF step = SkipStep THEN @ \cup {t} ELSE @]
  BY ZenonT(60) DEF TakeTable
<1> DEFINE step == StepFor(run[x].req, t, t \in run[x].exists)
           next == [run[x] EXCEPT
                !.todo = @ \ {t},
                !.did[t] = step,
                !.stage = IF step = SkipStep THEN "tables" ELSE "setup",
                !.table = IF step = SkipStep THEN Nothing ELSE t,
                !.setup = step.setup,
                !.done = IF step = SkipStep THEN @ \cup {t} ELSE @]
<1>2. run' = [run EXCEPT ![x] = next]
  BY ZenonT(60), <1>1
<1>3. DOMAIN next = Fields
  BY DEF Shaped
<1> HIDE DEF step
<1>4. /\ next.todo = run[x].todo \ {t} /\ next.did = [run[x].did EXCEPT ![t] = step]
      /\ next.setup = step.setup
      /\ step = SkipStep => next.stage = "tables" /\ next.done = run[x].done \cup {t}
      /\ step # SkipStep =>
           next.stage = "setup" /\ next.table = t /\ next.done = run[x].done
      /\ \A f \in Fields \ {"todo", "did", "stage", "table", "setup", "done"} :
           next[f] = run[x][f]
  BY RunFields DEF Shaped
<1> HIDE DEF next
<1>5. RunMoves(x) /\ run'[x] = next
  BY <1>2, <1>3 DEF Shaped, RunMoves
<1>6. Taken(x, t, step)
  BY <1>4, <1>5 DEF Taken
<1> QED
  BY SMTT(60), <1>5, <1>6 DEF step, TakeTable

LEMMA LeaveMoves ==
  ASSUME Shaped, NEW x \in Runs, NEW d, Leave(x, d)
  PROVE  /\ RunMoves(x)
         /\ run'[x].stage = "tables" /\ run'[x].setup = <<>> /\ run'[x].done = d
         /\ \A f \in Fields \ {"stage", "table", "setup", "copied", "done"} :
              run'[x][f] = run[x][f]
BY RunFields DEF Shaped, RunMoves, Leave

Ends(x) == RunFailsPreflight(x) \/ Complete(x) \/ Abort(x) \/ Cancel(x)
LEMMA EndsByEnd ==
  ASSUME NEW x \in Runs, Ends(x)
  PROVE  \E s : End(x, s)
BY DEF Ends, RunFailsPreflight, Complete, Abort, Cancel

RunStep(x) == StartRun(x) \/ Proceed(x) \/ Cancel(x) \/ LateStatement(x)

LEMMA RunStepMoves ==
  ASSUME Shaped, NEW x \in Runs, RunStep(x)
  PROVE  RunMoves(x)
<1>1. CASE StartRun(x)
  BY <1>1, RunFields DEF StartRun, Shaped, RunMoves
<1>2. CASE RunReads(x)
  BY <1>2, RunFields DEF RunReads, Shaped, RunMoves
<1>3. CASE UsePlan(x)
  BY <1>3, AcceptMoves, EndMoves DEF UsePlan
<1>4. CASE GoWithoutPlan(x)
  BY <1>4, RunFields DEF GoWithoutPlan, Shaped, RunMoves
<1>5. CASE RunLists(x) \/ Connect(x)
  BY <1>5, RunFields DEF RunLists, Connect, Shaped, RunMoves
<1>6. CASE TakeTable(x)
  BY <1>6, TakeMoves
<1>7. CASE Setup(x) \/ StartCopy(x) \/ CopyBatch(x)
  BY <1>7, RunFields DEF Setup, StartCopy, CopyBatch, Shaped, RunMoves
<1>8. CASE TableDone(x) \/ TableFails(x)
  BY <1>8, LeaveMoves DEF TableDone, TableFails
<1>9. CASE Restore(x)
  BY <1>9, RunFields DEF Restore, Shaped, RunMoves
<1>10. CASE Ends(x)
  BY <1>10, EndsByEnd, EndMoves
<1>11. CASE LateStatement(x)
  BY <1>11, RunFields DEF LateStatement, Shaped, RunMoves
<1> QED
  BY <1>1, <1>2, <1>3, <1>4, <1>5, <1>6, <1>7, <1>8, <1>9, <1>10, <1>11 DEF RunStep, Proceed, Ends

Keeps(x, changed) == \A f \in Fields \ changed : run'[x][f] = run[x][f]

LEMMA PrefaceMoves ==
  ASSUME Shaped, NEW x \in Runs
  PROVE  /\ StartRun(x) => /\ run'[x].stage = "preflight" /\ run'[x].exists = Existing
                           /\ Keeps(x, {"stage", "req", "plan", "exists"})
         /\ GoWithoutPlan(x) => /\ run'[x].stage = "checked"
                                /\ Keeps(x, {"stage", "sign", "exists"})
         /\ RunLists(x) => /\ run'[x].stage = "listed" /\ run'[x].exists = Existing
                           /\ Keeps(x, {"stage", "exists"})
         /\ Connect(x) => /\ run'[x].stage = "tables" /\ run'[x].todo = run[x].req.tables
                          /\ Keeps(x, {"stage", "todo", "fk"})
<1>1. ASSUME StartRun(x)
      PROVE  /\ run'[x].stage = "preflight" /\ run'[x].exists = Existing
             /\ Keeps(x, {"stage", "req", "plan", "exists"})
  BY <1>1, RunFields DEF StartRun, Shaped, Keeps
<1>2. ASSUME GoWithoutPlan(x)
      PROVE  run'[x].stage = "checked" /\ Keeps(x, {"stage", "sign", "exists"})
  BY <1>2, RunFields DEF GoWithoutPlan, Shaped, Keeps
<1>3. ASSUME RunLists(x)
      PROVE  /\ run'[x].stage = "listed" /\ run'[x].exists = Existing
             /\ Keeps(x, {"stage", "exists"})
  BY <1>3, RunFields DEF RunLists, Shaped, Keeps
<1>4. ASSUME Connect(x)
      PROVE  /\ run'[x].stage = "tables" /\ run'[x].todo = run[x].req.tables
             /\ Keeps(x, {"stage", "todo", "fk"})
  BY <1>4, RunFields DEF Connect, Shaped, Keeps
<1> QED
  BY <1>1, <1>2, <1>3, <1>4

LEMMA ReadMoves ==
  ASSUME Shaped, NEW x \in Runs, RunReads(x)
  PROVE  /\ Keeps(x, {"sign"})
         /\ \E t \in Unread(run[x].req, run[x].sign) :
              run'[x].sign = [run[x].sign EXCEPT ![t] = SignatureOf(t, t \in run[x].exists)]
BY ZenonT(60), RunFields DEF RunReads, Shaped, Keeps

LEMMA TableMoves ==
  ASSUME Shaped, NEW x \in Runs
  PROVE  /\ Setup(x) => run'[x].setup = Tail(run[x].setup) /\ Keeps(x, {"setup"})
         /\ StartCopy(x) => /\ run'[x].stage = "copy" /\ run'[x].copied = 0
                            /\ Keeps(x, {"stage", "copied"})
         /\ CopyBatch(x) => run'[x].copied = run[x].copied + 1 /\ Keeps(x, {"copied"})
         /\ Restore(x) => run'[x].stage = "restored" /\ run'[x].fk /\ Keeps(x, {"stage", "fk"})
         /\ LateStatement(x) => run'[x].late = Nothing /\ Keeps(x, {"late", "req", "table", "did"})
<1>1. ASSUME Setup(x)
      PROVE  run'[x].setup = Tail(run[x].setup) /\ Keeps(x, {"setup"})
  BY <1>1, RunFields DEF Setup, Shaped, Keeps
<1>2. ASSUME StartCopy(x)
      PROVE  run'[x].stage = "copy" /\ run'[x].copied = 0 /\ Keeps(x, {"stage", "copied"})
  BY <1>2, RunFields DEF StartCopy, Shaped, Keeps
<1>3. ASSUME CopyBatch(x)
      PROVE  run'[x].copied = run[x].copied + 1 /\ Keeps(x, {"copied"})
  BY <1>3, RunFields DEF CopyBatch, Shaped, Keeps
<1>4. ASSUME Restore(x)
      PROVE  run'[x].stage = "restored" /\ run'[x].fk /\ Keeps(x, {"stage", "fk"})
  BY <1>4, RunFields DEF Restore, Shaped, Keeps
<1>5. ASSUME LateStatement(x)
      PROVE  run'[x].late = Nothing /\ Keeps(x, {"late", "req", "table", "did"})
  BY <1>5, RunFields DEF LateStatement, Shaped, Keeps
<1> QED
  BY <1>1, <1>2, <1>3, <1>4, <1>5

LEMMA OthersKeepRuns ==
  ASSUME BuildPlan \/ PlanExpires \/ EditSource \/ EditTarget
  PROVE  UNCHANGED run
BY DEF BuildPlan, StartBuild, BuildReads, BuildLists, BuildPlansTable, BuildEnds, BuildFails,
       PlanExpires, EditSource, EditTarget

LEMMA ShapedStep ==
  ASSUME Shaped, [Next]_vars
  PROVE  Shaped'
<1>1. ASSUME NEW x \in Runs, RunStep(x) PROVE plans' \subseteq plans
  BY <1>1 DEF RunStep, Proceed, StartRun, RunReads, RunFailsPreflight, UsePlan, GoWithoutPlan,
     RunLists, Connect, TakeTable, Setup, StartCopy, CopyBatch, TableDone, TableFails, Restore,
     Complete, Abort, Cancel, LateStatement
<1>2. CASE BuildEnds
  BY <1>2 DEF BuildEnds, Shaped, PlanFields
<1>3. CASE PlanExpires
  <2>1. PICK p \in plans : plans' = (plans \ {p}) \cup {[p EXCEPT !.expired = TRUE]}
    BY <1>3 DEF PlanExpires
  <2> QED
    BY <1>3, <2>1, OthersKeepRuns DEF Shaped
<1>4. CASE (BuildPlan /\ ~BuildEnds) \/ EditSource \/ EditTarget
  BY <1>4 DEF BuildPlan, StartBuild, BuildReads, BuildLists, BuildPlansTable, BuildFails,
     EditSource, EditTarget, Shaped
<1>5. ASSUME NEW x \in Runs, RunStep(x) PROVE Shaped'
  BY <1>1, <1>5, RunStepMoves DEF Shaped, RunMoves
<1>6. CASE UNCHANGED vars
  BY <1>6 DEF vars, Shaped
<1> QED
  BY SMTT(60), <1>2, <1>3, <1>4, <1>5, <1>6 DEF Next, RunStep, BuildPlan

LEMMA ShapedInit ==
  ASSUME Init
  PROVE  /\ Shaped
         /\ \A x \in Runs : /\ run[x].stage = "idle" /\ run[x].accepted = Nothing
                             /\ run[x].late = Nothing /\ run[x].todo = {} /\ run[x].done = {}
                             /\ run[x].setup = <<>> /\ ~run[x].clean
<1>1. run = [x \in Runs |-> NotStarted] /\ plans = {}
  BY DEF Init
<1>2. Shaped
  BY <1>1 DEF Shaped, Fields
<1> QED
  BY <1>1, <1>2 DEF NotStarted

-----------------------------------------------------------------------------
(* Plans                                                                   *)

\* A plan that was accepted is no longer among those kept, and no later one has its id.
Issued ==
  /\ built \in Nat
  /\ \A p \in plans : p.id \in 1..built
  /\ \A x \in Runs : run[x].accepted # Nothing =>
       /\ run[x].accepted \in 1..built
       /\ \A p \in plans : p.id # run[x].accepted

LEMMA AcceptedKept ==
  ASSUME Shaped, NEW x \in Runs, RunStep(x), ~UsePlan(x)
  PROVE  run'[x].accepted = run[x].accepted
<1>1. CASE StartRun(x) \/ GoWithoutPlan(x) \/ RunLists(x) \/ Connect(x)
  BY <1>1, PrefaceMoves, RunFields DEF Keeps
<1>2. CASE RunReads(x)
  BY <1>2, ReadMoves, RunFields DEF Keeps
<1>3. CASE TakeTable(x)
  <2>1. PICK t \in run[x].todo : Taken(x, t, StepFor(run[x].req, t, t \in run[x].exists))
    BY <1>3, TakeMoves
  <2> QED
    BY <2>1, RunFields DEF Taken
<1>4. CASE Setup(x) \/ StartCopy(x) \/ CopyBatch(x) \/ Restore(x) \/ LateStatement(x)
  BY <1>4, TableMoves, RunFields DEF Keeps
<1>5. CASE TableDone(x) \/ TableFails(x)
  BY <1>5, LeaveMoves, RunFields DEF TableDone, TableFails
<1>6. CASE Ends(x)
  BY <1>6, EndsByEnd, EndMoves
<1> QED
  BY <1>1, <1>2, <1>3, <1>4, <1>5, <1>6 DEF RunStep, Proceed, Ends

LEMMA IssuedStep ==
  ASSUME Shaped, Issued, PlansAreUsedOnce, [Next]_vars
  PROVE  Issued' /\ PlansAreUsedOnce'
<1>1. CASE BuildEnds
  BY <1>1 DEF BuildEnds, Issued, PlansAreUsedOnce
<1>2. CASE PlanExpires
  <2>1. PICK p \in plans : plans' = (plans \ {p}) \cup {[p EXCEPT !.expired = TRUE]}
    BY <1>2 DEF PlanExpires
  <2>2. [p EXCEPT !.expired = TRUE].id = p.id
    BY DEF Shaped, PlanFields
  <2> QED
    BY <1>2, <2>1, <2>2 DEF PlanExpires, Issued, PlansAreUsedOnce
<1>3. CASE (BuildPlan /\ ~BuildEnds) \/ EditSource \/ EditTarget
  BY <1>3 DEF BuildPlan, StartBuild, BuildReads, BuildLists, BuildPlansTable, BuildFails,
     EditSource, EditTarget, Issued, PlansAreUsedOnce
<1>4. ASSUME NEW x \in Runs, UsePlan(x) PROVE Issued' /\ PlansAreUsedOnce'
  <2>1. RunMoves(x) /\ plans' = {p \in plans : p.id # run[x].plan} /\ built' = built
    BY <1>4, RunStepMoves DEF RunStep, Proceed, UsePlan
  <2>2. CASE End(x, Nothing)
    BY <2>1, <2>2, EndMoves DEF RunMoves, Issued, PlansAreUsedOnce
  <2>3. ASSUME NEW p \in plans, p.id = run[x].plan, Accept(x, p)
        PROVE  Issued' /\ PlansAreUsedOnce'
    <3>1. run'[x].accepted = p.id
      BY <2>3, AcceptMoves
    <3> QED
      BY <2>1, <2>3, <3>1 DEF RunMoves, Issued, PlansAreUsedOnce
  <2> QED
    BY <1>4, <2>2, <2>3 DEF UsePlan
<1>5. ASSUME NEW x \in Runs, RunStep(x), ~UsePlan(x) PROVE Issued' /\ PlansAreUsedOnce'
  <2>1. UNCHANGED <<plans, built>>
    BY <1>5 DEF RunStep, Proceed, StartRun, RunReads, RunFailsPreflight, GoWithoutPlan,
     RunLists, Connect, TakeTable, Setup, StartCopy, CopyBatch, TableDone, TableFails, Restore,
     Complete, Abort, Cancel, LateStatement
  <2> QED
    BY SMTT(60), <1>5, <2>1, AcceptedKept, RunStepMoves DEF RunMoves, Issued, PlansAreUsedOnce
<1>6. CASE UNCHANGED vars
  BY <1>6 DEF vars, Issued, PlansAreUsedOnce
<1> QED
  BY <1>1, <1>2, <1>3, <1>4, <1>5, <1>6 DEF Next, RunStep, BuildPlan

\* A preview is good for one execution, however many are started with it at once
\* (execute_with_progress takes the plan out of PREVIEWS under the lock).
THEOREM PlansUsedOnce == Spec => []PlansAreUsedOnce
<1>1. Init => Shaped /\ Issued /\ PlansAreUsedOnce
  <2>1. Init => plans = {} /\ built = 0
    BY DEF Init
  <2> QED
    BY <2>1, ShapedInit DEF Issued, PlansAreUsedOnce
<1>2. Shaped /\ Issued /\ PlansAreUsedOnce /\ [Next]_vars
      => (Shaped /\ Issued /\ PlansAreUsedOnce)'
  BY ShapedStep, IssuedStep
<1> QED
  BY <1>1, <1>2, PTL DEF Spec

-----------------------------------------------------------------------------
(* The pool                                                                *)

Restored == \A x \in Runs : run[x].stage = "restored" => run[x].fk

LEMMA ChecksRestored ==
  ASSUME Shaped, Restored, NEW x \in Runs, RunStep(x)
  PROVE  run'[x].stage = "restored" => run'[x].fk
<1>1. CASE StartRun(x) \/ GoWithoutPlan(x) \/ RunLists(x) \/ Connect(x)
  BY <1>1, PrefaceMoves
<1>2. CASE RunReads(x)
  BY <1>2, ReadMoves, RunFields DEF Keeps, Restored
<1>3. CASE UsePlan(x)
  BY <1>3, AcceptMoves, EndMoves DEF UsePlan
<1>4. CASE TakeTable(x)
  BY <1>4, TakeMoves DEF Taken
<1>5. CASE Setup(x) \/ StartCopy(x) \/ CopyBatch(x) \/ Restore(x) \/ LateStatement(x)
  BY <1>5, TableMoves, RunFields DEF Keeps, Restored
<1>6. CASE TableDone(x) \/ TableFails(x)
  BY <1>6, LeaveMoves DEF TableDone, TableFails
<1>7. CASE Ends(x)
  BY <1>7, EndsByEnd, EndMoves
<1> QED
  BY <1>1, <1>2, <1>3, <1>4, <1>5, <1>6, <1>7 DEF RunStep, Proceed, Ends

LEMMA RestoredStep ==
  ASSUME Shaped, Restored, PooledSessionsCheckForeignKeys, [Next]_vars
  PROVE  Restored' /\ PooledSessionsCheckForeignKeys'
<1>1. CASE BuildPlan \/ PlanExpires \/ EditSource \/ EditTarget
  BY <1>1, OthersKeepRuns DEF BuildPlan, StartBuild, BuildReads, BuildLists, BuildPlansTable,
     BuildEnds, BuildFails, PlanExpires, EditSource, EditTarget, Restored,
     PooledSessionsCheckForeignKeys
<1>2. ASSUME NEW x \in Runs, RunStep(x) PROVE Restored'
  BY SMTT(60), <1>2, ChecksRestored, RunStepMoves DEF RunMoves, Restored
<1>3. ASSUME NEW x \in Runs, RunStep(x) PROVE pool'
  BY <1>3 DEF RunStep, Proceed, StartRun, RunReads, RunFailsPreflight, UsePlan, GoWithoutPlan,
     RunLists, Connect, TakeTable, Setup, StartCopy, CopyBatch, TableDone, TableFails, Restore,
     Complete, Abort, Cancel, LateStatement, Restored, PooledSessionsCheckForeignKeys
<1>4. CASE UNCHANGED vars
  BY <1>4 DEF vars, Restored, PooledSessionsCheckForeignKeys
<1> QED
  BY <1>1, <1>2, <1>3, <1>4 DEF Next, RunStep, PooledSessionsCheckForeignKeys

\* The pool never gets a session whose foreign key checks are off back: the session is
\* given back only after the checks were restored, and is closed on every other way out.
THEOREM PooledSessionsChecked == Spec => []PooledSessionsCheckForeignKeys
<1>1. Init => Shaped /\ Restored /\ PooledSessionsCheckForeignKeys
  BY ShapedInit DEF Init, Restored, PooledSessionsCheckForeignKeys
<1>2. Shaped /\ Restored /\ PooledSessionsCheckForeignKeys /\ [Next]_vars
      => (Shaped /\ Restored /\ PooledSessionsCheckForeignKeys)'
  BY ShapedStep, RestoredStep
<1> QED
  BY <1>1, <1>2, PTL DEF Spec

-----------------------------------------------------------------------------
(* What a request allows                                                   *)

\* The statements that may precede the copying of a table.
Setups(r) == {<<>>, <<"create">>}
             \cup IF Overwrites(r) THEN {<<"drop", "create">>, <<"truncate">>} ELSE {}

LEMMA SetupAllowed ==
  ASSUME NEW r \in Requests, NEW t, NEW e \in BOOLEAN
  PROVE  StepFor(r, t, e).setup \in Setups(r)
<1>1. r \in Request
  BY RequestsAssumption
<1> DEFINE a == IF ~r.structure THEN <<>>
                ELSE IF ~e THEN <<"create">>
                ELSE IF r.strategy = "recreate" THEN <<"drop", "create">> ELSE <<>>
           b == IF r.data /\ e /\ r.strategy = "truncate" THEN <<"truncate">> ELSE <<>>
<1>2. a \in Seq(Statements) /\ b \in Seq(Statements)
  <2>1. /\ <<>> \in Seq(Statements) /\ <<"create">> \in Seq(Statements)
        /\ <<"drop", "create">> \in Seq(Statements) /\ <<"truncate">> \in Seq(Statements)
    BY DEF Statements
  <2> QED
    BY <2>1
<1>3. a = <<>> \/ b = <<>>
  BY <1>1 DEF Request, Strategies
<1>4. a \o b = a \/ a \o b = b
  BY <1>2, <1>3, ConcatEmptySeq
<1>5. a \in Setups(r) /\ b \in Setups(r)
  BY <1>1 DEF Setups, Overwrites, Request
<1>6. SetupOf(r, e) \in Setups(r)
  <2>1. SetupOf(r, e) = a \o b
    BY DEF SetupOf
  <2> QED
    BY <1>4, <1>5, <2>1
<1>7. SkipStep.setup \in Setups(r)
  BY DEF SkipStep, Setups
<1> QED
  BY <1>6, <1>7 DEF StepFor

Allowed(r, s) == s \in Statements /\ (s \in {"drop", "truncate"} => Overwrites(r))

LEMMA SetupsShrink ==
  ASSUME NEW r, NEW q \in Setups(r), q # <<>>
  PROVE  Allowed(r, Head(q)) /\ Tail(q) \in Setups(r)
<1>1. CASE q = <<"create">>
  BY <1>1 DEF Setups, Allowed, Statements
<1>2. CASE Overwrites(r) /\ q = <<"drop", "create">>
  <2>1. Head(q) = "drop" /\ Tail(q) = <<"create">>
    BY <1>2
  <2> QED
    BY <1>2, <2>1 DEF Setups, Allowed, Statements
<1>3. CASE Overwrites(r) /\ q = <<"truncate">>
  <2>1. Head(q) = "truncate" /\ Tail(q) = <<>>
    BY <1>3
  <2> QED
    BY <1>3, <2>1 DEF Setups, Allowed, Statements
<1> QED
  BY <1>1, <1>2, <1>3 DEF Setups

\* What a run does, and what it leaves at the server, is what its request asks for.
Asked(x) ==
  /\ run[x].stage \in Working => run[x].req \in Requests
  /\ run[x].stage \in {"tables", "setup", "copy"} => run[x].todo \subseteq run[x].req.tables
  /\ run[x].stage \in {"setup", "copy"} =>
       run[x].table \in run[x].req.tables /\ run[x].setup \in Setups(run[x].req)
  /\ run[x].late # Nothing =>
       /\ run[x].stage = "ended" /\ run[x].req \in Requests
       /\ run[x].table \in run[x].req.tables /\ Allowed(run[x].req, run[x].late)

LEMMA PendingAllowed ==
  ASSUME NEW x \in Runs, Asked(x), Pending(x) # Nothing
  PROVE  /\ run[x].stage \in {"setup", "copy"} /\ run[x].req \in Requests
         /\ run[x].table \in run[x].req.tables /\ Allowed(run[x].req, Pending(x))
<1>1. CASE run[x].stage = "setup" /\ run[x].setup # <<>>
  BY <1>1, SetupsShrink DEF Asked, Pending, Working
<1>2. CASE run[x].stage = "copy"
  BY <1>2 DEF Asked, Pending, Working, Allowed, Statements
<1> QED
  BY <1>1, <1>2 DEF Pending

LEMMA AskedMoves ==
  ASSUME Shaped, NEW x \in Runs, Asked(x), RunStep(x)
  PROVE  Asked(x)'
<1>1. CASE StartRun(x)
  <2>1. run'[x].req \in Requests /\ run[x].stage = "idle"
    BY SMTT(60), <1>1, RunFields DEF StartRun, Shaped
  <2> QED
    BY <1>1, <2>1, PrefaceMoves, RunFields DEF Keeps, Asked, Working
<1>2. CASE GoWithoutPlan(x)
  BY <1>2, PrefaceMoves, RunFields DEF Keeps, Asked, Working, GoWithoutPlan
<1>3. CASE RunLists(x)
  BY <1>3, PrefaceMoves, RunFields DEF Keeps, Asked, Working, RunLists
<1>4. CASE Connect(x)
  BY <1>4, PrefaceMoves, RunFields DEF Keeps, Asked, Working, Connect
<1>5. CASE RunReads(x)
  BY <1>5, ReadMoves, RunFields DEF Keeps, Asked
<1>6. CASE UsePlan(x)
  <2>1. CASE End(x, Nothing)
    BY <2>1, EndMoves DEF Asked, Working
  <2>2. ASSUME NEW p, Accept(x, p) PROVE Asked(x)'
    BY <1>6, <2>2, AcceptMoves DEF Asked, Working, UsePlan
  <2> QED
    BY <1>6, <2>1, <2>2 DEF UsePlan
<1>7. CASE TakeTable(x)
  <2>1. PICK t \in run[x].todo : Taken(x, t, StepFor(run[x].req, t, t \in run[x].exists))
    BY <1>7, TakeMoves
  <2> DEFINE step == StepFor(run[x].req, t, t \in run[x].exists)
  <2>2. run[x].stage = "tables" /\ run[x].req \in Requests /\ t \in run[x].req.tables
    BY <1>7, TakeMoves DEF Asked, Working
  <2>3. step.setup \in Setups(run[x].req)
    <3>1. (t \in run[x].exists) \in BOOLEAN
      OBVIOUS
    <3> QED
      BY <2>2, <3>1, SetupAllowed
  <2> HIDE DEF step
  <2>4. Taken(x, t, step)
    BY <2>1 DEF step
  <2> QED
    BY <2>2, <2>3, <2>4, RunFields DEF Asked, Working, Taken
<1>8. CASE Setup(x)
  <2>1. run[x].stage = "setup" /\ run[x].setup # <<>>
    BY <1>8 DEF Setup
  <2>2. Tail(run[x].setup) \in Setups(run[x].req)
    BY <2>1, SetupsShrink DEF Asked
  <2>3. run'[x].setup = Tail(run[x].setup)
    BY <1>8, TableMoves
  <2>4. /\ run'[x].stage = run[x].stage /\ run'[x].req = run[x].req
        /\ run'[x].todo = run[x].todo /\ run'[x].table = run[x].table
        /\ run'[x].late = run[x].late
    BY <1>8, TableMoves, RunFields DEF Keeps
  <2> QED
    BY <2>1, <2>2, <2>3, <2>4 DEF Asked
<1>9. CASE StartCopy(x)
  <2>1. run[x].stage = "setup" /\ run'[x].stage = "copy"
    BY <1>9, TableMoves DEF StartCopy
  <2>2. /\ run'[x].req = run[x].req /\ run'[x].todo = run[x].todo
        /\ run'[x].table = run[x].table /\ run'[x].setup = run[x].setup
        /\ run'[x].late = run[x].late
    BY <1>9, TableMoves, RunFields DEF Keeps
  <2> QED
    BY <2>1, <2>2 DEF Asked, Working
<1>10. CASE CopyBatch(x)
  BY <1>10, TableMoves, RunFields DEF Keeps, Asked
<1>11. CASE TableDone(x) \/ TableFails(x)
  <2>1. PICK d : Leave(x, d)
    BY <1>11 DEF TableDone, TableFails
  <2>2. run[x].stage \in {"setup", "copy"}
    BY <1>11 DEF TableDone, TableFails
  <2> QED
    BY <2>1, <2>2, LeaveMoves, RunFields DEF Asked, Working
<1>12. CASE Restore(x)
  BY ZenonT(60), <1>12, TableMoves, RunFields DEF Keeps, Asked, Working, Restore
<1>13. CASE RunFailsPreflight(x) \/ Complete(x) \/ Abort(x)
  <2>1. End(x, Nothing)
    BY <1>13 DEF RunFailsPreflight, Complete, Abort
  <2> QED
    BY <2>1, EndMoves DEF Asked, Working
<1>14. CASE Cancel(x)
  <2>1. PICK s \in {Nothing, Pending(x)} : End(x, s)
    BY SMTT(60), <1>14 DEF Cancel
  <2> QED
    BY <2>1, EndMoves, PendingAllowed DEF Asked, Working
<1>15. CASE LateStatement(x)
  BY <1>15, TableMoves, RunFields DEF Keeps, Asked, LateStatement, Working
<1> QED
  BY <1>1, <1>2, <1>3, <1>4, <1>5, <1>6, <1>7, <1>8, <1>9, <1>10, <1>11, <1>12, <1>13, <1>14,
     <1>15 DEF RunStep, Proceed

AllAsked == \A x \in Runs : Asked(x)

LEMMA AskedStep ==
  ASSUME Shaped, AllAsked, [Next]_vars
  PROVE  AllAsked'
<1>1. CASE UNCHANGED run
  BY <1>1 DEF AllAsked, Asked
<1>2. ASSUME NEW x \in Runs, RunStep(x) PROVE AllAsked'
  BY <1>2, AskedMoves, RunStepMoves DEF RunMoves, AllAsked, Asked
<1> QED
  BY <1>1, <1>2, OthersKeepRuns DEF Next, RunStep, vars

-----------------------------------------------------------------------------
(* The target                                                              *)

TargetShaped ==
  /\ target = [t \in Tables |-> target[t]]
  /\ \A t \in Tables : /\ DOMAIN target[t] = {"def", "old", "rows"}
                       /\ target[t].rows \in [Runs -> Nat]
                       /\ target[t].old \in BOOLEAN
                       /\ target[t].def = Absent => ~target[t].old

LEMMA Applied ==
  ASSUME TargetShaped, NEW x \in Runs, NEW t \in Tables, NEW s \in Statements, Apply(x, t, s)
  PROVE  /\ TargetShaped'
         /\ \A u \in Tables \ {t} : target'[u] = target[u]
         /\ s = "insert" =>
              /\ target'[t].def = target[t].def /\ target'[t].old = target[t].old
              /\ target'[t].rows = [target[t].rows EXCEPT ![x] = target[t].rows[x] + 1]
              /\ UNCHANGED <<build, disturbed>>
         /\ s # "insert" =>
              /\ ~target'[t].old /\ target'[t].rows = NoRows /\ Disturb({x})
         /\ s \in {"drop", "truncate"} \/ target[t].old = target'[t].old
<1>1. target' = [target EXCEPT ![t] = After(x, t, s)] /\ Possible(x, t, s)
  BY DEF Apply
<1>2. NoRows \in [Runs -> Nat]
  BY DEF NoRows
<1> HIDE DEF NoRows
<1> DEFINE a == After(x, t, s)
<1>3. /\ DOMAIN a = {"def", "old", "rows"} /\ a.rows \in [Runs -> Nat] /\ a.old \in BOOLEAN
      /\ a.def = Absent => ~a.old
      /\ s = "insert" => /\ a.def = target[t].def /\ a.old = target[t].old
                         /\ a.rows = [target[t].rows EXCEPT ![x] = target[t].rows[x] + 1]
      /\ s # "insert" => ~a.old /\ a.rows = NoRows
      /\ s \in {"drop", "truncate"} \/ a.old = target[t].old
  <2>1. CASE s = "drop"
    BY <1>2, <2>1 DEF After, TargetShaped
  <2>2. CASE s = "create"
    BY <1>1, <1>2, <2>2 DEF After, TargetShaped, Possible
  <2>3. CASE s = "truncate"
    BY <1>2, <2>3 DEF After, TargetShaped
  <2>4. CASE s = "insert"
    BY <2>4, <1>1 DEF After, TargetShaped, Possible
  <2> QED
    BY <2>1, <2>2, <2>3, <2>4 DEF Statements
<1> HIDE DEF a
<1>4. target' = [target EXCEPT ![t] = a]
  BY <1>1 DEF a
<1>5. target'[t] = a /\ \A u \in Tables \ {t} : target'[u] = target[u]
  BY <1>4 DEF TargetShaped
<1>6. TargetShaped'
  BY <1>3, <1>4, <1>5 DEF TargetShaped
<1>7. IF s = "insert" THEN UNCHANGED <<build, disturbed>> ELSE Disturb({x})
  BY DEF Apply
<1> QED
  BY <1>3, <1>5, <1>6, <1>7

\* The table and statement a run sends to the target, if the target changes.
Sends(x) ==
  \/ UNCHANGED <<target, build>>
  \/ \E s \in Statements :
       /\ Apply(x, run[x].table, s)
       /\ run[x].req \in Requests /\ run[x].table \in run[x].req.tables
       /\ Allowed(run[x].req, s)

LEMMA RunSends ==
  ASSUME Shaped, NEW x \in Runs, Asked(x), RunStep(x)
  PROVE  Sends(x)
<1>1. CASE Setup(x)
  BY <1>1, SetupsShrink DEF Setup, Sends, Asked, Working, Allowed
<1>2. CASE CopyBatch(x)
  BY <1>2 DEF CopyBatch, Sends, Asked, Working, Allowed, Statements
<1>3. CASE TableFails(x)
  BY <1>3, PendingAllowed DEF TableFails, Sends, Allowed
<1>4. CASE LateStatement(x)
  BY <1>4 DEF LateStatement, Sends, Asked, Allowed
<1>5. CASE ~(Setup(x) \/ CopyBatch(x) \/ TableFails(x) \/ LateStatement(x))
  BY <1>5 DEF RunStep, Proceed, StartRun, RunReads, RunFailsPreflight, UsePlan, GoWithoutPlan,
     RunLists, Connect, TakeTable, StartCopy, TableDone, Restore, Complete, Abort, Cancel, Sends
<1> QED
  BY <1>1, <1>2, <1>3, <1>4, <1>5

LEMMA RequestTables == \A r \in Requests : r.tables \subseteq Tables
BY RequestsAssumption DEF Request

LEMMA TargetShapedStep ==
  ASSUME Shaped, TargetShaped, AllAsked, [Next]_vars
  PROVE  TargetShaped'
<1>1. CASE UNCHANGED target
  BY <1>1 DEF TargetShaped
<1>2. ASSUME NEW x \in Runs, RunStep(x) PROVE TargetShaped'
  <2>1. Sends(x)
    BY <1>2, RunSends DEF AllAsked
  <2> QED
    BY <1>1, <2>1, Applied, RequestTables DEF Sends
<1>3. CASE EditTarget
  <2>1. PICK t \in Tables, d \in Defs \cup {Absent} :
          target' = [target EXCEPT ![t] =
            IF d = Absent THEN [def |-> Absent, old |-> FALSE, rows |-> NoRows]
            ELSE IF target[t].def = Absent THEN [def |-> d, old |-> TRUE, rows |-> NoRows]
            ELSE [target[t] EXCEPT !.def = d]]
    BY <1>3 DEF EditTarget
  <2>2. NoRows \in [Runs -> Nat]
    BY DEF NoRows
  <2> QED
    BY <2>1, <2>2 DEF TargetShaped
<1> QED
  BY <1>1, <1>2, <1>3 DEF Next, RunStep, BuildPlan, StartBuild, BuildReads, BuildLists,
     BuildPlansTable, BuildEnds, BuildFails, PlanExpires, EditSource, vars

LEMMA TargetInit == Init => TargetShaped /\ AllAsked
<1>1. ASSUME Init PROVE TargetShaped
  <2>1. [x \in Runs |-> 0] \in [Runs -> Nat]
    OBVIOUS
  <2>2. target \in [Tables -> [def : Defs, old : {TRUE}, rows : {[x \in Runs |-> 0]}]
                       \cup [def : {Absent}, old : {FALSE}, rows : {[x \in Runs |-> 0]}]]
    BY <1>1 DEF Init
  <2> HIDE <1>1
  <2> DEFINE zero == [x \in Runs |-> 0]
  <2> HIDE DEF zero
  <2>3. target \in [Tables -> [def : Defs, old : {TRUE}, rows : {zero}]
                       \cup [def : {Absent}, old : {FALSE}, rows : {zero}]]
    BY <2>2 DEF zero
  <2>4. zero \in [Runs -> Nat]
    BY <2>1 DEF zero
  <2> QED
    BY <2>3, <2>4, NamesAssumption DEF TargetShaped
<1>2. ASSUME Init PROVE AllAsked
  BY <1>2, ShapedInit DEF AllAsked, Asked, Working
<1> QED
  BY <1>1, <1>2

\* Rows that were in a target table are lost only to another client or to a run whose
\* request says so: no other step of an execution, failed, cancelled or late, takes them.
THEOREM OldRowsKept ==
  ASSUME Nothing \notin Requests
  PROVE  Spec => OldRowsAreKept
<1>1. Init => Shaped /\ TargetShaped /\ AllAsked
  BY ShapedInit, TargetInit
<1>2. Shaped /\ TargetShaped /\ AllAsked /\ [Next]_vars
      => (Shaped /\ TargetShaped /\ AllAsked)'
  BY ShapedStep, TargetShapedStep, AskedStep
<1> DEFINE Kept == \A t \in Tables : target[t].old /\ ~target'[t].old =>
       \/ edits' # edits
       \/ \E x \in Runs : run[x].req # Nothing /\ t \in run[x].req.tables
                          /\ Overwrites(run[x].req)
<1>3. ASSUME Shaped, TargetShaped, AllAsked, Next PROVE Kept
  <2>1. CASE UNCHANGED target
    BY <2>1
  <2>2. ASSUME NEW x \in Runs, RunStep(x) PROVE Kept
    <3>1. Sends(x)
      BY <1>3, <2>2, RunSends DEF AllAsked
    <3>2. ASSUME NEW s \in Statements, Apply(x, run[x].table, s), run[x].req \in Requests,
                 run[x].table \in run[x].req.tables, Allowed(run[x].req, s)
          PROVE  Kept
      <4>1. run[x].table \in Tables
        BY <3>2, RequestTables
      <4>2. /\ \A u \in Tables \ {run[x].table} : target'[u] = target[u]
            /\ s \in {"drop", "truncate"}
               \/ target[run[x].table].old = target'[run[x].table].old
        BY <1>3, <3>2, <4>1, Applied
      <4> QED
        BY <3>2, <4>1, <4>2 DEF Allowed
    <3> QED
      BY <2>1, <3>1, <3>2 DEF Sends
  <2>3. CASE EditTarget \/ EditSource
    <3>1. edits < MaxEdits /\ edits' = edits + 1
      BY <2>3 DEF EditTarget, EditSource
    <3> QED
      BY <3>1
  <2> QED
    BY <1>3, <2>1, <2>2, <2>3 DEF Next, RunStep, BuildPlan, StartBuild, BuildReads, BuildLists,
       BuildPlansTable, BuildEnds, BuildFails, PlanExpires
<1>4. Shaped /\ TargetShaped /\ AllAsked /\ [Next]_vars => [Kept]_vars
  BY <1>3
<1> HIDE DEF Kept
<1>5. Spec => [][Kept]_vars
  BY <1>1, <1>2, <1>4, PTL DEF Spec
<1> QED
  BY <1>5 DEF Kept, OldRowsAreKept

-----------------------------------------------------------------------------
(* What a table has got                                                    *)

\* Where a run is with its tables, and what no client changes.
Counted(x) ==
  /\ run[x].stage \in Working \cup {"idle"} => DOMAIN run[x].did = Tables
  /\ run[x].stage \in {"idle", "preflight", "checked", "listed"} =>
       run[x].done = {} /\ \A t \in Tables : target[t].rows[x] = 0
  /\ run[x].stage \in {"tables", "setup", "copy"} =>
       /\ run[x].done \subseteq Tables \ run[x].todo
       /\ \A t \in run[x].todo : target[t].rows[x] = 0
  /\ run[x].stage \in {"setup", "copy"} => run[x].table \notin run[x].todo \cup run[x].done
  /\ run[x].stage = "setup" => target[run[x].table].rows[x] = 0
  /\ run[x].stage = "copy" => run[x].copied \in Nat

\* What holds besides while nobody else changes a schema.
Exact(x) ==
  run[x].stage \in {"tables", "setup", "copy"} /\ x \notin disturbed =>
    /\ run[x].stage = "setup" /\ run[x].setup # run[x].did[run[x].table].setup =>
         ~target[run[x].table].old
    /\ run[x].stage = "copy" =>
         /\ target[run[x].table].rows[x] = run[x].copied
         /\ run[x].did[run[x].table].setup # <<>> => ~target[run[x].table].old
    /\ \A t \in run[x].done : run[x].did[t].insert =>
         /\ target[t].rows[x] = Batches
         /\ run[x].did[t].setup # <<>> => ~target[t].old

\* What the steps of others may do to the tables a run works on.
Bystander(x) ==
  /\ run'[x] = run[x]
  /\ \A t \in Tables : target'[t].rows[x] \in {target[t].rows[x], 0}
  /\ run[x].stage \in Working /\ x \notin disturbed' =>
       /\ x \notin disturbed
       /\ \A t \in Tables : target'[t].rows[x] = target[t].rows[x] /\ target'[t].old = target[t].old

LEMMA BystanderKeeps ==
  ASSUME NEW x \in Runs, Asked(x), Counted(x), Exact(x), Bystander(x)
  PROVE  Counted(x)' /\ Exact(x)'
<1>1. run[x].stage \in {"tables", "setup", "copy"} => run[x].todo \subseteq Tables
  BY RequestTables DEF Asked, Working
<1>2. run[x].stage \in {"setup", "copy"} => run[x].table \in Tables
  BY RequestTables DEF Asked, Working
<1>3. Counted(x)'
  BY <1>1, <1>2 DEF Counted, Bystander
<1>4. Exact(x)'
  BY <1>2 DEF Counted, Exact, Bystander, Working
<1> QED
  BY <1>3, <1>4

LEMMA OthersBystand ==
  ASSUME Shaped, TargetShaped, AllAsked, NEW x \in Runs, NEW y \in Runs \ {x}, RunStep(y)
  PROVE  Bystander(x)
<1>1. run'[x] = run[x]
  BY RunStepMoves DEF RunMoves
<1>2. CASE UNCHANGED <<target, disturbed>>
  BY <1>1, <1>2 DEF Bystander
<1>3. CASE UNCHANGED target /\ disturbed' = disturbed \ {y}
  BY <1>1, <1>3 DEF Bystander
<1>4. ASSUME NEW t \in Tables, NEW s \in Statements, Apply(y, t, s) PROVE Bystander(x)
  <2>1. \A u \in Tables \ {t} : target'[u] = target[u]
    BY <1>4, Applied
  <2>2. CASE s = "insert"
    <3>1. /\ target'[t].old = target[t].old /\ disturbed' = disturbed
          /\ target'[t].rows = [target[t].rows EXCEPT ![y] = target[t].rows[y] + 1]
      BY <1>4, <2>2, Applied
    <3>2. target'[t].rows[x] = target[t].rows[x]
      BY <3>1 DEF TargetShaped
    <3> QED
      BY <1>1, <2>1, <3>1, <3>2 DEF Bystander
  <2>3. CASE s # "insert"
    <3>1. target'[t].rows = NoRows /\ disturbed' = disturbed \cup ActiveBut({y})
      BY <1>4, <2>3, Applied DEF Disturb
    <3>2. target'[t].rows[x] = 0
      BY <3>1 DEF NoRows
    <3>3. run[x].stage \in Working => x \in disturbed'
      BY <3>1 DEF ActiveBut
    <3> QED
      BY <1>1, <2>1, <3>2, <3>3 DEF Bystander
  <2> QED
    BY <2>2, <2>3
<1>5. \/ UNCHANGED <<target, disturbed>>
      \/ UNCHANGED target /\ disturbed' = disturbed \ {y}
      \/ \E t \in Tables, s \in Statements : Apply(y, t, s)
  <2>1. CASE Ends(y)
    BY <2>1 DEF Ends, RunFailsPreflight, Complete, Abort, Cancel, End
  <2>2. CASE UsePlan(y)
    BY <2>2 DEF UsePlan, End
  <2>3. CASE Setup(y)
    BY <2>3, SetupsShrink, RequestTables DEF Setup, AllAsked, Asked, Working, Allowed
  <2>4. CASE CopyBatch(y)
    BY <2>4, RequestTables DEF CopyBatch, AllAsked, Asked, Working, Statements
  <2>5. CASE TableFails(y)
    BY <2>5, PendingAllowed, RequestTables DEF TableFails, AllAsked, Allowed
  <2>6. CASE LateStatement(y)
    BY SMTT(60), <2>6, RequestTables DEF LateStatement, AllAsked, Asked, Allowed
  <2>7. CASE \/ StartRun(y) \/ RunReads(y) \/ GoWithoutPlan(y) \/ RunLists(y) \/ Connect(y)
             \/ TakeTable(y) \/ StartCopy(y) \/ TableDone(y) \/ Restore(y)
    BY <2>7 DEF StartRun, RunReads, GoWithoutPlan, RunLists, Connect, TakeTable, StartCopy,
       TableDone, Restore
  <2> QED
    BY <2>1, <2>2, <2>3, <2>4, <2>5, <2>6, <2>7 DEF RunStep, Proceed, Ends
<1> QED
  BY <1>2, <1>3, <1>4, <1>5

LEMMA ClientsBystand ==
  ASSUME TargetShaped, NEW x \in Runs, BuildPlan \/ PlanExpires \/ EditSource \/ EditTarget
  PROVE  Bystander(x)
<1>1. run' = run
  BY SMTT(60), OthersKeepRuns
<1>2. CASE BuildPlan \/ PlanExpires
  BY <1>1, <1>2 DEF BuildPlan, StartBuild, BuildReads, BuildLists, BuildPlansTable, BuildEnds,
     BuildFails, PlanExpires, Bystander
<1>3. CASE EditSource \/ EditTarget
  <2>1. run[x].stage \in Working => x \in disturbed'
    BY <1>3 DEF EditSource, EditTarget, Disturb, ActiveBut
  <2>2. \A t \in Tables : target'[t].rows[x] \in {target[t].rows[x], 0}
    <3>1. CASE EditSource
      BY <3>1 DEF EditSource
    <3>2. CASE EditTarget
      <4>1. PICK t \in Tables, d \in Defs \cup {Absent} :
          target' = [target EXCEPT ![t] =
            IF d = Absent THEN [def |-> Absent, old |-> FALSE, rows |-> NoRows]
            ELSE IF target[t].def = Absent THEN [def |-> d, old |-> TRUE, rows |-> NoRows]
            ELSE [target[t] EXCEPT !.def = d]]
        BY <3>2 DEF EditTarget
      <4>2. NoRows[x] = 0
        BY DEF NoRows
      <4>3. target'[t].rows \in {NoRows, target[t].rows}
        BY <4>1 DEF TargetShaped
      <4>4. \A u \in Tables \ {t} : target'[u] = target[u]
        BY <4>1 DEF TargetShaped
      <4> QED
        BY <4>2, <4>3, <4>4
    <3> QED
      BY <1>3, <3>1, <3>2
  <2> QED
    BY <1>1, <2>1, <2>2 DEF Bystander
<1> QED
  BY <1>2, <1>3
LEMMA PrefaceCounts ==
  ASSUME Shaped, NEW x \in Runs, Asked(x), Counted(x), Exact(x),
         StartRun(x) \/ GoWithoutPlan(x) \/ RunLists(x) \/ Connect(x) \/ RunReads(x)
  PROVE  Counted(x)' /\ Exact(x)'
<1>1. target' = target /\ disturbed' = disturbed
  BY DEF StartRun, GoWithoutPlan, RunLists, Connect, RunReads
<1>2. CASE StartRun(x) \/ GoWithoutPlan(x) \/ RunLists(x)
  <2>1. /\ run[x].stage \in {"idle", "preflight", "checked"}
        /\ run'[x].stage \in {"preflight", "checked", "listed"}
    BY <1>2, PrefaceMoves DEF StartRun, GoWithoutPlan, RunLists
  <2>2. run'[x].did = run[x].did /\ run'[x].done = run[x].done
    BY <1>2, PrefaceMoves, RunFields DEF Keeps
  <2> QED
    BY SMTT(60), <1>1, <2>1, <2>2 DEF Counted, Exact, Working
<1>3. CASE Connect(x)
  <2>1. run[x].stage = "listed" /\ run'[x].stage = "tables" /\ run'[x].todo \subseteq Tables
    BY <1>3, PrefaceMoves, RequestTables DEF Connect, Asked, Working
  <2>2. run'[x].did = run[x].did /\ run'[x].done = run[x].done
    BY <1>3, PrefaceMoves, RunFields DEF Keeps
  <2> QED
    BY <1>1, <2>1, <2>2 DEF Counted, Exact, Working
<1>4. CASE RunReads(x)
  <2>1. run[x].stage = "preflight" /\ run'[x].stage = "preflight"
    BY <1>4, ReadMoves, RunFields DEF RunReads, Keeps
  <2>2. run'[x].did = run[x].did /\ run'[x].done = run[x].done
    BY <1>4, ReadMoves, RunFields DEF Keeps
  <2> QED
    BY <1>1, <2>1, <2>2 DEF Counted, Exact, Working
<1> QED
  BY <1>2, <1>3, <1>4

LEMMA TakeCounts ==
  ASSUME Shaped, NEW x \in Runs, Asked(x), Counted(x), Exact(x), TakeTable(x)
  PROVE  Counted(x)' /\ Exact(x)'
<1>1. PICK t \in run[x].todo : Taken(x, t, StepFor(run[x].req, t, t \in run[x].exists))
  BY TakeMoves
<1> DEFINE step == StepFor(run[x].req, t, t \in run[x].exists)
<1>2. run[x].stage = "tables" /\ run[x].todo \subseteq Tables
  BY TakeMoves, RequestTables DEF Asked, Working
<1>3. target' = target /\ disturbed' = disturbed
  BY DEF TakeTable
<1> HIDE DEF step
<1>4. Taken(x, t, step)
  BY <1>1 DEF step
<1>5. DOMAIN run[x].did = Tables /\ t \in Tables
  BY <1>2 DEF Counted, Working
<1>6. /\ DOMAIN run'[x].did = Tables /\ run'[x].did[t] = step
      /\ \A u \in Tables \ {t} : run'[x].did[u] = run[x].did[u]
  BY <1>4, <1>5 DEF Taken
<1>7. CASE step = SkipStep
  <2>1. /\ run'[x].stage = "tables" /\ run'[x].todo = run[x].todo \ {t}
        /\ run'[x].done = run[x].done \cup {t}
    BY <1>4, <1>7 DEF Taken
  <2>2. ~run'[x].did[t].insert
    BY <1>6, <1>7 DEF SkipStep
  <2>3. Counted(x)'
    BY <1>2, <1>3, <1>5, <1>6, <2>1 DEF Counted
  <2>4. Exact(x)'
    BY <1>2, <1>3, <1>6, <2>1, <2>2 DEF Counted, Exact
  <2> QED
    BY <2>3, <2>4
<1>8. CASE step # SkipStep
  <2>1. /\ run'[x].stage = "setup" /\ run'[x].todo = run[x].todo \ {t}
        /\ run'[x].done = run[x].done /\ run'[x].table = t /\ run'[x].setup = step.setup
    BY <1>4, <1>8 DEF Taken
  <2>2. Counted(x)'
    BY <1>2, <1>3, <1>5, <1>6, <2>1 DEF Counted
  <2>3. Exact(x)'
    BY <1>2, <1>3, <1>6, <2>1 DEF Counted, Exact
  <2> QED
    BY <2>2, <2>3
<1> QED
  BY <1>7, <1>8

LEMMA SetupCounts ==
  ASSUME Shaped, TargetShaped, NEW x \in Runs, Asked(x), Counted(x), Exact(x), Setup(x)
  PROVE  Counted(x)' /\ Exact(x)'
<1> DEFINE t == run[x].table
<1>1. run[x].stage = "setup" /\ run[x].setup # <<>> /\ t \in Tables /\ run[x].todo \subseteq Tables
  BY RequestTables DEF Setup, Asked, Working
<1>2. Head(run[x].setup) \in {"drop", "create", "truncate"}
  BY <1>1 DEF Asked, Setups
<1>3. /\ run'[x].stage = "setup" /\ run'[x].table = t /\ run'[x].todo = run[x].todo
      /\ run'[x].done = run[x].done /\ run'[x].did = run[x].did
  BY <1>1, TableMoves, RunFields DEF Keeps
<1>4. /\ \A u \in Tables \ {t} : target'[u] = target[u]
      /\ ~target'[t].old /\ target'[t].rows = NoRows /\ Disturb({x})
  <2>1. Apply(x, t, Head(run[x].setup))
    BY DEF Setup
  <2> QED
    BY <1>1, <1>2, <2>1, Applied DEF Statements
<1>5. target'[t].rows[x] = 0
  BY <1>4 DEF NoRows
<1>6. x \notin disturbed' => x \notin disturbed
  BY <1>4 DEF Disturb
<1> HIDE DEF t
<1>7. t \notin run[x].todo \cup run[x].done /\ run[x].done \subseteq Tables
  BY <1>1 DEF Counted, t
<1>8. Counted(x)'
  BY <1>1, <1>3, <1>4, <1>5, <1>7 DEF Counted, Working
<1>9. Exact(x)'
  BY <1>1, <1>3, <1>4, <1>6, <1>7 DEF Exact
<1> QED
  BY <1>8, <1>9

LEMMA CopyCounts ==
  ASSUME Shaped, TargetShaped, NEW x \in Runs, Asked(x), Counted(x), Exact(x),
         StartCopy(x) \/ CopyBatch(x)
  PROVE  Counted(x)' /\ Exact(x)'
<1> DEFINE t == run[x].table
<1>1. t \in Tables /\ run[x].todo \subseteq Tables
  BY RequestTables DEF StartCopy, CopyBatch, Asked, Working
<1>2. t \notin run[x].todo \cup run[x].done /\ run[x].done \subseteq Tables
  BY DEF StartCopy, CopyBatch, Counted
<1>3. /\ run'[x].stage = "copy" /\ run'[x].table = t /\ run'[x].todo = run[x].todo
      /\ run'[x].done = run[x].done /\ run'[x].did = run[x].did
  BY TableMoves, RunFields DEF Keeps, CopyBatch
<1> HIDE DEF t
<1>4. CASE StartCopy(x)
  <2>1. /\ run[x].stage = "setup" /\ run[x].setup = <<>> /\ run'[x].copied = 0
        /\ target' = target /\ disturbed' = disturbed
    BY <1>4, TableMoves DEF StartCopy
  <2>2. target[t].rows[x] = 0
    BY <2>1 DEF Counted, t
  <2>3. x \notin disturbed /\ run[x].did[t].setup # <<>> => ~target[t].old
    BY <2>1 DEF Exact, t
  <2>4. Counted(x)'
    BY <1>1, <1>2, <1>3, <2>1 DEF Counted, Working
  <2>5. Exact(x)'
    BY <1>2, <1>3, <2>1, <2>2, <2>3 DEF Exact
  <2> QED
    BY <2>4, <2>5
<1>5. CASE CopyBatch(x)
  <2>1. run[x].stage = "copy" /\ run'[x].copied = run[x].copied + 1
    BY <1>5, TableMoves DEF CopyBatch
  <2>2. /\ \A u \in Tables \ {t} : target'[u] = target[u]
        /\ target'[t].old = target[t].old /\ disturbed' = disturbed
        /\ target'[t].rows = [target[t].rows EXCEPT ![x] = target[t].rows[x] + 1]
    <3>1. Apply(x, t, "insert")
      BY <1>5 DEF CopyBatch, t
    <3> QED
      BY <1>1, <3>1, Applied DEF Statements
  <2>3. target'[t].rows[x] = target[t].rows[x] + 1
    BY <1>1, <2>2 DEF TargetShaped
  <2>4. x \notin disturbed => /\ target[t].rows[x] = run[x].copied
                              /\ run[x].did[t].setup # <<>> => ~target[t].old
    BY <2>1 DEF Exact, t
  <2>5. Counted(x)'
    BY <1>1, <1>2, <1>3, <2>1, <2>2 DEF Counted, Working
  <2>6. Exact(x)'
    BY <1>2, <1>3, <2>1, <2>2, <2>3, <2>4 DEF Exact
  <2> QED
    BY <2>5, <2>6
<1> QED
  BY <1>4, <1>5

LEMMA LeaveCounts ==
  ASSUME Shaped, TargetShaped, NEW x \in Runs, Asked(x), Counted(x), Exact(x),
         TableDone(x) \/ TableFails(x)
  PROVE  Counted(x)' /\ Exact(x)'
<1> DEFINE t == run[x].table
<1>1. /\ run[x].stage \in {"setup", "copy"} /\ t \in Tables /\ run[x].todo \subseteq Tables
      /\ t \notin run[x].todo \cup run[x].done /\ run[x].done \subseteq Tables
      /\ DOMAIN run[x].did = Tables
  BY RequestTables DEF TableDone, TableFails, Asked, Counted, Working
<1> HIDE DEF t
<1>2. ASSUME NEW d, Leave(x, d)
      PROVE  /\ run'[x].stage = "tables" /\ run'[x].done = d
             /\ run'[x].todo = run[x].todo /\ run'[x].did = run[x].did
  BY <1>2, LeaveMoves, RunFields
<1>3. CASE TableDone(x)
  <2>1. /\ run'[x].stage = "tables" /\ run'[x].done = run[x].done \cup {t}
        /\ run'[x].todo = run[x].todo /\ run'[x].did = run[x].did
        /\ target' = target /\ disturbed' = disturbed
    BY <1>2, <1>3 DEF TableDone, t
  <2>2. x \notin disturbed /\ run[x].did[t].insert =>
          /\ target[t].rows[x] = Batches
          /\ run[x].did[t].setup # <<>> => ~target[t].old
    BY <1>3 DEF TableDone, Exact, t
  <2>3. Counted(x)'
    BY <1>1, <2>1 DEF Counted
  <2>4. Exact(x)'
    BY <1>1, <2>1, <2>2 DEF Exact
  <2> QED
    BY <2>3, <2>4
<1>4. CASE TableFails(x)
  <2>1. /\ run'[x].stage = "tables" /\ run'[x].done = run[x].done
        /\ run'[x].todo = run[x].todo /\ run'[x].did = run[x].did
    BY <1>2, <1>4 DEF TableFails
  <2>2. /\ \A u \in Tables \ {t} : target'[u] = target[u]
        /\ x \notin disturbed' => x \notin disturbed
    <3>1. CASE UNCHANGED <<target, build, disturbed>>
      BY <3>1
    <3>2. CASE Pending(x) # Nothing /\ Apply(x, t, Pending(x))
      <4>1. Pending(x) \in Statements
        BY <3>2, PendingAllowed DEF Allowed
      <4> QED
        BY <1>1, <3>2, <4>1, Applied DEF Disturb
    <3> QED
      BY <1>4, <3>1, <3>2 DEF TableFails, t
  <2>3. Counted(x)'
    BY <1>1, <2>1, <2>2 DEF Counted
  <2>4. Exact(x)'
    BY <1>1, <2>1, <2>2 DEF Exact
  <2> QED
    BY <2>3, <2>4
<1> QED
  BY <1>3, <1>4

LEMMA CountedMoves ==
  ASSUME Shaped, TargetShaped, NEW x \in Runs, Asked(x), Counted(x), Exact(x), RunStep(x)
  PROVE  Counted(x)' /\ Exact(x)'
<1>1. CASE UsePlan(x)
  <2>1. CASE End(x, Nothing)
    BY <2>1, EndMoves DEF Counted, Exact, Working
  <2>2. ASSUME NEW p, Accept(x, p), UNCHANGED disturbed PROVE Counted(x)' /\ Exact(x)'
    <3>1. /\ run[x].stage = "preflight" /\ run'[x].stage = "checked" /\ target' = target
          /\ run'[x].done = run[x].done /\ run'[x].did = run[x].did
      BY <1>1, <2>2, AcceptMoves DEF UsePlan
    <3> QED
      BY <3>1 DEF Counted, Exact, Working
  <2> QED
    BY <1>1, <2>1, <2>2 DEF UsePlan
<1>2. CASE Restore(x)
  <2>1. run[x].stage = "tables" /\ run'[x].stage = "restored" /\ run'[x].done = run[x].done
    BY ZenonT(60), <1>2, TableMoves, RunFields DEF Keeps, Restore
  <2> QED
    BY <2>1 DEF Counted, Exact, Working
<1>3. CASE Ends(x)
  BY <1>3, EndsByEnd, EndMoves DEF Counted, Exact, Working
<1>4. CASE LateStatement(x)
  <2>1. run'[x].stage = "ended"
    BY <1>4, TableMoves, RunFields DEF Keeps, LateStatement, Asked
  <2> QED
    BY SMTT(60), <2>1 DEF Counted, Exact, Working
<1> QED
  BY <1>1, <1>2, <1>3, <1>4, PrefaceCounts, TakeCounts, SetupCounts, CopyCounts, LeaveCounts
  DEF RunStep, Proceed, Ends

AllCounted == \A x \in Runs : Counted(x) /\ Exact(x)

LEMMA CountedStep ==
  ASSUME Shaped, TargetShaped, AllAsked, AllCounted, [Next]_vars
  PROVE  AllCounted'
<1>1. CASE UNCHANGED vars
  BY <1>1 DEF vars, AllCounted, Counted, Exact
<1>2. ASSUME NEW y \in Runs, RunStep(y) PROVE AllCounted'
  <2>1. ASSUME NEW x \in Runs PROVE Counted(x)' /\ Exact(x)'
    <3>1. CASE x = y
      BY <1>2, <3>1, CountedMoves DEF AllAsked, AllCounted
    <3>2. CASE x # y
      <4>1. Bystander(x)
        BY <1>2, <3>2, OthersBystand
      <4> QED
        BY <4>1, BystanderKeeps DEF AllAsked, AllCounted
    <3> QED
      BY <3>1, <3>2
  <2> QED
    BY <2>1 DEF AllCounted
<1>3. CASE BuildPlan \/ PlanExpires \/ EditSource \/ EditTarget
  BY <1>3, ClientsBystand, BystanderKeeps DEF AllAsked, AllCounted
<1> QED
  BY <1>1, <1>2, <1>3 DEF Next, RunStep

\* While nobody else changes schemas, a table that an execution reports as done holds
\* every batch of the source exactly once, and no old rows after it was emptied: neither
\* a failed statement nor the steps of other executions can make the report untrue.
THEOREM DoneCopied == Spec => []DoneMeansCopied
<1>1. Init => Shaped /\ TargetShaped /\ AllAsked /\ AllCounted
  <2>1. ASSUME Init, NEW x \in Runs PROVE Counted(x) /\ Exact(x)
    <3>1. run[x] = NotStarted
      BY <2>1 DEF Init
    <3>2. DOMAIN run[x].did = Tables /\ run[x].done = {} /\ run[x].stage = "idle"
      BY <3>1 DEF NotStarted, Blank
    <3>3. \A t \in Tables : target[t].rows = [y \in Runs |-> 0]
      BY <2>1 DEF Init
    <3> QED
      BY <3>2, <3>3 DEF Counted, Exact
  <2> QED
    BY <2>1, ShapedInit, TargetInit DEF AllCounted
<1>2. Shaped /\ TargetShaped /\ AllAsked /\ AllCounted /\ [Next]_vars
      => (Shaped /\ TargetShaped /\ AllAsked /\ AllCounted)'
  BY ShapedStep, TargetShapedStep, AskedStep, CountedStep
<1>3. AllCounted => DoneMeansCopied
  BY DEF AllCounted, Counted, Exact, DoneMeansCopied, Working
<1> QED
  BY <1>1, <1>2, <1>3, PTL DEF Spec

-----------------------------------------------------------------------------
(* What the preview showed                                                 *)

\* The step planned for a table, given whether it exists and its source's definition.
Planned(r, e, d) ==
  IF Skipped(r, e) THEN SkipStep ELSE [setup |-> SetupOf(r, e), insert |-> r.data, def |-> d]

LEMMA StepPlanned ==
  ASSUME NEW r, NEW t, NEW e
  PROVE  StepFor(r, t, e) = Planned(r, e, source[t])
BY DEF StepFor, Planned

LEMMA SignatureNow ==
  ASSUME NEW t \in Tables
  PROVE  SignatureOf(t, t \in Existing) = [source |-> source[t], target |-> target[t].def]
BY DEF SignatureOf, Existing

BuildFields == DOMAIN NoBuild
LEMMA BuildFieldNames == BuildFields = {"stage", "req", "sign", "exists", "steps", "clean"}
BY DEF BuildFields, NoBuild

BuildShaped ==
  /\ DOMAIN build = BuildFields
  /\ build.stage \in {"idle", "preflight", "planning"}
  /\ build.stage # "idle" => build.req \in Requests
  /\ DOMAIN build.sign = Tables /\ DOMAIN build.steps = Tables
  /\ build.stage = "planning" => Unread(build.req, build.sign) = {}

\* As long as no schema changes, what was read and planned is what would be now.
BuildTrue ==
  build.stage # "idle" /\ build.clean =>
    /\ build.exists = Existing
    /\ \A t \in Tables :
         /\ build.sign[t] # Nothing =>
              build.sign[t] = [source |-> source[t], target |-> target[t].def]
         /\ build.steps[t] # Nothing =>
              build.steps[t] = Planned(build.req, t \in Existing, source[t])

PlansTrue ==
  \A p \in plans : p.clean => \A t \in p.req.tables :
    p.steps[t] = Planned(p.req, p.sign[t].target # Absent, p.sign[t].source)

\* The same of an execution: while it reads, and for the tables it has not begun.
ShownTrue(x) ==
  /\ run[x].stage \in {"idle", "preflight"} =>
       /\ DOMAIN run[x].sign = Tables /\ ~run[x].clean
       /\ run[x].stage = "idle" => run[x].sign = Blank
  /\ run[x].stage \in {"idle", "preflight", "checked", "listed"} => run[x].did = Blank
  /\ run[x].stage = "ended" => ~run[x].clean
  /\ x \notin disturbed =>
       /\ run[x].stage = "preflight" =>
            /\ run[x].exists = Existing
            /\ \A t \in Tables : run[x].sign[t] # Nothing =>
                 run[x].sign[t] = [source |-> source[t], target |-> target[t].def]
       /\ run[x].clean =>
            /\ run[x].stage = "checked" => \A t \in run[x].req.tables :
                 run[x].shown[t] = Planned(run[x].req, t \in Existing, source[t])
            /\ run[x].stage = "listed" => \A t \in run[x].req.tables :
                 run[x].shown[t] = Planned(run[x].req, t \in run[x].exists, source[t])
            /\ run[x].stage \in {"tables", "setup", "copy"} => \A t \in run[x].todo :
                 run[x].shown[t] = Planned(run[x].req, t \in run[x].exists, source[t])
            /\ \A t \in Tables : run[x].did[t] # Nothing => run[x].did[t] = run[x].shown[t]

SchemasKept == source' = source /\ \A t \in Tables : target'[t].def = target[t].def

LEMMA ExistingKept == SchemasKept => Existing' = Existing
BY DEF SchemasKept, Existing

\* A step that leaves execution x alone changes no schema that x relies on unnoticed.
Elsewhere(x) ==
  /\ run'[x] = run[x]
  /\ x \notin disturbed' => x \notin disturbed
  /\ run[x].stage \in Working /\ x \notin disturbed' => SchemasKept

LEMMA ElsewhereKeeps ==
  ASSUME NEW x \in Runs, Asked(x), ShownTrue(x), Elsewhere(x)
  PROVE  ShownTrue(x)'
<1>1. CASE run[x].stage \in Working /\ x \notin disturbed'
  <2>1. SchemasKept /\ x \notin disturbed /\ run'[x] = run[x]
    BY <1>1 DEF Elsewhere
  <2>2. Existing' = Existing
    BY <2>1, ExistingKept
  <2> QED
    BY <2>1, <2>2 DEF ShownTrue, SchemasKept
<1>2. CASE run[x].stage \notin Working
  BY <1>2 DEF ShownTrue, Elsewhere, Working
<1>3. CASE x \in disturbed'
  BY <1>3 DEF ShownTrue, Elsewhere
<1> QED
  BY <1>1, <1>2, <1>3

\* A step that leaves the build alone likewise.
BuildElsewhere ==
  /\ \/ build' = build
     \/ build' = [build EXCEPT !.clean = FALSE]
  /\ build.stage # "idle" /\ build'.clean => SchemasKept

LEMMA BuildElsewhereKeeps ==
  ASSUME BuildShaped, BuildTrue, BuildElsewhere
  PROVE  BuildShaped' /\ BuildTrue'
<1>1. CASE build' = build
  <2>1. BuildShaped'
    BY <1>1 DEF BuildShaped, Unread
  <2>2. CASE build.stage # "idle" /\ build.clean
    <3>1. SchemasKept
      BY <1>1, <2>2 DEF BuildElsewhere
    <3>2. Existing' = Existing
      BY <3>1, ExistingKept
    <3> QED
      BY <1>1, <2>1, <2>2, <3>1, <3>2 DEF BuildTrue, SchemasKept
  <2>3. CASE ~(build.stage # "idle" /\ build.clean)
    BY <1>1, <2>1, <2>3 DEF BuildTrue
  <2> QED
    BY <2>2, <2>3
<1>2. CASE build' = [build EXCEPT !.clean = FALSE]
  <2>1. /\ DOMAIN build' = BuildFields /\ ~build'.clean
        /\ \A f \in BuildFields \ {"clean"} : build'[f] = build[f]
    BY <1>2, BuildFieldNames DEF BuildShaped
  <2> QED
    BY <2>1, BuildFieldNames DEF BuildShaped, BuildTrue, Unread
<1> QED
  BY <1>1, <1>2 DEF BuildElsewhere

LEMMA OthersElsewhere ==
  ASSUME Shaped, TargetShaped, AllAsked, BuildShaped, NEW y \in Runs, RunStep(y)
  PROVE  /\ BuildElsewhere
         /\ \A x \in Runs \ {y} : Elsewhere(x)
         /\ source' = source
         /\ ~Ends(y) => (y \notin disturbed' => y \notin disturbed) \/ UsePlan(y)
<1>1. \A x \in Runs \ {y} : run'[x] = run[x]
  BY SMTT(60), RunStepMoves DEF RunMoves
<1>2. source' = source
  BY DEF RunStep, Proceed, StartRun, RunReads, RunFailsPreflight, UsePlan, GoWithoutPlan,
     RunLists, Connect, TakeTable, Setup, StartCopy, CopyBatch, TableDone, TableFails, Restore,
     Complete, Abort, Cancel, LateStatement
<1>3. CASE UNCHANGED <<target, build, disturbed>>
  BY <1>1, <1>2, <1>3 DEF BuildElsewhere, Elsewhere, SchemasKept
<1>4. CASE UNCHANGED <<target, build>> /\ disturbed' = disturbed \ {y} /\ (Ends(y) \/ UsePlan(y))
  BY <1>1, <1>2, <1>4 DEF BuildElsewhere, Elsewhere, SchemasKept
<1>5. ASSUME NEW t \in Tables, NEW s \in Statements, Apply(y, t, s)
      PROVE  /\ BuildElsewhere
             /\ \A x \in Runs \ {y} : Elsewhere(x)
             /\ y \notin disturbed' => y \notin disturbed
  <2>1. \A u \in Tables \ {t} : target'[u] = target[u]
    BY <1>5, Applied
  <2>2. CASE s = "insert"
    <3>1. target'[t].def = target[t].def /\ UNCHANGED <<build, disturbed>>
      BY <1>5, <2>2, Applied
    <3> QED
      BY <1>1, <1>2, <2>1, <3>1 DEF BuildElsewhere, Elsewhere, SchemasKept
  <2>3. CASE s # "insert"
    <3>1. Disturb({y})
      BY <1>5, <2>3, Applied
    <3>2. \A x \in Runs \ {y} : run[x].stage \in Working => x \in disturbed'
      BY <3>1 DEF Disturb, ActiveBut
    <3>3. disturbed \subseteq disturbed'
      BY <3>1 DEF Disturb
    <3>4. build.stage # "idle" => build' = [build EXCEPT !.clean = FALSE] /\ ~build'.clean
      BY <3>1, BuildFieldNames DEF Disturb, BuildShaped
    <3>5. build.stage = "idle" => build' = build
      BY <3>1 DEF Disturb
    <3> QED
      BY <1>1, <3>2, <3>3, <3>4, <3>5 DEF BuildElsewhere, Elsewhere
  <2> QED
    BY <2>2, <2>3
<1>6. \/ UNCHANGED <<target, build, disturbed>>
      \/ UNCHANGED <<target, build>> /\ disturbed' = disturbed \ {y} /\ (Ends(y) \/ UsePlan(y))
      \/ \E t \in Tables, s \in Statements : Apply(y, t, s)
  <2>1. CASE Ends(y)
    BY <2>1 DEF Ends, RunFailsPreflight, Complete, Abort, Cancel, End
  <2>2. CASE UsePlan(y)
    BY <2>2 DEF UsePlan, End
  <2>3. CASE Setup(y)
    BY <2>3, SetupsShrink, RequestTables DEF Setup, AllAsked, Asked, Working, Allowed
  <2>4. CASE CopyBatch(y)
    BY <2>4, RequestTables DEF CopyBatch, AllAsked, Asked, Working, Statements
  <2>5. CASE TableFails(y)
    BY <2>5, PendingAllowed, RequestTables DEF TableFails, AllAsked, Allowed
  <2>6. CASE LateStatement(y)
    BY SMTT(60), <2>6, RequestTables DEF LateStatement, AllAsked, Asked, Allowed
  <2>7. CASE \/ StartRun(y) \/ RunReads(y) \/ GoWithoutPlan(y) \/ RunLists(y) \/ Connect(y)
             \/ TakeTable(y) \/ StartCopy(y) \/ TableDone(y) \/ Restore(y)
    BY <2>7 DEF StartRun, RunReads, GoWithoutPlan, RunLists, Connect, TakeTable, StartCopy,
       TableDone, Restore
  <2> QED
    BY <2>1, <2>2, <2>3, <2>4, <2>5, <2>6, <2>7 DEF RunStep, Proceed, Ends
<1> QED
  BY <1>2, <1>3, <1>4, <1>5, <1>6

LEMMA ClientsElsewhere ==
  ASSUME BuildShaped, EditSource \/ EditTarget
  PROVE  BuildElsewhere /\ \A x \in Runs : Elsewhere(x)
<1>1. run' = run
  BY OthersKeepRuns
<1>2. Disturb({})
  BY DEF EditSource, EditTarget
<1>3. \A x \in Runs : run[x].stage \in Working => x \in disturbed'
  BY <1>2 DEF Disturb, ActiveBut
<1>4. disturbed \subseteq disturbed'
  BY <1>2 DEF Disturb
<1>5. build.stage # "idle" => build' = [build EXCEPT !.clean = FALSE] /\ ~build'.clean
  BY <1>2, BuildFieldNames DEF Disturb, BuildShaped
<1>6. build.stage = "idle" => build' = build
  BY <1>2 DEF Disturb
<1> QED
  BY <1>1, <1>3, <1>4, <1>5, <1>6 DEF BuildElsewhere, Elsewhere

LEMMA BuildMoves ==
  ASSUME BuildShaped, BuildTrue, PlansTrue, BuildPlan \/ PlanExpires, Shaped
  PROVE  /\ BuildShaped' /\ BuildTrue' /\ PlansTrue'
         /\ \A x \in Runs : Elsewhere(x)
<1>1. UNCHANGED <<source, target, run, disturbed>>
  BY DEF BuildPlan, StartBuild, BuildReads, BuildLists, BuildPlansTable, BuildEnds, BuildFails,
     PlanExpires
<1>2. /\ \A x \in Runs : Elsewhere(x)
      /\ Existing' = Existing
  BY <1>1 DEF Elsewhere, SchemasKept, Existing
<1>3. /\ NoBuild.stage = "idle"
      /\ DOMAIN NoBuild.sign = Tables /\ DOMAIN NoBuild.steps = Tables
      /\ DOMAIN NoBuild = BuildFields
      /\ \A t \in Tables : NoBuild.sign[t] = Nothing /\ NoBuild.steps[t] = Nothing
  BY DEF NoBuild, Blank, BuildFields
<1>4. CASE StartBuild
  <2>1. plans' = plans
    BY <1>4 DEF StartBuild
  <2>2. PICK r \in Requests :
          build' = [NoBuild EXCEPT !.stage = "preflight", !.req = r, !.exists = Existing]
    BY <1>4 DEF StartBuild
  <2>3. /\ DOMAIN build' = BuildFields /\ build'.stage = "preflight" /\ build'.req = r
        /\ build'.exists = Existing /\ build'.sign = NoBuild.sign /\ build'.steps = NoBuild.steps
    BY <2>2, <1>3, BuildFieldNames
  <2> QED
    BY <1>2, <1>3, <2>1, <2>3 DEF BuildShaped, BuildTrue, PlansTrue
<1>5. CASE BuildReads
  <2>1. build.stage = "preflight" /\ plans' = plans
    BY <1>5 DEF BuildReads
  <2>2. PICK t \in Unread(build.req, build.sign) :
          /\ Readable(t, t \in build.exists)
          /\ build' = [build EXCEPT !.sign[t] = SignatureOf(t, t \in build.exists)]
    BY <1>5 DEF BuildReads
  <2> DEFINE s == SignatureOf(t, t \in build.exists)
  <2>3. t \in Tables
    BY <2>1, RequestTables DEF Unread, BuildShaped
  <2>4. build.clean => s = [source |-> source[t], target |-> target[t].def]
    BY <2>1, <2>3, SignatureNow DEF BuildTrue
  <2> HIDE DEF s
  <2>5. build' = [build EXCEPT !.sign = [build.sign EXCEPT ![t] = s]]
    BY <2>2 DEF s
  <2>6. /\ DOMAIN build' = BuildFields /\ build'.sign = [build.sign EXCEPT ![t] = s]
        /\ build'.stage = build.stage /\ build'.req = build.req /\ build'.exists = build.exists
        /\ build'.steps = build.steps /\ build'.clean = build.clean
    BY <2>5, BuildFieldNames DEF BuildShaped
  <2> QED
    BY <1>1, <1>2, <2>1, <2>3, <2>4, <2>6 DEF BuildShaped, BuildTrue, PlansTrue
<1>6. CASE BuildLists
  <2>1. /\ build.stage = "preflight" /\ Unread(build.req, build.sign) = {} /\ plans' = plans
        /\ build' = [build EXCEPT !.stage = "planning", !.exists = Existing]
    BY <1>6 DEF BuildLists
  <2>2. /\ DOMAIN build' = BuildFields /\ build'.sign = build.sign
        /\ build'.stage = "planning" /\ build'.req = build.req /\ build'.exists = Existing
        /\ build'.steps = build.steps /\ build'.clean = build.clean
    BY <2>1, BuildFieldNames DEF BuildShaped
  <2> QED
    BY <1>1, <1>2, <2>1, <2>2 DEF BuildShaped, BuildTrue, PlansTrue, Unread
<1>7. CASE BuildPlansTable
  <2>1. build.stage = "planning" /\ plans' = plans
    BY <1>7 DEF BuildPlansTable
  <2>2. PICK t \in Unread(build.req, build.steps) :
          build' = [build EXCEPT !.steps[t] = StepFor(build.req, t, t \in build.exists)]
    BY <1>7 DEF BuildPlansTable
  <2> DEFINE s == StepFor(build.req, t, t \in build.exists)
  <2>3. t \in Tables
    BY <2>1, RequestTables DEF Unread, BuildShaped
  <2>4. build.clean => s = Planned(build.req, t \in Existing, source[t])
    BY <2>1, <2>3, StepPlanned DEF BuildTrue
  <2> HIDE DEF s
  <2>5. build' = [build EXCEPT !.steps = [build.steps EXCEPT ![t] = s]]
    BY <2>2 DEF s
  <2>6. /\ DOMAIN build' = BuildFields /\ build'.steps = [build.steps EXCEPT ![t] = s]
        /\ build'.stage = build.stage /\ build'.req = build.req /\ build'.exists = build.exists
        /\ build'.sign = build.sign /\ build'.clean = build.clean
    BY <2>5, BuildFieldNames DEF BuildShaped
  <2> QED
    BY <1>1, <1>2, <2>1, <2>3, <2>4, <2>6 DEF BuildShaped, BuildTrue, PlansTrue, Unread
<1>8. CASE BuildEnds
  <2> DEFINE new == [id |-> built + 1, req |-> build.req, sign |-> build.sign,
                     steps |-> build.steps, clean |-> build.clean, expired |-> FALSE]
  <2>1. /\ plans' \subseteq plans \cup {new} /\ build' = NoBuild
        /\ build.stage = "planning" /\ Unread(build.req, build.steps) = {}
    BY <1>8 DEF BuildEnds
  <2>2. Unread(build.req, build.sign) = {} /\ build.req.tables \subseteq Tables
    BY <2>1, RequestTables DEF BuildShaped
  <2>3. ASSUME build.clean, NEW t \in build.req.tables
        PROVE  build.steps[t]
                 = Planned(build.req, build.sign[t].target # Absent, build.sign[t].source)
    <3>1. build.sign[t] # Nothing /\ build.steps[t] # Nothing /\ t \in Tables
      BY <2>1, <2>2 DEF Unread
    <3>2. build.steps[t] = Planned(build.req, t \in Existing, source[t])
      BY <2>1, <2>3, <3>1 DEF BuildTrue
    <3>3. build.sign[t] = [source |-> source[t], target |-> target[t].def]
      BY <2>1, <2>3, <3>1 DEF BuildTrue
    <3>4. (t \in Existing) = (build.sign[t].target # Absent)
      BY <3>1, <3>3 DEF Existing
    <3> QED
      BY <3>2, <3>3, <3>4
  <2>4. PlansTrue'
    BY <2>1, <2>3 DEF PlansTrue
  <2> QED
    BY <1>2, <1>3, <2>1, <2>4 DEF BuildShaped, BuildTrue
<1>9. CASE BuildFails
  BY <1>2, <1>3, <1>9 DEF BuildFails, BuildShaped, BuildTrue, PlansTrue
<1>10. CASE PlanExpires
  <2>1. PICK p \in plans : plans' = (plans \ {p}) \cup {[p EXCEPT !.expired = TRUE]}
    BY <1>10 DEF PlanExpires
  <2> DEFINE q == [p EXCEPT !.expired = TRUE]
  <2>2. q.req = p.req /\ q.sign = p.sign /\ q.steps = p.steps /\ q.clean = p.clean
    BY DEF Shaped, PlanFields
  <2> HIDE DEF q
  <2>3. PlansTrue'
    <3>1. plans' = (plans \ {p}) \cup {q}
      BY <2>1 DEF q
    <3>2. q.clean => \A t \in q.req.tables :
            q.steps[t] = Planned(q.req, q.sign[t].target # Absent, q.sign[t].source)
      <4>1. p.clean => \A t \in p.req.tables :
              p.steps[t] = Planned(p.req, p.sign[t].target # Absent, p.sign[t].source)
        BY DEF PlansTrue
      <4> QED
        BY <2>2, <4>1
    <3> QED
      BY <3>1, <3>2 DEF PlansTrue
  <2>4. build' = build
    BY <1>10 DEF PlanExpires
  <2>5. BuildElsewhere
    BY <1>1, <2>4 DEF BuildElsewhere, SchemasKept
  <2> QED
    BY <1>2, <2>3, <2>5, BuildElsewhereKeeps
<1> QED
  BY <1>4, <1>5, <1>6, <1>7, <1>8, <1>9, <1>10 DEF BuildPlan
LEMMA AcceptShows ==
  ASSUME NEW x \in Runs, Asked(x), ShownTrue(x), PlansTrue, run[x].stage = "preflight",
         Unread(run[x].req, run[x].sign) = {}, x \notin disturbed,
         NEW p \in plans, Matches(p, x), p.clean
  PROVE  \A t \in run[x].req.tables :
           p.steps[t] = Planned(run[x].req, t \in Existing, source[t])
<1>1. p.req = run[x].req /\ p.sign = run[x].sign /\ run[x].req.tables \subseteq Tables
  BY RequestTables DEF Matches, Asked, Working
<1>2. ASSUME NEW t \in run[x].req.tables
      PROVE  p.steps[t] = Planned(run[x].req, t \in Existing, source[t])
  <2>1. t \in Tables /\ run[x].sign[t] # Nothing
    BY <1>1 DEF Unread
  <2>2. run[x].sign[t] = [source |-> source[t], target |-> target[t].def]
    BY <2>1 DEF ShownTrue
  <2>3. (t \in Existing) = (run[x].sign[t].target # Absent)
    BY <2>1, <2>2 DEF Existing
  <2>4. p.steps[t] = Planned(p.req, p.sign[t].target # Absent, p.sign[t].source)
    BY <1>1 DEF PlansTrue
  <2> QED
    BY <1>1, <2>2, <2>3, <2>4
<1> QED
  BY <1>2

LEMMA ShownMoves ==
  ASSUME Shaped, TargetShaped, AllAsked, BuildShaped, PlansTrue, NEW x \in Runs,
         Asked(x), Counted(x), ShownTrue(x), RunStep(x)
  PROVE  ShownTrue(x)'
<1>1. source' = source
  BY OthersElsewhere
<1>2. \A t \in Tables : Blank[t] = Nothing /\ DOMAIN Blank = Tables
  BY DEF Blank
<1> HIDE DEF Blank
<1>3. CASE StartRun(x)
  <2>1. /\ run[x].stage = "idle" /\ run'[x].stage = "preflight" /\ run'[x].exists = Existing
        /\ disturbed' = disturbed /\ target' = target
    BY <1>3, PrefaceMoves DEF StartRun
  <2>2. run'[x].sign = run[x].sign /\ run'[x].clean = run[x].clean /\ run'[x].did = run[x].did
    BY <1>3, PrefaceMoves, RunFields DEF Keeps
  <2>3. Existing' = Existing
    BY <2>1 DEF Existing
  <2>4. run[x].sign = Blank /\ run[x].did = Blank /\ ~run[x].clean /\ DOMAIN Blank = Tables
    BY <2>1, <1>2 DEF ShownTrue, Blank
  <2> QED
    BY <1>2, <2>1, <2>2, <2>3, <2>4 DEF ShownTrue
<1>4. CASE RunReads(x)
  <2>1. /\ run[x].stage = "preflight" /\ disturbed' = disturbed /\ target' = target
    BY <1>4 DEF RunReads
  <2>2. PICK t \in Unread(run[x].req, run[x].sign) :
          run'[x].sign = [run[x].sign EXCEPT ![t] = SignatureOf(t, t \in run[x].exists)]
    BY <1>4, ReadMoves
  <2>3. /\ run'[x].stage = run[x].stage /\ run'[x].exists = run[x].exists
        /\ run'[x].clean = run[x].clean /\ run'[x].did = run[x].did
    BY <1>4, ReadMoves, RunFields DEF Keeps
  <2>4. Existing' = Existing
    BY <2>1 DEF Existing
  <2>5. t \in Tables
    BY <2>1, <2>2, RequestTables DEF Unread, Asked, Working
  <2>6. x \notin disturbed =>
          SignatureOf(t, t \in run[x].exists) = [source |-> source[t], target |-> target[t].def]
    BY <2>1, <2>5, SignatureNow DEF ShownTrue
  <2> QED
    BY <1>1, <2>1, <2>2, <2>3, <2>4, <2>5, <2>6 DEF ShownTrue
<1>5. CASE UsePlan(x)
  <2>1. CASE End(x, Nothing)
    BY <2>1, EndMoves DEF ShownTrue
  <2>2. ASSUME NEW p \in plans, Matches(p, x), Accept(x, p), UNCHANGED disturbed
        PROVE  ShownTrue(x)'
    <3>1. /\ run[x].stage = "preflight" /\ Unread(run[x].req, run[x].sign) = {}
          /\ target' = target
      BY <1>5 DEF UsePlan
    <3>2. /\ run'[x].stage = "checked" /\ run'[x].shown = p.steps /\ run'[x].clean = p.clean
          /\ run'[x].req = run[x].req /\ run'[x].did = run[x].did
      BY <2>2, AcceptMoves
    <3>3. Existing' = Existing
      BY <3>1 DEF Existing
    <3>4. run[x].did = Blank
      BY <3>1 DEF ShownTrue
    <3>5. x \notin disturbed /\ p.clean => \A t \in run[x].req.tables :
            p.steps[t] = Planned(run[x].req, t \in Existing, source[t])
      BY <2>2, <3>1, AcceptShows
    <3> QED
      BY <1>1, <1>2, <2>2, <3>2, <3>3, <3>4, <3>5 DEF ShownTrue, Blank
  <2> QED
    BY <1>5, <2>1, <2>2 DEF UsePlan
<1>6. CASE GoWithoutPlan(x)
  <2>1. run[x].stage = "preflight" /\ run'[x].stage = "checked"
    BY <1>6, PrefaceMoves DEF GoWithoutPlan
  <2>2. run'[x].clean = run[x].clean /\ run'[x].did = run[x].did
    BY <1>6, PrefaceMoves, RunFields DEF Keeps
  <2> QED
    BY <2>1, <2>2 DEF ShownTrue, Blank
<1>7. CASE RunLists(x)
  <2>1. /\ run[x].stage = "checked" /\ run'[x].stage = "listed" /\ run'[x].exists = Existing
        /\ disturbed' = disturbed
    BY <1>7, PrefaceMoves DEF RunLists
  <2>2. /\ run'[x].clean = run[x].clean /\ run'[x].did = run[x].did
        /\ run'[x].req = run[x].req /\ run'[x].shown = run[x].shown
    BY <1>7, PrefaceMoves, RunFields DEF Keeps
  <2>3. run[x].did = Blank
    BY <2>1 DEF ShownTrue
  <2> QED
    BY <1>1, <1>2, <2>1, <2>2, <2>3 DEF ShownTrue, Blank
<1>8. CASE Connect(x)
  <2>1. /\ run[x].stage = "listed" /\ run'[x].stage = "tables"
        /\ run'[x].todo = run[x].req.tables /\ disturbed' = disturbed
    BY <1>8, PrefaceMoves DEF Connect
  <2>2. /\ run'[x].clean = run[x].clean /\ run'[x].did = run[x].did
        /\ run'[x].req = run[x].req /\ run'[x].shown = run[x].shown
        /\ run'[x].exists = run[x].exists
    BY <1>8, PrefaceMoves, RunFields DEF Keeps
  <2> QED
    BY <1>1, <1>2, <2>1, <2>2 DEF ShownTrue
<1>9. CASE TakeTable(x)
  <2>1. PICK t \in run[x].todo : Taken(x, t, StepFor(run[x].req, t, t \in run[x].exists))
    BY <1>9, TakeMoves
  <2> DEFINE step == StepFor(run[x].req, t, t \in run[x].exists)
  <2>2. /\ run[x].stage = "tables" /\ disturbed' = disturbed
        /\ step = Planned(run[x].req, t \in run[x].exists, source[t])
    BY <1>9, StepPlanned DEF TakeTable
  <2> HIDE DEF step
  <2>3. Taken(x, t, step)
    BY <2>1 DEF step
  <2>4. /\ run'[x].todo = run[x].todo \ {t} /\ run'[x].stage \in {"tables", "setup"}
        /\ run'[x].did = [run[x].did EXCEPT ![t] = step]
    BY <2>3 DEF Taken
  <2>5. /\ run'[x].clean = run[x].clean /\ run'[x].req = run[x].req
        /\ run'[x].shown = run[x].shown /\ run'[x].exists = run[x].exists
    BY <2>3, RunFields DEF Taken
  <2>6. DOMAIN run[x].did = Tables
    BY <2>2 DEF Counted, Working
  <2>7. \A u \in Tables : run'[x].did[u] = IF u = t THEN step ELSE run[x].did[u]
    BY <2>4, <2>6
  <2> QED
    BY <1>1, <2>2, <2>4, <2>5, <2>7 DEF ShownTrue
<1>10. CASE Setup(x) \/ StartCopy(x) \/ CopyBatch(x) \/ Restore(x)
  <2>1. /\ run[x].stage \in {"tables", "setup", "copy"}
        /\ run'[x].stage \in {"setup", "copy", "restored"}
    BY <1>10, TableMoves, RunFields DEF Setup, StartCopy, CopyBatch, Restore, Keeps
  <2>2. /\ run'[x].clean = run[x].clean /\ run'[x].req = run[x].req
        /\ run'[x].shown = run[x].shown /\ run'[x].exists = run[x].exists
        /\ run'[x].did = run[x].did /\ run'[x].todo = run[x].todo
    BY <1>10, TableMoves, RunFields DEF Keeps
  <2>3. x \notin disturbed' => x \notin disturbed
    BY <1>10 DEF Setup, StartCopy, CopyBatch, Restore, Apply, Disturb
  <2> QED
    BY SMTT(60), <1>1, <2>1, <2>2, <2>3 DEF ShownTrue
<1>11. CASE TableDone(x) \/ TableFails(x)
  <2>1. run[x].stage \in {"setup", "copy"} /\ \E d : Leave(x, d)
    BY <1>11 DEF TableDone, TableFails
  <2>2. /\ run'[x].stage = "tables"
        /\ run'[x].clean = run[x].clean /\ run'[x].req = run[x].req
        /\ run'[x].shown = run[x].shown /\ run'[x].exists = run[x].exists
        /\ run'[x].did = run[x].did /\ run'[x].todo = run[x].todo
    BY <2>1, LeaveMoves, RunFields
  <2>3. x \notin disturbed' => x \notin disturbed
    BY <1>11 DEF TableDone, TableFails, Apply, Disturb
  <2> QED
    BY <1>1, <2>1, <2>2, <2>3 DEF ShownTrue
<1>12. CASE Ends(x)
  BY <1>12, EndsByEnd, EndMoves DEF ShownTrue
<1>13. CASE LateStatement(x)
  <2>1. run[x].stage = "ended" /\ run'[x].stage = "ended" /\ run'[x].clean = run[x].clean
    BY ZenonT(60), <1>13, TableMoves, RunFields DEF Keeps, LateStatement, Asked
  <2> QED
    BY SMTT(60), <2>1 DEF ShownTrue
<1> QED
  BY <1>3, <1>4, <1>5, <1>6, <1>7, <1>8, <1>9, <1>10, <1>11, <1>12, <1>13
  DEF RunStep, Proceed, Ends

PreviewInv ==
  /\ Shaped /\ TargetShaped /\ AllAsked /\ AllCounted
  /\ BuildShaped /\ BuildTrue /\ PlansTrue
  /\ \A x \in Runs : ShownTrue(x)

LEMMA PreviewStep ==
  ASSUME PreviewInv, [Next]_vars
  PROVE  PreviewInv'
<1> USE DEF PreviewInv
<1>1. Shaped' /\ TargetShaped' /\ AllAsked' /\ AllCounted'
  BY ShapedStep, TargetShapedStep, AskedStep, CountedStep
<1> DEFINE New == BuildShaped' /\ BuildTrue' /\ PlansTrue' /\ \A x \in Runs : ShownTrue(x)'
<1>2. ASSUME BuildPlan \/ PlanExpires PROVE New
  BY <1>2, BuildMoves, ElsewhereKeeps DEF AllAsked
<1>3. ASSUME EditSource \/ EditTarget PROVE New
  <2>1. plans' = plans
    BY <1>3 DEF EditSource, EditTarget
  <2>2. PlansTrue'
    BY <2>1 DEF PlansTrue
  <2> QED
    BY <1>3, <2>2, ClientsElsewhere, BuildElsewhereKeeps, ElsewhereKeeps DEF AllAsked
<1>4. ASSUME NEW y \in Runs, RunStep(y) PROVE New
  <2>1. BuildElsewhere /\ \A x \in Runs \ {y} : Elsewhere(x)
    BY <1>4, OthersElsewhere
  <2>2. plans' \subseteq plans
    BY <1>4 DEF RunStep, Proceed, StartRun, RunReads, RunFailsPreflight, UsePlan, GoWithoutPlan,
       RunLists, Connect, TakeTable, Setup, StartCopy, CopyBatch, TableDone, TableFails, Restore,
       Complete, Abort, Cancel, LateStatement
  <2>3. PlansTrue'
    BY <2>2 DEF PlansTrue
  <2>4. ShownTrue(y)'
    BY <1>4, ShownMoves DEF AllAsked, AllCounted
  <2>5. \A x \in Runs \ {y} : ShownTrue(x)'
    BY <2>1, ElsewhereKeeps DEF AllAsked
  <2> QED
    BY <2>1, <2>3, <2>4, <2>5, BuildElsewhereKeeps
<1>5. ASSUME UNCHANGED vars PROVE New
  <2>1. BuildElsewhere /\ PlansTrue'
    BY <1>5 DEF vars, BuildElsewhere, SchemasKept, PlansTrue
  <2>2. \A x \in Runs : Elsewhere(x)
    BY <1>5 DEF vars, Elsewhere, SchemasKept
  <2> QED
    BY <2>1, <2>2, BuildElsewhereKeeps, ElsewhereKeeps DEF AllAsked
<1> HIDE DEF PreviewInv, New
<1>6. New
  BY <1>2, <1>3, <1>4, <1>5 DEF Next, RunStep
<1> QED
  BY <1>1, <1>6 DEF PreviewInv, New

\* What an execution does to a table is what the preview it was accepted for showed,
\* unless a schema changed while the preview was built or after the execution had begun:
\* comparing the signatures finds out every change in between.
THEOREM Previewed == Spec => []ExecutedAsPreviewed
<1>1. Init => PreviewInv
  <2>1. ASSUME Init PROVE BuildShaped /\ BuildTrue /\ PlansTrue
    <3>1. build = NoBuild /\ plans = {}
      BY <2>1 DEF Init
    <3> QED
      BY <3>1 DEF NoBuild, BuildFields, Blank, BuildShaped, BuildTrue, PlansTrue
  <2>2. ASSUME Init, NEW x \in Runs PROVE Counted(x) /\ Exact(x) /\ ShownTrue(x)
    <3>1. run[x] = NotStarted
      BY <2>2 DEF Init
    <3>2. /\ run[x].did = Blank /\ run[x].sign = Blank /\ DOMAIN Blank = Tables
          /\ run[x].done = {} /\ run[x].stage = "idle" /\ ~run[x].clean
      BY <3>1 DEF NotStarted, Blank
    <3>3. \A t \in Tables : target[t].rows = [y \in Runs |-> 0]
      BY <2>2 DEF Init
    <3> QED
      BY <3>2, <3>3 DEF Counted, Exact, ShownTrue
  <2> QED
    BY <2>1, <2>2, ShapedInit, TargetInit DEF PreviewInv, AllCounted
<1>2. PreviewInv /\ [Next]_vars => PreviewInv'
  BY PreviewStep
<1>3. PreviewInv => ExecutedAsPreviewed
  BY DEF PreviewInv, ShownTrue, ExecutedAsPreviewed
<1> QED
  BY <1>1, <1>2, <1>3, PTL DEF Spec
=============================================================================
