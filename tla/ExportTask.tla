------------------------------ MODULE ExportTask ------------------------------
(***************************************************************************)
(* Exporting a whole database (ExportDatabaseDialog.tsx) in a tab of its   *)
(* own (DatabaseExportTaskView.tsx), which runs the export, reports it to  *)
(* the store of jobs, and may be cancelled, retried and closed.            *)
(***************************************************************************)
EXTENDS JobStore

CONSTANTS Engines, Backends,
          MaxRuns,      \* bound on the runs of the task
          None

VARIABLES
  engine,   \* of the connection
  form,     \* the dialog
  task,     \* the tab: its state and its refs
  exports,  \* the calls of exportDatabase that are not answered yet
  jobs,     \* useJobStore
  runs      \* runs so far; the job of a run has its number

Tab == "database-export"
StartForm(e) == [dialect |-> IF e = "postgres" THEN "postgres" ELSE "mysql", backend |-> "builtin",
                 structure |-> TRUE, data |-> TRUE]
NoTask == [open |-> FALSE, request |-> None, status |-> "running", asking |-> FALSE,
           activeJob |-> None, cancelled |-> FALSE, result |-> None]
TaskInit ==
  /\ engine \in Engines /\ form = StartForm(engine)
  /\ task = NoTask /\ exports = {} /\ jobs = NoJobs /\ runs = 0

-----------------------------------------------------------------------------
(* The dialog                                                              *)

DialogOpen == task.request = None
CanUseMySQLDump(dialect) == engine = "mysql" /\ dialect = "mysql"
EditForm(f) == DialogOpen /\ f # form /\ form' = f /\ UNCHANGED <<engine, task, exports, jobs, runs>>
\* Another dialect takes back a dump of MySQL's own.
SetDialect(d) ==
  EditForm([form EXCEPT !.dialect = d, !.backend = IF CanUseMySQLDump(d) THEN form.backend ELSE "builtin"])
SetBackend(b) == CanUseMySQLDump(form.dialect) /\ EditForm([form EXCEPT !.backend = b])
SetStructure == EditForm([form EXCEPT !.structure = ~form.structure])
SetData == EditForm([form EXCEPT !.data = ~form.data])

-----------------------------------------------------------------------------
(* The task                                                                *)

Started(run) ==
  /\ runs < MaxRuns /\ runs' = run
  /\ jobs' = StartJob(jobs, run, "export", Tab)
  /\ exports' = exports \cup {[run |-> run, answer |-> None]}
\* What the refs hold is what the newest run left in them.
Running(t, run) == [t EXCEPT !.status = "running", !.result = None, !.cancelled = FALSE, !.activeJob = run]
Submit ==
  /\ DialogOpen /\ (form.structure \/ form.data)
  /\ Started(runs + 1)
  /\ task' = Running([NoTask EXCEPT !.open = TRUE, !.request = form], runs + 1)
  /\ UNCHANGED <<engine, form>>
Retry ==
  /\ task.open /\ task.status # "running"
  /\ Started(runs + 1) /\ task' = Running(task, runs + 1)
  /\ UNCHANGED <<engine, form>>

\* The onCancel of a job.
Stopped(t) == [t EXCEPT !.cancelled = TRUE, !.status = "canceled"]
Cancel(run) ==
  /\ MayCancel(jobs, run) /\ jobs' = CancelJob(jobs, run) /\ task' = Stopped(task)
  /\ UNCHANGED <<engine, form, exports, runs>>
\* From the toolbar of the tab, which cancels what activeJobRef names.
CancelFromTab == task.open /\ task.status = "running" /\ task.activeJob # None /\ Cancel(task.activeJob)

\* An export that was told to stop may have been done, have failed or have stopped;
\* the user may also have chosen no file.
Serve(e) ==
  /\ e.answer = None
  /\ \E a \in {"done", "cancelled", "error"} : exports' = (exports \ {e}) \cup {[e EXCEPT !.answer = a]}
  /\ UNCHANGED <<engine, form, task, jobs, runs>>
Dropped == task.cancelled \/ ~task.open
StatusOf(answer) == IF answer = "done" THEN "success" ELSE IF answer = "cancelled" THEN "canceled" ELSE "error"
AnswerDropped(e) ==
  /\ e.answer # None /\ Dropped
  /\ exports' = exports \ {e} /\ task' = [task EXCEPT !.activeJob = None]
  /\ UNCHANGED <<engine, form, jobs, runs>>
Answered(e) ==
  /\ e.answer # None /\ ~Dropped
  /\ exports' = exports \ {e}
  /\ jobs' = FinishJob(jobs, e.run, e.answer)
  /\ task' = [task EXCEPT !.activeJob = None, !.status = StatusOf(e.answer), !.result = e.answer]
  /\ UNCHANGED <<engine, form, runs>>

-----------------------------------------------------------------------------
(* Closing the tab                                                         *)

\* A tab that goes cancels what activeJobRef names.
Gone(t) == [(IF t.activeJob # None /\ MayCancel(jobs, t.activeJob) THEN Stopped(t) ELSE t)
              EXCEPT !.open = FALSE, !.asking = FALSE]
Leave ==
  /\ task' = Gone(task)
  /\ jobs' = IF task.activeJob # None /\ MayCancel(jobs, task.activeJob) THEN CancelJob(jobs, task.activeJob) ELSE jobs
  /\ UNCHANGED <<engine, form, exports, runs>>
CloseTab == task.open /\ task.status # "running" /\ Leave
AskToClose ==
  /\ task.open /\ ~task.asking /\ task.status = "running" /\ task' = [task EXCEPT !.asking = TRUE]
  /\ UNCHANGED <<engine, form, exports, jobs, runs>>
ConfirmClose == task.open /\ task.asking /\ Leave
DismissClose == task.open /\ task.asking /\ task' = [task EXCEPT !.asking = FALSE]
                /\ UNCHANGED <<engine, form, exports, jobs, runs>>

TaskNext ==
  \/ SetStructure \/ SetData \/ Submit \/ Retry \/ CancelFromTab
  \/ CloseTab \/ AskToClose \/ ConfirmClose \/ DismissClose
  \/ \E d \in {"mysql", "postgres"} : SetDialect(d)
  \/ \E b \in Backends : SetBackend(b)
  \/ \E run \in DOMAIN jobs : Cancel(run)
  \/ \E e \in exports : Serve(e) \/ AnswerDropped(e) \/ Answered(e)

-----------------------------------------------------------------------------
\* The tab and the list of jobs tell one story: the tab says that the export runs
\* just when the store has a running job of the tab's (DatabaseExportTaskView.tsx:3-5).
TabAgreesWithJobs ==
  task.open => (task.status = "running" <=> TabStatus(jobs, Tab) = "running")
=============================================================================
