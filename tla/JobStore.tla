------------------------------ MODULE JobStore ------------------------------
(***************************************************************************)
(* The store of long-running jobs (renderer/store/job-store.ts): the one   *)
(* account of comparisons, syncs, exports and other jobs that the toolbar, *)
(* the tab strip and the status bar read.  The store is a value: a         *)
(* function from job ids, numbered as jobs start, to jobs.  The views that *)
(* own the jobs keep it in a variable and change it with these operators.  *)
(***************************************************************************)
EXTENDS Naturals, FiniteSets, Functions, FiniteSetsExt

Terminal == {"done", "error", "cancelled"}
Kinds == {"compare", "sync", "export", "import", "query", "transfer", "other"}
Job == [kind : Kinds, tab : STRING,
        status : {"queued", "running"} \cup Terminal, cancellable : BOOLEAN]
NoJobs == [id \in {} |-> 0]

IsActive(job) == job.status \notin Terminal

StartJob(jobs, id, kind, tab) ==
  [x \in DOMAIN jobs \cup {id} |->
     IF x = id THEN [kind |-> kind, tab |-> tab, status |-> "running", cancellable |-> TRUE]
     ELSE jobs[x]]

\* Only a job that has not ended takes a patch.
UpdateJob(jobs, id, status) ==
  IF id \in DOMAIN jobs /\ IsActive(jobs[id])
  THEN [jobs EXCEPT ![id].status = status] ELSE jobs

\* finish does not ask whether the job has ended already.
FinishJob(jobs, id, status) ==
  IF id \in DOMAIN jobs
  THEN [jobs EXCEPT ![id].status = status, ![id].cancellable = FALSE] ELSE jobs

\* cancel calls onCancel, which the owner models, and then finishes the job.
MayCancel(jobs, id) == id \in DOMAIN jobs /\ IsActive(jobs[id])
CancelJob(jobs, id) == FinishJob(jobs, id, "cancelled")

RemoveJob(jobs, id) == Restrict(jobs, DOMAIN jobs \ {id})
ActiveJobs(jobs) == {id \in DOMAIN jobs : IsActive(jobs[id])}
ClearFinished(jobs) == Restrict(jobs, ActiveJobs(jobs))
JobsOfTab(jobs, tab) == {id \in DOMAIN jobs : jobs[id].tab = tab}

\* The dot on a tab: running wins over an error.
TabStatus(jobs, tab) ==
  LET own == JobsOfTab(jobs, tab)
  IN  IF \E id \in own : IsActive(jobs[id]) THEN "running"
      ELSE IF \E id \in own : jobs[id].status = "error" THEN "error" ELSE "none"

\* What Mod+. cancels: the oldest job of the active tab, else the oldest job.
PickCancellable(jobs, tab) ==
  LET own == ActiveJobs(jobs) \cap JobsOfTab(jobs, tab)
  IN  {id \in ActiveJobs(jobs) : id = Min(IF own # {} THEN own ELSE ActiveJobs(jobs))}
=============================================================================
