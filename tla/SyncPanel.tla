------------------------------ MODULE SyncPanel -----------------------------
(***************************************************************************)
(* The sync dialog over the compare panel                                  *)
(* (renderer/components/diff/SyncPanel.tsx, sync-request.ts): choosing     *)
(* tables and what to copy, previewing a plan, confirming and executing    *)
(* it, cancelling, and what the dialog and the job store say of it.        *)
(*                                                                         *)
(* The dialog is mounted by OpenSync and goes with the compare panel's     *)
(* results; its requests go on without it.                                 *)
(***************************************************************************)
EXTENDS Compare

CONSTANTS Strategies,  \* of skip, overwrite-structure, append-data, truncate-and-import
          CrossEngine, \* source and target are of different engines
          MaxPreviews, \* bound on plans asked for
          MaxSyncs,    \* bound on executions
          MaxChoices   \* bound on changes to the request

VARIABLES
  dialog,    \* the state of the mounted dialog, or None
  previews,  \* requests for a plan; live while previewRunRef is theirs
  syncs,     \* executions: job -> the request and what became of it
  asked,     \* plans asked for so far
  choices    \* changes to the request so far

syncVars == <<dialog, previews, syncs, asked, choices>>
vars == <<compareVars, syncVars>>

\* last is history: the job of the dialog's latest execution.
Candidates(es) == Listed({t \in TableDiffs(es) : es[t].schema # "only-in-target"})
FreshDialog(es) ==
  [tables |-> Candidates(es), structure |-> ~CrossEngine, data |-> CrossEngine,
   strategy |-> "skip", preview |-> None, previewing |-> FALSE, confirming |-> None,
   outcome |-> None, running |-> None, last |-> None]

\* buildReq: the compared databases, never those of the form.
BuildReq(d) ==
  [form |-> context.form, tables |-> d.tables, structure |-> d.structure, data |-> d.data,
   strategy |-> d.strategy]
Plan(d) == IF d.preview # None /\ d.preview.req = BuildReq(d) THEN d.preview ELSE None
ValidRequest(d) ==
  /\ d.tables # <<>> /\ (d.structure \/ d.data)
  /\ context.form.source # context.form.target
\* DiffPanel.tsx mounts the dialog over the results it is about.
Mounted == showSync /\ HasDiff

\* What the dialog lets the user do.
MayChoose(d) == d.running = None
MayPreview(d) == d.running = None /\ ~d.previewing /\ ValidRequest(d)
MayExecute(d) == d.running = None /\ ~d.previewing /\ Plan(d) # None /\ ValidRequest(d)
MayClose(d) == d.running = None /\ d.confirming = None
CancelHint(d) == d.running # None \/ d.outcome = "cancelled"
Destructive(d) == d.strategy \in {"overwrite-structure", "truncate-and-import"}

-----------------------------------------------------------------------------
SyncInit == dialog = None /\ previews = {} /\ syncs = [id \in {} |-> 0] /\ asked = 0 /\ choices = 0
Init == CompareInit /\ SyncInit

Void(ps) == {[p EXCEPT !.live = FALSE] : p \in ps}

\* New results fill the dialog's request in again, and void what was previewed; the
\* strategy stays.  A request that thereby changes also stops a preview on its way.
Refill(d) ==
  LET filled == [FreshDialog(entries') EXCEPT !.strategy = d.strategy, !.running = d.running, !.last = d.last,
                   !.previewing = d.previewing, !.confirming = d.confirming]
  IN  IF BuildReq(filled) = BuildReq(d) THEN filled
      ELSE [filled EXCEPT !.previewing = FALSE, !.confirming = None]

\* The dialog while the panel below it changes; results that are set again, though
\* they be the same, fill it in again.
Follow(redrawn) ==
  /\ UNCHANGED <<syncs, asked, choices>>
  /\ IF ~Mounted'
     THEN dialog' = None /\ previews' = Void(previews)
     ELSE IF ~Mounted
     THEN dialog' = FreshDialog(entries') /\ UNCHANGED previews
     ELSE IF ~redrawn THEN UNCHANGED <<dialog, previews>>
     ELSE /\ dialog' = Refill(dialog)
          /\ previews' = IF BuildReq(dialog') = BuildReq(dialog) THEN previews ELSE Void(previews)

-----------------------------------------------------------------------------
\* Any change to the request voids the preview, the plan and the open question.
Choose(d) ==
  /\ Mounted /\ MayChoose(dialog) /\ dialog.confirming = None /\ choices < MaxChoices
  /\ d # dialog
  /\ dialog' = [d EXCEPT !.preview = None, !.previewing = FALSE]
  /\ previews' = Void(previews) /\ choices' = choices + 1
  /\ UNCHANGED <<compareVars, syncs, asked>>

Toggle(t) ==
  /\ t \in ToSet(Candidates(entries))
  /\ Choose([dialog EXCEPT !.tables = IF t \in ToSet(@) THEN SelectSeq(@, LAMBDA x : x # t)
                                     ELSE Append(@, t)])
SetStructure == ~CrossEngine /\ Choose([dialog EXCEPT !.structure = ~@])
SetData == Choose([dialog EXCEPT !.data = ~@])
SetStrategy(s) ==
  /\ ~(CrossEngine /\ s = "overwrite-structure")
  /\ Choose([dialog EXCEPT !.strategy = s])

Preview ==
  /\ Mounted /\ MayPreview(dialog) /\ dialog.confirming = None /\ asked < MaxPreviews
  /\ asked' = asked + 1
  /\ dialog' = [dialog EXCEPT !.preview = None, !.previewing = TRUE]
  /\ previews' = Void(previews) \cup {[id |-> asked + 1, req |-> BuildReq(dialog), live |-> TRUE]}
  /\ UNCHANGED <<compareVars, syncs, choices>>

PreviewedTooLate(p, ok) ==
  /\ p \in previews /\ previews' = previews \ {p}
  /\ dialog' = IF ~Mounted THEN dialog
               ELSE [dialog EXCEPT !.previewing = FALSE,
                       !.preview = IF ok THEN [id |-> p.id, req |-> p.req] ELSE @]
  /\ UNCHANGED <<compareVars, syncs, asked, choices>>

\* A plan that arrives late, or for a request that has changed, is dropped.
Previewed(p, ok) ==
  /\ p \in previews /\ previews' = previews \ {p}
  /\ dialog' = IF ~Mounted \/ ~p.live THEN dialog
               ELSE [dialog EXCEPT !.previewing = FALSE,
                       !.preview = IF ok /\ p.req = BuildReq(dialog)
                                   THEN [id |-> p.id, req |-> p.req] ELSE @]
  /\ UNCHANGED <<compareVars, syncs, asked, choices>>

\* The button asks first; confirming holds the plan the question was asked about.
AskToExecute ==
  /\ Mounted /\ MayExecute(dialog) /\ dialog.confirming = None
  /\ dialog' = [dialog EXCEPT !.confirming = dialog.preview.id]
  /\ UNCHANGED <<compareVars, previews, syncs, asked, choices>>
Dismiss ==
  /\ Mounted /\ dialog.confirming # None
  /\ dialog' = [dialog EXCEPT !.confirming = None]
  /\ UNCHANGED <<compareVars, previews, syncs, asked, choices>>

\* executeSync; without a plan for the request it only complains.
CanStart(d) == d.running = None /\ Plan(d) # None /\ ValidRequest(d)
Confirm ==
  /\ Mounted /\ dialog.confirming # None
  /\ IF CanStart(dialog)
     THEN /\ Cardinality(DOMAIN syncs) < MaxSyncs
          /\ seq' = seq + 1 /\ jobs' = StartJob(jobs, seq + 1, "sync", "diff")
          /\ syncs' = [id \in DOMAIN syncs \cup {seq + 1} |->
                          IF id = seq + 1
                          THEN [req |-> dialog.preview.req, plan |-> dialog.preview.id,
                                cancelled |-> FALSE, over |-> FALSE]
                          ELSE syncs[id]]
          /\ dialog' = [dialog EXCEPT !.running = seq + 1, !.last = seq + 1, !.confirming = None,
                                    !.outcome = None]
     ELSE dialog' = [dialog EXCEPT !.confirming = None] /\ UNCHANGED <<seq, jobs, syncs>>
  /\ UNCHANGED <<formVars, prefs, browse, resultVars, runVars, job, mountedAt,
                 previews, asked, choices>>

Owns(id) == Mounted /\ dialog.running = id
CancelSync(id) ==
  /\ MayCancel(jobs, id) /\ jobs[id].kind = "sync"
  /\ jobs' = CancelJob(jobs, id)
  /\ syncs' = [syncs EXCEPT ![id].cancelled = TRUE]
  /\ dialog' = IF Owns(id) THEN [dialog EXCEPT !.outcome = "cancelled"] ELSE dialog
  /\ UNCHANGED <<formVars, prefs, browse, resultVars, runVars, seq, job, mountedAt,
                 previews, asked, choices>>

\* What the job ends with: an execution that failed altogether ends in error, too.
StatusOf(outcome) == IF outcome = "failed" THEN "error" ELSE outcome
ExecutedAllTheSame(id, outcome) ==
  /\ id \in DOMAIN syncs /\ ~syncs[id].over
  /\ syncs' = [syncs EXCEPT ![id].over = TRUE]
  /\ jobs' = FinishJob(jobs, id, StatusOf(outcome))
  /\ dialog' = IF ~Owns(id) THEN dialog
               ELSE [dialog EXCEPT !.running = None, !.preview = None,
                       !.outcome = IF syncs[id].cancelled THEN @ ELSE StatusOf(outcome)]
  /\ UNCHANGED <<formVars, prefs, browse, resultVars, runVars, seq, job, mountedAt,
                 previews, asked, choices>>

\* The answer to the execution: done, done with errors, or failed.  After a
\* cancellation it is ignored, but a failure is put down to the cancellation.
Executed(id, outcome) ==
  /\ id \in DOMAIN syncs /\ ~syncs[id].over
  /\ syncs' = [syncs EXCEPT ![id].over = TRUE]
  /\ jobs' = IF syncs[id].cancelled THEN jobs ELSE FinishJob(jobs, id, StatusOf(outcome))
  /\ dialog' = IF ~Owns(id) THEN dialog
               ELSE [dialog EXCEPT !.running = None, !.preview = None,
                       !.outcome = IF ~syncs[id].cancelled THEN StatusOf(outcome)
                                   ELSE IF outcome = "failed" THEN "cancelled" ELSE @]
  /\ UNCHANGED <<formVars, prefs, browse, resultVars, runVars, seq, job, mountedAt,
                 previews, asked, choices>>

CloseDialog ==
  /\ Mounted /\ MayClose(dialog)
  /\ showSync' = FALSE /\ dialog' = None /\ previews' = Void(previews)
  /\ UNCHANGED <<formVars, prefs, browse, phase, context, tables, entries, runVars, jobVars,
                 syncs, asked, choices>>

\* "Clear finished" of the status bar.
ClearFinishedJobs ==
  /\ jobs' = ClearFinished(jobs) /\ jobs' # jobs
  /\ UNCHANGED <<formVars, prefs, browse, resultVars, runVars, seq, job, mountedAt, syncVars>>

\* The dialog is modal; Mod+R, Mod+W and the status bar's cancel work all the same,
\* and answers and events arrive.
BelowTheDialog ==
  \/ RunAnswers /\ Follow(entries' # entries)
  \/ RetryAnswers /\ Follow(\E r \in retries \ retries' : ~Late(r.run))
  \/ RunCompare /\ Follow(TRUE)
  \/ CloseTab /\ Follow(TRUE)
  \/ (\E id \in DOMAIN jobs : CancelCompareJob(id)) /\ Follow(FALSE)
  \/ \E t \in Names, at \in Endpoints : TableDropped(at, t) /\ Follow(SidesAt(at) # {})
  \/ ~Mounted /\ ((\E t \in Names : RetryTable(t)) \/ SwapEndpoints \/ ConnectionsReady)
     /\ Follow(FALSE)
  \/ OpenSync /\ Follow(FALSE)

\* What goes on in the form and in the tabs of the results, which the run of this
\* module leaves to DiffScreen's: users are kept from it by the dialog.
BesideTheDialog ==
  \/ ~Mounted /\ (FormActions \/ BrowseActions) /\ Follow(FALSE)
  \/ ConnectionsReady /\ Follow(FALSE)
  \/ (\E q \in fetches, ok \in BOOLEAN : DatabasesListed(q, ok)) /\ Follow(FALSE)
  \/ (\E c \in Connections, d \in Databases : Prefill(c, d)) /\ Follow(FALSE)

DialogActions ==
  \/ \E t \in Names : Toggle(t)
  \/ SetStructure \/ SetData
  \/ \E s \in Strategies : SetStrategy(s)
  \/ Preview
  \/ \E p \in previews, ok \in BOOLEAN : Previewed(p, ok)
  \/ AskToExecute \/ Dismiss \/ Confirm
  \/ \E id \in DOMAIN jobs : CancelSync(id)
  \/ \E id \in DOMAIN syncs, o \in {"done", "error", "failed"} : Executed(id, o)
  \/ CloseDialog
  \/ ClearFinishedJobs

DialogNext == BelowTheDialog \/ DialogActions
DialogSpec == Init /\ [][DialogNext]_vars
Next == DialogNext \/ BesideTheDialog
Spec == Init /\ [][Next]_vars

-----------------------------------------------------------------------------
(* Properties                                                              *)

\* An execution runs the plan that was on the screen when the question was asked,
\* for the request the form shows when it is confirmed (SyncPanel.tsx:161, 171).
RunsWhatWasConfirmed ==
  [][\A id \in DOMAIN syncs' \ DOMAIN syncs :
       /\ syncs'[id].plan = dialog.confirming
       /\ syncs'[id].req = BuildReq(dialog)]_vars

\* A job that was cancelled stays cancelled, though its work may still end well and
\* finish overwrites any state (job-store.ts:104).
CancelledStaysCancelled ==
  [][\A id \in DOMAIN jobs \cap DOMAIN jobs' :
       jobs[id].status = "cancelled" => jobs'[id].status = "cancelled"]_vars

\* What the dialog says of its execution is what the status bar says of the job.
OutcomeAgreesWithJob ==
  Mounted /\ dialog.outcome # None /\ dialog.last \in DOMAIN jobs
    => dialog.outcome = jobs[dialog.last].status
=============================================================================
