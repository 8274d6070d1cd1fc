----------------------------- MODULE Operations -----------------------------
(***************************************************************************)
(* The registry of cancellable operations (src-tauri/src/operations.rs).   *)
(*                                                                         *)
(* A renderer call names its operation with an id.  `run` registers the id *)
(* under the registry lock, checks the cancellation token, and then polls  *)
(* the command's future in a biased select! that looks at the token first; *)
(* a guard takes the id out of the registry when the call ends.  `cancel`  *)
(* may come before, during or after the run: before, it leaves a tombstone *)
(* for 60 seconds that the run adopts.  A future may hand work to a        *)
(* blocking thread, which outlives the future when that is dropped and     *)
(* only stops at its own check() of the same token.                        *)
(*                                                                         *)
(* One started entry holds one token, so the token is named by its call.   *)
(***************************************************************************)
EXTENDS Naturals, FiniteSets

CONSTANTS Ids,        \* operation ids
          Calls,      \* invocations of run, each made once
          Cap,        \* registry capacity (256 in the code)
          MaxLate     \* bound on the work units counted after a cancel

ASSUME CapAssumption == Cap \in Nat \ {0}
ASSUME BoundAssumption == MaxLate \in Nat
ASSUME IdsAssumption == IsFiniteSet(Ids)
ASSUME CallsAssumption == {"absent", "tombstone", "expired"} \cap Calls = {}

VARIABLES
  slot,       \* the registry: for each id "absent", a tombstone, or its call
  id,         \* the id a call registered under
  pc,         \* where a call of run stands
  worker,     \* the blocking thread a call's future started
  cancelled,  \* calls whose token is set
  early,      \* history: calls cancelled before their future was first polled
  worked,     \* history: calls that have done some work
  late        \* history: units of work done after the token was set

vars == <<slot, id, pc, worker, cancelled, early, worked, late>>
registry == <<slot, id>>
history == <<early, worked, late>>

Tombstones == {"tombstone", "expired"}
Registered == {"registered", "waiting", "polling", "returning"}
Stages == {"idle", "returned", "refused"} \cup Registered
Workers == {"none", "queued", "checked", "done"}

TypeOK ==
  /\ slot \in [Ids -> Calls \cup {"absent"} \cup Tombstones]
  /\ id \in [Calls -> Ids]
  /\ pc \in [Calls -> Stages]
  /\ worker \in [Calls -> Workers]
  /\ cancelled \subseteq Calls
  /\ early \subseteq Calls
  /\ worked \subseteq Calls
  /\ late \in [Calls -> Nat]

Init ==
  /\ slot = [i \in Ids |-> "absent"]
  /\ id \in [Calls -> Ids]
  /\ pc = [c \in Calls |-> "idle"]
  /\ worker = [c \in Calls |-> "none"]
  /\ cancelled = {}
  /\ early = {}
  /\ worked = {}
  /\ late = [c \in Calls |-> 0]

-----------------------------------------------------------------------------
(* The registry. *)

\* entries.retain: tombstones older than 60 seconds go on every access.
Retained ==
  [i \in Ids |-> IF slot[i] = "expired" THEN "absent" ELSE slot[i]]

Occupied(s) == {i \in Ids : s[i] # "absent"}

FullOffByOne(s) == Cardinality(Occupied(s)) > Cap
Full(s) == Cardinality(Occupied(s)) >= Cap

\* A minute passes for a tombstone nobody has picked up.
TombstoneExpires(i) ==
  /\ slot[i] = "tombstone"
  /\ slot' = [slot EXCEPT ![i] = "expired"]
  /\ UNCHANGED <<id, pc, worker, cancelled, history>>

\* cancel on an id that is running sets the running call's token.
CancelRunning(i) ==
  /\ Retained[i] \in Calls
  /\ slot' = Retained
  /\ cancelled' = cancelled \cup {Retained[i]}
  /\ early' = IF pc[Retained[i]] = "registered"
              THEN early \cup {Retained[i]} ELSE early
  /\ UNCHANGED <<id, pc, worker, worked, late>>

\* cancel on a tombstone sets a set token; its age is not renewed.
CancelAgain(i) ==
  /\ Retained[i] = "tombstone"
  /\ slot' = Retained
  /\ UNCHANGED <<id, pc, worker, cancelled, history>>

\* cancel on an unknown id leaves a tombstone, unless the registry is full.
CancelUnknown(i) ==
  /\ Retained[i] = "absent"
  /\ slot' = IF Full(Retained) THEN Retained
             ELSE [Retained EXCEPT ![i] = "tombstone"]
  /\ UNCHANGED <<id, pc, worker, cancelled, history>>

Cancel(i) == CancelRunning(i) \/ CancelAgain(i) \/ CancelUnknown(i)

\* run accepts an id that has no started entry; an unknown one needs room.
MayTake(c) ==
  \/ Retained[id[c]] = "tombstone"
  \/ Retained[id[c]] = "absent" /\ ~Full(Retained)

RefuseWithCleanup(c) ==
  /\ pc[c] = "idle"
  /\ ~MayTake(c)
  /\ slot' = [Retained EXCEPT ![id[c]] = "absent"]
  /\ pc' = [pc EXCEPT ![c] = "refused"]
  /\ UNCHANGED <<id, worker, cancelled, history>>

\* run: "already active" or "Too many operations".
Refuse(c) ==
  /\ pc[c] = "idle"
  /\ ~MayTake(c)
  /\ slot' = Retained
  /\ pc' = [pc EXCEPT ![c] = "refused"]
  /\ UNCHANGED <<id, worker, cancelled, history>>

TakeFreshToken(c) == UNCHANGED cancelled

\* The started entry keeps the token of the tombstone it takes over.
TakeToken(c) ==
  cancelled' = IF Retained[id[c]] = "tombstone"
               THEN cancelled \cup {c} ELSE cancelled

\* run: enter the registry under the call's id.
Register(c) ==
  /\ pc[c] = "idle"
  /\ MayTake(c)
  /\ slot' = [Retained EXCEPT ![id[c]] = c]
  /\ pc' = [pc EXCEPT ![c] = "registered"]
  /\ TakeToken(c)
  /\ early' = IF Retained[id[c]] = "tombstone" THEN early \cup {c} ELSE early
  /\ UNCHANGED <<id, worker, worked, late>>

-----------------------------------------------------------------------------
(* The run of one call. *)

\* cancellation.check()? before the future is ever polled.
CheckBeforeRun(c) ==
  /\ pc[c] = "registered"
  /\ pc' = [pc EXCEPT ![c] = IF c \in cancelled THEN "returning" ELSE "waiting"]
  /\ UNCHANGED <<registry, worker, cancelled, history>>

SelectFutureFirst(c) ==
  /\ pc[c] = "waiting"
  /\ pc' = [pc EXCEPT ![c] = "polling"]
  /\ UNCHANGED <<registry, worker, cancelled, history>>

\* select! { biased; ... }: the token is looked at before the future.
Select(c) ==
  /\ pc[c] = "waiting"
  /\ pc' = [pc EXCEPT ![c] = IF c \in cancelled THEN "returning" ELSE "polling"]
  /\ UNCHANGED <<registry, worker, cancelled, history>>

\* One unit of work, whichever thread does it.
DoWork(c) ==
  /\ late[c] < MaxLate
  /\ worked' = worked \cup {c}
  /\ late' = [late EXCEPT ![c] = IF c \in cancelled THEN @ + 1 ELSE @]

\* The poll does some work, or waits for I/O, and yields to the select.
PollPending(c) ==
  /\ pc[c] = "polling"
  /\ pc' = [pc EXCEPT ![c] = "waiting"]
  /\ DoWork(c) \/ UNCHANGED <<worked, late>>
  /\ UNCHANGED <<registry, worker, cancelled, early>>

\* The poll hands a job to a blocking thread, with the current token.
PollSpawns(c) ==
  /\ pc[c] = "polling"
  /\ worker[c] = "none"
  /\ worker' = [worker EXCEPT ![c] = "queued"]
  /\ pc' = [pc EXCEPT ![c] = "waiting"]
  /\ UNCHANGED <<registry, cancelled, history>>

\* The future is ready: its blocking thread, if any, has answered.
PollReady(c) ==
  /\ pc[c] = "polling"
  /\ worker[c] \in {"none", "done"}
  /\ pc' = [pc EXCEPT ![c] = "returning"]
  /\ UNCHANGED <<registry, worker, cancelled, history>>

ReturnWithoutCleanup(c) ==
  /\ pc[c] = "returning"
  /\ pc' = [pc EXCEPT ![c] = "returned"]
  /\ UNCHANGED <<registry, worker, cancelled, history>>

\* Cleanup::drop removes whatever the registry holds under the call's id.
Return(c) ==
  /\ pc[c] = "returning"
  /\ slot' = [slot EXCEPT ![id[c]] = "absent"]
  /\ pc' = [pc EXCEPT ![c] = "returned"]
  /\ UNCHANGED <<id, worker, cancelled, history>>

-----------------------------------------------------------------------------
(* The blocking thread, running under with_cancellation. *)

WorkerWithoutToken(c) ==
  /\ worker[c] = "queued"
  /\ worker' = [worker EXCEPT ![c] = "checked"]
  /\ UNCHANGED <<registry, pc, cancelled, history>>

\* operations::check() at the head of each of its steps.
WorkerCheck(c) ==
  /\ worker[c] = "queued"
  /\ worker' = [worker EXCEPT ![c] = IF c \in cancelled THEN "done" ELSE "checked"]
  /\ UNCHANGED <<registry, pc, cancelled, history>>

\* A step of the job, which may only read, and may be the last.
WorkerStep(c) ==
  /\ worker[c] = "checked"
  /\ DoWork(c) \/ UNCHANGED <<worked, late>>
  /\ \E w \in {"queued", "done"} : worker' = [worker EXCEPT ![c] = w]
  /\ UNCHANGED <<registry, pc, cancelled, early>>

-----------------------------------------------------------------------------
Run(c) ==
  \/ CheckBeforeRun(c) \/ Select(c)
  \/ PollPending(c) \/ PollSpawns(c) \/ PollReady(c)
  \/ Return(c)
Work(c) == WorkerCheck(c) \/ WorkerStep(c)

Next ==
  \/ \E i \in Ids : Cancel(i) \/ TombstoneExpires(i)
  \/ \E c \in Calls : Register(c) \/ Refuse(c) \/ Run(c) \/ Work(c)

Spec == Init /\ [][Next]_vars

\* The async runtime polls woken tasks and the blocking pool runs its threads.
\* Nobody is obliged to call, to cancel, or to let a minute pass.
Fairness == \A c \in Calls : WF_vars(Run(c)) /\ WF_vars(Work(c))
FairSpec == Spec /\ Fairness

-----------------------------------------------------------------------------
(* Properties. *)

\* The registry and the running calls agree: a call that has registered and not
\* returned is the one its id names, so a cancel of that id reaches it and no
\* other, and its Cleanup removes nobody else's entry.
RegistryNamesRunningCalls ==
  \A c \in Calls : pc[c] \in Registered <=> \E i \in Ids : slot[i] = c /\ id[c] = i

\* Tombstones of cancels that came early or late and running calls together
\* never exceed the registry's capacity.
RegistryBounded == Cardinality(Occupied(slot)) <= Cap

\* A cancel that wins the race against the first poll, whether it came before
\* run was called or between its registration and its check, means the command
\* does nothing at all, neither on the task nor on a blocking thread.
CancelledEarlyDoesNothing ==
  \A c \in early : c \notin worked /\ worker[c] = "none"

\* After a cancel, what is still done is what was under way: at most the rest of
\* one poll and one step of the blocking thread.
LateWorkIsBounded == \A c \in Calls : late[c] <= 2

\* A cancelled call does return and frees its id, and its blocking thread stops
\* even though nobody waits for it any more.
CancelledCallEnds ==
  \A c \in Calls :
    c \in cancelled ~> pc[c] = "returned" /\ worker[c] \in {"none", "done"}

\* The registry is a lease on ids: see OperationLease.
Nobody == "absent"
Stage(c) == CASE pc[c] = "idle" -> "new"
              [] pc[c] \in Registered -> "holding"
              [] OTHER -> "done"
Holder(i) == IF slot[i] \in Calls THEN slot[i] ELSE Nobody
Lease == INSTANCE OperationLease WITH
           holder <- [i \in Ids |-> Holder(i)],
           stage <- [c \in Calls |-> Stage(c)]

\* Acquiring and releasing an id refine the lease: an id passes from one call to
\* the next only through its holder's own return.
ImplementsLease == Lease!LeaseSpec
=============================================================================
