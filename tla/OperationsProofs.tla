-------------------------- MODULE OperationsProofs --------------------------
(***************************************************************************)
(* Theorems of the operation registry, for any number of ids and calls and *)
(* any capacity, and of the commands that write files, for any requests.   *)
(***************************************************************************)
EXTENDS Operations, FileWrites, FiniteSetTheorems, TLAPS

LEMMA RetainedType ==
  ASSUME TypeOK
  PROVE  /\ Retained \in [Ids -> Calls \cup {"absent"} \cup Tombstones]
         /\ \A i \in Ids : Retained[i] \in Calls <=> slot[i] \in Calls
         /\ \A i \in Ids : slot[i] \in Calls => Retained[i] = slot[i]
  BY CallsAssumption DEF TypeOK, Retained, Tombstones

\* The registry holds ids, tokens name calls, and every stage is one of the code's.
THEOREM TypeCorrect == Spec => []TypeOK
<1>1. Init => TypeOK
  BY DEF Init, TypeOK, Stages, Workers
<1>2. TypeOK /\ [Next]_vars => TypeOK'
  <2> SUFFICES ASSUME TypeOK, [Next]_vars PROVE TypeOK'
    OBVIOUS
  <2> USE RetainedType DEF TypeOK, history, registry
  <2>1. ASSUME NEW i \in Ids, Cancel(i) PROVE TypeOK'
    BY <2>1 DEF Cancel, CancelRunning, CancelAgain, CancelUnknown, Tombstones
  <2>2. ASSUME NEW i \in Ids, TombstoneExpires(i) PROVE TypeOK'
    BY <2>2 DEF TombstoneExpires, Tombstones
  <2>3. ASSUME NEW c \in Calls, Register(c) PROVE TypeOK'
    BY <2>3 DEF Register, TakeToken, Stages, Registered
  <2>4. ASSUME NEW c \in Calls, Refuse(c) PROVE TypeOK'
    BY <2>4 DEF Refuse, Stages
  <2>5. ASSUME NEW c \in Calls, Run(c) PROVE TypeOK'
    BY <2>5 DEF Run, CheckBeforeRun, Select, PollPending, PollSpawns,
                PollReady, Return, DoWork, Stages, Registered, Workers
  <2>6. ASSUME NEW c \in Calls, Work(c) PROVE TypeOK'
    BY <2>6 DEF Work, WorkerCheck, WorkerStep, DoWork, Workers
  <2>7. CASE UNCHANGED vars
    BY <2>7 DEF vars
  <2>8. QED
    BY <2>1, <2>2, <2>3, <2>4, <2>5, <2>6, <2>7 DEF Next
<1>3. QED
  BY <1>1, <1>2, PTL DEF Spec

-----------------------------------------------------------------------------
(* The registry and the running calls.                                      *)

\* A call in the registry is the one its id names: every cancel of a running
\* operation's id reaches that operation, whatever ran under the id before.
THEOREM RegistryAgrees == Spec => []RegistryNamesRunningCalls
<1>1. Init => RegistryNamesRunningCalls
  BY CallsAssumption DEF Init, RegistryNamesRunningCalls, Registered
<1>2. TypeOK /\ RegistryNamesRunningCalls /\ [Next]_vars
        => RegistryNamesRunningCalls'
  <2> SUFFICES ASSUME TypeOK, RegistryNamesRunningCalls, [Next]_vars
               PROVE  RegistryNamesRunningCalls'
    OBVIOUS
  <2> USE RetainedType, CallsAssumption
      DEF TypeOK, RegistryNamesRunningCalls, history, registry, Registered,
          Tombstones
  <2>1. ASSUME NEW i \in Ids, Cancel(i) PROVE RegistryNamesRunningCalls'
    BY <2>1 DEF Cancel, CancelRunning, CancelAgain, CancelUnknown
  <2>2. ASSUME NEW i \in Ids, TombstoneExpires(i)
        PROVE  RegistryNamesRunningCalls'
    BY <2>2 DEF TombstoneExpires
  <2>3. ASSUME NEW c \in Calls, Register(c) PROVE RegistryNamesRunningCalls'
    BY <2>3 DEF Register, MayTake
  <2>4. ASSUME NEW c \in Calls, Refuse(c) PROVE RegistryNamesRunningCalls'
    BY <2>4 DEF Refuse
  <2>5. ASSUME NEW c \in Calls, Run(c) PROVE RegistryNamesRunningCalls'
    <3>1. CASE Return(c)
      BY <3>1 DEF Return
    <3>2. CASE ~Return(c)
      BY <2>5, <3>2 DEF Run, CheckBeforeRun, Select, PollPending, PollSpawns,
                        PollReady
    <3>3. QED
      BY <3>1, <3>2
  <2>6. ASSUME NEW c \in Calls, Work(c) PROVE RegistryNamesRunningCalls'
    BY <2>6 DEF Work, WorkerCheck, WorkerStep
  <2>7. CASE UNCHANGED vars
    BY <2>7 DEF vars
  <2>8. QED
    BY <2>1, <2>2, <2>3, <2>4, <2>5, <2>6, <2>7 DEF Next
<1>3. QED
  BY <1>1, <1>2, TypeCorrect, PTL DEF Spec

-----------------------------------------------------------------------------
(* The capacity. *)

LEMMA OccupiedFinite ==
  ASSUME NEW s
  PROVE  IsFiniteSet(Occupied(s)) /\ Cardinality(Occupied(s)) \in Nat
<1>1. Occupied(s) \subseteq Ids
  BY DEF Occupied
<1>2. QED
  BY <1>1, IdsAssumption, FS_Subset, FS_CardinalityType

WithinCap(s) == Cardinality(Occupied(s)) <= Cap

LEMMA FewerEntries ==
  ASSUME NEW s, NEW t, WithinCap(s), Occupied(t) \subseteq Occupied(s)
  PROVE  WithinCap(t)
<1>1. Cardinality(Occupied(t)) <= Cardinality(Occupied(s))
  BY OccupiedFinite, FS_Subset
<1>2. QED
  BY <1>1, OccupiedFinite, CapAssumption DEF WithinCap

LEMMA OneMoreEntry ==
  ASSUME TypeOK, NEW i \in Ids, NEW v, ~Full(Retained), WithinCap(Retained)
  PROVE  WithinCap([Retained EXCEPT ![i] = v])
<1> DEFINE T == Occupied(Retained) \cup {i}
<1>1. Occupied([Retained EXCEPT ![i] = v]) \subseteq T
  BY RetainedType DEF Occupied
<1>2. IsFiniteSet(T) /\ Cardinality(T) <= Cardinality(Occupied(Retained)) + 1
  BY OccupiedFinite, FS_AddElement
<1>3. Cardinality(Occupied([Retained EXCEPT ![i] = v])) <= Cardinality(T)
  BY <1>1, <1>2, FS_Subset
<1>4. Cardinality(T) \in Nat
  BY <1>2, FS_CardinalityType
<1>5. QED
  BY <1>2, <1>3, <1>4, OccupiedFinite, CapAssumption DEF Full, WithinCap

\* Running calls and tombstones together stay within the registry's capacity.
THEOREM CapacityHolds == Spec => []RegistryBounded
<1>1. Init => RegistryBounded
  <2> SUFFICES ASSUME Init PROVE RegistryBounded
    OBVIOUS
  <2>1. Occupied(slot) = {}
    BY DEF Init, Occupied
  <2>2. QED
    BY <2>1, FS_EmptySet, CapAssumption DEF RegistryBounded
<1>2. TypeOK /\ RegistryBounded /\ [Next]_vars => RegistryBounded'
  <2> SUFFICES ASSUME TypeOK, RegistryBounded, [Next]_vars
               PROVE  WithinCap(slot')
    BY DEF RegistryBounded, WithinCap, Occupied
  <2>1. WithinCap(slot)
    BY DEF RegistryBounded, WithinCap
  <2>2. WithinCap(Retained)
    <3>1. Occupied(Retained) \subseteq Occupied(slot)
      BY DEF Occupied, Retained
    <3>2. QED
      BY <3>1, <2>1, FewerEntries
  <2>3. ASSUME NEW i \in Ids, NEW v, ~Full(Retained)
        PROVE  WithinCap([Retained EXCEPT ![i] = v])
    BY <2>2, <2>3, OneMoreEntry
  <2>4. ASSUME NEW i \in Ids, NEW v, slot[i] # "absent"
        PROVE  WithinCap([slot EXCEPT ![i] = v])
    <3>1. Occupied([slot EXCEPT ![i] = v]) \subseteq Occupied(slot)
      BY <2>4 DEF Occupied, TypeOK
    <3>2. QED
      BY <3>1, <2>1, FewerEntries
  <2>5. ASSUME NEW i \in Ids, NEW v, Retained[i] # "absent"
        PROVE  WithinCap([Retained EXCEPT ![i] = v])
    <3>1. Occupied([Retained EXCEPT ![i] = v]) \subseteq Occupied(Retained)
      BY <2>5, RetainedType DEF Occupied
    <3>2. QED
      BY <3>1, <2>2, FewerEntries
  <2>6. ASSUME NEW i \in Ids PROVE WithinCap([slot EXCEPT ![i] = "absent"])
    <3>1. Occupied([slot EXCEPT ![i] = "absent"]) \subseteq Occupied(slot)
      BY DEF Occupied, TypeOK
    <3>2. QED
      BY <3>1, <2>1, FewerEntries
  <2>7. ASSUME NEW i \in Ids, Cancel(i) PROVE WithinCap(slot')
    BY <2>7, <2>2, <2>3 DEF Cancel, CancelRunning, CancelAgain, CancelUnknown
  <2>8. ASSUME NEW i \in Ids, TombstoneExpires(i) PROVE WithinCap(slot')
    BY <2>8, <2>4 DEF TombstoneExpires
  <2>9. ASSUME NEW c \in Calls, Register(c) PROVE WithinCap(slot')
    <3>1. id[c] \in Ids
      BY DEF TypeOK
    <3>2. QED
      BY <2>9, <2>3, <2>5, <3>1 DEF Register, MayTake
  <2>10. ASSUME NEW c \in Calls, Refuse(c) PROVE WithinCap(slot')
    BY <2>10, <2>2 DEF Refuse
  <2>11. ASSUME NEW c \in Calls, Run(c) PROVE WithinCap(slot')
    <3>1. id[c] \in Ids
      BY DEF TypeOK
    <3>2. QED
      BY <2>11, <2>1, <2>6, <3>1 DEF Run, CheckBeforeRun, Select, PollPending,
                PollSpawns, PollReady, Return, registry
  <2>12. ASSUME NEW c \in Calls, Work(c) PROVE WithinCap(slot')
    BY <2>12, <2>1 DEF Work, WorkerCheck, WorkerStep, registry
  <2>13. CASE UNCHANGED vars
    BY <2>13, <2>1 DEF vars
  <2>14. QED
    BY <2>7, <2>8, <2>9, <2>10, <2>11, <2>12, <2>13 DEF Next
<1>3. QED
  BY <1>1, <1>2, TypeCorrect, PTL DEF Spec

-----------------------------------------------------------------------------
(* What a cancelled call still does. *)

\* Nothing is done for a call before its first poll, and a call cancelled early
\* goes from its check straight to its return.
EarlyStaysOut ==
  \A c \in Calls :
    /\ c \in early => /\ c \in cancelled
                      /\ pc[c] \in {"registered", "returning", "returned"}
    /\ c \in early \/ pc[c] \in {"idle", "registered"} =>
         c \notin worked /\ worker[c] = "none"

\* A token set while the call was registering, or before, is never followed by
\* any work of the call.
THEOREM CancelledEarlyIsIdle == Spec => []CancelledEarlyDoesNothing
<1>1. Init => EarlyStaysOut
  BY DEF Init, EarlyStaysOut
<1>2. TypeOK /\ EarlyStaysOut /\ [Next]_vars => EarlyStaysOut'
  <2> SUFFICES ASSUME TypeOK, EarlyStaysOut, [Next]_vars
               PROVE  EarlyStaysOut'
    OBVIOUS
  <2> USE RetainedType DEF TypeOK, EarlyStaysOut, history, registry
  <2>1. ASSUME NEW i \in Ids, Cancel(i) PROVE EarlyStaysOut'
    <3>1. CASE CancelRunning(i)
      <4>1. Retained[i] \in Calls
        BY <3>1 DEF CancelRunning
      <4>2. CASE pc[Retained[i]] = "registered"
        BY <3>1, <4>1, <4>2 DEF CancelRunning
      <4>3. CASE pc[Retained[i]] # "registered"
        BY <3>1, <4>1, <4>3 DEF CancelRunning
      <4>4. QED
        BY <4>2, <4>3
    <3>2. CASE ~CancelRunning(i)
      BY <2>1, <3>2 DEF Cancel, CancelAgain, CancelUnknown
    <3>3. QED
      BY <3>1, <3>2
  <2>2. ASSUME NEW i \in Ids, TombstoneExpires(i) PROVE EarlyStaysOut'
    BY <2>2 DEF TombstoneExpires
  <2>3. ASSUME NEW c \in Calls, Register(c) PROVE EarlyStaysOut'
    BY <2>3 DEF Register, TakeToken
  <2>4. ASSUME NEW c \in Calls, Refuse(c) PROVE EarlyStaysOut'
    BY <2>4 DEF Refuse
  <2>5. ASSUME NEW c \in Calls, Run(c) PROVE EarlyStaysOut'
    BY <2>5 DEF Run, CheckBeforeRun, Select, PollPending, PollSpawns,
                PollReady, Return, DoWork
  <2>6. ASSUME NEW c \in Calls, Work(c) PROVE EarlyStaysOut'
    BY <2>6 DEF Work, WorkerCheck, WorkerStep, DoWork
  <2>7. CASE UNCHANGED vars
    BY <2>7 DEF vars
  <2>8. QED
    BY <2>1, <2>2, <2>3, <2>4, <2>5, <2>6, <2>7 DEF Next
<1>3. TypeOK /\ EarlyStaysOut => CancelledEarlyDoesNothing
  BY DEF EarlyStaysOut, CancelledEarlyDoesNothing, TypeOK
<1>4. QED
  BY <1>1, <1>2, <1>3, TypeCorrect, PTL DEF Spec

\* After its token is set a call can only finish what it is in the middle of.
LateBudget ==
  \A c \in Calls :
    /\ c \notin cancelled => late[c] = 0
    /\ late[c] <= 2
    /\ pc[c] = "polling" \/ worker[c] = "checked" => late[c] <= 1
    /\ pc[c] = "polling" /\ worker[c] = "checked" => late[c] = 0

\* At most the rest of one poll and one step of a blocking thread are done after
\* a cancel.
THEOREM LateWorkBound == Spec => []LateWorkIsBounded
<1>1. Init => LateBudget
  BY DEF Init, LateBudget
<1>2. TypeOK /\ LateBudget /\ [Next]_vars => LateBudget'
  <2> SUFFICES ASSUME TypeOK, LateBudget, [Next]_vars
               PROVE  LateBudget'
    OBVIOUS
  <2> USE RetainedType DEF TypeOK, LateBudget, history, registry
  <2>1. ASSUME NEW i \in Ids, Cancel(i) PROVE LateBudget'
    BY <2>1 DEF Cancel, CancelRunning, CancelAgain, CancelUnknown
  <2>2. ASSUME NEW i \in Ids, TombstoneExpires(i) PROVE LateBudget'
    BY <2>2 DEF TombstoneExpires
  <2>3. ASSUME NEW c \in Calls, Register(c) PROVE LateBudget'
    BY <2>3 DEF Register, TakeToken
  <2>4. ASSUME NEW c \in Calls, Refuse(c) PROVE LateBudget'
    BY <2>4 DEF Refuse
  <2>5. ASSUME NEW c \in Calls, Run(c) PROVE LateBudget'
    <3>1. CASE CheckBeforeRun(c) \/ Select(c)
      BY <3>1 DEF CheckBeforeRun, Select
    <3>2. CASE PollPending(c)
      BY <3>2 DEF PollPending, DoWork
    <3>3. CASE PollSpawns(c)
      BY <3>3 DEF PollSpawns
    <3>4. CASE PollReady(c) \/ Return(c)
      BY <3>4 DEF PollReady, Return
    <3>5. QED
      BY <2>5, <3>1, <3>2, <3>3, <3>4 DEF Run
  <2>6. ASSUME NEW c \in Calls, Work(c) PROVE LateBudget'
    <3>1. CASE WorkerCheck(c)
      BY <3>1 DEF WorkerCheck
    <3>2. CASE WorkerStep(c)
      BY <3>2 DEF WorkerStep, DoWork
    <3>3. QED
      BY <2>6, <3>1, <3>2 DEF Work
  <2>7. CASE UNCHANGED vars
    BY <2>7 DEF vars
  <2>8. QED
    BY <2>1, <2>2, <2>3, <2>4, <2>5, <2>6, <2>7 DEF Next
<1>3. LateBudget => LateWorkIsBounded
  BY DEF LateBudget, LateWorkIsBounded
<1>4. QED
  BY <1>1, <1>2, <1>3, TypeCorrect, PTL DEF Spec

-----------------------------------------------------------------------------
(* The registry implements the lease. *)

\* Every step of the registry takes, refuses or gives back an id as the lease
\* allows, or leaves the lease alone.
THEOREM RegistryImplementsLease == Spec => ImplementsLease
<1> USE CallsAssumption
    DEF Lease!LeaseInit, Lease!LeaseNext, Lease!Acquire, Lease!Release,
        Lease!TurnedAway, Lease!leaseVars, Stage, Holder, Nobody, Registered
<1>1. Init => Lease!LeaseInit
  BY DEF Init
<1>2. TypeOK /\ RegistryNamesRunningCalls /\ [Next]_vars
        => [Lease!LeaseNext]_(Lease!leaseVars)
  <2> SUFFICES ASSUME TypeOK, RegistryNamesRunningCalls, [Next]_vars
               PROVE  [Lease!LeaseNext]_(Lease!leaseVars)
    OBVIOUS
  <2> USE RetainedType DEF TypeOK, history, registry
  <2>1. ASSUME NEW i \in Ids, Cancel(i) PROVE UNCHANGED Lease!leaseVars
    BY <2>1 DEF Cancel, CancelRunning, CancelAgain, CancelUnknown
  <2>2. ASSUME NEW i \in Ids, TombstoneExpires(i)
        PROVE  UNCHANGED Lease!leaseVars
    BY <2>2 DEF TombstoneExpires
  <2>3. ASSUME NEW c \in Calls, Register(c) PROVE Lease!Acquire(c, id[c])
    BY ZenonT(60), <2>3 DEF Register, MayTake, Tombstones
  <2>4. ASSUME NEW c \in Calls, Refuse(c) PROVE Lease!TurnedAway(c)
    BY <2>4 DEF Refuse
  <2>5. ASSUME NEW c \in Calls, Return(c) PROVE Lease!Release(c, id[c])
    BY ZenonT(60), <2>5 DEF Return, RegistryNamesRunningCalls
  <2>6. ASSUME NEW c \in Calls, Run(c), ~Return(c)
        PROVE  UNCHANGED Lease!leaseVars
    BY <2>6 DEF Run, CheckBeforeRun, Select, PollPending, PollSpawns, PollReady
  <2>7. ASSUME NEW c \in Calls, Work(c) PROVE UNCHANGED Lease!leaseVars
    BY <2>7 DEF Work, WorkerCheck, WorkerStep
  <2>8. CASE UNCHANGED vars
    BY <2>8 DEF vars
  <2>9. \A c \in Calls : id[c] \in Ids
    OBVIOUS
  <2>10. QED
    BY ZenonT(60), <2>1, <2>2, <2>3, <2>4, <2>5, <2>6, <2>7, <2>8, <2>9 DEF Next
<1>3. QED
  BY <1>1, <1>2, TypeCorrect, RegistryAgrees, PTL
  DEF Spec, ImplementsLease, Lease!LeaseSpec

-----------------------------------------------------------------------------
(* The commands that write files: they implement FileReplacement.          *)

JobStages == {"idle", "asked", "challenged", "session", "ready", "next", "copying", "copied",
              "checked", "renaming", "over"}
Landings == {"copying", "copied", "checked", "renaming"}
Job == [request : Requests \cup {NoRequest}, picked : SUBSET Nat, stage : JobStages,
        again : BOOLEAN, todo : SUBSET Places, at : Places \cup {None},
        rename : {"none", "sent", "done", "refused"},
        told : {"nothing", "done", "preserved", "failed", "cancelled"}]
Part == [by : Jobs, at : Places, whole : BOOLEAN]

\* What a job says of itself: who was told something is over, but for a cancelled dump;
\* a file it works on is still to do; and only the rename of an upload or of a save that
\* nobody was told of, or that failed, may still be on its way.
Consistent(d) ==
  /\ d.request = NoRequest => d = NotAsked
  /\ d.stage = "idle" => d.request = NoRequest
  /\ d.stage = "ready" => d.request.kind \in Trees
  /\ d.told # "nothing" => d.stage = "over" \/ (d.told = "cancelled" /\ d.request.kind = "dump")
  /\ d.todo \subseteq d.request.targets
  /\ d.stage \in Landings \/ d.rename # "none" => d.at \in d.todo
  /\ d.rename # "none" => d.stage \in {"renaming", "over"}
  /\ d.rename = "sent" => d.told \in {"nothing", "failed"} /\ d.request.kind \in AtServer

\* What a job has written is what it has done, and the file whose rename has happened.
Written(j, d, pairs) ==
  /\ \A n : <<j, n>> \in pairs =>
            n \in d.request.targets /\ (n \in d.todo => n = d.at /\ d.rename = "done")
  /\ \A n \in d.request.targets \ d.todo : <<j, n>> \in pairs
  /\ d.rename = "done" => <<j, d.at>> \in pairs

\* What is renamed next is whole.
Whole(j, d, parts) ==
  d.stage \in {"copied", "checked"} \/ d.rename = "sent" =>
    \A p \in parts : (p.by = j /\ p.at = d.at) => p.whole

WritesInv ==
  /\ doing \in [Jobs -> Job] /\ DOMAIN contents = Places /\ unfinished \subseteq Part
  /\ \A j \in Jobs : /\ Consistent(doing[j]) /\ Written(j, doing[j], replaced)
                     /\ Whole(j, doing[j], unfinished)

LEMMA OneJobMoves ==
  ASSUME WritesInv, NEW j \in Jobs, NEW e \in Job, doing' = [doing EXCEPT ![j] = e],
         DOMAIN contents' = Places, unfinished' \subseteq Part,
         \A p \in unfinished' : p.by # j => p \in unfinished,
         \A i \in Jobs \ {j} : \A n : <<i, n>> \in replaced' <=> <<i, n>> \in replaced,
         Consistent(e), Written(j, e, replaced'), Whole(j, e, unfinished')
  PROVE  WritesInv'
<1>1. doing' \in [Jobs -> Job] /\ \A i \in Jobs : doing'[i] = IF i = j THEN e ELSE doing[i]
  BY DEF WritesInv
<1>2. ASSUME NEW i \in Jobs, i # j
      PROVE  Consistent(doing'[i]) /\ Written(i, doing'[i], replaced')
             /\ Whole(i, doing'[i], unfinished')
  <2>1. doing'[i] = doing[i] /\ Consistent(doing[i]) /\ Written(i, doing[i], replaced)
        /\ Whole(i, doing[i], unfinished)
    BY <1>1, <1>2 DEF WritesInv
  <2>2. Written(i, doing[i], replaced')
    BY <2>1, <1>2 DEF Written
  <2>3. Whole(i, doing[i], unfinished')
    BY <2>1, <1>2 DEF Whole
  <2> QED
    BY <2>1, <2>2, <2>3
<1> QED
  BY <1>1, <1>2 DEF WritesInv

LEMMA AccountsFollow ==
  ASSUME WritesInv, NEW j \in Jobs, NEW e \in Job, doing' = [doing EXCEPT ![j] = e]
  PROVE  /\ Requested' = [Requested EXCEPT ![j] = e.request]
         /\ Told' = [Told EXCEPT ![j] = e.told]
         /\ e.request = doing[j].request => Requested' = Requested
         /\ e.told = doing[j].told => Told' = Told
  BY DEF WritesInv, Requested, Told

\* A step of one job that writes nothing and that nobody is told of.
LEMMA QuietStep ==
  ASSUME WritesInv, NEW j \in Jobs, NEW e \in Job, doing' = [doing EXCEPT ![j] = e],
         e.request = doing[j].request, e.told = doing[j].told,
         UNCHANGED <<contents, unfinished, replaced>>,
         Consistent(e), Written(j, e, replaced), Whole(j, e, unfinished)
  PROVE  WritesInv' /\ UNCHANGED R!replacementVars
<1>1. WritesInv'
  <2>1. DOMAIN contents' = Places /\ unfinished' \subseteq Part
    BY DEF WritesInv
  <2> QED
    BY <2>1, OneJobMoves
<1>2. Requested' = Requested /\ Told' = Told
  BY AccountsFollow
<1> QED
  BY <1>1, <1>2 DEF R!replacementVars

LEMMA GotoStep ==
  ASSUME WritesInv, NEW j \in Jobs, NEW s \in JobStages \ {"idle"}, Goto(j, s),
         doing[j].stage \notin {"idle", "renaming", "over"},
         s = "ready" => Kind(j) \in Trees,
         s \in Landings => doing[j].stage \in Landings,
         s \in {"copied", "checked"} => doing[j].stage \in {"copied", "checked"},
         s # "renaming",
         UNCHANGED <<contents, unfinished, replaced>>
  PROVE  WritesInv' /\ UNCHANGED R!replacementVars
<1> DEFINE d == doing[j]
           e == [d EXCEPT !.stage = s, !.again = FALSE]
<1>1. d \in Job /\ Consistent(d) /\ Written(j, d, replaced) /\ Whole(j, d, unfinished)
  BY DEF WritesInv
<1>2. e \in Job /\ doing' = [doing EXCEPT ![j] = e]
  BY <1>1 DEF WritesInv, Goto, Job
<1>3. /\ e.stage = s /\ e.request = d.request /\ e.told = d.told /\ e.todo = d.todo
      /\ e.at = d.at /\ e.rename = d.rename
  BY <1>1 DEF Job
<1> HIDE DEF d, e
<1>4. d.request # NoRequest /\ d.rename = "none" /\ d.stage = doing[j].stage
      /\ d.request.kind = Kind(j)
  BY <1>1 DEF Consistent, NotAsked, d, Kind, Job
<1>5. Consistent(e)
  BY <1>1, <1>3, <1>4 DEF Consistent, Landings, d
<1>6. Written(j, e, replaced) /\ Whole(j, e, unfinished)
  BY <1>1, <1>3, <1>4 DEF Written, Whole
<1> QED
  BY <1>2, <1>3, <1>5, <1>6, QuietStep DEF d

\* The end of a job's call is told to its caller, if nothing was.
LEMMA EndStep ==
  ASSUME WritesInv, NEW j \in Jobs, NEW what \in {"done", "preserved", "failed", "cancelled"},
         EndJob(j, what), doing[j].stage \notin {"idle", "over"},
         doing[j].rename = "sent" => what = "failed",
         what = "done" => \A n \in doing[j].request.targets : <<j, n>> \in replaced,
         what = "preserved" => \A n \in Places : <<j, n>> \notin replaced,
         unfinished' \subseteq unfinished, UNCHANGED <<contents, replaced>>
  PROVE  WritesInv' /\ (R!Tell(j, what) \/ UNCHANGED R!replacementVars)
<1> DEFINE d == doing[j]
           e == [d EXCEPT !.stage = "over", !.again = FALSE,
                          !.told = IF d.told = "nothing" THEN what ELSE d.told]
<1>1. d \in Job /\ Consistent(d) /\ Written(j, d, replaced) /\ Whole(j, d, unfinished)
  BY DEF WritesInv
<1>2. e \in Job /\ doing' = [doing EXCEPT ![j] = e]
  <2>1. e \in Job
    BY <1>1 DEF Job, JobStages
  <2>2. doing' = [doing EXCEPT ![j] = e]
    BY DEF WritesInv, EndJob
  <2> QED
    BY <2>1, <2>2
<1>3. /\ e.stage = "over" /\ e.request = d.request /\ e.todo = d.todo /\ e.at = d.at
      /\ e.rename = d.rename /\ e.told = IF d.told = "nothing" THEN what ELSE d.told
  BY <1>1 DEF Job
<1>4. d.request # NoRequest /\ d.stage = doing[j].stage /\ d.rename = doing[j].rename
  BY <1>1 DEF Consistent, NotAsked, d
<1> HIDE DEF d, e
<1>5. Consistent(e)
  BY <1>1, <1>3, <1>4 DEF Consistent, Landings
<1>6. Written(j, e, replaced) /\ Whole(j, e, unfinished')
  BY <1>1, <1>3, <1>4 DEF Written, Whole
<1>7. WritesInv'
  <2>1. DOMAIN contents' = Places /\ unfinished' \subseteq Part
    BY DEF WritesInv
  <2> QED
    BY <2>1, <1>2, <1>5, <1>6, OneJobMoves
<1>8. R!Tell(j, what) \/ UNCHANGED R!replacementVars
  <2>1. Requested' = Requested
    BY <1>2, <1>3, AccountsFollow DEF d
  <2>2. CASE d.told # "nothing"
    <3>1. Told' = Told
      BY <2>2, <1>2, <1>3, AccountsFollow DEF d
    <3> QED
      BY <2>1, <3>1 DEF R!replacementVars
  <2>3. CASE d.told = "nothing"
    <3>1. Told' = [Told EXCEPT ![j] = what]
      BY <2>3, <1>2, <1>3, AccountsFollow
    <3>3. Told[j] = "nothing"
      BY <2>3 DEF d, Told
    <3>2. Requested[j] = d.request /\ Requested[j] # NoRequest
      BY <1>4 DEF Requested, d
    <3> QED
      BY <2>1, <3>1, <3>2, <3>3, <1>4 DEF R!Tell, d
  <2> QED
    BY <2>2, <2>3
<1> QED
  BY <1>7, <1>8

LEMMA AskedStep ==
  ASSUME WritesInv, NEW j \in Jobs, NEW r \in Requests, NEW ids \in SUBSET Nat,
         doing[j].stage = "idle", doing' = [doing EXCEPT ![j] = Asked(r, ids)],
         UNCHANGED <<contents, unfinished, replaced>>
  PROVE  WritesInv' /\ R!Request(j)
<1> DEFINE d == doing[j]
           e == Asked(r, ids)
<1>1. /\ d \in Job /\ Consistent(d) /\ Written(j, d, replaced) /\ d = NotAsked
      /\ r \in [kind : Kinds, root : Places \cup {None}, targets : SUBSET Places]
  BY RequestsAssumption DEF WritesInv, Consistent
<1>2. r # NoRequest
  BY <1>1 DEF NoRequest, Kinds, Single, AtServer, Trees, Uploads
<1>3. /\ e.request = r /\ e.picked = ids /\ e.stage = "asked" /\ e.again = FALSE
      /\ e.todo = r.targets /\ e.at = None /\ e.rename = "none" /\ e.told = "nothing"
      /\ e \in Job
  BY <1>1 DEF Asked, NotAsked, Job, JobStages
<1>4. Consistent(e)
  BY <1>2, <1>3 DEF Consistent, Landings
<1>5. \A n : <<j, n>> \notin replaced
  BY <1>1 DEF Written, NotAsked, NoRequest
<1>6. Written(j, e, replaced) /\ Whole(j, e, unfinished)
  BY <1>3, <1>5 DEF Written, Whole
<1>7. DOMAIN contents' = Places /\ unfinished' \subseteq Part
  BY DEF WritesInv
<1>8. WritesInv'
  BY <1>3, <1>4, <1>6, <1>7, OneJobMoves
<1>9. R!Request(j)
  <2>3. e.request = r /\ e.told = d.told
    BY <1>1, <1>3 DEF NotAsked
  <2>1. Requested' = [Requested EXCEPT ![j] = r] /\ Told' = Told
    BY <1>3, <2>3, AccountsFollow
  <2>2. Requested[j] = NoRequest /\ Requested'[j] = r
    BY <1>1, <2>1 DEF Requested, NotAsked
  <2> QED
    BY <2>1, <2>2 DEF R!Request
<1> QED
  BY <1>8, <1>9

LEMMA PicksAreNat == \A r \in Requests : Picks(r) \in Nat
  BY RequestsAssumption, FS_CardinalityType DEF Picks

\* What a step of the commands is of FileReplacement.
Refines == R!ReplacementNext \/ UNCHANGED R!replacementVars

LEMMA CallingRefines ==
  ASSUME WritesInv, drawn \in Nat, NEW j \in Jobs, Calling(j)
  PROVE  WritesInv' /\ Refines
<1>1. ASSUME NEW r \in Requests, Pick(j, r) PROVE WritesInv' /\ Refines
  <2>1. CASE RoomFor(Picks(r))
    <3>1. Drawn(Picks(r)) \in SUBSET Nat
      BY PicksAreNat DEF Drawn
    <3> QED
      BY <1>1, <2>1, <3>1, AskedStep DEF Pick, Reached, Refines, R!ReplacementNext
  <2>2. CASE ~RoomFor(Picks(r))
    <3>1. UNCHANGED <<doing, contents, unfinished, replaced>>
      BY <1>1, <2>2 DEF Pick
    <3>2. WritesInv'
      BY <3>1 DEF WritesInv
    <3> QED
      BY <3>1, <3>2 DEF Refines, R!replacementVars, Requested, Told
  <2> QED
    BY <2>1, <2>2
<1>2. ASSUME NEW r \in Requests, SaveFile(j, r) PROVE WritesInv' /\ Refines
  <2>1. {} \in SUBSET Nat
    OBVIOUS
  <2> QED
    BY <1>2, <2>1, AskedStep DEF SaveFile, Reached, Refines, R!ReplacementNext
<1>3. CASE Connect(j)
  BY <1>3, GotoStep DEF Connect, Reached, Landings, JobStages, Refines
<1>4. CASE Challenged(j)
  BY <1>4, GotoStep DEF Challenged, Reached, Landings, JobStages, Refines
<1>5. CASE HostTrusted(j)
  <2> DEFINE d == doing[j]
             e == [d EXCEPT !.stage = "asked", !.again = TRUE]
  <2>1. d \in Job /\ Consistent(d) /\ Written(j, d, replaced) /\ Whole(j, d, unfinished)
        /\ d.stage = "challenged"
    BY <1>5 DEF WritesInv, HostTrusted, Reached
  <2>2. e \in Job /\ doing' = [doing EXCEPT ![j] = e]
    BY <1>5, <2>1 DEF WritesInv, HostTrusted, Job, JobStages
  <2>3. /\ e.stage = "asked" /\ e.request = d.request /\ e.told = d.told /\ e.todo = d.todo
        /\ e.at = d.at /\ e.rename = d.rename
    BY <2>1 DEF Job
  <2>5. UNCHANGED <<contents, unfinished, replaced>>
    BY <1>5 DEF HostTrusted
  <2> HIDE DEF e
  <2>4. Consistent(e) /\ Written(j, e, replaced) /\ Whole(j, e, unfinished)
    BY <2>1, <2>3 DEF Consistent, Written, Whole, Landings, NotAsked
  <2> QED
    BY <2>2, <2>3, <2>4, <2>5, QuietStep DEF Refines
<1>6. CASE ConnectFails(j)
  <2>1. doing[j].rename # "sent"
    BY <1>6 DEF WritesInv, Consistent, ConnectFails
  <2> QED
    BY <1>6, <2>1, EndStep DEF ConnectFails, Refines, R!ReplacementNext
<1>7. CASE Spend(j)
  <2>1. doing[j].rename # "sent" /\ doing[j].stage = "session"
        /\ UNCHANGED <<contents, unfinished, replaced>>
    BY <1>7 DEF WritesInv, Consistent, Spend, Reached
  <2>2. CASE MayConsume(doing[j].picked, Kind(j))
    BY <1>7, <2>1, <2>2, GotoStep DEF Spend, FirstStage, Landings, JobStages, Refines
  <2>3. CASE ~MayConsume(doing[j].picked, Kind(j))
    BY <1>7, <2>1, <2>3, EndStep DEF Spend, Refines, R!ReplacementNext
  <2> QED
    BY <2>2, <2>3
<1> QED
  BY <1>1, <1>2, <1>3, <1>4, <1>5, <1>6, <1>7 DEF Calling

\* Landing replaces the file with what the job has written, whole and for the first time.
LEMMA LandsWhole ==
  ASSUME WritesInv, NEW j \in Jobs, Lands(j), doing[j].rename # "done",
         Reached(j, "checked") \/ doing[j].rename = "sent"
  PROVE  LET n == doing[j].at
         IN  /\ n \in doing[j].todo /\ n \in doing[j].request.targets /\ n \in Places
             /\ <<j, n>> \notin replaced /\ R!MayTakePlace(Kind(j), contents[n])
             /\ contents' = [contents EXCEPT ![n] = <<j, n>>]
             /\ unfinished' \subseteq unfinished /\ replaced' = replaced \cup {<<j, n>>}
<1> DEFINE d == doing[j]
           n == d.at
<1>1. d \in Job /\ Consistent(d) /\ Written(j, d, replaced) /\ Whole(j, d, unfinished)
  BY DEF WritesInv
<1>2. n \in d.todo /\ n \in d.request.targets /\ n \in Places
  BY <1>1 DEF Consistent, Landings, Reached, Job
<1>3. <<j, n>> \notin replaced
  BY <1>1, <1>2 DEF Written
<1>4. PICK p \in Landing(j) :
        /\ contents' = [contents EXCEPT ![n] = IF p.whole THEN <<j, n>> ELSE Torn]
        /\ unfinished' = unfinished \ {p}
  BY DEF Lands
<1>5. p.whole
  BY <1>1, <1>4 DEF Whole, Landing, Reached
<1>6. R!MayTakePlace(Kind(j), contents[n])
  BY DEF Lands, MayTakePlace, R!MayTakePlace, Uploads
<1> QED
  BY <1>2, <1>3, <1>4, <1>5, <1>6 DEF Lands

\* A step that lands the file of a job and says so only to itself.
LEMMA LandingRefines ==
  ASSUME WritesInv, NEW j \in Jobs, Lands(j), doing[j].rename # "done",
         Reached(j, "checked") \/ doing[j].rename = "sent",
         NEW e \in Job, doing' = [doing EXCEPT ![j] = e], Consistent(e),
         e.request = doing[j].request, e.told = doing[j].told,
         \/ e.todo = doing[j].todo \ {doing[j].at} /\ e.rename = "none"
         \/ e.todo = doing[j].todo /\ e.at = doing[j].at /\ e.rename = "done",
         e.stage \notin {"copied", "checked"} 
  PROVE  WritesInv' /\ Refines
<1> DEFINE d == doing[j]
           n == d.at
<1>1. d \in Job /\ Consistent(d) /\ Written(j, d, replaced)
  BY DEF WritesInv
<1>2. /\ n \in d.todo /\ n \in d.request.targets /\ n \in Places
      /\ <<j, n>> \notin replaced /\ R!MayTakePlace(Kind(j), contents[n])
      /\ contents' = [contents EXCEPT ![n] = <<j, n>>]
      /\ unfinished' \subseteq unfinished /\ replaced' = replaced \cup {<<j, n>>}
  BY LandsWhole
<1>3. Written(j, e, replaced')
  <2>1. \A m : <<j, m>> \in replaced' <=> <<j, m>> \in replaced \/ m = n
    BY <1>2
  <2>2. \A m : <<j, m>> \in replaced => m \in d.request.targets /\ m \notin d.todo
    BY <1>1 DEF Written
  <2> HIDE DEF d
  <2>3. \A m : <<j, m>> \in replaced' =>
                 m \in e.request.targets /\ (m \in e.todo => m = e.at /\ e.rename = "done")
    BY <1>2, <2>1, <2>2 DEF d
  <2>4. \A m \in e.request.targets \ e.todo : <<j, m>> \in replaced'
    BY <1>1, <2>1 DEF Written, d
  <2>5. e.rename = "done" => <<j, e.at>> \in replaced'
    BY <2>1 DEF d
  <2> QED
    BY <2>3, <2>4, <2>5 DEF Written
<1>4. Whole(j, e, unfinished')
  BY DEF Whole
<1>5. DOMAIN contents' = Places /\ unfinished' \subseteq Part
  BY <1>2 DEF WritesInv
<1>6. \A i \in Jobs \ {j} : \A m : <<i, m>> \in replaced' <=> <<i, m>> \in replaced
  BY <1>2
<1>7. WritesInv'
  BY <1>2, <1>3, <1>4, <1>5, <1>6, OneJobMoves
<1>8. R!Replace(j, n)
  <2>1. Requested' = Requested /\ Told' = Told
    BY AccountsFollow
  <2>2. Requested[j] = d.request /\ Told[j] = d.told
    BY DEF Requested, Told
  <2>3. d.told \in {"nothing", "failed"} \/ (d.told = "cancelled" /\ d.request.kind = "dump")
    BY <1>1 DEF Consistent, Reached
  <2> QED
    BY <1>2, <2>1, <2>2, <2>3 DEF R!Replace, Kind
<1> QED
  BY <1>2, <1>7, <1>8 DEF Refines, R!ReplacementNext

\* The place a landed file leaves a job at.
LEMMA NextFileIs ==
  ASSUME WritesInv, NEW j \in Jobs, doing[j].stage \in {"checked", "renaming"},
         doing' = [doing EXCEPT ![j] = NextFile(j)]
  PROVE  LET e == NextFile(j)
         IN  /\ e \in Job /\ Consistent(e) /\ e.request = doing[j].request
             /\ e.told = doing[j].told /\ e.todo = doing[j].todo \ {doing[j].at}
             /\ e.rename = "none" /\ e.stage = "next"
<1> DEFINE d == doing[j]
           e == NextFile(j)
<1>1. d \in Job /\ Consistent(d)
  BY DEF WritesInv
<1>2. /\ e \in Job /\ e.request = d.request /\ e.told = d.told /\ e.todo = d.todo \ {d.at}
      /\ e.rename = "none" /\ e.stage = "next"
  BY <1>1 DEF NextFile, Job, JobStages
<1> HIDE DEF e
<1>3. Consistent(e)
  BY <1>1, <1>2 DEF Consistent, Landings, NotAsked
<1> QED
  BY <1>2, <1>3 DEF e

LEMMA FoldersRefine ==
  ASSUME WritesInv, NEW n \in Places, contents[n] = None,
         contents' = [contents EXCEPT ![n] = Folder], UNCHANGED <<Requested, Told, replaced>>
  PROVE  R!ReplacementNext
<1>1. contents' # contents
  BY PlacesAssumption DEF WritesInv
<1> QED
  BY <1>1 DEF R!ReplacementNext, R!Arrange, R!MakeFolder

LEMMA WritingRefines ==
  ASSUME WritesInv, NEW j \in Jobs, Writing(j)
  PROVE  WritesInv' /\ Refines
<1> DEFINE d == doing[j]
<1>0. d \in Job /\ Consistent(d) /\ Written(j, d, replaced) /\ Whole(j, d, unfinished)
  BY DEF WritesInv
<1>1. CASE MakeRoot(j)
  <2> DEFINE e == [d EXCEPT !.stage = "next", !.again = FALSE]
             root == d.request.root
  <2>1. e \in Job /\ doing' = [doing EXCEPT ![j] = e]
    BY <1>0, <1>1 DEF WritesInv, MakeRoot, Goto, Job, JobStages
  <2>2. /\ e.stage = "next" /\ e.request = d.request /\ e.told = d.told /\ e.todo = d.todo
        /\ e.at = d.at /\ e.rename = d.rename
    BY <1>0 DEF Job
  <2>3. d.stage = "ready" /\ root \in Places
    BY <1>0, <1>1, RequestsAssumption DEF MakeRoot, Reached, Consistent, NotAsked, Job
  <2> HIDE DEF e
  <2>4. Consistent(e) /\ Written(j, e, replaced) /\ Whole(j, e, unfinished)
    BY <1>0, <2>2, <2>3 DEF Consistent, Written, Whole, Landings, NotAsked
  <2>5. /\ contents[root] = None /\ contents' = [contents EXCEPT ![root] = Folder]
        /\ UNCHANGED <<unfinished, replaced>>
    BY <1>1 DEF MakeRoot
  <2>6. DOMAIN contents' = Places /\ unfinished' \subseteq Part
    BY <2>5 DEF WritesInv
  <2>7. WritesInv'
    BY <2>1, <2>4, <2>5, <2>6, OneJobMoves
  <2>8. UNCHANGED <<Requested, Told>>
    BY <2>1, <2>2, AccountsFollow
  <2> QED
    BY <2>3, <2>5, <2>7, <2>8, FoldersRefine DEF Refines
<1>2. ASSUME NEW n \in Places, OpenPart(j, n) PROVE WritesInv' /\ Refines
  <2> DEFINE e == [d EXCEPT !.stage = "copying", !.at = n]
  <2>1. e \in Job /\ doing' = [doing EXCEPT ![j] = e]
    BY <1>0, <1>2 DEF WritesInv, OpenPart, Job, JobStages
  <2>2. /\ e.stage = "copying" /\ e.request = d.request /\ e.told = d.told /\ e.todo = d.todo
        /\ e.at = n /\ e.rename = d.rename
    BY <1>0 DEF Job
  <2>3. d.stage = "next" /\ n \in d.todo
    BY <1>2 DEF OpenPart, Reached
  <2> HIDE DEF e
  <2>4. Consistent(e) /\ Written(j, e, replaced) /\ Whole(j, e, unfinished')
    BY <1>0, <2>2, <2>3 DEF Consistent, Written, Whole, Landings, NotAsked
  <2>5. /\ unfinished' = unfinished \cup {[by |-> j, at |-> n, whole |-> FALSE]}
        /\ replaced' = replaced
        /\ \/ UNCHANGED contents
           \/ /\ Inside[n] # None /\ contents[Inside[n]] = None
              /\ contents' = [contents EXCEPT ![Inside[n]] = Folder]
    BY <1>2 DEF OpenPart, HasHome
  <2>6. DOMAIN contents' = Places
    BY <2>5 DEF WritesInv
  <2>10. \A p \in unfinished' : p \in Part /\ (p.by # j => p \in unfinished)
    <3> SUFFICES ASSUME NEW p \in unfinished'
                 PROVE  p \in Part /\ (p.by # j => p \in unfinished)
      OBVIOUS
    <3>1. CASE p \in unfinished
      BY <3>1 DEF WritesInv
    <3>2. CASE p = [by |-> j, at |-> n, whole |-> FALSE]
      BY <3>2 DEF Part
    <3> QED
      BY <2>5, <3>1, <3>2
  <2>7. WritesInv'
    <3>1. unfinished' \subseteq Part
      BY <2>10
    <3> QED
      BY <2>1, <2>4, <2>5, <2>6, <2>10, <3>1, OneJobMoves
  <2>8. UNCHANGED <<Requested, Told>>
    BY <2>1, <2>2, AccountsFollow
  <2>9. Inside[n] # None => Inside[n] \in Places
    BY PlacesAssumption
  <2> QED
    BY <2>5, <2>7, <2>8, <2>9, FoldersRefine DEF Refines, R!replacementVars
<1>3. CASE Copied(j)
  <2> DEFINE s == IF Kind(j) = "dump" THEN "copied" ELSE "checked"
             e == [d EXCEPT !.stage = s, !.again = FALSE]
  <2>1. e \in Job /\ doing' = [doing EXCEPT ![j] = e]
    BY ZenonT(60), <1>0, <1>3 DEF WritesInv, Copied, Goto, Job, JobStages
  <2>2. /\ e.stage = s /\ e.request = d.request /\ e.told = d.told /\ e.todo = d.todo
        /\ e.at = d.at /\ e.rename = d.rename
    BY <1>0 DEF Job
  <2>3. d.stage = "copying" /\ UNCHANGED <<contents, replaced>>
    BY <1>3 DEF Copied, Reached
  <2>4. unfinished' = {IF p \in Landing(j) THEN [p EXCEPT !.whole = TRUE] ELSE p :
                         p \in unfinished}
    BY <1>3 DEF Copied
  <2> HIDE DEF e
  <2>5. Consistent(e) /\ Written(j, e, replaced)
    BY <1>0, <2>2, <2>3 DEF Consistent, Written, Landings, NotAsked
  <2>6. \A q \in unfinished' : /\ q \in Part /\ (q.by # j => q \in unfinished)
                               /\ (q.by = j /\ q.at = d.at) => q.whole
    <3> SUFFICES ASSUME NEW q \in unfinished'
                 PROVE  /\ q \in Part /\ (q.by # j => q \in unfinished)
                        /\ (q.by = j /\ q.at = d.at) => q.whole
      OBVIOUS
    <3>1. PICK p \in unfinished : q = IF p \in Landing(j) THEN [p EXCEPT !.whole = TRUE] ELSE p
      BY <2>4
    <3>2. p \in Part /\ (p \in Landing(j) <=> p.by = j /\ p.at = d.at)
      BY DEF WritesInv, Landing
    <3> QED
      BY <3>1, <3>2 DEF Part
  <2>7. Whole(j, e, unfinished')
    BY <2>2, <2>6 DEF Whole
  <2>8. WritesInv'
    <3>1. DOMAIN contents' = Places
      BY <2>3 DEF WritesInv
    <3>2. unfinished' \subseteq Part
      BY <2>6
    <3> QED
      BY <2>1, <2>3, <2>5, <2>6, <2>7, <3>1, <3>2, OneJobMoves
  <2>9. UNCHANGED <<Requested, Told>>
    BY <2>1, <2>2, AccountsFollow
  <2> QED
    BY <2>3, <2>8, <2>9 DEF Refines, R!replacementVars
<1>4. CASE NotCancelled(j)
  BY <1>4, GotoStep DEF NotCancelled, Reached, Landings, JobStages, Refines
<1>5. CASE RenameHere(j)
  <2>1. d.stage = "checked" /\ d.rename # "done"
    BY <1>0, <1>5 DEF RenameHere, Reached, Consistent
  <2> QED
    BY <1>5, <2>1, NextFileIs, LandingRefines DEF RenameHere
<1>6. CASE AskToRename(j)
  <2> DEFINE e == [d EXCEPT !.stage = "renaming", !.rename = "sent"]
  <2>1. e \in Job /\ doing' = [doing EXCEPT ![j] = e]
    BY <1>0, <1>6 DEF WritesInv, AskToRename, Job, JobStages
  <2>2. /\ e.stage = "renaming" /\ e.request = d.request /\ e.told = d.told /\ e.todo = d.todo
        /\ e.at = d.at /\ e.rename = "sent"
    BY <1>0 DEF Job
  <2>3. d.stage = "checked" /\ Kind(j) \in AtServer
        /\ UNCHANGED <<contents, unfinished, replaced>>
    BY <1>6 DEF AskToRename, Reached
  <2> HIDE DEF e
  <2>4. Consistent(e) /\ Written(j, e, replaced) /\ Whole(j, e, unfinished)
    BY <1>0, <2>2, <2>3
       DEF Consistent, Written, Whole, Landings, NotAsked, Kind, AtServer, Uploads
  <2> QED
    BY <2>1, <2>2, <2>3, <2>4, QuietStep DEF Refines
<1>7. CASE ServerRenames(j)
  <2> DEFINE e == [d EXCEPT !.rename = "done"]
  <2>1. e \in Job /\ doing' = [doing EXCEPT ![j] = e]
    BY <1>0, <1>7 DEF WritesInv, ServerRenames, Job
  <2>2. /\ e.stage = d.stage /\ e.request = d.request /\ e.told = d.told /\ e.todo = d.todo
        /\ e.at = d.at /\ e.rename = "done"
    BY <1>0 DEF Job
  <2>3. d.rename = "sent" /\ Lands(j)
    BY <1>7 DEF ServerRenames
  <2> HIDE DEF e
  <2>4. Consistent(e) /\ e.stage \notin {"copied", "checked"}
    BY <1>0, <2>2, <2>3 DEF Consistent, Landings, NotAsked
  <2> QED
    BY <2>1, <2>2, <2>3, <2>4, LandingRefines
<1>8. CASE ServerRefuses(j)
  <2> DEFINE e == [d EXCEPT !.rename = "refused"]
  <2>1. e \in Job /\ doing' = [doing EXCEPT ![j] = e]
    BY <1>0, <1>8 DEF WritesInv, ServerRefuses, Job
  <2>2. /\ e.stage = d.stage /\ e.request = d.request /\ e.told = d.told /\ e.todo = d.todo
        /\ e.at = d.at /\ e.rename = "refused"
    BY <1>0 DEF Job
  <2>3. d.rename = "sent" /\ UNCHANGED <<contents, unfinished, replaced>>
    BY <1>8 DEF ServerRefuses
  <2> HIDE DEF e
  <2>4. Consistent(e) /\ Written(j, e, replaced) /\ Whole(j, e, unfinished)
    BY <1>0, <2>2, <2>3 DEF Consistent, Written, Whole, Landings, NotAsked
  <2> QED
    BY <2>1, <2>2, <2>3, <2>4, QuietStep DEF Refines
<1>9. CASE Renamed(j)
  <2> DEFINE e == NextFile(j)
  <2>1. d.stage = "renaming" /\ d.rename = "done" /\ UNCHANGED <<contents, unfinished, replaced>>
    BY <1>9 DEF Renamed, Reached
  <2>2. doing' = [doing EXCEPT ![j] = e]
    BY <1>9 DEF Renamed
  <2>3. /\ e \in Job /\ Consistent(e) /\ e.request = d.request /\ e.told = d.told
        /\ e.todo = d.todo \ {d.at} /\ e.rename = "none" /\ e.stage = "next"
    BY <2>1, <2>2, NextFileIs
  <2> HIDE DEF e
  <2>4. Written(j, e, replaced) /\ Whole(j, e, unfinished)
    BY <1>0, <2>1, <2>3 DEF Written, Whole
  <2> QED
    BY <2>1, <2>2, <2>3, <2>4, QuietStep DEF Refines
<1>10. CASE Finish(j)
  <2>1. d.stage = "next" /\ d.todo = {} /\ d.rename # "sent"
    BY <1>0, <1>10 DEF Finish, AllDone, Reached, Consistent
  <2>2. \A n \in d.request.targets : <<j, n>> \in replaced
    BY <1>0, <2>1 DEF Written
  <2> QED
    BY <1>10, <2>1, <2>2, EndStep DEF Finish, Refines, R!ReplacementNext
<1>11. CASE Fail(j)
  <2>1. unfinished' \subseteq unfinished
    BY <1>11 DEF Fail, Clean
  <2> QED
    BY <1>11, <2>1, EndStep DEF Fail, Refines, R!ReplacementNext
<1>12. CASE Preserved(j)
  <2>1. /\ unfinished' \subseteq unfinished /\ d.stage \notin {"idle", "over"}
        /\ EndJob(j, "preserved") /\ UNCHANGED <<contents, replaced>>
        /\ d.request.kind = "save" /\ ~(d.stage = "next" /\ d.todo = {})
        /\ d.stage \in {"next", "copying", "checked"} \/ d.rename = "refused"
    BY <1>12 DEF Preserved, Clean, AllDone, Reached, Kind
  <2>2. d.rename \notin {"sent", "done"}
    BY <1>0, <2>1 DEF Consistent
  <2>3. d.todo # {}
    BY <1>0, <1>12, <2>1 DEF Consistent, Preserved, Landings, Reached
  <2>4. PICK n \in Places : d.request.targets = {n}
    BY <1>0, <2>1, RequestsAssumption DEF Single, NoRequest, Job
  <2>5. d.todo = d.request.targets
    BY <1>0, <2>3, <2>4 DEF Consistent
  <2>6. \A m \in Places : <<j, m>> \notin replaced
    BY <1>0, <2>2, <2>5 DEF Written
  <2> QED
    BY <2>1, <2>2, <2>6, EndStep DEF Refines, R!ReplacementNext
<1>13. CASE CancelExport(j)
  <2>0. d.rename # "sent" /\ d.told = "nothing" /\ d.stage \notin {"idle", "over"}
    BY <1>0, <1>13 DEF CancelExport, Consistent, Kind, Exports, AtServer, Uploads
  <2>1. CASE Kind(j) = "dump" /\ d.stage \notin {"asked", "challenged", "session"}
    <3> DEFINE e == [d EXCEPT !.told = "cancelled"]
    <3>1. e \in Job /\ doing' = [doing EXCEPT ![j] = e]
          /\ UNCHANGED <<contents, unfinished, replaced>>
      BY <1>0, <1>13, <2>1 DEF WritesInv, CancelExport, Job
    <3>2. /\ e.stage = d.stage /\ e.request = d.request /\ e.told = "cancelled"
          /\ e.todo = d.todo /\ e.at = d.at /\ e.rename = d.rename
      BY <1>0 DEF Job
    <3>3. d.request # NoRequest
      BY <1>0, <2>0 DEF Consistent, NotAsked
    <3> HIDE DEF e
    <3>4. Consistent(e) /\ Written(j, e, replaced) /\ Whole(j, e, unfinished)
      BY <1>0, <2>0, <2>1, <3>2, <3>3 DEF Consistent, Written, Whole, Landings, Kind
    <3>5. WritesInv'
      <4>1. DOMAIN contents' = Places /\ unfinished' \subseteq Part
        BY <3>1 DEF WritesInv
      <4> QED
        BY <3>1, <3>4, <4>1, OneJobMoves
    <3>6. Requested' = Requested /\ Told' = [Told EXCEPT ![j] = "cancelled"]
      BY ZenonT(60), <3>1, <3>2, AccountsFollow
    <3>7. Requested[j] = d.request /\ Told[j] = d.told
      BY DEF Requested, Told
    <3>8. R!Tell(j, "cancelled")
      BY <2>0, <3>1, <3>3, <3>6, <3>7 DEF R!Tell
    <3> QED
      BY <3>5, <3>8 DEF Refines, R!ReplacementNext
  <2>2. CASE ~(Kind(j) = "dump" /\ d.stage \notin {"asked", "challenged", "session"})
    <3>1. EndJob(j, "cancelled") /\ unfinished' \subseteq unfinished
          /\ UNCHANGED <<contents, replaced>>
      BY <1>13, <2>2 DEF CancelExport, Clean
    <3> QED
      BY <2>0, <3>1, EndStep DEF Refines, R!ReplacementNext
  <2> QED
    BY <2>1, <2>2
<1> QED
  BY <1>1, <1>2, <1>3, <1>4, <1>5, <1>6, <1>7, <1>8, <1>9, <1>10, <1>11, <1>12, <1>13 DEF Writing

LEMMA ArrangingRefines ==
  ASSUME WritesInv, Arranging
  PROVE  WritesInv' /\ Refines /\ UNCHANGED <<grantVars, doing>>
<1>1. PICK n \in Places :
        DeletePath(n) \/ CreateDirectory(n) \/ \E m \in Places : MovePath(n, m)
  BY PlacesAssumption DEF Arranging
<1>2. UNCHANGED <<grantVars, doing, unfinished, replaced>>
  BY <1>1 DEF DeletePath, CreateDirectory, MovePath, Arrange
<1>3. UNCHANGED <<Requested, Told, replaced>>
  BY <1>2 DEF Requested, Told
<1>4. DOMAIN contents' = Places
  BY <1>1 DEF WritesInv, DeletePath, CreateDirectory, MovePath
<1>5. WritesInv'
  BY <1>2, <1>4 DEF WritesInv
<1>6. CASE DeletePath(n)
  <2>1. contents' # contents
    BY <1>6 DEF WritesInv, DeletePath
  <2> QED
    BY <1>2, <1>3, <1>5, <1>6, <2>1
       DEF DeletePath, Refines, R!ReplacementNext, R!Arrange, R!Delete
<1>7. CASE CreateDirectory(n)
  BY <1>2, <1>3, <1>5, <1>7, FoldersRefine DEF CreateDirectory, Refines
<1>8. ASSUME NEW m \in Places, MovePath(n, m) PROVE Refines
  <2>1. contents'[n] = None /\ contents[n] # None
    BY <1>8 DEF WritesInv, MovePath
  <2> QED
    BY <1>3, <1>8, <2>1 DEF MovePath, Refines, R!ReplacementNext, R!Arrange, R!Move
<1> QED
  BY <1>1, <1>2, <1>5, <1>6, <1>7, <1>8

LEMMA QuitRefines ==
  ASSUME WritesInv, Quit
  PROVE  /\ WritesInv' /\ Refines
         /\ \A j \in Jobs : doing'[j].picked = doing[j].picked
                            /\ (doing'[j].stage = doing[j].stage \/ doing'[j].stage = "over")
<1>1. doing' = [j \in Jobs |-> IF doing[j].stage = "idle" THEN doing[j]
                               ELSE [doing[j] EXCEPT !.stage = "over"]]
      /\ UNCHANGED <<contents, unfinished, replaced>>
  BY DEF Quit, Reached
<1>2. ASSUME NEW j \in Jobs
      PROVE  /\ doing'[j] \in Job /\ doing'[j].request = doing[j].request
             /\ doing'[j].told = doing[j].told /\ doing'[j].picked = doing[j].picked
             /\ doing'[j].todo = doing[j].todo /\ doing'[j].at = doing[j].at
             /\ doing'[j].rename = doing[j].rename
             /\ doing'[j] = doing[j] \/ (doing'[j].stage = "over" /\ doing[j].stage # "idle")
  BY <1>1 DEF WritesInv, Job, JobStages
<1>3. ASSUME NEW j \in Jobs
      PROVE  /\ Consistent(doing'[j]) /\ Written(j, doing'[j], replaced)
             /\ Whole(j, doing'[j], unfinished)
  <2>1. Consistent(doing[j]) /\ Written(j, doing[j], replaced) /\ Whole(j, doing[j], unfinished)
    BY DEF WritesInv
  <2>2. CASE doing'[j] = doing[j]
    BY <2>1, <2>2
  <2>3. CASE doing'[j].stage = "over" /\ doing[j].stage # "idle"
    BY <1>2, <2>1, <2>3 DEF Consistent, Written, Whole, Landings, NotAsked
  <2> QED
    BY <1>2, <2>2, <2>3
<1>4. doing' \in [Jobs -> Job]
  BY <1>1, <1>2
<1>5. WritesInv'
  BY <1>1, <1>3, <1>4 DEF WritesInv
<1>6. Requested' = Requested /\ Told' = Told
  BY <1>2 DEF Requested, Told
<1> QED
  BY <1>1, <1>2, <1>5, <1>6 DEF Refines, R!replacementVars

LEMMA WritesRefine ==
  ASSUME WritesInv, drawn \in Nat, [WritesNext]_writesVars
  PROVE  WritesInv' /\ Refines
<1>1. CASE UNCHANGED <<doing, contents, unfinished, replaced>>
  <2>1. WritesInv'
    BY <1>1 DEF WritesInv
  <2> QED
    BY <1>1, <2>1 DEF Refines, R!replacementVars, Requested, Told
<1> QED
  BY <1>1, CallingRefines, WritingRefines, ArrangingRefines, QuitRefines
     DEF WritesNext, writesVars

-----------------------------------------------------------------------------
\* A call that has not used its selection up yet.
Choosing == {"asked", "challenged", "session"}

\* The selections of two jobs are different ones, and all were drawn.
SelectionsInv ==
  /\ drawn \in Nat /\ spent \subseteq 1..drawn
  /\ IsFiniteSet(DOMAIN grants) /\ Cardinality(DOMAIN grants) <= MaxGrants
  /\ \A j \in Jobs :
       /\ doing[j].picked \subseteq 1..drawn
       /\ \A i \in Jobs \ {j} : doing[i].picked \cap doing[j].picked = {}
       /\ \/ doing[j].picked \cap spent = {}
          \/ doing[j].picked \subseteq spent /\ doing[j].stage \notin Choosing

LEMMA SelectionsRest ==
  ASSUME SelectionsInv, UNCHANGED <<drawn, spent>>, DOMAIN grants' \subseteq DOMAIN grants,
         \A j \in Jobs : /\ doing'[j].picked = doing[j].picked
                         /\ doing'[j].stage \in Choosing => doing[j].stage \in Choosing
  PROVE  SelectionsInv'
<1>1. IsFiniteSet(DOMAIN grants') /\ Cardinality(DOMAIN grants') <= MaxGrants
  <2>1. /\ IsFiniteSet(DOMAIN grants')
        /\ Cardinality(DOMAIN grants') <= Cardinality(DOMAIN grants)
    BY FS_Subset DEF SelectionsInv
  <2>2. Cardinality(DOMAIN grants) \in Nat /\ Cardinality(DOMAIN grants') \in Nat
    BY <2>1, FS_CardinalityType DEF SelectionsInv
  <2> QED
    BY <2>1, <2>2, GrantsAssumption DEF SelectionsInv
<1> QED
  BY <1>1 DEF SelectionsInv

LEMMA IssuedFit ==
  ASSUME SelectionsInv, NEW n \in Nat, NEW purpose, RoomFor(n), IssueMany(n, purpose)
  PROVE  IsFiniteSet(DOMAIN grants') /\ Cardinality(DOMAIN grants') <= MaxGrants
<1>1. DOMAIN grants' = Unexpired \cup Drawn(n) /\ Unexpired \subseteq DOMAIN grants
  BY DEF IssueMany, Unexpired
<1>2. IsFiniteSet(Unexpired) /\ Cardinality(Unexpired) \in Nat
  BY <1>1, FS_Subset, FS_CardinalityType DEF SelectionsInv
<1>3. IsFiniteSet(Drawn(n)) /\ Cardinality(Drawn(n)) = n
  <2>1. drawn \in Nat /\ drawn + 1 \in Int /\ drawn + n \in Int
    BY DEF SelectionsInv
  <2>2. /\ IsFiniteSet(drawn + 1..drawn + n)
        /\ Cardinality(drawn + 1..drawn + n)
             = IF drawn + 1 > drawn + n THEN 0 ELSE (drawn + n) - (drawn + 1) + 1
    BY <2>1, FS_Interval
  <2> QED
    BY <2>1, <2>2 DEF Drawn
<1>4. /\ IsFiniteSet(DOMAIN grants')
      /\ Cardinality(DOMAIN grants') <= Cardinality(Unexpired) + n
  <2>1. Cardinality(Unexpired \cap Drawn(n)) \in Nat
    BY <1>2, FS_Intersection, FS_CardinalityType
  <2> QED
    BY <1>1, <1>2, <1>3, <2>1, FS_Union
<1>5. Cardinality(DOMAIN grants') \in Nat
  BY <1>4, FS_CardinalityType
<1> QED
  BY <1>2, <1>4, <1>5, GrantsAssumption DEF RoomFor

\* A request draws selections nobody else has; spending them takes none of another job's.
LEMMA CallingSelects ==
  ASSUME WritesInv, SelectionsInv, NEW j \in Jobs, Calling(j)
  PROVE  SelectionsInv'
<1>1. ASSUME NEW r \in Requests, Pick(j, r), RoomFor(Picks(r)) PROVE SelectionsInv'
  <2> DEFINE n == Picks(r)
  <2>1. n \in Nat /\ drawn \in Nat
    BY PicksAreNat DEF SelectionsInv
  <2>2. /\ IssueMany(n, r.kind) /\ drawn' = drawn + n /\ spent' = spent
        /\ doing' = [doing EXCEPT ![j] = Asked(r, Drawn(n))]
    BY <1>1 DEF Pick, IssueMany
  <2>3. IsFiniteSet(DOMAIN grants') /\ Cardinality(DOMAIN grants') <= MaxGrants
    BY <1>1, <2>1, <2>2, IssuedFit
  <2>4. Asked(r, Drawn(n)).picked = Drawn(n)
    BY DEF Asked, NotAsked
  <2>5. /\ \A i \in Jobs : doing'[i].picked = IF i = j THEN Drawn(n) ELSE doing[i].picked
        /\ \A i \in Jobs \ {j} : doing'[i] = doing[i]
    BY <2>2, <2>4 DEF WritesInv
  <2>6. /\ Drawn(n) \subseteq 1..drawn' /\ 1..drawn \subseteq 1..drawn'
        /\ Drawn(n) \cap 1..drawn = {}
    BY <2>1, <2>2 DEF Drawn
  <2> HIDE DEF n
  <2>7. ASSUME NEW i \in Jobs
        PROVE  /\ doing'[i].picked \subseteq 1..drawn'
               /\ \A k \in Jobs \ {i} : doing'[k].picked \cap doing'[i].picked = {}
               /\ \/ doing'[i].picked \cap spent' = {}
                  \/ doing'[i].picked \subseteq spent' /\ doing'[i].stage \notin Choosing
    BY <2>2, <2>5, <2>6 DEF SelectionsInv
  <2> QED
    BY <2>1, <2>2, <2>3, <2>6, <2>7 DEF SelectionsInv
<1>2. ASSUME NEW r \in Requests, Pick(j, r), ~RoomFor(Picks(r)) PROVE SelectionsInv'
  <2>1. DOMAIN grants' \subseteq DOMAIN grants /\ UNCHANGED <<drawn, spent, doing>>
    BY <1>2 DEF Pick, IssueNone, Unexpired
  <2> QED
    BY <2>1, SelectionsRest
<1>3. ASSUME NEW r \in Requests, SaveFile(j, r) PROVE SelectionsInv'
  <2>1. /\ Asked(r, {}).picked = {} /\ doing' = [doing EXCEPT ![j] = Asked(r, {})]
        /\ UNCHANGED grantVars
    BY <1>3 DEF Asked, NotAsked, SaveFile
  <2>2. /\ \A i \in Jobs : doing'[i].picked = IF i = j THEN {} ELSE doing[i].picked
        /\ \A i \in Jobs \ {j} : doing'[i] = doing[i]
    BY <2>1 DEF WritesInv
  <2> QED
    BY <2>1, <2>2 DEF SelectionsInv, grantVars
<1>4. CASE Connect(j) \/ Challenged(j) \/ HostTrusted(j) \/ ConnectFails(j)
  <2>1. UNCHANGED grantVars
    BY <1>4 DEF Connect, Challenged, HostTrusted, ConnectFails
  <2>2. \A i \in Jobs : /\ doing'[i].picked = doing[i].picked
                        /\ doing'[i].stage \in Choosing => doing[i].stage \in Choosing
    BY <1>4 DEF WritesInv, Job, Connect, Challenged, HostTrusted, ConnectFails, Goto, EndJob,
                Reached, Choosing
  <2> QED
    BY <2>1, <2>2, SelectionsRest DEF Choosing, grantVars
<1>5. CASE Spend(j)
  <2>1. CASE MayConsume(doing[j].picked, Kind(j))
    <3>1. /\ spent' = spent \cup doing[j].picked /\ drawn' = drawn
          /\ DOMAIN grants' \subseteq DOMAIN grants
      BY <1>5, <2>1 DEF Spend, ConsumeMany
    <3>2. /\ doing'[j].picked = doing[j].picked /\ doing'[j].stage \notin Choosing
          /\ \A i \in Jobs \ {j} : doing'[i] = doing[i]
      BY <1>5, <2>1 DEF WritesInv, Job, Spend, Goto, FirstStage, Choosing
    <3>3. IsFiniteSet(DOMAIN grants') /\ Cardinality(DOMAIN grants') <= MaxGrants
      BY <3>1, FS_Subset, FS_CardinalityType, GrantsAssumption DEF SelectionsInv
    <3>4. ASSUME NEW i \in Jobs
          PROVE  /\ doing'[i].picked \subseteq 1..drawn'
                 /\ \A k \in Jobs \ {i} : doing'[k].picked \cap doing'[i].picked = {}
                 /\ \/ doing'[i].picked \cap spent' = {}
                    \/ doing'[i].picked \subseteq spent' /\ doing'[i].stage \notin Choosing
      BY <3>1, <3>2 DEF SelectionsInv
    <3> QED
      BY <3>1, <3>3, <3>4 DEF SelectionsInv
  <2>2. CASE ~MayConsume(doing[j].picked, Kind(j))
    <3>1. UNCHANGED grantVars /\ EndJob(j, "failed")
      BY <1>5, <2>2 DEF Spend
    <3>2. \A i \in Jobs : /\ doing'[i].picked = doing[i].picked
                          /\ doing'[i].stage \in Choosing => doing[i].stage \in Choosing
      BY <3>1 DEF WritesInv, Job, EndJob, Choosing
    <3> QED
      BY <3>1, <3>2, SelectionsRest DEF grantVars
  <2> QED
    BY <2>1, <2>2
<1> QED
  BY <1>1, <1>2, <1>3, <1>4, <1>5 DEF Calling

LEMMA WritingSelects ==
  ASSUME WritesInv, SelectionsInv, NEW j \in Jobs, Writing(j)
  PROVE  SelectionsInv'
<1>1. UNCHANGED grantVars
  BY DEF Writing, MakeRoot, OpenPart, Copied, NotCancelled, RenameHere, AskToRename,
         ServerRenames, ServerRefuses, Renamed, Finish, Fail, Preserved, CancelExport
<1>2. \A i \in Jobs \ {j} : doing'[i] = doing[i]
  BY DEF WritesInv, Writing, MakeRoot, OpenPart, Copied, NotCancelled, RenameHere, AskToRename,
         ServerRenames, ServerRefuses, Renamed, Finish, Fail, Preserved, CancelExport,
         Goto, EndJob
<1>3. CASE MakeRoot(j) \/ Copied(j) \/ NotCancelled(j)
  <2>1. PICK s \in {"next", "copied", "checked"} : Goto(j, s)
    BY <1>3 DEF MakeRoot, Copied, NotCancelled
  <2>2. doing'[j].picked = doing[j].picked /\ doing'[j].stage = s
    BY <2>1 DEF WritesInv, Job, Goto
  <2> QED
    BY <1>1, <1>2, <2>2, SelectionsRest DEF Choosing, grantVars
<1>4. CASE Finish(j) \/ Fail(j) \/ Preserved(j) \/ CancelExport(j)
  <2>1. (\E what : EndJob(j, what)) \/ doing' = [doing EXCEPT ![j].told = "cancelled"]
    BY <1>4 DEF Finish, Fail, Preserved, CancelExport
  <2>2. /\ doing'[j].picked = doing[j].picked
        /\ doing'[j].stage = "over" \/ doing'[j].stage = doing[j].stage
    BY <2>1 DEF WritesInv, Job, EndJob
  <2> QED
    BY <1>1, <1>2, <2>2, SelectionsRest DEF Choosing, grantVars
<1>5. CASE (\E n \in Places : OpenPart(j, n)) \/ AskToRename(j) \/ ServerRenames(j)
           \/ ServerRefuses(j)
  <2>1. /\ doing'[j].picked = doing[j].picked
        /\ doing'[j].stage \in {"copying", "renaming", doing[j].stage}
    BY <1>5 DEF WritesInv, Job, OpenPart, AskToRename, ServerRenames, ServerRefuses
  <2> QED
    BY <1>1, <1>2, <2>1, SelectionsRest DEF Choosing, grantVars
<1>6. CASE RenameHere(j) \/ Renamed(j)
  <2>1. doing' = [doing EXCEPT ![j] = NextFile(j)]
    BY <1>6 DEF RenameHere, Renamed
  <2>2. doing'[j].picked = doing[j].picked /\ doing'[j].stage = "next"
    BY <2>1 DEF WritesInv, Job, NextFile
  <2> QED
    BY <1>1, <1>2, <2>2, SelectionsRest DEF Choosing, grantVars
<1> QED
  BY <1>3, <1>4, <1>5, <1>6 DEF Writing

LEMMA WritesSelect ==
  ASSUME WritesInv, SelectionsInv, [WritesNext]_writesVars
  PROVE  SelectionsInv'
<1>1. CASE Quit
  <2>1. UNCHANGED <<drawn, spent>> /\ DOMAIN grants' \subseteq DOMAIN grants
    BY <1>1 DEF Quit
  <2> QED
    BY <1>1, <2>1, QuitRefines, SelectionsRest DEF Choosing
<1>2. CASE Arranging
  BY <1>2, ArrangingRefines, SelectionsRest DEF grantVars
<1>3. ASSUME NEW g \in DOMAIN grants, Expire(g), UNCHANGED doing PROVE SelectionsInv'
  <2>1. UNCHANGED <<drawn, spent>> /\ DOMAIN grants' \subseteq DOMAIN grants
    BY <1>3 DEF Expire
  <2> QED
    BY <1>3, <2>1, SelectionsRest
<1>4. CASE UNCHANGED writesVars
  BY <1>4, SelectionsRest DEF writesVars
<1> QED
  BY <1>1, <1>2, <1>3, <1>4, CallingSelects, WritingSelects DEF WritesNext

\* Files are replaced whole, once, and as the callers are told, and selections hold until
\* the calls they are for use them, whatever is asked for, fails, is cancelled or lost.
THEOREM WritesAreWhole == WritesSpec => FilesAreReplacedWhole
<1>1. WritesInit => WritesInv /\ SelectionsInv /\ R!ReplacementInit
  <2> SUFFICES ASSUME WritesInit PROVE WritesInv /\ SelectionsInv /\ R!ReplacementInit
    OBVIOUS
  <2> USE DEF WritesInit, GrantsInit
  <2>1. NotAsked \in Job /\ NotAsked.picked = {} /\ NotAsked.stage = "idle"
        /\ NotAsked.request = NoRequest /\ NotAsked.told = "nothing" /\ NotAsked.rename = "none"
        /\ NotAsked.todo = {} /\ NoRequest.targets = {}
    BY DEF NotAsked, Job, JobStages, NoRequest
  <2>2. Consistent(NotAsked)
    BY <2>1 DEF Consistent, Landings
  <2>3. \A j \in Jobs : Written(j, NotAsked, replaced) /\ Whole(j, NotAsked, unfinished)
    BY <2>1 DEF Written, Whole
  <2>4. WritesInv
    BY <2>1, <2>2, <2>3, PlacesAssumption DEF WritesInv
  <2>5. SelectionsInv
    <3>1. DOMAIN grants = {}
      OBVIOUS
    <3>2. IsFiniteSet({}) /\ Cardinality({}) = 0
      BY FS_EmptySet
    <3> QED
      BY <2>1, <3>1, <3>2, GrantsAssumption DEF SelectionsInv
  <2>6. R!ReplacementInit
    BY <2>1 DEF R!ReplacementInit, Requested, Told
  <2> QED
    BY <2>4, <2>5, <2>6
<1>2. WritesInv /\ SelectionsInv /\ [WritesNext]_writesVars
        => WritesInv' /\ SelectionsInv' /\ [R!ReplacementNext]_R!replacementVars
  BY WritesRefine, WritesSelect DEF SelectionsInv, Refines
<1>3. SelectionsInv => SelectionsHold
  BY DEF SelectionsInv, SelectionsHold, Choosing
<1> QED
  BY <1>1, <1>2, <1>3, PTL DEF WritesSpec, FilesAreReplacedWhole, R!ReplacementSpec
=============================================================================
