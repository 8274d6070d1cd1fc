-------------------------- MODULE ConnectionsProofs --------------------------
(***************************************************************************)
(* Theorems of the driver and tunnel caches, for any number of requests    *)
(* and editing commands.                                                   *)
(***************************************************************************)
EXTENDS Connections, TLAPS

\* The stages in which the creation lock is held, and those in which the
\* Connecting entry is.
Creating == {"locked", "spawning", "spawned"}
Sharing == {"waiting"} \cup Creating

-----------------------------------------------------------------------------
(* Types. *)

\* Every cache, stage and copy stays in its range; the generation never goes back
\* below zero.
THEOREM TypeCorrect == Spec => []TypeOK
<1>1. Init => TypeOK
  <2> SUFFICES ASSUME Init PROVE TypeOK
    OBVIOUS
  <2>1. config \in Config
    BY DEF Init, Config
  <2>2. QED
    BY <2>1 DEF Init, TypeOK, Stages, EditStages
<1>2. TypeOK /\ [Next]_vars => TypeOK'
  <2> SUFFICES ASSUME TypeOK, [Next]_vars PROVE TypeOK'
    OBVIOUS
  <2> USE DEF TypeOK, caches, connecting, request, history
  <2>1. ASSUME NEW r \in Requests, NEW stage \in Stages, Leave(r, stage)
        PROVE  /\ pc' \in [Requests -> Stages]
               /\ users' \subseteq Requests
               /\ creator' \in Requests \cup {None}
               /\ dropped' \subseteq Requests
               /\ seen' \in [Requests -> Nat]
    BY <2>1 DEF Leave, Goto, Stages
  <2>2. ASSUME NEW r \in Requests, Begin(r) \/ Lookup(r) \/ Open(r) \/ Insert(r)
        PROVE  TypeOK'
    BY <2>2 DEF Begin, Lookup, Open, Insert, Goto, Stages, InFlight
  <2>3. ASSUME NEW r \in Requests, Snapshot(r) PROVE TypeOK'
    BY <2>3 DEF Snapshot, Goto, Stages, InFlight
  <2>4. ASSUME NEW r \in Requests, Join(r) PROVE TypeOK'
    BY <2>4 DEF Join, Goto, Stages, InFlight
  <2>5. ASSUME NEW r \in Requests, LockCreation(r) PROVE TypeOK'
    BY <2>5 DEF LockCreation, Goto, Stages, InFlight, Bumped
  <2>6. ASSUME NEW r \in Requests, GiveUp(r) \/ SpawnFails(r) PROVE TypeOK'
    BY <2>6, <2>1 DEF GiveUp, SpawnFails, Stages
  <2>7. ASSUME NEW r \in Requests, FindTunnel(r) PROVE TypeOK'
    BY <2>7, <2>1 DEF FindTunnel, Goto, Stages, InFlight
  <2>8. ASSUME NEW r \in Requests, Spawn(r) PROVE TypeOK'
    BY <2>8 DEF Spawn, Goto, Stages, InFlight
  <2>9. ASSUME NEW r \in Requests, Publish(r) PROVE TypeOK'
    BY ZenonT(60), <2>9, <2>1 DEF Publish, Register, Stages, InFlight
  <2>10. ASSUME NEW r \in Requests, Cancel(r) PROVE TypeOK'
    BY <2>10 DEF Cancel, Goto, Stages
  <2>11. ASSUME NEW e \in Editors, Save(e) PROVE TypeOK'
    BY SMTT(60), <2>11 DEF Save, EdGoto, EditStages, Config, Overtaken
  <2>12. ASSUME NEW e \in Editors, Close(e) PROVE TypeOK'
    BY <2>12 DEF Close, EdGoto, EditStages, Overtaken
  <2>13. ASSUME NEW e \in Editors, Clear(e) PROVE TypeOK'
    <3>1. CASE DropDriver(e) \/ Invalidate(e)
      BY <3>1 DEF DropDriver, Invalidate, EdGoto, EditStages
    <3>2. CASE Bump(e)
      BY <3>2 DEF Bump, EdGoto, EditStages
    <3>3. CASE RemoveTunnel(e)
      BY <3>3 DEF RemoveTunnel, EdGoto, EditStages
    <3>4. QED
      BY <2>13, <3>1, <3>2, <3>3 DEF Clear
  <2>14. CASE Forward
    BY <2>14 DEF Forward
  <2>15. CASE UNCHANGED vars
    BY <2>15 DEF vars
  <2>16. QED
    BY <2>2, <2>3, <2>4, <2>5, <2>6, <2>7, <2>8, <2>9, <2>10, <2>11, <2>12,
       <2>13, <2>14, <2>15 DEF Next, Step, vars
<1>3. QED
  BY <1>1, <1>2, PTL DEF Spec

LEMMA LeaveStage ==
  ASSUME TypeOK, NEW r \in Requests, NEW stage \in {"open", "failed"}, Leave(r, stage)
  PROVE  /\ pc'[r] \in {"open", "failed"}
         /\ \A q \in Requests \ {r} : pc'[q] = pc[q] /\ seen'[q] = seen[q]
         /\ users' = users \ {r}
         /\ creator' = IF creator = r THEN None ELSE creator
  BY DEF TypeOK, Leave, Goto

-----------------------------------------------------------------------------
(* Listeners. *)

\* One request creates at a time, it creates only while no tunnel is registered,
\* and it counts as a user of the Connecting entry.
Creation ==
  /\ \A r \in Requests : creator = r <=> pc[r] \in Creating
  /\ \A r \in Requests : r \in users <=> pc[r] \in Sharing
  /\ \A r \in Requests : pc[r] \in {"spawning", "spawned"} => tunnel = None
  /\ \A r \in Requests : pc[r] = "spawned" => r \in live
  /\ tunnel # None => pc[tunnel] \in {"open", "opened", "done", "failed"}

Owned == Creation /\ ListenersAreOwned

\* A step that moves nobody in or out of the creation stages.
LEMMA OwnedElsewhere ==
  ASSUME TypeOK, Owned, UNCHANGED <<tunnel, live, users, creator>>,
         \A r \in Requests : \/ pc'[r] = pc[r]
                             \/ /\ pc[r] \notin Sharing /\ pc'[r] \notin Sharing
                                /\ pc[r] = "idle" \/ pc'[r] \in {"opened", "done", "failed"}
                             \/ pc[r] \in {"lookup", "snapshot"} /\ pc'[r] \notin Sharing
  PROVE  Owned'
  BY DEF TypeOK, Owned, Creation, ListenersAreOwned, Sharing, Creating

LEMMA OwnedAlways == Spec => []Owned
<1>1. Init => Owned
  BY NoneAssumption DEF Init, Owned, Creation, ListenersAreOwned, Sharing, Creating
<1>2. TypeOK /\ Owned /\ [Next]_vars => Owned'
  <2> SUFFICES ASSUME TypeOK, Owned, [Next]_vars PROVE Owned'
    OBVIOUS
  <2> USE DEF caches, connecting, request, history
  <2>1. ASSUME NEW r \in Requests,
               \/ Begin(r) \/ Lookup(r) \/ Snapshot(r) \/ Open(r) \/ Insert(r)
        PROVE  Owned'
    BY <2>1, OwnedElsewhere
       DEF Begin, Lookup, Snapshot, Open, Insert, Goto, TypeOK, Sharing, Creating
  <2>2. ASSUME NEW r \in Requests, Join(r) PROVE Owned'
    BY <2>2 DEF Join, Goto, TypeOK, Owned, Creation, ListenersAreOwned, Sharing, Creating
  <2>3. ASSUME NEW r \in Requests, LockCreation(r) PROVE Owned'
    BY <2>3, NoneAssumption
       DEF LockCreation, Goto, TypeOK, Owned, Creation, ListenersAreOwned, Sharing, Creating
  <2>4. ASSUME NEW r \in Requests, GiveUp(r) \/ SpawnFails(r) PROVE Owned'
    BY <2>4, LeaveStage, NoneAssumption
       DEF GiveUp, SpawnFails, TypeOK, Owned, Creation, ListenersAreOwned, Sharing, Creating
  <2>5. ASSUME NEW r \in Requests, FindTunnel(r) PROVE Owned'
    <3>1. CASE tunnel # None
      BY <2>5, <3>1, LeaveStage, NoneAssumption
         DEF FindTunnel, TypeOK, Owned, Creation, ListenersAreOwned, Sharing, Creating
    <3>2. CASE tunnel = None
      BY <2>5, <3>2
         DEF FindTunnel, Goto, TypeOK, Owned, Creation, ListenersAreOwned, Sharing, Creating
    <3>3. QED
      BY <3>1, <3>2
  <2>6. ASSUME NEW r \in Requests, Spawn(r) PROVE Owned'
    BY <2>6
       DEF Spawn, Goto, TypeOK, Owned, Creation, ListenersAreOwned, Sharing, Creating
  <2>7. ASSUME NEW r \in Requests, Publish(r) PROVE Owned'
    <3>1. pc[r] = "spawned"
      BY <2>7 DEF Publish
    <3>2. creator = r /\ r \in live /\ tunnel = None
      BY <3>1 DEF Owned, Creation, Creating
    <3>3. \A q \in Requests \ {r} : pc[q] \notin Creating
      BY <3>2 DEF Owned, Creation
    <3>4. live \subseteq {r}
      BY <3>2, NoneAssumption DEF Owned, ListenersAreOwned, TypeOK
    <3>5. CASE seen[r] = generation
      BY <2>7, <3>2, <3>4, <3>5, <3>3, LeaveStage, NoneAssumption
         DEF Publish, Register, TypeOK, Owned, Creation, ListenersAreOwned, Sharing, Creating
    <3>6. CASE seen[r] # generation
      BY <2>7, <3>2, <3>4, <3>6, <3>3, LeaveStage, NoneAssumption
         DEF Publish, TypeOK, Owned, Creation, ListenersAreOwned, Sharing, Creating
    <3>7. QED
      BY <3>5, <3>6
  <2>8. ASSUME NEW r \in Requests, Cancel(r) PROVE Owned'
    BY <2>8, OwnedElsewhere DEF Cancel, Goto, TypeOK, Sharing, Creating
  <2>9. ASSUME NEW e \in Editors,
               \/ Save(e) \/ Close(e) \/ DropDriver(e) \/ Invalidate(e) \/ Bump(e)
        PROVE  Owned'
    BY <2>9, OwnedElsewhere DEF Save, Close, DropDriver, Invalidate, Bump
  <2>10. ASSUME NEW e \in Editors, RemoveTunnel(e) PROVE Owned'
    BY <2>10, NoneAssumption
       DEF RemoveTunnel, TypeOK, Owned, Creation, ListenersAreOwned, Sharing, Creating
  <2>11. CASE Forward
    BY <2>11, OwnedElsewhere DEF Forward
  <2>12. CASE UNCHANGED vars
    BY <2>12, OwnedElsewhere DEF vars
  <2>13. QED
    BY <2>1, <2>2, <2>3, <2>4, <2>5, <2>6, <2>7, <2>8, <2>9, <2>10, <2>11, <2>12
       DEF Next, Step, Clear
<1>3. QED
  BY <1>1, <1>2, TypeCorrect, PTL DEF Spec

\* No listener is leaked by a failed or overtaken creation, and the port of the
\* registered tunnel accepts connections.
THEOREM ListenersAccounted == Spec => []ListenersAreOwned
<1>1. Owned => ListenersAreOwned
  BY DEF Owned
<1>2. QED
  BY <1>1, OwnedAlways, PTL

-----------------------------------------------------------------------------
(* Closed tunnels. *)

\* A creation whose generation is still the current one began after every close
\* that has passed its first half.
Unovertaken ==
  \A r \in Requests : creator = r =>
    /\ seen[r] <= generation
    /\ seen[r] = generation => Bumped \subseteq begun[r]

Guarded == Unovertaken /\ ClosedTunnelsStayClosed

LEMMA GuardedElsewhere ==
  ASSUME TypeOK, Guarded, UNCHANGED <<generation, begun, Bumped>>,
         \A e \in Editors : ed'[e] = "closed" => ed[e] = "closed",
         tunnel' \in {tunnel, None},
         \A r \in Requests : creator' = r => creator = r /\ seen'[r] = seen[r]
  PROVE  Guarded'
  BY DEF TypeOK, Guarded, Unovertaken, ClosedTunnelsStayClosed

LEMMA GuardedAlways == Spec => []Guarded
<1>1. Init => Guarded
  BY NoneAssumption DEF Init, Guarded, Unovertaken, ClosedTunnelsStayClosed
<1>2. TypeOK /\ Owned /\ Guarded /\ [Next]_vars => Guarded'
  <2> SUFFICES ASSUME TypeOK, Owned, Guarded, [Next]_vars PROVE Guarded'
    OBVIOUS
  <2> USE DEF caches, connecting, request, history
  <2>1. ASSUME NEW r \in Requests,
               \/ Begin(r) \/ Lookup(r) \/ Snapshot(r) \/ Open(r) \/ Insert(r)
               \/ Spawn(r) \/ Cancel(r)
        PROVE  Guarded'
    BY <2>1, GuardedElsewhere
       DEF Begin, Lookup, Snapshot, Open, Insert, Spawn, Cancel, Bumped
  <2>2. ASSUME NEW r \in Requests, Join(r) PROVE Guarded'
    <3>1. CASE users = {}
      <4>1. \A q \in Requests : creator # q
        BY <3>1 DEF Owned, Creation, Sharing
      <4>2. QED
        BY <2>2, <4>1
           DEF Join, TypeOK, Guarded, Unovertaken, ClosedTunnelsStayClosed
    <3>2. CASE users # {}
      BY <2>2, <3>2, GuardedElsewhere DEF Join, Bumped
    <3>3. QED
      BY <3>1, <3>2
  <2>3. ASSUME NEW r \in Requests, LockCreation(r) PROVE Guarded'
    <3>1. Bumped' = Bumped /\ Bumped \subseteq Editors
      BY <2>3 DEF LockCreation, Bumped
    <3>2. tunnel # r
      BY <2>3, NoneAssumption DEF LockCreation, Owned, Creation
    <3>3. seen'[r] = generation' /\ begun'[r] = Bumped /\ creator' = r
      BY <2>3 DEF LockCreation, TypeOK
    <3>4. Unovertaken'
      BY <2>3, <3>1, <3>3 DEF LockCreation, TypeOK, Unovertaken
    <3>5. tunnel' = tunnel /\ ed' = ed /\ \A q \in Requests \ {r} : begun'[q] = begun[q]
      BY <2>3 DEF LockCreation, TypeOK
    <3>6. ClosedTunnelsStayClosed'
      BY <3>2, <3>5 DEF TypeOK, Guarded, ClosedTunnelsStayClosed
    <3>7. QED
      BY <3>4, <3>6 DEF Guarded
  <2>4. ASSUME NEW r \in Requests, GiveUp(r) \/ SpawnFails(r) PROVE Guarded'
    BY <2>4, LeaveStage, GuardedElsewhere, NoneAssumption
       DEF GiveUp, SpawnFails, TypeOK, Bumped
  <2>5. ASSUME NEW r \in Requests, FindTunnel(r) PROVE Guarded'
    <3>1. CASE tunnel # None
      BY <2>5, <3>1, LeaveStage, GuardedElsewhere, NoneAssumption
         DEF FindTunnel, TypeOK, Bumped
    <3>2. CASE tunnel = None
      BY <2>5, <3>2, GuardedElsewhere DEF FindTunnel, Bumped
    <3>3. QED
      BY <3>1, <3>2
  <2>6. ASSUME NEW r \in Requests, Publish(r) PROVE Guarded'
    <3>1. creator = r
      BY <2>6 DEF Publish, Owned, Creation, Creating
    <3>2. CASE seen[r] = generation
      <4>1. Bumped \subseteq begun[r]
        BY <3>1, <3>2 DEF Guarded, Unovertaken
      <4>2. /\ creator' = None /\ tunnel' = r
            /\ UNCHANGED <<generation, begun, ed>>
        BY <2>6, <3>1, <3>2, LeaveStage DEF Publish, Register
      <4>3. QED
        BY <4>1, <4>2, NoneAssumption
           DEF Guarded, Unovertaken, ClosedTunnelsStayClosed, Bumped
    <3>3. CASE seen[r] # generation
      BY <2>6, <3>3, LeaveStage, GuardedElsewhere, NoneAssumption
         DEF Publish, TypeOK, Bumped
    <3>4. QED
      BY <3>2, <3>3
  <2>7. ASSUME NEW e \in Editors,
               Save(e) \/ Close(e) \/ DropDriver(e) \/ Invalidate(e)
        PROVE  Guarded'
    <3>1. Bumped' = Bumped
      BY <2>7 DEF Save, Close, DropDriver, Invalidate, EdGoto, Bumped, TypeOK
    <3>2. \A f \in Editors : ed'[f] = "closed" => ed[f] = "closed"
      BY <2>7 DEF Save, Close, DropDriver, Invalidate, EdGoto, TypeOK
    <3>3. QED
      BY <2>7, <3>1, <3>2, GuardedElsewhere DEF Save, Close, DropDriver, Invalidate
  <2>8. ASSUME NEW e \in Editors, Bump(e) PROVE Guarded'
    <3>1. ASSUME NEW r \in Requests, creator = r
          PROVE  seen[r] <= generation' /\ seen[r] # generation'
      <4>1. r \in users
        BY <3>1 DEF Owned, Creation, Sharing
      <4>2. generation' = generation + 1
        BY <2>8, <4>1 DEF Bump
      <4>3. seen[r] \in Nat /\ generation \in Nat /\ seen[r] <= generation
        BY <3>1 DEF TypeOK, Guarded, Unovertaken
      <4>4. QED
        BY <4>2, <4>3
    <3>2. Unovertaken'
      BY <2>8, <3>1 DEF Bump, Unovertaken
    <3>3. \A f \in Editors : ed'[f] = "closed" => ed[f] = "closed"
      BY <2>8 DEF Bump, EdGoto, TypeOK
    <3>4. ClosedTunnelsStayClosed'
      BY <2>8, <3>3 DEF Bump, Guarded, ClosedTunnelsStayClosed
    <3>5. QED
      BY <3>2, <3>4 DEF Guarded
  <2>9. ASSUME NEW e \in Editors, RemoveTunnel(e) PROVE Guarded'
    <3>1. Bumped' = Bumped
      BY <2>9 DEF RemoveTunnel, EdGoto, Bumped, TypeOK
    <3>2. QED
      BY <2>9, <3>1
         DEF RemoveTunnel, TypeOK, Guarded, Unovertaken, ClosedTunnelsStayClosed
  <2>10. CASE Forward
    BY <2>10, GuardedElsewhere DEF Forward, Bumped
  <2>11. CASE UNCHANGED vars
    BY <2>11, GuardedElsewhere DEF vars, Bumped
  <2>12. QED
    BY <2>1, <2>2, <2>3, <2>4, <2>5, <2>6, <2>7, <2>8, <2>9, <2>10, <2>11
       DEF Next, Step, Clear
<1>3. QED
  BY <1>1, <1>2, TypeCorrect, OwnedAlways, PTL DEF Spec

\* A tunnel that a close overtook while it was being created never appears in the
\* cache afterwards: the generation is compared under the lock that publishes it.
THEOREM ClosedIsClosed == Spec => []ClosedTunnelsStayClosed
<1>1. Guarded => ClosedTunnelsStayClosed
  BY DEF Guarded
<1>2. QED
  BY <1>1, GuardedAlways, PTL

-----------------------------------------------------------------------------
(* Drivers. *)

\* The driver was opened for the saved configuration and the registered tunnel.
Current(r) ==
  /\ snap[r] = config
  /\ config.kind = "ssh" => tunnel # None /\ port[r] = tunnel

\* A request that no command overlaps carries the saved configuration and, once
\* it has a port, the registered tunnel.
RequestsCurrent ==
  \A r \in Requests : pc[r] \in InFlight /\ r \notin raced =>
    /\ Active = {}
    /\ snap[r] = config
    /\ pc[r] \in {"open", "opened"} => Current(r)

\* Between the two halves of a close the cache holds at most an overlapped driver.
DriverCurrent ==
  /\ driver # None => pc[driver] = "done"
  /\ \A e \in Editors : ed[e] \in {"bump", "remove"} => driver \in raced \cup {None}
  /\ Active = {} /\ driver # None /\ driver \notin raced => Current(driver)

Fresh == RequestsCurrent /\ DriverCurrent

LEMMA FreshAlways == Spec => []Fresh
<1>1. Init => Fresh
  BY DEF Init, Fresh, RequestsCurrent, DriverCurrent, InFlight
<1>2. TypeOK /\ Owned /\ Fresh /\ [Next]_vars => Fresh'
  <2> SUFFICES ASSUME TypeOK, Owned, Fresh, [Next]_vars PROVE Fresh'
    OBVIOUS
  <2> USE DEF caches, connecting, request, history
  <2>1. ASSUME NEW r \in Requests,
               \/ Begin(r) \/ Lookup(r) \/ Snapshot(r) \/ Join(r) \/ LockCreation(r)
               \/ GiveUp(r) \/ FindTunnel(r) \/ Spawn(r) \/ SpawnFails(r)
               \/ Publish(r) \/ Open(r) \/ Cancel(r)
        PROVE  /\ UNCHANGED <<config, driver, ed, Active>>
               /\ raced \subseteq raced' /\ raced' \subseteq raced \cup {r}
               /\ pc[r] # "done"
               /\ \A q \in Requests \ {r} : UNCHANGED <<pc[q], snap[q], port[q]>>
    <3>1. UNCHANGED <<config, driver, ed>>
      BY <2>1 DEF Begin, Lookup, Snapshot, Join, LockCreation, GiveUp, FindTunnel,
                  Spawn, SpawnFails, Publish, Register, Open, Cancel
    <3>2. raced \subseteq raced' /\ raced' \subseteq raced \cup {r}
      BY <2>1 DEF Begin, Lookup, Snapshot, Join, LockCreation, GiveUp, FindTunnel,
                  Spawn, SpawnFails, Publish, Register, Open, Cancel
    <3>3. pc[r] # "done"
      BY <2>1 DEF Begin, Lookup, Snapshot, Join, LockCreation, GiveUp, FindTunnel,
                  Spawn, SpawnFails, Publish, Open, Cancel
    <3>4. \A q \in Requests \ {r} : UNCHANGED <<pc[q], snap[q], port[q]>>
      BY <2>1 DEF Begin, Lookup, Snapshot, Join, LockCreation, GiveUp, FindTunnel,
                  Spawn, SpawnFails, Publish, Register, Open, Cancel, Leave, Goto, TypeOK
    <3>5. QED
      BY <3>1, <3>2, <3>3, <3>4 DEF Active
  \* Outside Publish the registered tunnel stays what it is.
  <2>2. ASSUME NEW r \in Requests, tunnel' = tunnel,
               UNCHANGED <<config, driver, ed, Active>>,
               raced \subseteq raced', raced' \subseteq raced \cup {r},
               pc[r] # "done",
               \A q \in Requests \ {r} : UNCHANGED <<pc[q], snap[q], port[q]>>,
               pc'[r] \in InFlight /\ r \notin raced' =>
                 /\ Active = {}
                 /\ snap'[r] = config
                 /\ pc'[r] \in {"open", "opened"} => Current(r)'
        PROVE  Fresh'
    <3>1. RequestsCurrent'
      BY <2>2 DEF Fresh, RequestsCurrent, Current
    <3>2. driver # r
      BY <2>2, NoneAssumption DEF Fresh, DriverCurrent
    <3>3. DriverCurrent'
      BY <2>2, <3>2 DEF TypeOK, Fresh, DriverCurrent, Current
    <3>4. QED
      BY <3>1, <3>3 DEF Fresh
  <2>3. ASSUME NEW r \in Requests, Begin(r) \/ Lookup(r) PROVE Fresh'
    BY <2>3, <2>1, <2>2 DEF Begin, Lookup, Goto, TypeOK, InFlight
  <2>4. ASSUME NEW r \in Requests, Snapshot(r) PROVE Fresh'
    <3>1. CASE config.kind = "removed"
      <4>1. pc'[r] = "failed" /\ tunnel' = tunnel
        BY <2>4, <3>1 DEF Snapshot, Goto, TypeOK
      <4>2. QED
        BY <2>4, <4>1, <2>1, <2>2 DEF InFlight
    <3>2. CASE config.kind # "removed"
      <4>1. r \notin raced' => Active = {}
        BY <2>4 DEF Snapshot
      <4>2. snap'[r] = config /\ tunnel' = tunnel
        BY <2>4, <3>2 DEF Snapshot, TypeOK
      <4>3. pc'[r] \in {"open", "opened"} => config.kind # "ssh"
        BY <2>4, <3>2 DEF Snapshot, Goto, TypeOK
      <4>4. QED
        BY <2>4, <4>1, <4>2, <4>3, <2>1, <2>2 DEF Current
    <3>3. QED
      BY <3>1, <3>2
  <2>5. ASSUME NEW r \in Requests, Join(r) \/ LockCreation(r) \/ Spawn(r) PROVE Fresh'
    BY <2>5, <2>1, <2>2
       DEF Join, LockCreation, Spawn, Goto, TypeOK, InFlight, Fresh, RequestsCurrent
  <2>6. ASSUME NEW r \in Requests, GiveUp(r) \/ SpawnFails(r) PROVE Fresh'
    <3>1. pc'[r] = "failed" /\ tunnel' = tunnel
      BY <2>6 DEF GiveUp, SpawnFails, Leave, Goto, TypeOK
    <3>2. QED
      BY <2>6, <3>1, <2>1, <2>2 DEF InFlight
  <2>7. ASSUME NEW r \in Requests, FindTunnel(r) PROVE Fresh'
    <3>1. CASE tunnel # None
      <4>1. tunnel' = tunnel /\ port'[r] = tunnel /\ UNCHANGED <<snap, raced, config>>
        BY <2>7, <3>1 DEF FindTunnel, TypeOK
      <4>2. pc[r] \in InFlight
        BY <2>7 DEF FindTunnel, InFlight
      <4>3. QED
        BY <2>7, <3>1, <4>1, <4>2, <2>1, <2>2 DEF Fresh, RequestsCurrent, Current
    <3>2. CASE tunnel = None
      BY <2>7, <3>2, <2>1, <2>2
         DEF FindTunnel, Goto, TypeOK, InFlight, Fresh, RequestsCurrent
    <3>3. QED
      BY <3>1, <3>2
  <2>8. ASSUME NEW r \in Requests, Open(r) PROVE Fresh'
    BY <2>8, <2>1, <2>2
       DEF Open, Goto, TypeOK, InFlight, Fresh, RequestsCurrent, Current
  <2>9. ASSUME NEW r \in Requests, Cancel(r) PROVE Fresh'
    BY <2>9, <2>1, <2>2
       DEF Cancel, Goto, TypeOK, InFlight, Fresh, RequestsCurrent
  \* No tunnel is registered before, so nobody relies on another one.
  <2>10. ASSUME NEW r \in Requests, Publish(r) PROVE Fresh'
    <3>1. pc[r] = "spawned" /\ tunnel = None
      BY <2>10 DEF Publish, Owned, Creation
    <3>2. CASE seen[r] = generation
      <4>1. tunnel' = r /\ port'[r] = r /\ UNCHANGED <<snap, raced, config>>
        BY <2>10, <3>2 DEF Publish, Register, TypeOK
      <4>2. RequestsCurrent'
        BY <3>1, <4>1, <2>1, <2>10, NoneAssumption
           DEF Fresh, RequestsCurrent, Current, InFlight
      <4>3. driver # r
        BY <3>1, NoneAssumption DEF Fresh, DriverCurrent
      <4>4. DriverCurrent'
        BY <3>1, <4>1, <4>3, <2>1, <2>10 DEF TypeOK, Fresh, DriverCurrent, Current
      <4>5. QED
        BY <4>2, <4>4 DEF Fresh
    <3>3. CASE seen[r] # generation
      <4>1. pc'[r] = "failed" /\ tunnel' = tunnel
        BY <2>10, <3>3 DEF Publish, Leave, Goto, TypeOK
      <4>2. QED
        BY <2>10, <4>1, <2>1, <2>2 DEF InFlight
    <3>4. QED
      BY <3>2, <3>3
  <2>11. ASSUME NEW r \in Requests, Insert(r) PROVE Fresh'
    <3>1. /\ pc[r] = "opened" /\ driver' = r
          /\ pc' = [pc EXCEPT ![r] = "done"] /\ pc'[r] = "done"
          /\ UNCHANGED <<config, tunnel, snap, port, ed, raced, Active>>
      BY <2>11 DEF Insert, Goto, TypeOK, Active
    <3>2. r \notin raced => Active = {} /\ Current(r)
      BY <3>1 DEF Fresh, RequestsCurrent, InFlight
    <3>3. \A e \in Editors : ed[e] \in {"bump", "remove"} => Active # {}
      BY DEF Active
    <3>4. DriverCurrent'
      BY <3>1, <3>2, <3>3 DEF DriverCurrent, Current
    <3>5. RequestsCurrent'
      BY <3>1 DEF TypeOK, Fresh, RequestsCurrent, Current, InFlight
    <3>6. QED
      BY <3>4, <3>5 DEF Fresh
  \* An edit overlaps every request in flight, and the cache is cleared after it.
  <2>12. ASSUME NEW e \in Editors, Save(e) \/ Close(e) PROVE Fresh'
    <3>1. /\ \A r \in Requests : pc[r] \in InFlight => r \in raced'
          /\ raced \subseteq raced'
          /\ UNCHANGED <<pc, driver>>
      BY <2>12 DEF Save, Close, Overtaken
    <3>2. /\ ed'[e] \in {"drop", "invalidate"}
          /\ \A f \in Editors \ {e} : ed'[f] = ed[f]
      BY <2>12 DEF Save, Close, EdGoto, TypeOK
    <3>3. e \in Active'
      BY <3>2 DEF Active
    <3>4. RequestsCurrent'
      BY <3>1 DEF RequestsCurrent
    <3>5. DriverCurrent'
      BY <3>1, <3>2, <3>3 DEF Fresh, DriverCurrent
    <3>6. QED
      BY <3>4, <3>5 DEF Fresh
  <2>13. ASSUME NEW e \in Editors, Clear(e) PROVE Fresh'
    <3>1. /\ e \in Active
          /\ UNCHANGED <<pc, raced>>
      BY <2>13 DEF Clear, DropDriver, Invalidate, Bump, RemoveTunnel, Active
    <3>2. RequestsCurrent'
      BY <3>1 DEF Fresh, RequestsCurrent
    <3>3. driver' \in raced \cup {None}
      BY <2>13 DEF Clear, DropDriver, Invalidate, Bump, RemoveTunnel, Fresh, DriverCurrent
    <3>4. driver' # None => driver' = driver
      BY <2>13 DEF Clear, DropDriver, Invalidate, Bump, RemoveTunnel
    <3>5. DriverCurrent'
      BY <3>1, <3>3, <3>4 DEF Fresh, DriverCurrent, Current
    <3>6. QED
      BY <3>2, <3>5 DEF Fresh
  <2>14. CASE Forward
    BY <2>14
       DEF Forward, Fresh, RequestsCurrent, DriverCurrent, Current, Active
  <2>15. CASE UNCHANGED vars
    BY <2>15 DEF vars, Fresh, RequestsCurrent, DriverCurrent, Current, Active
  <2>16. QED
    BY <2>3, <2>4, <2>5, <2>6, <2>7, <2>8, <2>9, <2>10, <2>11, <2>12, <2>13,
       <2>14, <2>15 DEF Next, Step
<1>3. QED
  BY <1>1, <1>2, TypeCorrect, OwnedAlways, PTL DEF Spec

\* Unless a request overlapped an edit, the cached driver speaks for the saved
\* configuration through the tunnel in service.
THEOREM DriversAreCurrent == Spec => []UndisturbedDriversAreCurrent
<1>1. Owned /\ Fresh => UndisturbedDriversAreCurrent
  BY DEF Owned, ListenersAreOwned, Fresh, DriverCurrent, Current,
         UndisturbedDriversAreCurrent
<1>2. QED
  BY <1>1, OwnedAlways, FreshAlways, PTL
=============================================================================
