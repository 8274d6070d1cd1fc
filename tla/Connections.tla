---------------------------- MODULE Connections ----------------------------
(***************************************************************************)
(* The driver and tunnel caches of one saved connection: AppState in       *)
(* src-tauri/src/state.rs, TunnelManager in ssh/tunnel.rs and the commands *)
(* of commands/connection.rs that edit, remove or close the connection.    *)
(*                                                                         *)
(* A request looks in the driver cache; on a miss it copies the saved      *)
(* configuration, obtains the shared SSH tunnel on a blocking thread,      *)
(* opens a driver and caches it.  An editor saves the new configuration    *)
(* and then clears the caches, driver first.  Tunnel creation is           *)
(* serialised by a lock and guarded by a generation number that closing    *)
(* increments; the driver cache has no such guard.                         *)
(*                                                                         *)
(* Connection ids share nothing but the mutexes around the maps, so one id *)
(* is modelled.  A listener and a driver are named by the request that     *)
(* made them.                                                              *)
(***************************************************************************)
EXTENDS Integers

CONSTANTS Requests,  \* get_driver calls, one each
          Editors,   \* edit, remove and close commands, one each
          None       \* no request

ASSUME NoneAssumption == None \notin Requests

VARIABLES
  config,    \* the saved connection: its revision and kind
  driver,    \* the cached driver
  tunnel,    \* the registered tunnel
  live,      \* listeners that accept connections
  badKey,    \* the registered tunnel's last forward met a changed host key
  users,     \* requests holding the Connecting entry (its strong count)
  creator,   \* the request holding Connecting.lock
  generation,\* Connecting.generation
  pc,        \* [Requests -> stage of get_driver]
  snap,      \* [Requests -> the configuration the request copied]
  port,      \* [Requests -> the tunnel the request's driver connects to]
  seen,      \* [Requests -> the generation read under the creation lock]
  dropped,   \* requests whose future is gone while their thread works on
  ed,        \* [Editors -> stage of the command]
  begun,     \* history: [Requests -> Bumped when its tunnel's creation began]
  raced      \* history: requests that overlapped an editor

vars == <<config, driver, tunnel, live, badKey, users, creator, generation,
          pc, snap, port, seen, dropped, ed, begun, raced>>
caches == <<driver, tunnel, live, badKey>>
connecting == <<users, creator, generation>>
request == <<pc, snap, port, seen, dropped>>
history == <<begun, raced>>

Config == [rev : Nat, kind : {"ssh", "direct", "removed"}]
InFlight == {"ensure", "waiting", "locked", "spawning", "spawned", "ready",
             "open", "opened"}
Stages == {"idle", "lookup", "snapshot", "done", "failed"} \cup InFlight
\* From "drop" a command clears everything; from "invalidate" the driver only.
EditStages == {"idle", "drop", "bump", "remove", "closed", "invalidate", "saved"}

TypeOK ==
  /\ config \in Config
  /\ driver \in Requests \cup {None}
  /\ tunnel \in Requests \cup {None}
  /\ live \subseteq Requests
  /\ badKey \in BOOLEAN
  /\ users \subseteq Requests
  /\ creator \in Requests \cup {None}
  /\ generation \in Nat
  /\ pc \in [Requests -> Stages]
  /\ snap \in [Requests -> Config]
  /\ port \in [Requests -> Requests \cup {None}]
  /\ seen \in [Requests -> Nat]
  /\ dropped \subseteq Requests
  /\ ed \in [Editors -> EditStages]
  /\ begun \in [Requests -> SUBSET Editors]
  /\ raced \subseteq Requests

Init ==
  /\ config \in [rev : {0}, kind : {"ssh", "direct"}]
  /\ driver = None /\ tunnel = None /\ live = {} /\ badKey = FALSE
  /\ users = {} /\ creator = None /\ generation = 0
  /\ pc = [r \in Requests |-> "idle"]
  /\ snap = [r \in Requests |-> config]
  /\ port = [r \in Requests |-> None]
  /\ seen = [r \in Requests |-> 0]
  /\ dropped = {}
  /\ ed = [e \in Editors |-> "idle"]
  /\ begun = [r \in Requests |-> {}]
  /\ raced = {}

Active == {e \in Editors : ed[e] \notin {"idle", "closed", "saved"}}
\* Closes that new tunnel creations can no longer escape.
Bumped == {e \in Editors : ed[e] \in {"remove", "closed"}}
Overtaken == {r \in Requests : pc[r] \in InFlight}
Goto(r, stage) == pc' = [pc EXCEPT ![r] = stage]
EdGoto(e, stage) == ed' = [ed EXCEPT ![e] = stage]

-----------------------------------------------------------------------------
(* get_driver. *)

\* tunnels.host_key_error: a changed key stops the request at once.
Begin(r) ==
  /\ pc[r] = "idle"
  /\ Goto(r, IF badKey THEN "failed" ELSE "lookup")
  /\ UNCHANGED <<config, caches, connecting, snap, port, seen, dropped, ed, history>>

\* The driver cache is read and its lock released.
Lookup(r) ==
  /\ pc[r] = "lookup"
  /\ Goto(r, IF driver # None THEN "done" ELSE "snapshot")
  /\ UNCHANGED <<config, caches, connecting, snap, port, seen, dropped, ed, history>>

\* connections.get_full: the copy everything below works with.
Snapshot(r) ==
  /\ pc[r] = "snapshot"
  /\ IF config.kind = "removed" THEN Goto(r, "failed") /\ UNCHANGED snap
     ELSE /\ Goto(r, IF config.kind = "ssh" THEN "ensure" ELSE "open")
          /\ snap' = [snap EXCEPT ![r] = config]
  /\ raced' = IF Active # {} THEN raced \cup {r} ELSE raced
  /\ UNCHANGED <<config, caches, connecting, port, seen, dropped, ed, begun>>

\* ensure: share the Connecting entry, or make one with generation 0.
Join(r) ==
  /\ pc[r] = "ensure"
  /\ Goto(r, "waiting")
  /\ users' = users \cup {r}
  /\ generation' = IF users = {} THEN 0 ELSE generation
  /\ UNCHANGED <<config, caches, creator, snap, port, seen, dropped, ed, history>>

\* The blocking thread returns, giving up the lock and its share of the entry.
\* Nobody opens a driver for a request that is gone.
Leave(r, stage) ==
  /\ Goto(r, IF r \in dropped THEN "failed" ELSE stage)
  /\ users' = users \ {r}
  /\ creator' = IF creator = r THEN None ELSE creator
  /\ dropped' = dropped \ {r}
  /\ seen' = [seen EXCEPT ![r] = 0]

\* connecting.lock, the cancellation check, and the generation to compare with.
LockCreation(r) ==
  /\ pc[r] = "waiting"
  /\ creator = None
  /\ r \notin dropped
  /\ creator' = r
  /\ Goto(r, "locked")
  /\ seen' = [seen EXCEPT ![r] = generation]
  /\ begun' = [begun EXCEPT ![r] = Bumped]
  /\ UNCHANGED <<config, caches, users, generation, snap, port, dropped, ed, raced>>

\* The request was cancelled while it waited for the lock.
GiveUp(r) ==
  /\ pc[r] = "waiting"
  /\ creator = None
  /\ r \in dropped
  /\ Leave(r, "failed")
  /\ UNCHANGED <<config, caches, generation, snap, port, ed, history>>

\* A tunnel made by another tab is shared.
FindTunnel(r) ==
  /\ pc[r] = "locked"
  /\ IF tunnel # None
     THEN Leave(r, "open") /\ port' = [port EXCEPT ![r] = tunnel]
     ELSE Goto(r, "spawning") /\ UNCHANGED <<users, creator, port, seen, dropped>>
  /\ UNCHANGED <<config, caches, generation, snap, ed, history>>

\* spawn_tunnel: connect, verify, authenticate, probe and listen.
Spawn(r) ==
  /\ pc[r] = "spawning"
  /\ live' = live \cup {r}
  /\ Goto(r, "spawned")
  /\ UNCHANGED <<config, driver, tunnel, badKey, connecting, snap, port, seen,
                 dropped, ed, history>>

SpawnFailsKeepingTheLock(r) ==
  /\ pc[r] = "spawning"
  /\ Goto(r, "failed")
  /\ UNCHANGED <<config, caches, connecting, snap, port, seen, dropped, ed, history>>

\* Any of those steps fails, or one of its cancellation checks does.
SpawnFails(r) ==
  /\ pc[r] = "spawning"
  /\ Leave(r, "failed")
  /\ UNCHANGED <<config, caches, generation, snap, port, ed, history>>

\* The new tunnel enters the map and its port is returned.
Register(r) ==
  /\ tunnel' = r
  /\ badKey' = FALSE
  /\ port' = [port EXCEPT ![r] = r]
  /\ Leave(r, "open")
  /\ UNCHANGED live

PublishUnchecked(r) ==
  /\ pc[r] = "spawned"
  /\ Register(r)
  /\ UNCHANGED <<config, driver, generation, snap, ed, history>>

PublishForgetsListener(r) ==
  /\ pc[r] = "spawned"
  /\ IF seen[r] = generation THEN Register(r)
     ELSE Leave(r, "failed") /\ UNCHANGED <<tunnel, port, live, badKey>>
  /\ UNCHANGED <<config, driver, generation, snap, ed, history>>

\* Under the tunnels lock: a tunnel that a close has overtaken is shut down.
Publish(r) ==
  /\ pc[r] = "spawned"
  /\ IF seen[r] = generation THEN Register(r)
     ELSE /\ live' = live \ {r}
          /\ Leave(r, "failed")
          /\ UNCHANGED <<tunnel, port, badKey>>
  /\ UNCHANGED <<config, driver, generation, snap, ed, history>>

\* EngineDriver::open with the copied configuration and the tunnel's port.
Open(r) ==
  /\ pc[r] = "open"
  /\ \E stage \in {"opened", "failed"} : Goto(r, stage)
  /\ UNCHANGED <<config, caches, connecting, snap, port, seen, dropped, ed, history>>

\* drivers.lock().insert, whatever has happened since the copy.
Insert(r) ==
  /\ pc[r] = "opened"
  /\ driver' = r
  /\ Goto(r, "done")
  /\ UNCHANGED <<config, tunnel, live, badKey, connecting, snap, port, seen,
                 dropped, ed, history>>

\* The caller is cancelled: an awaiting future goes at once, a blocking thread
\* keeps its share of the creation until its own check.
Cancel(r) ==
  /\ \/ /\ pc[r] \in {"waiting", "locked", "spawning", "spawned"}
        /\ r \notin dropped
        /\ dropped' = dropped \cup {r}
        /\ UNCHANGED pc
     \/ /\ pc[r] = "open"
        /\ Goto(r, "failed")
        /\ UNCHANGED dropped
  /\ UNCHANGED <<config, caches, connecting, snap, port, seen, ed, history>>

-----------------------------------------------------------------------------
(* Forwards over the tunnel. *)

\* Each forwarded client proves the host's identity again; the outcome of the
\* last one is what host_key_error reports.
Forward ==
  /\ tunnel # None
  /\ badKey' = ~badKey
  /\ UNCHANGED <<config, driver, tunnel, live, connecting, request, ed, history>>

-----------------------------------------------------------------------------
(* Commands. *)

\* connection_upsert and connection_remove store first and clear the caches
\* next; the credential and browsing commands only invalidate the driver.
Save(e) ==
  /\ ed[e] = "idle"
  /\ \/ /\ EdGoto(e, "drop")
        /\ \E k \in {"ssh", "direct", "removed"} :
             config' = [rev |-> config.rev + 1, kind |-> k]
     \/ /\ EdGoto(e, "invalidate")
        /\ config.kind # "removed"
        /\ config' = [config EXCEPT !.rev = @ + 1]
  /\ raced' = raced \cup Overtaken
  /\ UNCHANGED <<caches, connecting, request, begun>>

\* connection_close, and trust changes, clear the caches of a connection as saved.
Close(e) ==
  /\ ed[e] = "idle"
  /\ EdGoto(e, "drop")
  /\ raced' = raced \cup Overtaken
  /\ UNCHANGED <<config, caches, connecting, request, begun>>

DropDriverKept(e) ==
  /\ ed[e] = "drop"
  /\ EdGoto(e, "bump")
  /\ UNCHANGED <<config, driver, tunnel, live, badKey, connecting, request, history>>

\* close_connection: the driver leaves the cache and its pools are drained.
DropDriver(e) ==
  /\ ed[e] = "drop"
  /\ driver' = None
  /\ EdGoto(e, "bump")
  /\ UNCHANGED <<config, tunnel, live, badKey, connecting, request, history>>

\* invalidate_driver.
Invalidate(e) ==
  /\ ed[e] = "invalidate"
  /\ driver' = None
  /\ EdGoto(e, "saved")
  /\ UNCHANGED <<config, tunnel, live, badKey, connecting, request, history>>

\* tunnels.close, first half: creations under way must not be published.
Bump(e) ==
  /\ ed[e] = "bump"
  /\ generation' = IF users # {} THEN generation + 1 ELSE generation
  /\ EdGoto(e, "remove")
  /\ UNCHANGED <<config, caches, users, creator, request, history>>

\* tunnels.close, second half: the registered tunnel stops listening.
RemoveTunnel(e) ==
  /\ ed[e] = "remove"
  /\ tunnel' = None
  /\ badKey' = FALSE
  /\ live' = live \ {tunnel}
  /\ EdGoto(e, "closed")
  /\ UNCHANGED <<config, driver, connecting, request, history>>

-----------------------------------------------------------------------------
Step(r) ==
  \/ Begin(r) \/ Lookup(r) \/ Snapshot(r) \/ Join(r) \/ LockCreation(r)
  \/ GiveUp(r) \/ FindTunnel(r) \/ Spawn(r) \/ SpawnFails(r) \/ Publish(r)
  \/ Open(r) \/ Insert(r)
Clear(e) == DropDriver(e) \/ Invalidate(e) \/ Bump(e) \/ RemoveTunnel(e)

Next ==
  \/ \E r \in Requests : Step(r) \/ Cancel(r)
  \/ \E e \in Editors : Save(e) \/ Close(e) \/ Clear(e)
  \/ Forward

Spec == Init /\ [][Next]_vars

\* Tasks and blocking threads run: connecting, probing and opening have timeouts,
\* and a command that has saved goes on to clear the caches.
Fairness == /\ \A r \in Requests : WF_vars(Step(r))
            /\ \A e \in Editors : WF_vars(Clear(e))
FairSpec == Spec /\ Fairness

-----------------------------------------------------------------------------
(* Properties. *)

\* No listener is leaked: one that accepts connections is registered, where a
\* close will find it, or belongs to the one request that is creating a tunnel.
\* And the port that ensure hands out for a registered tunnel accepts connections.
ListenersAreOwned ==
  /\ \A t \in live : t = tunnel \/ (pc[t] = "spawned" /\ creator = t)
  /\ tunnel # None => tunnel \in live

\* A tunnel that a close overtook in creation is not there after the close: every
\* close that is over had passed the generation before the tunnel's creation.
ClosedTunnelsStayClosed ==
  \A e \in Editors : tunnel # None /\ ed[e] = "closed" => e \in begun[tunnel]

\* Unless a request overlapped an edit, the cached driver speaks for the saved
\* configuration and through the tunnel in service.
UndisturbedDriversAreCurrent ==
  Active = {} /\ driver # None /\ driver \notin raced =>
    /\ snap[driver] = config
    /\ config.kind = "ssh" => port[driver] = tunnel /\ tunnel \in live

\* A request that gets past its first check is answered: nobody waits for ever
\* for the creation lock.
RequestsAreAnswered ==
  \A r \in Requests : pc[r] = "lookup" ~> pc[r] \in {"done", "failed"}

\* What the comment in connection_upsert says: an edit takes effect at once, the
\* old driver is gone when the command has finished.
EditsTakeEffect == Active = {} /\ driver # None => snap[driver] = config
=============================================================================
