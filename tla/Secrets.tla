------------------------------ MODULE Secrets ------------------------------
(***************************************************************************)
(* The saved secrets and the key that encrypts them                        *)
(* (src-tauri/src/secret_crypto.rs, src-tauri/src/store/connection_store.rs). *)
(*                                                                         *)
(* connections.json holds secrets in three forms: plain text and enc:v1:   *)
(* from earlier versions, enc:v2: from this one.  The key of an earlier    *)
(* version is in the file master.key and moves to the system's credential  *)
(* store.  A process migrates every secret when it starts, publishes the   *)
(* file in one rename, and only then removes master.key.                   *)
(*                                                                         *)
(* KEY_LOCK orders the users of the key within a process.  Nothing orders  *)
(* two processes, each of which has its own copy of connections.json in    *)
(* memory, and each may stop at any step.  Of the saves of one process one *)
(* is in progress at a time.                                               *)
(***************************************************************************)
EXTENDS Naturals

CONSTANTS Procs,    \* processes of the application
          Fields,   \* the secrets of the saved connections
          Keys,     \* encryption keys
          Old,      \* the key in master.key, if there is one
          None,    \* no key, no field
          AddOnly   \* the credential store keeps the key it has (macOS), or it
                    \* takes the last one written (Linux, Windows)

ASSUME KeysAssumption == Old \in Keys /\ None \notin Keys
ASSUME StoreAssumption == AddOnly \in BOOLEAN

VARIABLES
  store,   \* the key in the system's credential store
  legacy,  \* the key in master.key
  file,    \* connections.json: [Fields -> secret]
  pc,      \* where each process is
  mem,     \* ConnectionStore.inner
  next,    \* the schema the process is about to persist
  call     \* the use of the key in progress: for which task and field, whether to
           \* decrypt or to encrypt, and the key found

files == <<store, legacy, file>>
vars == <<files, pc, mem, next, call>>

Secret == [form : {"none", "plain"}, key : {None}] \cup [form : {"v1", "v2"}, key : Keys]
Nothing == [form |-> "none", key |-> None]
V2(k) == [form |-> "v2", key |-> k]
Current == {s \in Secret : s.form \in {"none", "v2"}}
Schema == [Fields -> Secret]
NoSecrets == [f \in Fields |-> Nothing]

NoCall == [task |-> "none", field |-> None, mode |-> "none", key |-> None]
Call == [task : {"none", "migrate", "finish", "save"}, field : Fields \cup {None},
         mode : {"none", "decrypt", "encrypt"}, key : Keys \cup {None}]
Looking == {"read", "legacy", "write", "back", "got"}
Stages == {"down", "migrate", "up", "locked", "publish"} \cup Looking

TypeOK ==
  /\ store \in Keys \cup {None}
  /\ legacy \in Keys \cup {None}
  /\ file \in Schema
  /\ pc \in [Procs -> Stages]
  /\ mem \in [Procs -> Schema]
  /\ next \in [Procs -> Schema]
  /\ call \in [Procs -> Call]

\* What an earlier version of the application, or none, has left.
Init ==
  /\ store = None
  /\ legacy \in {None, Old}
  /\ file \in {s \in Schema : \A f \in Fields :
                 \/ s[f].form \in {"none", "plain"}
                 \/ s[f].form = "v1" /\ s[f].key = legacy}
  /\ pc = [p \in Procs |-> "down"]
  /\ mem = [p \in Procs |-> NoSecrets]
  /\ next = [p \in Procs |-> NoSecrets]
  /\ call = [p \in Procs |-> NoCall]

-----------------------------------------------------------------------------
(* master_key_at, and what becomes of the key. *)

\* Keys that are in use somewhere; a generated key is none of them.
InUse == {store, legacy} \cup {call[p].key : p \in Procs}
         \cup {s.key : s \in {file[f] : f \in Fields}}
         \cup {s.key : s \in {next[p][f] : p \in Procs, f \in Fields}}
         \cup {s.key : s \in {mem[p][f] : p \in Procs, f \in Fields}}

Goto(p, stage) == pc' = [pc EXCEPT ![p] = stage]

LookUp(p, task, f, mode) ==
  /\ Goto(p, "read")
  /\ call' = [call EXCEPT ![p] = [task |-> task, field |-> f, mode |-> mode, key |-> None]]

\* A secret that is encrypted already is decrypted first.
Recode(p, task, f) ==
  LookUp(p, task, f, IF next[p][f].key = None THEN "encrypt" ELSE "decrypt")

\* The task cannot be done.  At startup the application goes on, with everything
\* that needs the secrets refused (startup_error); a save only fails.
GiveUp(p) ==
  /\ Goto(p, IF call[p].task = "save" THEN "up" ELSE "locked")
  /\ next' = [next EXCEPT ![p] = mem[p]]
  /\ call' = [call EXCEPT ![p] = NoCall]
  /\ UNCHANGED <<files, mem>>

\* The credential store is locked or unavailable, whenever it is asked.
Unavailable(p) == pc[p] \in {"read", "write", "back"} /\ GiveUp(p)

ReadStore(p) ==
  /\ pc[p] = "read"
  /\ Goto(p, "legacy")
  /\ call' = [call EXCEPT ![p].key = store]
  /\ UNCHANGED <<files, mem, next>>

\* The key is in the credential store, and master.key does not contradict it.
FindSaved(p) ==
  /\ pc[p] = "legacy" /\ call[p].key # None
  /\ legacy \in {None, call[p].key}
  /\ Goto(p, "got")
  /\ UNCHANGED <<files, mem, next, call>>

\* It is still in master.key.
FindLegacy(p) ==
  /\ pc[p] = "legacy" /\ call[p].key = None /\ legacy # None
  /\ Goto(p, "write")
  /\ call' = [call EXCEPT ![p].key = legacy]
  /\ UNCHANGED <<files, mem, next>>

\* There is none, and a secret is to be encrypted: generate one.
Generate(p) ==
  /\ pc[p] = "legacy" /\ call[p].key = None /\ legacy = None
  /\ call[p].mode = "encrypt"
  /\ \E k \in Keys \ InUse : call' = [call EXCEPT ![p].key = k]
  /\ Goto(p, "write")
  /\ UNCHANGED <<files, mem, next>>

Contradicted(p) ==
  /\ pc[p] = "legacy"
  /\ \/ call[p].key # None /\ legacy \notin {None, call[p].key}
     \/ call[p].key = None /\ legacy = None /\ call[p].mode # "encrypt"
  /\ GiveUp(p)

WriteStore(p) ==
  /\ pc[p] = "write"
  /\ store' = IF AddOnly /\ store # None THEN store ELSE call[p].key
  /\ Goto(p, "back")
  /\ UNCHANGED <<legacy, file, mem, next, call>>

ReadBackAnything(p) ==
  /\ pc[p] = "back"
  /\ Goto(p, "got")
  /\ UNCHANGED <<files, mem, next, call>>

\* Only the key that can be read back is used.
ReadBack(p) ==
  /\ pc[p] = "back"
  /\ IF store = call[p].key
     THEN Goto(p, "got") /\ UNCHANGED <<files, mem, next, call>>
     ELSE GiveUp(p)

\* decrypt_with_key: the wrong key does not authenticate.
Decrypt(p) ==
  /\ pc[p] = "got" /\ call[p].mode = "decrypt"
  /\ IF next[p][call[p].field].key = call[p].key
     THEN LookUp(p, call[p].task, call[p].field, "encrypt") /\ UNCHANGED <<files, mem, next>>
     ELSE GiveUp(p)

EncryptNothing(p) ==
  /\ pc[p] = "got" /\ call[p].mode = "encrypt"
  /\ Goto(p, IF call[p].task = "save" THEN "publish" ELSE "migrate")
  /\ call' = [call EXCEPT ![p] = NoCall]
  /\ UNCHANGED <<files, mem, next>>

Encrypt(p) ==
  /\ pc[p] = "got" /\ call[p].mode = "encrypt"
  /\ next' = [next EXCEPT ![p][call[p].field] = V2(call[p].key)]
  /\ Goto(p, IF call[p].task = "save" THEN "publish" ELSE "migrate")
  /\ call' = [call EXCEPT ![p] = NoCall]
  /\ UNCHANGED <<files, mem>>

-----------------------------------------------------------------------------
(* ConnectionStore::load. *)

Start(p) ==
  /\ pc[p] = "down"
  /\ Goto(p, "migrate")
  /\ mem' = [mem EXCEPT ![p] = file]
  /\ next' = [next EXCEPT ![p] = file]
  /\ UNCHANGED <<files, call>>

\* A secret of an earlier version.
Migrate(p) ==
  /\ pc[p] = "migrate"
  /\ \E f \in Fields : next[p][f] \notin Current /\ Recode(p, "migrate", f)
  /\ UNCHANGED <<files, mem, next>>

\* All are migrated: the file is replaced if any was, and master.key, if it is
\* there, is looked at once more.
Settle(p) ==
  /\ mem' = [mem EXCEPT ![p] = next[p]]
  /\ IF legacy # None THEN LookUp(p, "finish", None, "none")
     ELSE Goto(p, "up") /\ UNCHANGED call
  /\ UNCHANGED <<store, legacy, next>>

SettleWithoutSaving(p) ==
  /\ pc[p] = "migrate" /\ \A f \in Fields : next[p][f] \in Current
  /\ UNCHANGED file
  /\ Settle(p)

Migrated(p) ==
  /\ pc[p] = "migrate" /\ \A f \in Fields : next[p][f] \in Current
  /\ file' = IF next[p] = mem[p] THEN file ELSE next[p]
  /\ Settle(p)

\* finish_legacy_key_migration: the file is removed, or was gone by now.
RemoveLegacy(p) ==
  /\ pc[p] = "got" /\ call[p].task = "finish"
  /\ \/ legacy # None /\ legacy' = None /\ Goto(p, "up")
     \/ UNCHANGED legacy /\ Goto(p, "locked")
  /\ call' = [call EXCEPT ![p] = NoCall]
  /\ UNCHANGED <<store, file, mem, next>>

\* The application stops, or load fails and it does not start, at any step; what
\* atomic_private_write was writing is then in a temporary file only.
Stop(p) ==
  /\ pc[p] # "down"
  /\ Goto(p, "down")
  /\ mem' = [mem EXCEPT ![p] = NoSecrets]
  /\ next' = [next EXCEPT ![p] = NoSecrets]
  /\ call' = [call EXCEPT ![p] = NoCall]
  /\ UNCHANGED files

-----------------------------------------------------------------------------
(* The commands that change connections. *)

\* upsert: the secret that is saved is decrypted, the new one is encrypted ...
Save(p) ==
  /\ pc[p] = "up"
  /\ \E f \in Fields : Recode(p, "save", f)
  /\ UNCHANGED <<files, mem, next>>

\* ... and the schema replaces the file, and then the one in memory.
Publish(p) ==
  /\ pc[p] = "publish"
  /\ file' = next[p]
  /\ mem' = [mem EXCEPT ![p] = next[p]]
  /\ Goto(p, "up")
  /\ UNCHANGED <<store, legacy, next, call>>

PublishFails(p) ==
  /\ pc[p] = "publish"
  /\ next' = [next EXCEPT ![p] = mem[p]]
  /\ Goto(p, "up")
  /\ UNCHANGED <<files, mem, call>>

RemoveWhenLocked(p) ==
  /\ pc[p] \in {"up", "locked"}
  /\ \E f \in Fields \cup {None} :
       next' = [next EXCEPT ![p] = [g \in Fields |-> IF g = f THEN Nothing ELSE mem[p][g]]]
  /\ file' = next'[p]
  /\ mem' = [mem EXCEPT ![p] = next'[p]]
  /\ UNCHANGED <<store, legacy, pc, call>>

\* remove, and organize, which writes all secrets back as they are in memory.
Rewrite(p) ==
  /\ pc[p] = "up"
  /\ \E f \in Fields \cup {None} :
       next' = [next EXCEPT ![p] = [g \in Fields |-> IF g = f THEN Nothing ELSE mem[p][g]]]
  /\ file' = next'[p]
  /\ mem' = [mem EXCEPT ![p] = next'[p]]
  /\ UNCHANGED <<store, legacy, pc, call>>

-----------------------------------------------------------------------------
KeyStep(p) ==
  \/ Unavailable(p) \/ ReadStore(p) \/ FindSaved(p) \/ FindLegacy(p) \/ Generate(p)
  \/ Contradicted(p) \/ WriteStore(p) \/ ReadBack(p) \/ Decrypt(p) \/ Encrypt(p)
StartStep(p) == Migrate(p) \/ Migrated(p) \/ RemoveLegacy(p)

Next ==
  \E p \in Procs :
    \/ KeyStep(p) \/ StartStep(p) \/ Start(p) \/ Stop(p)
    \/ Save(p) \/ Publish(p) \/ PublishFails(p) \/ Rewrite(p)

Spec == Init /\ [][Next]_vars

\* A process that is starting keeps running, unless it is stopped.
FairSpec == Spec /\ \A p \in Procs : WF_vars(KeyStep(p) \/ StartStep(p))

-----------------------------------------------------------------------------
(* Properties. *)

\* The key master_key would return to a process that starts now.
Unlocks(k) == IF store # None THEN store = k /\ legacy \in {None, k} ELSE legacy = k

\* Every secret in connections.json can be decrypted by a process that starts now,
\* wherever the running ones are and whichever of them stops: no ciphertext is
\* published under a key that is replaced or lost.
SecretsStayReadable == \A f \in Fields : file[f].key # None => Unlocks(file[f].key)

\* master.key is discarded only when every record was migrated and the same key is
\* in the credential store, whichever process did either.
LegacyKeyOutlivesMigration ==
  [][legacy # legacy' => store = legacy /\ \A f \in Fields : file[f] \in Current]_vars

\* Secrets are never written in the form of an earlier version: not by a process
\* whose own migration failed, and not from the stale copy of another one.
OnlyCurrentFormIsWritten ==
  [][\A f \in Fields : file'[f] # file[f] => file'[f] \in Current]_vars

\* The migration comes to an end: the application serves, or refuses to, or stops.
StartupEnds == \A p \in Procs : pc[p] = "migrate" ~> pc[p] \in {"up", "locked", "down"}
=============================================================================
