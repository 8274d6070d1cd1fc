--------------------------- MODULE SecretsProofs ---------------------------
(***************************************************************************)
(* Theorems about Secrets, for any number of processes, secrets and keys.  *)
(* What is written is proved for every credential store.  That the secrets *)
(* stay readable is proved for a store that keeps the key it has: for one  *)
(* that does not, the run of MCSecretsOverwrite.cfg shows it false.        *)
(***************************************************************************)
EXTENDS Secrets, TLAPS

-----------------------------------------------------------------------------
(* Types. *)

LEMMA CurrentForms ==
  /\ Nothing \in Current
  /\ NoSecrets \in [Fields -> Current]
  /\ \A k \in Keys : V2(k) \in Current
  /\ Current \subseteq Secret
  BY DEF Nothing, NoSecrets, V2, Current, Secret

LEMMA LookUpTypes ==
  ASSUME TypeOK, NEW p \in Procs, NEW t \in {"migrate", "finish", "save"},
         NEW f \in Fields \cup {None}, NEW m \in {"none", "decrypt", "encrypt"},
         LookUp(p, t, f, m)
  PROVE  pc' \in [Procs -> Stages] /\ call' \in [Procs -> Call]
  BY DEF TypeOK, LookUp, Goto, Stages, Looking, Call

LEMMA GiveUpTypes == ASSUME TypeOK, NEW p \in Procs, GiveUp(p) PROVE TypeOK'
  BY DEF TypeOK, GiveUp, Goto, Stages, Looking, Call, NoCall, files, Schema

\* Between writing the key and using it a process has one.
KeyFound == \A p \in Procs : pc[p] \in {"write", "back", "got"} => call[p].key # None

LEMMA TypeStep == TypeOK /\ KeyFound /\ [Next]_vars => TypeOK'
<1> SUFFICES ASSUME TypeOK, KeyFound, [Next]_vars PROVE TypeOK'
  OBVIOUS
<1>1. CASE UNCHANGED vars
  BY <1>1 DEF vars, files, TypeOK
<1>2. ASSUME NEW p \in Procs, KeyStep(p) PROVE TypeOK'
  <2>1. CASE Unavailable(p)
    BY <2>1, GiveUpTypes DEF Unavailable
  <2>2. CASE ReadStore(p)
    BY SMTT(60), <2>2 DEF TypeOK, ReadStore, Goto, files, Stages, Looking, Call
  <2>3. CASE FindSaved(p)
    BY <2>3 DEF TypeOK, FindSaved, Goto, files, Stages, Looking
  <2>4. CASE FindLegacy(p)
    BY SMTT(60), <2>4 DEF TypeOK, FindLegacy, Goto, files, Stages, Looking, Call
  <2>5. CASE Generate(p)
    BY SMTT(60), <2>5 DEF TypeOK, Generate, Goto, files, Stages, Looking, Call
  <2>6. CASE Contradicted(p)
    BY <2>6, GiveUpTypes DEF Contradicted
  <2>7. CASE WriteStore(p)
    BY <2>7 DEF TypeOK, WriteStore, Goto, Stages, Looking, Call
  <2>8. CASE ReadBack(p)
    BY <2>8, GiveUpTypes DEF TypeOK, ReadBack, Goto, files, Stages, Looking
  <2>9. CASE Decrypt(p)
    <3>1. CASE GiveUp(p)
      BY <3>1, GiveUpTypes
    <3>2. CASE ~GiveUp(p)
      <4>1. LookUp(p, call[p].task, call[p].field, "encrypt") /\ UNCHANGED <<files, mem, next>>
        BY <2>9, <3>2 DEF Decrypt
      <4>2. pc' \in [Procs -> Stages]
        BY <4>1 DEF TypeOK, LookUp, Goto, Stages, Looking
      <4>3. call' \in [Procs -> Call]
        BY <4>1 DEF TypeOK, LookUp, Call
      <4> QED
        BY <4>1, <4>2, <4>3 DEF TypeOK, files
    <3> QED
      BY <3>1, <3>2
  <2>10. CASE Encrypt(p)
    <3>1. pc' \in [Procs -> Stages] /\ call' \in [Procs -> Call]
      BY <2>10 DEF TypeOK, Encrypt, Goto, Stages, Looking, Call, NoCall
    <3>2. V2(call[p].key) \in Secret
      BY <2>10, CurrentForms DEF TypeOK, KeyFound, Encrypt, Call
    <3>3. next' \in [Procs -> Schema]
      BY <2>10, <3>2 DEF TypeOK, Encrypt, Schema
    <3> QED
      BY <2>10, <3>1, <3>3 DEF TypeOK, Encrypt, files
  <2> QED
    BY <1>2, <2>1, <2>2, <2>3, <2>4, <2>5, <2>6, <2>7, <2>8, <2>9, <2>10 DEF KeyStep
<1>3. ASSUME NEW p \in Procs, StartStep(p) PROVE TypeOK'
  <2>1. CASE Migrate(p)
    <3>1. PICK f \in Fields : Recode(p, "migrate", f)
      BY <2>1 DEF Migrate
    <3> QED
      BY <2>1, <3>1, LookUpTypes DEF Migrate, Recode, TypeOK, files
  <2>2. CASE Migrated(p)
    <3>1. pc' \in [Procs -> Stages] /\ call' \in [Procs -> Call]
      <4>1. CASE legacy # None
        BY <2>2, <4>1, LookUpTypes DEF Migrated, Settle
      <4>2. CASE legacy = None
        BY <2>2, <4>2 DEF TypeOK, Migrated, Settle, Goto, Stages, Looking
      <4> QED
        BY <4>1, <4>2
    <3> QED
      BY <2>2, <3>1 DEF TypeOK, Migrated, Settle
  <2>3. CASE RemoveLegacy(p)
    BY <2>3 DEF TypeOK, RemoveLegacy, Goto, Stages, Looking, Call, NoCall
  <2> QED
    BY <1>3, <2>1, <2>2, <2>3 DEF StartStep
<1>4. ASSUME NEW p \in Procs, Start(p) PROVE TypeOK'
  BY <1>4 DEF TypeOK, Start, Goto, files, Stages, Looking
<1>5. ASSUME NEW p \in Procs, Stop(p) PROVE TypeOK'
  <2>1. NoSecrets \in Schema
    BY CurrentForms DEF Schema, Current
  <2> QED
    BY <1>5, <2>1 DEF TypeOK, Stop, Goto, files, Stages, Looking, Call, NoCall
<1>6. ASSUME NEW p \in Procs, Save(p) PROVE TypeOK'
  <2>1. PICK f \in Fields : Recode(p, "save", f)
    BY <1>6 DEF Save
  <2> QED
    BY <1>6, <2>1, LookUpTypes DEF Save, Recode, TypeOK, files
<1>7. ASSUME NEW p \in Procs, Publish(p) PROVE TypeOK'
  BY <1>7 DEF TypeOK, Publish, Goto, Stages, Looking
<1>8. ASSUME NEW p \in Procs, PublishFails(p) PROVE TypeOK'
  BY <1>8 DEF TypeOK, PublishFails, Goto, Stages, Looking, files
<1>9. ASSUME NEW p \in Procs, Rewrite(p) PROVE TypeOK'
  <2>1. next' \in [Procs -> Schema]
    BY <1>9, CurrentForms DEF TypeOK, Rewrite, Schema, Current
  <2> QED
    BY <1>9, <2>1 DEF TypeOK, Rewrite
<1> QED
  BY <1>1, <1>2, <1>3, <1>4, <1>5, <1>6, <1>7, <1>8, <1>9 DEF Next

LEMMA KeyFoundStep == TypeOK /\ KeyFound /\ [Next]_vars => KeyFound'
<1> SUFFICES ASSUME TypeOK, KeyFound, [Next]_vars PROVE KeyFound'
  OBVIOUS
<1> USE DEF TypeOK, KeyFound, Goto, LookUp
<1>1. CASE UNCHANGED vars
  BY <1>1 DEF vars
<1>2. ASSUME NEW p \in Procs, GiveUp(p) PROVE KeyFound'
  BY <1>2 DEF GiveUp
<1>3. ASSUME NEW p \in Procs, KeyStep(p) PROVE KeyFound'
  <2>1. CASE Unavailable(p) \/ ReadBack(p) \/ Contradicted(p) \/ Decrypt(p)
    BY <2>1, <1>2 DEF Unavailable, ReadBack, Contradicted, Decrypt
  <2>2. CASE ReadStore(p)
    BY <2>2 DEF ReadStore
  <2>3. CASE FindSaved(p) \/ WriteStore(p) \/ Encrypt(p)
    BY <2>3 DEF FindSaved, WriteStore, Encrypt
  <2>4. CASE FindLegacy(p)
    BY <2>4 DEF FindLegacy, Call
  <2>5. CASE Generate(p)
    BY <2>5, KeysAssumption DEF Generate, Call
  <2> QED
    BY <1>3, <2>1, <2>2, <2>3, <2>4, <2>5 DEF KeyStep
<1>4. ASSUME NEW p \in Procs, StartStep(p) \/ Save(p) PROVE KeyFound'
  BY <1>4 DEF StartStep, Migrate, Recode, Migrated, Settle, RemoveLegacy, Save
<1>5. ASSUME NEW p \in Procs, Start(p) \/ Stop(p) \/ Publish(p) \/ PublishFails(p) \/ Rewrite(p)
      PROVE  KeyFound'
  BY <1>5 DEF Start, Stop, Publish, PublishFails, Rewrite
<1> QED
  BY <1>1, <1>3, <1>4, <1>5 DEF Next

\* Every variable has its type, whatever the processes do to each other: no secret
\* is ever encrypted under a key that was not found.
THEOREM TypeCorrect == Spec => []TypeOK
<1>1. Init => TypeOK
  BY CurrentForms, KeysAssumption DEF Init, TypeOK, Stages, Call, NoCall, Schema, Current
<1>2. Init => KeyFound
  BY DEF Init, KeyFound
<1> QED
  BY <1>1, <1>2, TypeStep, KeyFoundStep, PTL DEF Spec

LEMMA KeyFoundHolds == Spec => []KeyFound
<1>1. Init => TypeOK
  BY CurrentForms, KeysAssumption DEF Init, TypeOK, Stages, Call, NoCall, Schema, Current
<1>2. Init => KeyFound
  BY DEF Init, KeyFound
<1> QED
  BY <1>1, <1>2, TypeStep, KeyFoundStep, PTL DEF Spec

-----------------------------------------------------------------------------
(* What is written. *)

\* A process that serves holds no secret of an earlier version.
Serves(p) == \/ pc[p] \in {"up", "publish"}
             \/ pc[p] \in Looking /\ call[p].task # "migrate"
Served == \A p \in Procs : Serves(p) =>
            \A f \in Fields : mem[p][f] \in Current /\ next[p][f] \in Current

LEMMA ServedStep == TypeOK /\ KeyFound /\ Served /\ [Next]_vars => Served'
<1> SUFFICES ASSUME TypeOK, KeyFound, Served, [Next]_vars PROVE Served'
  OBVIOUS
<1> USE DEF TypeOK, Served, Serves, Goto, LookUp, Looking, Schema
<1>1. CASE UNCHANGED vars
  BY <1>1 DEF vars
<1>2. ASSUME NEW p \in Procs, pc[p] \in Looking, GiveUp(p) PROVE Served'
  BY <1>2 DEF GiveUp
<1>3. ASSUME NEW p \in Procs, KeyStep(p) PROVE Served'
  <2>1. CASE Unavailable(p) \/ ReadBack(p) \/ Contradicted(p)
    BY <2>1, <1>2 DEF Unavailable, ReadBack, Contradicted
  <2>2. CASE Decrypt(p)
    BY <2>2, <1>2 DEF Decrypt
  <2>3. CASE ReadStore(p)
    BY <2>3 DEF ReadStore, Call
  <2>4. CASE FindSaved(p) \/ WriteStore(p)
    BY <2>4 DEF FindSaved, WriteStore
  <2>5. CASE FindLegacy(p)
    BY <2>5 DEF FindLegacy, Call
  <2>6. CASE Generate(p)
    BY <2>6 DEF Generate, Call
  <2>7. CASE Encrypt(p)
    <3>1. V2(call[p].key) \in Current
      BY <2>7, CurrentForms DEF KeyFound, Encrypt, Call
    <3>2. \A q \in Procs, f \in Fields : next'[q][f] \in {next[q][f], V2(call[p].key)}
      BY <2>7 DEF Encrypt
    <3>3. \A q \in Procs : Serves(q)' => Serves(q)
      BY <2>7 DEF Encrypt
    <3>4. UNCHANGED mem
      BY <2>7 DEF Encrypt
    <3> QED
      BY <3>1, <3>2, <3>3, <3>4
  <2> QED
    BY <1>3, <2>1, <2>2, <2>3, <2>4, <2>5, <2>6, <2>7 DEF KeyStep
<1>4. ASSUME NEW p \in Procs, StartStep(p) PROVE Served'
  <2>1. CASE Migrate(p)
    BY <2>1 DEF Migrate, Recode
  <2>2. CASE Migrated(p)
    BY <2>2 DEF Migrated, Settle
  <2>3. CASE RemoveLegacy(p)
    BY <2>3 DEF RemoveLegacy
  <2> QED
    BY <1>4, <2>1, <2>2, <2>3 DEF StartStep
<1>5. ASSUME NEW p \in Procs, Start(p) \/ Stop(p) PROVE Served'
  BY ZenonT(60), <1>5 DEF Start, Stop
<1>6. ASSUME NEW p \in Procs, Save(p) \/ Publish(p) \/ PublishFails(p) PROVE Served'
  BY <1>6 DEF Save, Recode, Publish, PublishFails
<1>7. ASSUME NEW p \in Procs, Rewrite(p) PROVE Served'
  BY <1>7, CurrentForms DEF Rewrite
<1> QED
  BY <1>1, <1>3, <1>4, <1>5, <1>6, <1>7 DEF Next

LEMMA ServedHolds == Spec => []Served
<1>1. Init => Served
  BY DEF Init, Served, Serves, Looking
<1> QED
  BY <1>1, ServedStep, TypeCorrect, KeyFoundHolds, PTL DEF Spec

\* What a step writes to connections.json, if anything.
LEMMA Written ==
  ASSUME TypeOK, Served, [Next]_vars
  PROVE  \A f \in Fields : file'[f] # file[f] => file'[f] \in Current
<1> USE DEF TypeOK, Served, Serves, Schema
<1>1. ASSUME NEW p \in Procs, Migrated(p) \/ Publish(p)
      PROVE  \A f \in Fields : file'[f] # file[f] => file'[f] \in Current
  BY <1>1 DEF Migrated, Settle, Publish
<1>2. ASSUME NEW p \in Procs, Rewrite(p)
      PROVE  \A f \in Fields : file'[f] # file[f] => file'[f] \in Current
  BY <1>2, CurrentForms DEF Rewrite
<1>3. ASSUME NEW p \in Procs, KeyStep(p) \/ Migrate(p) \/ RemoveLegacy(p) \/ Start(p)
                              \/ Stop(p) \/ Save(p) \/ PublishFails(p)
      PROVE  file' = file
  BY <1>3 DEF KeyStep, Unavailable, GiveUp, ReadStore, FindSaved, FindLegacy, Generate,
              Contradicted, WriteStore, ReadBack, Decrypt, Encrypt, Migrate,
              RemoveLegacy, Start, Stop, Save, PublishFails, files
<1>4. CASE UNCHANGED vars
  BY <1>4 DEF vars, files
<1> QED
  BY <1>1, <1>2, <1>3, <1>4 DEF Next, StartStep

\* No process ever writes a secret in plain text or in the form of an earlier
\* version, however stale its copy is and whatever became of its own migration.
THEOREM OnlyCurrentWritten == Spec => OnlyCurrentFormIsWritten
<1>1. TypeOK /\ Served /\ [Next]_vars
      => [\A f \in Fields : file'[f] # file[f] => file'[f] \in Current]_vars
  BY Written
<1> QED
  BY <1>1, TypeCorrect, ServedHolds, PTL DEF Spec, OnlyCurrentFormIsWritten

-----------------------------------------------------------------------------
(* master.key. *)

\* While master.key is there, no other key is in use.
OneKey == legacy # None => /\ store \in {None, legacy}
                           /\ \A p \in Procs : call[p].key \in {None, legacy}

\* A key that was found in the credential store, or read back from it, is there, or
\* another one is.
Stored == \A p \in Procs : pc[p] \in {"legacy", "got"} /\ call[p].key # None => store # None

\* The records a process has migrated are migrated in connections.json.
Persisted == \A p \in Procs, f \in Fields :
               pc[p] # "down" /\ mem[p][f] \in Current => file[f] \in Current

LegacyInv == OneKey /\ Stored /\ Persisted

\* The steps that leave connections.json and the key files as they are.
LEMMA PersistedKept ==
  ASSUME TypeOK, Served, Persisted, [Next]_vars,
         \A p \in Procs, f \in Fields :
           pc'[p] # "down" /\ mem'[p][f] \in Current =>
             \/ pc[p] # "down" /\ mem'[p][f] = mem[p][f]
             \/ file'[f] = mem'[p][f]
             \/ mem'[p][f] = file[f]
  PROVE  Persisted'
  BY Written DEF Persisted, TypeOK, Schema

LEMMA LegacyStep == TypeOK /\ KeyFound /\ Served /\ LegacyInv /\ [Next]_vars => LegacyInv'
<1> SUFFICES ASSUME TypeOK, KeyFound, Served, LegacyInv, [Next]_vars PROVE LegacyInv'
  OBVIOUS
<1> USE DEF LegacyInv, TypeOK, Goto, LookUp
<1>1. CASE UNCHANGED vars
  BY <1>1 DEF vars, files, OneKey, Stored, Persisted
<1>2. ASSUME NEW p \in Procs, pc[p] # "down", GiveUp(p) PROVE LegacyInv'
  BY <1>2, PersistedKept DEF GiveUp, NoCall, files, OneKey, Stored
<1>3. ASSUME NEW p \in Procs, KeyStep(p) PROVE LegacyInv'
  <2>1. CASE Unavailable(p) \/ Contradicted(p)
    BY <2>1, <1>2 DEF Unavailable, Contradicted
  <2>2. CASE ReadBack(p)
    <3>1. CASE store = call[p].key /\ Goto(p, "got") /\ UNCHANGED <<files, mem, next, call>>
      BY <2>2, <3>1, PersistedKept DEF ReadBack, KeyFound, files, OneKey, Stored
    <3> QED
      BY <2>2, <3>1, <1>2 DEF ReadBack
  <2>3. CASE Decrypt(p)
    <3>1. CASE LookUp(p, call[p].task, call[p].field, "encrypt") /\ UNCHANGED <<files, mem, next>>
      BY <2>3, <3>1, PersistedKept DEF Decrypt, files, OneKey, Stored
    <3> QED
      BY <2>3, <3>1, <1>2 DEF Decrypt
  <2>4. CASE ReadStore(p)
    BY <2>4, PersistedKept DEF ReadStore, Call, files, OneKey, Stored
  <2>5. CASE FindSaved(p)
    BY <2>5, PersistedKept DEF FindSaved, files, OneKey, Stored
  <2>6. CASE FindLegacy(p)
    BY <2>6, PersistedKept DEF FindLegacy, Call, files, OneKey, Stored
  <2>7. CASE Generate(p)
    BY <2>7, PersistedKept DEF Generate, Call, files, OneKey, Stored
  <2>8. CASE WriteStore(p)
    BY <2>8, PersistedKept DEF WriteStore, KeyFound, OneKey, Stored
  <2>9. CASE Encrypt(p)
    BY <2>9, PersistedKept DEF Encrypt, NoCall, files, OneKey, Stored
  <2> QED
    BY <1>3, <2>1, <2>2, <2>3, <2>4, <2>5, <2>6, <2>7, <2>8, <2>9 DEF KeyStep
<1>4. ASSUME NEW p \in Procs, StartStep(p) PROVE LegacyInv'
  <2>1. CASE Migrate(p)
    BY <2>1, PersistedKept DEF Migrate, Recode, files, OneKey, Stored
  <2>2. CASE Migrated(p)
    <3>1. OneKey' /\ Stored'
      BY <2>2 DEF Migrated, Settle, OneKey, Stored
    <3>2. Persisted'
      BY <2>2, PersistedKept DEF Migrated, Settle
    <3> QED
      BY <3>1, <3>2
  <2>3. CASE RemoveLegacy(p)
    BY <2>3, PersistedKept DEF RemoveLegacy, NoCall, OneKey, Stored
  <2> QED
    BY <1>4, <2>1, <2>2, <2>3 DEF StartStep
<1>5. ASSUME NEW p \in Procs, Start(p) \/ Stop(p) PROVE LegacyInv'
  BY <1>5, PersistedKept DEF Start, Stop, NoCall, files, OneKey, Stored
<1>6. ASSUME NEW p \in Procs, Save(p) \/ Publish(p) \/ PublishFails(p) PROVE LegacyInv'
  BY <1>6, PersistedKept DEF Save, Recode, Publish, PublishFails, files, OneKey, Stored
<1>7. ASSUME NEW p \in Procs, Rewrite(p) PROVE LegacyInv'
  BY <1>7, PersistedKept DEF Rewrite, OneKey, Stored
<1> QED
  BY <1>1, <1>3, <1>4, <1>5, <1>6, <1>7 DEF Next

LEMMA LegacyHolds == Spec => []LegacyInv
<1>1. Init => LegacyInv
  BY DEF Init, LegacyInv, OneKey, Stored, Persisted, NoCall
<1> QED
  BY <1>1, LegacyStep, TypeCorrect, KeyFoundHolds, ServedHolds, PTL DEF Spec

\* What a step that discards master.key has before it.
LEMMA Discarded ==
  ASSUME TypeOK, KeyFound, Served, LegacyInv, [Next]_vars, legacy' # legacy
  PROVE  legacy' = None /\ store = legacy /\ \A f \in Fields : file[f] \in Current
<1>1. PICK p \in Procs : RemoveLegacy(p)
  BY DEF Next, KeyStep, StartStep, Unavailable, GiveUp, ReadStore, FindSaved, FindLegacy,
         Generate, Contradicted, WriteStore, ReadBack, Decrypt, Encrypt, Migrate, Migrated,
         Settle, Start, Stop, Save, Publish, PublishFails, Rewrite, files, vars
<1>2. legacy' = None /\ legacy # None
  BY <1>1 DEF RemoveLegacy
<1>3. store = legacy
  BY <1>1, <1>2 DEF RemoveLegacy, LegacyInv, OneKey, Stored, KeyFound
<1>4. \A f \in Fields : mem[p][f] \in Current
  BY <1>1 DEF RemoveLegacy, Served, Serves, Looking
<1> QED
  BY <1>1, <1>2, <1>3, <1>4 DEF RemoveLegacy, LegacyInv, Persisted

\* master.key is discarded only when its key is in the credential store and nothing
\* in connections.json is in an earlier form, also when another process did either.
THEOREM LegacyKeptLongEnough == Spec => LegacyKeyOutlivesMigration
<1>1. TypeOK /\ KeyFound /\ Served /\ LegacyInv /\ [Next]_vars
      => [legacy # legacy' => store = legacy /\ \A f \in Fields : file[f] \in Current]_vars
  BY Discarded
<1> QED
  BY <1>1, TypeCorrect, KeyFoundHolds, ServedHolds, LegacyHolds, PTL
     DEF Spec, LegacyKeyOutlivesMigration

-----------------------------------------------------------------------------
(* Ciphertexts and the key, in a credential store that keeps its key. *)

\* A process that has looked the key up, or has written it, uses the one in the
\* credential store.
Found == \A p \in Procs :
           /\ pc[p] = "got" => call[p].key = store
           /\ pc[p] = "legacy" /\ call[p].key # None => call[p].key = store

\* Everything encrypted by this version is encrypted with it, also what is still in
\* the memory of a process; everything encrypted by an earlier one with master.key.
Encrypted(s) == s.form = "v2" => s.key = store
Ciphertexts == /\ \A f \in Fields : Encrypted(file[f])
               /\ \A p \in Procs, f \in Fields : Encrypted(mem[p][f]) /\ Encrypted(next[p][f])
Earlier == \A f \in Fields : file[f].form = "v1" => file[f].key = legacy

ReadableInv == Found /\ Ciphertexts /\ Earlier

LEMMA FoundStep ==
  AddOnly /\ TypeOK /\ KeyFound /\ LegacyInv /\ Found /\ [Next]_vars => Found'
<1> SUFFICES ASSUME AddOnly, TypeOK, KeyFound, LegacyInv, Found, [Next]_vars PROVE Found'
  OBVIOUS
<1> USE DEF Found, TypeOK, Goto, LookUp
<1>1. CASE UNCHANGED vars
  BY <1>1 DEF vars, files
<1>2. ASSUME NEW p \in Procs, GiveUp(p) PROVE Found'
  BY <1>2 DEF GiveUp, files
<1>3. ASSUME NEW p \in Procs, KeyStep(p) PROVE Found'
  <2>1. CASE Unavailable(p) \/ Contradicted(p) \/ ReadBack(p) \/ Decrypt(p)
    BY <2>1, <1>2 DEF Unavailable, Contradicted, ReadBack, Decrypt, files
  <2>2. CASE ReadStore(p)
    BY <2>2 DEF ReadStore, Call, files
  <2>3. CASE FindSaved(p) \/ Encrypt(p)
    BY <2>3 DEF FindSaved, Encrypt, files
  <2>4. CASE FindLegacy(p)
    BY <2>4 DEF FindLegacy, Call, files
  <2>5. CASE Generate(p)
    BY <2>5 DEF Generate, Call, files
  <2>6. CASE WriteStore(p)
    BY <2>6 DEF WriteStore, LegacyInv, Stored, KeyFound
  <2> QED
    BY <1>3, <2>1, <2>2, <2>3, <2>4, <2>5, <2>6 DEF KeyStep
<1>4. ASSUME NEW p \in Procs, StartStep(p) \/ Save(p) PROVE Found'
  BY <1>4 DEF StartStep, Migrate, Recode, Migrated, Settle, RemoveLegacy, Save, files
<1>5. ASSUME NEW p \in Procs, Start(p) \/ Stop(p) \/ Publish(p) \/ PublishFails(p) \/ Rewrite(p)
      PROVE  Found'
  BY <1>5 DEF Start, Stop, Publish, PublishFails, Rewrite, files
<1> QED
  BY <1>1, <1>3, <1>4, <1>5 DEF Next

\* A step that stores nothing new and moves secrets around.
LEMMA CiphertextsKept ==
  ASSUME AddOnly, TypeOK, Ciphertexts,
         store' = store \/ store = None,
         \A f \in Fields : file'[f] = file[f] \/ \E p \in Procs :
           file'[f] \in {mem[p][f], next[p][f], Nothing},
         \A p \in Procs, f \in Fields :
           /\ mem'[p][f] \in {mem[p][f], next[p][f], file[f], Nothing}
           /\ next'[p][f] \in {mem[p][f], next[p][f], file[f], Nothing}
  PROVE  Ciphertexts'
<1> USE DEF Ciphertexts, Encrypted, TypeOK, Schema, Nothing
<1>1. ASSUME NEW s \in Secret, Encrypted(s) PROVE s.form = "v2" => s.key = store'
  BY <1>1, KeysAssumption DEF Secret
<1>2. \A f \in Fields : file'[f].form = "v2" => file'[f].key = store'
  <2> SUFFICES ASSUME NEW f \in Fields PROVE file'[f].form = "v2" => file'[f].key = store'
    OBVIOUS
  <2>1. CASE file'[f] = file[f]
    BY <2>1, <1>1
  <2>2. ASSUME NEW p \in Procs, file'[f] \in {mem[p][f], next[p][f], Nothing}
        PROVE  file'[f].form = "v2" => file'[f].key = store'
    BY <2>2, <1>1
  <2> QED
    BY <2>1, <2>2
<1>3. \A p \in Procs, f \in Fields :
        /\ mem'[p][f].form = "v2" => mem'[p][f].key = store'
        /\ next'[p][f].form = "v2" => next'[p][f].key = store'
  <2> SUFFICES ASSUME NEW p \in Procs, NEW f \in Fields,
                      NEW s \in {mem[p][f], next[p][f], file[f], Nothing}
               PROVE  s.form = "v2" => s.key = store'
    OBVIOUS
  <2> QED
    BY <1>1
<1> QED
  BY <1>2, <1>3

LEMMA CiphertextsStep ==
  AddOnly /\ TypeOK /\ Found /\ Ciphertexts /\ [Next]_vars => Ciphertexts'
<1> SUFFICES ASSUME AddOnly, TypeOK, Found, Ciphertexts, [Next]_vars PROVE Ciphertexts'
  OBVIOUS
<1> USE CiphertextsKept DEF TypeOK, Schema, files
<1>1. CASE UNCHANGED vars
  BY <1>1 DEF vars
<1>2. ASSUME NEW p \in Procs, GiveUp(p) PROVE Ciphertexts'
  BY <1>2 DEF GiveUp
<1>3. ASSUME NEW p \in Procs, KeyStep(p) PROVE Ciphertexts'
  <2>1. CASE Unavailable(p) \/ Contradicted(p) \/ ReadBack(p) \/ Decrypt(p)
    BY <2>1, <1>2 DEF Unavailable, Contradicted, ReadBack, Decrypt
  <2>2. CASE ReadStore(p) \/ FindSaved(p) \/ FindLegacy(p) \/ Generate(p)
    BY <2>2 DEF ReadStore, FindSaved, FindLegacy, Generate
  <2>3. CASE WriteStore(p)
    BY <2>3 DEF WriteStore
  <2>4. CASE Encrypt(p)
    <3>1. UNCHANGED <<files, mem>>
      BY <2>4 DEF Encrypt
    <3>2. \A q \in Procs, f \in Fields : next'[q][f] \in {next[q][f], V2(call[p].key)}
      BY <2>4 DEF Encrypt
    <3>3. call[p].key = store
      BY <2>4 DEF Encrypt, Found
    <3> QED
      BY <3>1, <3>2, <3>3 DEF Ciphertexts, Encrypted, V2
  <2> QED
    BY <1>3, <2>1, <2>2, <2>3, <2>4 DEF KeyStep
<1>4. ASSUME NEW p \in Procs, Migrated(p) PROVE Ciphertexts'
  BY <1>4 DEF Migrated, Settle
<1>5. ASSUME NEW p \in Procs, Migrate(p) \/ RemoveLegacy(p) \/ Start(p) \/ Save(p) PROVE Ciphertexts'
  BY <1>5 DEF Migrate, RemoveLegacy, Start, Save
<1>6. ASSUME NEW p \in Procs, Stop(p) PROVE Ciphertexts'
  BY <1>6 DEF Stop, NoSecrets
<1>7. ASSUME NEW p \in Procs, Publish(p) \/ PublishFails(p) PROVE Ciphertexts'
  BY <1>7 DEF Publish, PublishFails
<1>8. ASSUME NEW p \in Procs, Rewrite(p) PROVE Ciphertexts'
  BY <1>8 DEF Rewrite
<1> QED
  BY <1>1, <1>3, <1>4, <1>5, <1>6, <1>7, <1>8 DEF Next, StartStep

LEMMA EarlierStep ==
  TypeOK /\ KeyFound /\ Served /\ LegacyInv /\ Earlier /\ [Next]_vars => Earlier'
<1> SUFFICES ASSUME TypeOK, KeyFound, Served, LegacyInv, Earlier, [Next]_vars,
                    NEW f \in Fields, file'[f].form = "v1"
             PROVE  file'[f].key = legacy'
  BY DEF Earlier
<1>1. file'[f] = file[f]
  BY Written DEF Current
<1>2. file[f] \notin Current
  BY <1>1 DEF Current
<1> QED
  BY <1>1, <1>2, Discarded DEF Earlier

\* In a credential store that never replaces a key, every secret in connections.json
\* stays readable to a process that starts now, whatever the running processes are
\* in the middle of and whichever of them stops.
THEOREM SecretsReadable == ASSUME AddOnly PROVE Spec => []SecretsStayReadable
<1>1. Init => ReadableInv
  <2> SUFFICES ASSUME Init PROVE ReadableInv
    OBVIOUS
  <2>1. Found
    BY DEF Init, Found
  <2>2. ASSUME NEW f \in Fields PROVE file[f].form # "v2"
    BY <2>2 DEF Init
  <2>3. ASSUME NEW p \in Procs, NEW f \in Fields
        PROVE  mem[p][f].form = "none" /\ next[p][f].form = "none"
    BY <2>3 DEF Init, NoSecrets, Nothing
  <2>4. Ciphertexts
    BY <2>2, <2>3 DEF Ciphertexts, Encrypted
  <2>5. Earlier
    BY DEF Init, Earlier
  <2> QED
    BY <2>1, <2>4, <2>5 DEF ReadableInv
<1>2. AddOnly /\ TypeOK /\ KeyFound /\ Served /\ LegacyInv /\ ReadableInv /\ [Next]_vars
      => ReadableInv'
  BY FoundStep, CiphertextsStep, EarlierStep DEF ReadableInv
<1>3. TypeOK /\ LegacyInv /\ ReadableInv => SecretsStayReadable
  <2> SUFFICES ASSUME TypeOK, LegacyInv, ReadableInv, NEW f \in Fields, file[f].key # None
               PROVE  Unlocks(file[f].key)
    BY DEF SecretsStayReadable
  <2>1. CASE file[f].form = "v1"
    BY <2>1 DEF ReadableInv, Earlier, LegacyInv, OneKey, Unlocks
  <2>2. CASE file[f].form = "v2"
    BY <2>2 DEF ReadableInv, Ciphertexts, Encrypted, LegacyInv, OneKey, Unlocks
  <2> QED
    BY <2>1, <2>2 DEF TypeOK, Schema, Secret
<1>4. AddOnly
  OBVIOUS
<1> QED
  BY <1>1, <1>2, <1>3, <1>4, TypeCorrect, KeyFoundHolds, ServedHolds, LegacyHolds, PTL DEF Spec
=============================================================================
