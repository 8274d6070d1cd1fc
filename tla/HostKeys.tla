------------------------------ MODULE HostKeys ------------------------------
(***************************************************************************)
(* Trust in SSH host keys (src-tauri/src/store/host_keys.rs, the confirm   *)
(* and forget commands of commands/connection.rs and the handshake of      *)
(* ssh/tunnel.rs).                                                         *)
(*                                                                         *)
(* A session that meets a key which is not both saved and confirmed stops  *)
(* before it sends credentials and leaves a challenge.  The user answers   *)
(* it in a native dialog of the backend, during which anything may happen: *)
(* other challenges, other dialogs, a removal of the host, five minutes.   *)
(* The saved file must equal the copy in memory before any decision, is    *)
(* replaced atomically before memory changes, and may be edited or damaged *)
(* by someone else; the application may crash at any point.                *)
(***************************************************************************)
EXTENDS Naturals, FiniteSets

CONSTANTS Hosts,       \* SSH endpoints (host:port)
          Prints,      \* key fingerprints
          NoPrint,     \* no fingerprint is saved
          Corrupt,     \* a file that does not parse as a schema
          NoChallenge, \* a dialog that shows nothing
          Sessions,    \* connection attempts
          Dialogs,     \* native dialogs that may be open at once
          MaxPending,  \* 256 in the code
          MaxIds       \* bound on the challenges ever issued

Schema == [keys : [Hosts -> Prints \cup {NoPrint}], confirmed : SUBSET Hosts]
\* read_schema rejects a confirmation without a fingerprint.
Schemas == {s \in Schema : \A h \in s.confirmed : s.keys[h] # NoPrint}
Challenge == [id : Nat, host : Hosts, print : Prints,
              prev : Prints \cup {NoPrint}]
Removal == [host : Hosts, print : Prints]

ASSUME NoPrintAssumption == NoPrint \notin Prints
ASSUME CorruptAssumption == Corrupt \notin Schema
ASSUME NoChallengeAssumption == NoChallenge \notin Challenge \cup Removal
ASSUME BoundsAssumption == MaxPending \in Nat /\ MaxIds \in Nat

VARIABLES
  file,      \* ssh-host-keys.json
  mem,       \* HostKeyState.schema
  locked,    \* load_error: the file could not be loaded
  pending,   \* HostKeyState.pending
  expired,   \* ids of challenges older than CHALLENGE_LIFETIME
  nextId,    \* uuids: the number of challenges issued
  dialog,    \* [Dialogs -> the dialog's kind and what it shows]
  session,   \* [Sessions -> stage, host, presented key, trusted key]
  word,      \* history: for each host the key the user last vouched for
  edited,    \* history: the file was edited since the application started
  void,      \* history: challenges whose host was forgotten after they arose
  approved   \* history: challenges that were saved as trust

vars == <<file, mem, locked, pending, expired, nextId, dialog, session,
          word, edited, void, approved>>
store == <<file, mem, locked>>
challenges == <<pending, expired, nextId>>
history == <<word, edited, void, approved>>

Empty == [keys |-> [h \in Hosts |-> NoPrint], confirmed |-> {}]
Closed == [kind |-> "closed", shows |-> NoChallenge]
Idle(h) == [stage |-> "idle", host |-> h, key |-> NoPrint, word |-> NoPrint]
Resting == [stage : {"idle"}, host : Hosts, key : {NoPrint}, word : {NoPrint}]
Attempt == [stage : {"handshaken", "verified", "authenticated", "failed"},
            host : Hosts, key : Prints, word : Prints \cup {NoPrint}]
Vouched(s) == [h \in Hosts |-> IF h \in s.confirmed THEN s.keys[h] ELSE NoPrint]

TypeOK ==
  /\ file \in Schemas \cup {Corrupt}
  /\ mem \in Schemas
  /\ locked \in BOOLEAN
  /\ pending \subseteq Challenge
  /\ expired \subseteq Nat
  /\ nextId \in Nat
  /\ dialog \in [Dialogs -> {Closed}
       \cup [kind : {"trust"}, shows : Challenge]
       \cup [kind : {"forget"}, shows : Removal]]
  /\ session \in [Sessions -> Resting \cup Attempt]
  /\ word \in [Hosts -> Prints \cup {NoPrint}]
  /\ edited \in BOOLEAN
  /\ void \subseteq Nat
  /\ approved \subseteq Nat

\* Legacy files hold fingerprints the user has never confirmed.
Init ==
  /\ file \in Schemas
  /\ mem = file
  /\ locked = FALSE
  /\ pending = {} /\ expired = {} /\ nextId = 0
  /\ dialog = [d \in Dialogs |-> Closed]
  /\ session \in [Sessions -> Resting]
  /\ word = Vouched(file)
  /\ edited = FALSE
  /\ void = {} /\ approved = {}

-----------------------------------------------------------------------------
(* Sessions. *)

IntactWhenLoaded == ~locked

\* assert_integrity: the file loads and still says what memory says.
Intact == ~locked /\ file = mem

TrustedBySavedKey(h, k) == mem.keys[h] = k

\* A saved key counts once the user has confirmed it.
Trusted(h, k) == mem.keys[h] = k /\ h \in mem.confirmed

Fresh == {p \in pending : p.id \notin expired}

\* The server answers with whatever key it has today.
Handshake(s) ==
  /\ session[s].stage = "idle"
  /\ \E k \in Prints :
       session' = [session EXCEPT ![s].stage = "handshaken", ![s].key = k]
  /\ UNCHANGED <<store, challenges, dialog, history>>

\* verify succeeds; word remembers what the user vouches for at that moment.
VerifyTrusted(s) ==
  /\ session[s].stage = "handshaken"
  /\ Intact
  /\ Trusted(session[s].host, session[s].key)
  /\ session' = [session EXCEPT ![s].stage = "verified",
                                ![s].word = word[session[s].host]]
  /\ UNCHANGED <<store, challenges, dialog, history>>

\* verify refuses: the same fresh challenge again, a new one, or none when there
\* are too many.  Expired challenges are dropped on the way.
VerifyChallenged(s) ==
  LET h == session[s].host
      k == session[s].key
      new == [id |-> nextId + 1, host |-> h, print |-> k, prev |-> mem.keys[h]]
      known == \E p \in Fresh : <<p.host, p.print, p.prev>> = <<h, k, new.prev>>
  IN
  /\ session[s].stage = "handshaken"
  /\ Intact
  /\ ~Trusted(h, k)
  /\ IF known \/ Cardinality(Fresh) >= MaxPending
     THEN pending' = Fresh /\ UNCHANGED nextId
     ELSE /\ nextId < MaxIds
          /\ pending' = Fresh \cup {new}
          /\ nextId' = nextId + 1
  /\ session' = [session EXCEPT ![s].stage = "failed"]
  /\ UNCHANGED <<store, expired, dialog, history>>

\* verify refuses because the trust file is not what was loaded.
VerifyLocked(s) ==
  /\ session[s].stage = "handshaken"
  /\ ~Intact
  /\ session' = [session EXCEPT ![s].stage = "failed"]
  /\ UNCHANGED <<store, challenges, dialog, history>>

\* Only a verified session sends the password or key.
Authenticate(s) ==
  /\ session[s].stage = "verified"
  /\ session' = [session EXCEPT ![s].stage = "authenticated"]
  /\ UNCHANGED <<store, challenges, dialog, history>>

\* The session ends at any point; the attempt may be made again, elsewhere.
EndSession(s) ==
  /\ session[s].stage # "idle"
  /\ \E h \in Hosts : session' = [session EXCEPT ![s] = Idle(h)]
  /\ UNCHANGED <<store, challenges, dialog, history>>

ChallengeExpires ==
  /\ \E p \in Fresh : expired' = expired \cup {p.id}
  /\ UNCHANGED <<store, pending, nextId, dialog, session, history>>

-----------------------------------------------------------------------------
(* The trust dialog. *)

\* pending_confirmation and the checks confirm makes again under the lock.
Confirmable(p) == Intact /\ p \in Fresh /\ mem.keys[p.host] = p.prev

OpenTrust(d, p) ==
  /\ dialog[d] = Closed
  /\ Confirmable(p)
  /\ dialog' = [dialog EXCEPT ![d] = [kind |-> "trust", shows |-> p]]
  /\ UNCHANGED <<store, challenges, session, history>>

\* The user declines, the checks fail, or the new file cannot be written.
CloseDialog(d) ==
  /\ dialog[d] # Closed
  /\ dialog' = [dialog EXCEPT ![d] = Closed]
  /\ UNCHANGED <<store, challenges, session, history>>

Saved(p) ==
  [keys |-> [mem.keys EXCEPT ![p.host] = p.print],
   confirmed |-> mem.confirmed \cup {p.host}]

\* The user vouches for the key and the file is replaced.
Vouch(p) ==
  /\ file' = Saved(p)
  /\ word' = [word EXCEPT ![p.host] = p.print]
  /\ approved' = approved \cup {p.id}
  /\ UNCHANGED <<edited, void>>

ConfirmBeforeSaving(d) ==
  /\ dialog[d].kind = "trust"
  /\ Confirmable(dialog[d].shows)
  /\ mem' = Saved(dialog[d].shows)
  /\ pending' = pending \ {dialog[d].shows}
  /\ dialog' = [dialog EXCEPT ![d] = Closed]
  /\ Vouch(dialog[d].shows) \/ UNCHANGED <<file, history>>
  /\ UNCHANGED <<locked, expired, nextId, session>>

\* confirm: the file first, then memory; the challenge is used up.
Confirm(d) ==
  /\ dialog[d].kind = "trust"
  /\ Confirmable(dialog[d].shows)
  /\ Vouch(dialog[d].shows)
  /\ mem' = Saved(dialog[d].shows)
  /\ pending' = pending \ {dialog[d].shows}
  /\ dialog' = [dialog EXCEPT ![d] = Closed]
  /\ UNCHANGED <<locked, expired, nextId, session>>

-----------------------------------------------------------------------------
(* The forget dialog. *)

\* ssh_host_key_forget shows a fingerprint that list() still has.
OpenForget(d, h) ==
  /\ dialog[d] = Closed
  /\ Intact
  /\ mem.keys[h] # NoPrint
  /\ dialog' = [dialog EXCEPT ![d] =
       [kind |-> "forget", shows |-> [host |-> h, print |-> mem.keys[h]]]]
  /\ UNCHANGED <<store, challenges, session, history>>

Forgettable(r) == Intact /\ mem.keys[r.host] = r.print

Without(h) == [keys |-> [mem.keys EXCEPT ![h] = NoPrint],
               confirmed |-> mem.confirmed \ {h}]

UnvouchInMemory(h) ==
  /\ word' = [word EXCEPT ![h] = NoPrint]
  /\ void' = void \cup {p.id : p \in {q \in pending : q.host = h}}
  /\ UNCHANGED <<file, edited, approved>>

\* The user takes the trust back: no dialog already open may restore it.
Unvouch(h) ==
  /\ file' = Without(h)
  /\ word' = [word EXCEPT ![h] = NoPrint]
  /\ void' = void \cup {p.id : p \in {q \in pending : q.host = h}}
  /\ UNCHANGED <<edited, approved>>

ForgetKeepsChallenges(h) == UNCHANGED pending

\* forget drops every challenge of the host.
DropChallenges(h) == pending' = {p \in pending : p.host # h}

Forget(d) ==
  /\ dialog[d].kind = "forget"
  /\ Forgettable(dialog[d].shows)
  /\ Unvouch(dialog[d].shows.host)
  /\ mem' = Without(dialog[d].shows.host)
  /\ DropChallenges(dialog[d].shows.host)
  /\ dialog' = [dialog EXCEPT ![d] = Closed]
  /\ UNCHANGED <<locked, expired, nextId, session>>

-----------------------------------------------------------------------------
(* The environment. *)

\* Another program edits, damages or deletes the file (a missing one is Empty).
EditFile ==
  /\ file' \in (Schemas \cup {Corrupt}) \ {file}
  /\ edited' = TRUE
  /\ UNCHANGED <<mem, locked, challenges, dialog, session, word, void, approved>>

\* load_available after a crash or a restart.  What someone wrote into the file
\* in the meantime is then the user's responsibility.
Restart ==
  /\ mem' = IF file = Corrupt THEN Empty ELSE file
  /\ locked' = (file = Corrupt)
  /\ pending' = {}
  /\ dialog' = [d \in Dialogs |-> Closed]
  /\ session' = [s \in Sessions |-> Idle(session[s].host)]
  /\ edited' = FALSE
  /\ word' = IF edited THEN Vouched(mem') ELSE word
  /\ UNCHANGED <<file, expired, nextId, void, approved>>

\* The application dies between replacing the file and updating memory.
CrashWhileSaving(d) ==
  /\ \/ /\ dialog[d].kind = "trust"
        /\ Confirmable(dialog[d].shows)
        /\ Vouch(dialog[d].shows)
     \/ /\ dialog[d].kind = "forget"
        /\ Forgettable(dialog[d].shows)
        /\ Unvouch(dialog[d].shows.host)
  /\ mem' = file'
  /\ pending' = {}
  /\ dialog' = [e \in Dialogs |-> Closed]
  /\ session' = [s \in Sessions |-> Idle(session[s].host)]
  /\ UNCHANGED <<locked, expired, nextId>>

Next ==
  \/ \E s \in Sessions : Handshake(s) \/ VerifyTrusted(s) \/ VerifyChallenged(s)
                         \/ VerifyLocked(s) \/ Authenticate(s) \/ EndSession(s)
  \/ \E d \in Dialogs : \/ \E p \in pending : OpenTrust(d, p)
                        \/ \E h \in Hosts : OpenForget(d, h)
                        \/ Confirm(d) \/ Forget(d)
                        \/ CloseDialog(d) \/ CrashWhileSaving(d)
  \/ ChallengeExpires \/ EditFile \/ Restart

Spec == Init /\ [][Next]_vars

-----------------------------------------------------------------------------
(* Properties. *)

\* Credentials go only to a server whose key the user was vouching for when it
\* was verified: not to a legacy entry, not to a key whose approval could not be
\* saved, not to one the user has taken back, nor to one somebody put in the file.
CredentialsOnlyToVouchedKeys ==
  \A s \in Sessions : session[s].stage \in {"verified", "authenticated"} =>
                        session[s].key = session[s].word

\* What memory trusts is the user's last word for every host, through failed
\* saves, concurrent dialogs and crashes between the file and memory.
TrustIsTheUsersWord == ~locked => Vouched(mem) = word

\* Unless someone edits it, the file a restart will load is what memory holds.
TrustIsDurable == ~locked /\ ~edited => file = mem

\* A dialog opened before the user forgot the host cannot restore trust in it,
\* even when the saved key is again what the dialog showed as previous.
ForgottenStaysForgotten == approved \cap void = {}

\* No operation overwrites a trust file it has not read: an edited or damaged
\* file waits for the user to look at it.
EditsAreNotOverwritten == [][file' # file => EditFile \/ file = mem]_vars
=============================================================================
