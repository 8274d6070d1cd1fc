--------------------------- MODULE HostKeysProofs ---------------------------
(***************************************************************************)
(* Theorems of the host key store, for any endpoints, keys, sessions,      *)
(* dialogs and bounds.                                                     *)
(***************************************************************************)
EXTENDS HostKeys, TLAPS

-----------------------------------------------------------------------------
(* What the store writes is a schema. *)

LEMMA SavedIsSchema ==
  ASSUME mem \in Schemas, NEW p \in Challenge
  PROVE  /\ Saved(p) \in Schemas
         /\ Vouched(Saved(p)) = [Vouched(mem) EXCEPT ![p.host] = p.print]
  BY ZenonT(60), NoPrintAssumption DEF Saved, Schemas, Schema, Challenge, Vouched

LEMMA WithoutIsSchema ==
  ASSUME mem \in Schemas, NEW h \in Hosts
  PROVE  /\ Without(h) \in Schemas
         /\ Vouched(Without(h)) = [Vouched(mem) EXCEPT ![h] = NoPrint]
  BY DEF Without, Schemas, Schema, Vouched

LEMMA EmptyIsSchema == Empty \in Schemas
  BY DEF Empty, Schemas, Schema

LEMMA VouchedType ==
  ASSUME NEW s \in Schemas PROVE Vouched(s) \in [Hosts -> Prints \cup {NoPrint}]
  BY DEF Vouched, Schemas, Schema

LEMMA DialogType ==
  ASSUME TypeOK, NEW d \in Dialogs
  PROVE  /\ dialog[d].kind = "trust" => dialog[d].shows \in Challenge
         /\ dialog[d].kind = "forget" => dialog[d].shows \in Removal
  BY DEF TypeOK, Closed

-----------------------------------------------------------------------------
(* Types. *)

\* File and memory hold schemas without a confirmation that lacks its key, and
\* dialogs show challenges or removals of known hosts.
THEOREM TypeCorrect == Spec => []TypeOK
<1>1. Init => TypeOK
  <2> SUFFICES ASSUME Init PROVE TypeOK
    OBVIOUS
  <2>1. word \in [Hosts -> Prints \cup {NoPrint}]
    BY VouchedType DEF Init
  <2>2. session \in [Sessions -> Resting \cup Attempt]
    BY DEF Init
  <2>3. QED
    BY <2>1, <2>2 DEF Init, TypeOK
<1>2. TypeOK /\ [Next]_vars => TypeOK'
  <2> SUFFICES ASSUME TypeOK, [Next]_vars PROVE TypeOK'
    OBVIOUS
  <2> USE DEF TypeOK, store, challenges, history
  <2>1. ASSUME NEW s \in Sessions,
               \/ Handshake(s) \/ VerifyTrusted(s) \/ VerifyLocked(s)
               \/ Authenticate(s) \/ EndSession(s)
        PROVE  TypeOK'
    <3>1. session' \in [Sessions -> Resting \cup Attempt]
      <4>1. CASE Handshake(s)
        <5>1. session[s] \in Resting
          BY <4>1 DEF Handshake, Attempt
        <5>2. PICK k \in Prints : session' =
                 [session EXCEPT ![s].stage = "handshaken", ![s].key = k]
          BY <4>1 DEF Handshake
        <5>3. session'[s] \in Attempt
          BY <5>1, <5>2 DEF Resting, Attempt
        <5>4. QED
          BY <5>2, <5>3
      <4>2. CASE VerifyTrusted(s)
        <5>1. session[s] \in Attempt
          BY <4>2 DEF VerifyTrusted, Resting
        <5>2. word[session[s].host] \in Prints \cup {NoPrint}
          BY <5>1 DEF Attempt
        <5>3. session'[s] \in Attempt
          BY <4>2, <5>1, <5>2 DEF VerifyTrusted, Attempt
        <5>4. QED
          BY <4>2, <5>3 DEF VerifyTrusted
      <4>3. CASE VerifyLocked(s)
        <5>1. session[s] \in Attempt
          BY <4>3 DEF VerifyLocked, Resting
        <5>2. session'[s] \in Attempt
          BY <4>3, <5>1 DEF VerifyLocked, Attempt
        <5>3. QED
          BY <4>3, <5>2 DEF VerifyLocked
      <4>4. CASE Authenticate(s)
        BY <4>4 DEF Authenticate, Resting, Attempt
      <4>5. CASE EndSession(s)
        BY <4>5 DEF EndSession, Idle, Resting
      <4>6. QED
        BY <2>1, <4>1, <4>2, <4>3, <4>4, <4>5
    <3>2. QED
      BY <2>1, <3>1 DEF Handshake, VerifyTrusted, VerifyLocked, Authenticate,
                        EndSession
  <2>2. ASSUME NEW s \in Sessions, VerifyChallenged(s) PROVE TypeOK'
    <3>1. session[s] \in Attempt
      BY <2>2 DEF VerifyChallenged, Resting
    <3>2. session' \in [Sessions -> Resting \cup Attempt]
      BY <2>2, <3>1 DEF VerifyChallenged, Attempt
    <3>3. [id |-> nextId + 1, host |-> session[s].host, print |-> session[s].key,
           prev |-> mem.keys[session[s].host]] \in Challenge
      BY <3>1 DEF Attempt, Challenge, Schemas, Schema
    <3>4. pending' \subseteq Challenge /\ nextId' \in Nat
      BY <2>2, <3>3 DEF VerifyChallenged, Fresh
    <3>5. QED
      BY <2>2, <3>2, <3>4 DEF VerifyChallenged
  <2>3. ASSUME NEW d \in Dialogs, NEW p \in pending, OpenTrust(d, p)
        PROVE  TypeOK'
    BY <2>3 DEF OpenTrust
  <2>4. ASSUME NEW d \in Dialogs, NEW h \in Hosts, OpenForget(d, h)
        PROVE  TypeOK'
    BY <2>4 DEF OpenForget, Removal, Schemas, Schema
  <2>5. ASSUME NEW d \in Dialogs, CloseDialog(d) PROVE TypeOK'
    BY <2>5 DEF CloseDialog
  <2>6. ASSUME NEW p \in Challenge, Vouch(p)
        PROVE  file' \in Schemas /\ word' \in [Hosts -> Prints \cup {NoPrint}]
               /\ edited' \in BOOLEAN /\ void' \subseteq Nat
               /\ approved' \subseteq Nat
    BY <2>6, SavedIsSchema DEF Vouch, Challenge
  <2>7. ASSUME NEW h \in Hosts, Unvouch(h)
        PROVE  file' \in Schemas /\ word' \in [Hosts -> Prints \cup {NoPrint}]
               /\ edited' \in BOOLEAN /\ void' \subseteq Nat
               /\ approved' \subseteq Nat
    BY <2>7, WithoutIsSchema DEF Unvouch, Challenge
  <2>8. ASSUME NEW d \in Dialogs, Confirm(d) PROVE TypeOK'
    BY <2>8, <2>6, DialogType, SavedIsSchema DEF Confirm
  <2>9. ASSUME NEW d \in Dialogs, Forget(d) PROVE TypeOK'
    <3>1. dialog[d].shows.host \in Hosts
      BY <2>9, DialogType DEF Forget, Removal
    <3>2. QED
      BY <2>9, <3>1, <2>7, WithoutIsSchema DEF Forget, DropChallenges
  <2>10. \A s \in Sessions : Idle(session[s].host) \in Resting
    BY DEF Idle, Resting, Attempt
  <2>11. ASSUME NEW d \in Dialogs, CrashWhileSaving(d) PROVE TypeOK'
    <3>1. dialog[d].kind = "forget" => dialog[d].shows.host \in Hosts
      BY DialogType DEF Removal
    <3>2. file' \in Schemas /\ word' \in [Hosts -> Prints \cup {NoPrint}]
               /\ edited' \in BOOLEAN /\ void' \subseteq Nat
               /\ approved' \subseteq Nat
      BY <2>11, <2>6, <2>7, <3>1, DialogType DEF CrashWhileSaving
    <3>3. QED
      BY <2>11, <2>10, <3>2 DEF CrashWhileSaving
  <2>12. CASE Restart
    <3>1. mem' \in Schemas
      BY <2>12, EmptyIsSchema DEF Restart
    <3>2. word' \in [Hosts -> Prints \cup {NoPrint}]
      BY <2>12, <3>1, VouchedType DEF Restart
    <3>3. QED
      BY <2>12, <2>10, <3>1, <3>2 DEF Restart
  <2>13. CASE ChallengeExpires \/ EditFile
    BY <2>13 DEF ChallengeExpires, EditFile, Fresh, Challenge
  <2>14. CASE UNCHANGED vars
    BY <2>14 DEF vars
  <2>15. QED
    BY <2>1, <2>2, <2>3, <2>4, <2>5, <2>8, <2>9, <2>11, <2>12, <2>13, <2>14
    DEF Next
<1>3. QED
  BY <1>1, <1>2, PTL DEF Spec

-----------------------------------------------------------------------------
(* The trust file, memory and the user's word. *)

\* The three agree until somebody edits the file; a locked store has loaded
\* nothing and the file that locked it is still there.
Agreement ==
  /\ TrustIsTheUsersWord
  /\ TrustIsDurable
  /\ locked /\ ~edited => file = Corrupt

LEMMA AgreementHolds == Spec => []Agreement
<1> USE DEF Agreement, TrustIsTheUsersWord, TrustIsDurable
<1>1. Init => Agreement
  BY DEF Init
<1>2. TypeOK /\ Agreement /\ [Next]_vars => Agreement'
  <2> SUFFICES ASSUME TypeOK, Agreement, [Next]_vars PROVE Agreement'
    OBVIOUS
  <2> USE DEF TypeOK, store, challenges, history
  <2>1. ASSUME UNCHANGED <<file, mem, locked, word, edited>> PROVE Agreement'
    BY <2>1 DEF Vouched
  <2>2. ASSUME NEW s \in Sessions,
               \/ Handshake(s) \/ VerifyTrusted(s) \/ VerifyChallenged(s)
               \/ VerifyLocked(s) \/ Authenticate(s) \/ EndSession(s)
        PROVE  Agreement'
    BY <2>1, <2>2 DEF Handshake, VerifyTrusted, VerifyChallenged, VerifyLocked,
                      Authenticate, EndSession
  <2>3. ASSUME NEW d \in Dialogs,
               \/ \E p \in pending : OpenTrust(d, p)
               \/ \E h \in Hosts : OpenForget(d, h)
               \/ CloseDialog(d)
        PROVE  Agreement'
    BY <2>1, <2>3 DEF OpenTrust, OpenForget, CloseDialog
  <2>4. ASSUME NEW p \in Challenge, Confirmable(p), Vouch(p), mem' = Saved(p),
               UNCHANGED locked
        PROVE  Agreement'
    <3>1. Vouched(mem') = word'
      BY <2>4, SavedIsSchema DEF Confirmable, Intact, Vouch
    <3>2. QED
      BY <2>4, <3>1 DEF Confirmable, Intact, Vouch, Vouched
  <2>5. ASSUME NEW r \in Removal, Forgettable(r), Unvouch(r.host),
               mem' = Without(r.host), UNCHANGED locked
        PROVE  Agreement'
    <3>1. Vouched(mem') = word'
      BY <2>5, WithoutIsSchema DEF Forgettable, Intact, Unvouch, Removal
    <3>2. QED
      BY <2>5, <3>1 DEF Forgettable, Intact, Unvouch, Vouched
  <2>6. ASSUME NEW d \in Dialogs, Confirm(d) PROVE Agreement'
    BY <2>4, <2>6, DialogType DEF Confirm
  <2>7. ASSUME NEW d \in Dialogs, Forget(d) PROVE Agreement'
    BY <2>5, <2>7, DialogType DEF Forget
  <2>8. ASSUME NEW d \in Dialogs, CrashWhileSaving(d) PROVE Agreement'
    <3>1. CASE /\ dialog[d].kind = "trust"
               /\ Confirmable(dialog[d].shows)
               /\ Vouch(dialog[d].shows)
      BY <2>4, <2>8, <3>1, DialogType DEF CrashWhileSaving, Vouch
    <3>2. CASE /\ dialog[d].kind = "forget"
               /\ Forgettable(dialog[d].shows)
               /\ Unvouch(dialog[d].shows.host)
      BY <2>5, <2>8, <3>2, DialogType DEF CrashWhileSaving, Unvouch
    <3>3. QED
      BY <2>8, <3>1, <3>2 DEF CrashWhileSaving
  <2>9. CASE Restart
    BY <2>9 DEF Restart, Vouched
  <2>10. CASE ChallengeExpires
    BY <2>1, <2>10 DEF ChallengeExpires
  <2>11. CASE EditFile
    BY <2>11 DEF EditFile, Vouched
  <2>12. CASE UNCHANGED vars
    BY <2>1, <2>12 DEF vars
  <2>13. QED
    BY <2>2, <2>3, <2>6, <2>7, <2>8, <2>9, <2>10, <2>11, <2>12 DEF Next
<1>3. QED
  BY <1>1, <1>2, TypeCorrect, PTL DEF Spec

\* Whatever fails, crashes or is answered out of order, the store trusts for
\* every host exactly the key the user last vouched for.
THEOREM TrustFollowsTheUser == Spec => []TrustIsTheUsersWord
<1>1. Agreement => TrustIsTheUsersWord
  BY DEF Agreement
<1>2. QED
  BY <1>1, AgreementHolds, PTL

\* Unless somebody edits the file, a restart finds the trust memory holds.
THEOREM TrustSurvivesRestart == Spec => []TrustIsDurable
<1>1. Agreement => TrustIsDurable
  BY DEF Agreement
<1>2. QED
  BY <1>1, AgreementHolds, PTL

\* No session sends credentials under a key the user was not vouching for when
\* the key was verified.
THEOREM CredentialsAreSafe == Spec => []CredentialsOnlyToVouchedKeys
<1>1. Init => CredentialsOnlyToVouchedKeys
  BY DEF Init, CredentialsOnlyToVouchedKeys, Resting
<1>2. TypeOK /\ Agreement /\ CredentialsOnlyToVouchedKeys /\ [Next]_vars
        => CredentialsOnlyToVouchedKeys'
  <2> SUFFICES ASSUME TypeOK, Agreement, CredentialsOnlyToVouchedKeys,
                      [Next]_vars
               PROVE  CredentialsOnlyToVouchedKeys'
    OBVIOUS
  <2> USE DEF TypeOK, CredentialsOnlyToVouchedKeys, store, challenges, history
  <2>1. ASSUME UNCHANGED session PROVE CredentialsOnlyToVouchedKeys'
    BY <2>1
  <2>2. ASSUME NEW s \in Sessions, VerifyTrusted(s)
        PROVE  CredentialsOnlyToVouchedKeys'
    <3>1. session[s].host \in Hosts
      BY DEF Resting, Attempt
    <3>2. word[session[s].host] = session[s].key
      BY <2>2, <3>1 DEF VerifyTrusted, Intact, Trusted, Agreement,
                        TrustIsTheUsersWord, Vouched
    <3>3. session'[s].key = session'[s].word
      BY <2>2, <3>2 DEF VerifyTrusted, Resting, Attempt
    <3>4. \A t \in Sessions \ {s} : session'[t] = session[t]
      BY <2>2 DEF VerifyTrusted
    <3>5. QED
      BY <3>3, <3>4
  <2>3. ASSUME NEW s \in Sessions,
               \/ Handshake(s) \/ VerifyChallenged(s)
               \/ VerifyLocked(s) \/ Authenticate(s) \/ EndSession(s)
        PROVE  CredentialsOnlyToVouchedKeys'
    <3>1. \A t \in Sessions \ {s} : session'[t] = session[t]
      BY <2>3 DEF Handshake, VerifyChallenged, VerifyLocked, Authenticate,
                  EndSession
    <3>2. CASE Handshake(s)
      BY <3>1, <3>2 DEF Handshake, Resting, Attempt
    <3>3. CASE VerifyChallenged(s)
      BY <3>1, <3>3 DEF VerifyChallenged, Resting, Attempt
    <3>4. CASE VerifyLocked(s)
      BY <3>1, <3>4 DEF VerifyLocked, Resting, Attempt
    <3>5. CASE Authenticate(s)
      BY <3>1, <3>5 DEF Authenticate, Resting, Attempt
    <3>6. CASE EndSession(s)
      BY <3>1, <3>6 DEF EndSession, Idle
    <3>7. QED
      BY <2>3, <3>2, <3>3, <3>4, <3>5, <3>6
  <2>4. ASSUME NEW d \in Dialogs, CrashWhileSaving(d)
        PROVE  CredentialsOnlyToVouchedKeys'
    BY <2>4 DEF CrashWhileSaving, Idle
  <2>5. CASE Restart
    BY <2>5 DEF Restart, Idle
  <2>6. ASSUME NEW d \in Dialogs,
               \/ \E p \in pending : OpenTrust(d, p)
               \/ \E h \in Hosts : OpenForget(d, h)
               \/ Confirm(d) \/ Forget(d) \/ CloseDialog(d)
        PROVE  UNCHANGED session
    BY <2>6 DEF OpenTrust, OpenForget, Confirm, Forget, CloseDialog
  <2>7. CASE ChallengeExpires \/ EditFile \/ UNCHANGED vars
    BY <2>1, <2>7 DEF ChallengeExpires, EditFile, vars
  <2>8. QED
    BY <2>1, <2>2, <2>3, <2>4, <2>5, <2>6, <2>7 DEF Next
<1>3. QED
  BY <1>1, <1>2, TypeCorrect, AgreementHolds, PTL DEF Spec

\* The trust file changes only by somebody else's hand, or from a content the
\* store has loaded.
THEOREM EditsSurvive == Spec => EditsAreNotOverwritten
<1>1. ASSUME [Next]_vars PROVE file' # file => EditFile \/ file = mem
  <2> USE DEF store, challenges, history
  <2>1. ASSUME NEW s \in Sessions,
               \/ Handshake(s) \/ VerifyTrusted(s) \/ VerifyChallenged(s)
               \/ VerifyLocked(s) \/ Authenticate(s) \/ EndSession(s)
        PROVE  file' = file
    BY <2>1 DEF Handshake, VerifyTrusted, VerifyChallenged, VerifyLocked,
                Authenticate, EndSession
  <2>2. ASSUME NEW d \in Dialogs,
               \/ \E p \in pending : OpenTrust(d, p)
               \/ \E h \in Hosts : OpenForget(d, h)
               \/ CloseDialog(d)
        PROVE  file' = file
    BY <2>2 DEF OpenTrust, OpenForget, CloseDialog
  <2>3. ASSUME NEW d \in Dialogs,
               Confirm(d) \/ Forget(d) \/ CrashWhileSaving(d)
        PROVE  file = mem
    BY <2>3 DEF Confirm, Forget, CrashWhileSaving, Confirmable, Forgettable,
                Intact
  <2>4. CASE ChallengeExpires \/ Restart \/ UNCHANGED vars
    BY <2>4 DEF ChallengeExpires, Restart, vars
  <2>5. QED
    BY <1>1, <2>1, <2>2, <2>3, <2>4 DEF Next
<1>2. QED
  BY <1>1, PTL DEF Spec, EditsAreNotOverwritten

-----------------------------------------------------------------------------
(* Approvals that came too late. *)

\* A pending challenge is recognised by its id, has not been approved, and has
\* not been overtaken by a removal of its host; ids are never issued twice.
ChallengesAreFresh ==
  /\ \A p \in pending : /\ p.id <= nextId
                         /\ p.id \notin void
                         /\ p.id \notin approved
  /\ \A p, q \in pending : p.id = q.id => p = q
  /\ \A n \in void \cup approved : n <= nextId
  /\ ForgottenStaysForgotten

\* No approval given in a dialog that a removal has overtaken is ever saved.
THEOREM ForgettingIsFinal == Spec => []ForgottenStaysForgotten
<1> USE DEF ChallengesAreFresh, ForgottenStaysForgotten
<1>1. Init => ChallengesAreFresh
  BY DEF Init
<1>2. TypeOK /\ ChallengesAreFresh /\ [Next]_vars => ChallengesAreFresh'
  <2> SUFFICES ASSUME TypeOK, ChallengesAreFresh, [Next]_vars
               PROVE  ChallengesAreFresh'
    OBVIOUS
  <2> USE DEF store, challenges, history
  <2>1. ASSUME UNCHANGED <<nextId, void, approved>>, pending' \subseteq pending
        PROVE  ChallengesAreFresh'
    BY <2>1
  <2>2. ASSUME NEW s \in Sessions,
               \/ Handshake(s) \/ VerifyTrusted(s)
               \/ VerifyLocked(s) \/ Authenticate(s) \/ EndSession(s)
        PROVE  ChallengesAreFresh'
    BY <2>1, <2>2 DEF Handshake, VerifyTrusted, VerifyLocked, Authenticate,
                      EndSession
  <2>3. ASSUME NEW s \in Sessions, VerifyChallenged(s)
        PROVE  ChallengesAreFresh'
    <3> DEFINE new == [id |-> nextId + 1, host |-> session[s].host,
                       print |-> session[s].key,
                       prev |-> mem.keys[session[s].host]]
    <3>1. UNCHANGED <<void, approved>>
      BY <2>3 DEF VerifyChallenged
    <3>2. CASE pending' = Fresh /\ UNCHANGED nextId
      BY <2>1, <3>1, <3>2 DEF Fresh
    <3>3. CASE pending' = Fresh \cup {new} /\ nextId' = nextId + 1
      <4>1. Fresh \subseteq pending /\ new.id = nextId + 1
        BY DEF Fresh
      <4>2. nextId \in Nat /\ \A p \in pending : p.id \in Nat
        BY DEF TypeOK, Challenge
      <4>3. \A n \in void \cup approved : n \in Nat
        BY DEF TypeOK
      <4> HIDE DEF new
      <4>4. QED
        BY <3>1, <3>3, <4>1, <4>2, <4>3
    <3>4. QED
      BY <2>3, <3>2, <3>3 DEF VerifyChallenged
  <2>4. ASSUME NEW d \in Dialogs,
               \/ \E p \in pending : OpenTrust(d, p)
               \/ \E h \in Hosts : OpenForget(d, h)
               \/ CloseDialog(d)
        PROVE  ChallengesAreFresh'
    BY <2>1, <2>4 DEF OpenTrust, OpenForget, CloseDialog
  <2>5. ASSUME NEW p, Confirmable(p), Vouch(p), UNCHANGED nextId,
               pending' \subseteq pending \ {p}
        PROVE  ChallengesAreFresh'
    BY <2>5 DEF Confirmable, Fresh, Vouch
  <2>6. ASSUME NEW h, Unvouch(h), UNCHANGED nextId,
               pending' \subseteq {p \in pending : p.host # h}
        PROVE  ChallengesAreFresh'
    BY <2>6 DEF Unvouch
  <2>7. ASSUME NEW d \in Dialogs, Confirm(d) PROVE ChallengesAreFresh'
    BY <2>5, <2>7 DEF Confirm
  <2>8. ASSUME NEW d \in Dialogs, Forget(d) PROVE ChallengesAreFresh'
    BY <2>6, <2>8 DEF Forget, DropChallenges
  <2>9. ASSUME NEW d \in Dialogs, CrashWhileSaving(d)
        PROVE  ChallengesAreFresh'
    <3>1. pending' = {} /\ UNCHANGED nextId
      BY <2>9 DEF CrashWhileSaving
    <3>2. QED
      BY <2>5, <2>6, <2>9, <3>1 DEF CrashWhileSaving
  <2>10. CASE Restart \/ ChallengeExpires \/ EditFile \/ UNCHANGED vars
    BY <2>1, <2>10 DEF Restart, ChallengeExpires, EditFile, vars
  <2>11. QED
    BY <2>2, <2>3, <2>4, <2>7, <2>8, <2>9, <2>10 DEF Next
<1>3. ChallengesAreFresh => ForgottenStaysForgotten
  OBVIOUS
<1>4. QED
  BY <1>1, <1>2, <1>3, TypeCorrect, PTL DEF Spec
=============================================================================
