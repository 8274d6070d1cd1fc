------------------------------ MODULE FileGrants -----------------------------
(***************************************************************************)
(* The selections of local files (src-tauri/src/file_grants.rs): what the  *)
(* system's dialog picked may be used once, for its purpose, within five   *)
(* minutes.  Ids are drawn at random in the code, here in order.           *)
(***************************************************************************)
EXTENDS Unset, FiniteSets

CONSTANT MaxGrants    \* 128 in the code

ASSUME GrantsAssumption == MaxGrants \in Nat

VARIABLES
  grants,   \* FileGrants: selection -> its purpose, and whether five minutes are over
  drawn,    \* how many ids were drawn
  spent     \* history: the selections that were consumed

grantVars == <<grants, drawn, spent>>

GrantsInit == grants = <<>> /\ drawn = 0 /\ spent = {}

Unexpired == {g \in DOMAIN grants : ~grants[g].old}
Drawn(n) == drawn + 1..drawn + n
\* issue_many: the old ones go; the rest and the new ones must fit.
RoomFor(n) == Cardinality(Unexpired) + n <= MaxGrants
IssueMany(n, purpose) ==
  /\ grants' = [g \in Unexpired \cup Drawn(n) |->
                  IF g \in Unexpired THEN grants[g] ELSE [purpose |-> purpose, old |-> FALSE]]
  /\ drawn' = drawn + n /\ UNCHANGED spent
IssueNone == grants' = [g \in Unexpired |-> grants[g]] /\ UNCHANGED <<drawn, spent>>
\* consume_many: all of them or none.
MayConsume(ids, purpose) ==
  \A g \in ids : g \in DOMAIN grants /\ ~grants[g].old /\ grants[g].purpose = purpose
ConsumeMany(ids) ==
  /\ grants' = [g \in DOMAIN grants \ ids |-> grants[g]]
  /\ spent' = spent \cup ids /\ UNCHANGED drawn
\* Five minutes pass.
Expire(g) ==
  /\ g \in DOMAIN grants /\ ~grants[g].old /\ grants' = [grants EXCEPT ![g].old = TRUE]
  /\ UNCHANGED <<drawn, spent>>
=============================================================================
