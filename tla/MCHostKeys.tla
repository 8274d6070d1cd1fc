----------------------------- MODULE MCHostKeys -----------------------------
(* One endpoint with two possible keys and two dialogs open at a time; three  *)
(* challenges let one outlive a confirmation, a removal and a second one.     *)
EXTENDS HostKeys
MCMaxPending == 2
MCMaxIds == 3
=============================================================================
