----------------------------- MODULE MCSecrets -----------------------------
(* Two processes start, stop and save; three keys are as many as are ever in use. *)
EXTENDS Secrets, TLC
=============================================================================
