--------------------------- MODULE MCConnections ---------------------------
(* Two requests and one editing command: enough for a tunnel in creation, a   *)
(* second request waiting for it or sharing it, and a close that overtakes    *)
(* both. The proofs in ConnectionsProofs cover any number of commands.        *)
EXTENDS Connections, TLC
=============================================================================
