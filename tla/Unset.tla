--------------------------------- MODULE Unset --------------------------------
(***************************************************************************)
(* None stands for the null and undefined of the renderer.  It is declared *)
(* once for the screens that are run and proved about together.            *)
(***************************************************************************)
EXTENDS Naturals

CONSTANT None

ASSUME UnsetAssumption == None \notin Nat
=============================================================================
