------------------------------- MODULE MCHost -------------------------------
(***************************************************************************)
(* The instance of Host that TLC checks.                                   *)
(***************************************************************************)
EXTENDS Host, TLC

Symmetry == Permutations(Maps)
=============================================================================
