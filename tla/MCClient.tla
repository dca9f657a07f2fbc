------------------------------ MODULE MCClient ------------------------------
(***************************************************************************)
(* The instance of Client that TLC checks.                                 *)
(***************************************************************************)
EXTENDS Client, TLC

Symmetry == Permutations(Clients)
=============================================================================
