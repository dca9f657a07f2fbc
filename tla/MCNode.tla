------------------------------- MODULE MCNode -------------------------------
(***************************************************************************)
(* The instances of Node that TLC checks.                                  *)
(***************************************************************************)
EXTENDS Node, TLC

Symmetry == Permutations(Threads) \cup Permutations(Users)
=============================================================================
