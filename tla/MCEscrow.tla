------------------------------ MODULE MCEscrow ------------------------------
(***************************************************************************)
(* The instances of Escrow that TLC checks, and the number of units of a   *)
(* function against the sum of the community modules.                      *)
(***************************************************************************)
EXTENDS Escrow, Functions

ASSUME TotalIsSum == \A f \in [1..3 -> 0..3] : Total(f) = SumFunction(f)
=============================================================================
