-------------------------------- MODULE Sums --------------------------------
(***************************************************************************)
(* The sum of the values of a function, and so of a sequence, as the       *)
(* number of units it counts.  A value below zero counts for nothing.      *)
(* There is no recursion, so that the sum can be reasoned about.           *)
(***************************************************************************)
EXTENDS Integers, FiniteSets

\* One pair for every unit: the units of a balance sheet are its tokens.
Units(f) == UNION {{x} \X (1..f[x]) : x \in DOMAIN f}

Total(f) == Cardinality(Units(f))
=============================================================================
