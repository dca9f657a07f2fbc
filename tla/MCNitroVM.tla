----------------------------- MODULE MCNitroVM -----------------------------
(***************************************************************************)
(* The funds that messages carry in the instances of NitroVM that TLC      *)
(* checks.                                                                 *)
(***************************************************************************)
EXTENDS NitroVM

BadCoin == -1

\* No coin; one coin; a coin that moves before a bad one is refused.
FundsWithBadCoin == {<<>>, <<1>>, <<1, BadCoin>>}
NoFunds == {<<>>}
=============================================================================
