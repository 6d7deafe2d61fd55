--------------------------- MODULE MCTokenService ---------------------------
(* Small instances of TokenService: one account, one unknown user. *)
EXTENDS TokenService

MCAmounts == -1..2
MCCosts == {0, 2}
=============================================================================
