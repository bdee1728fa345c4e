---------------------------- MODULE MCRaindexArb ----------------------------
(* Three tokens, so that a token can come in that the arb does not trade, and *)
(* the native coin, a unit of each; one stray coin and one approval or order  *)
(* that a caller's call has left; calls of the contract nested two deep: an   *)
(* arb and its exchange, or a callback and the arb or callback it opens.      *)
EXTENDS RaindexArb, TLC

TokenSymmetry == Permutations(Token)
=============================================================================
