-------------------------- MODULE MCRefreshTokens --------------------------
(***************************************************************************)
(* TLC instances of RefreshTokens: MCRefreshTokensConcurrent.cfg lets two  *)
(* requests of the user overlap, MCRefreshTokensSerial.cfg serves one.     *)
(***************************************************************************)
EXTENDS RefreshTokens, TLC

Symmetry == Permutations(Requests)
=============================================================================
