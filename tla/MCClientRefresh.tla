--------------------------- MODULE MCClientRefresh ---------------------------
(***************************************************************************)
(* TLC instances of ClientRefresh.                                         *)
(***************************************************************************)
EXTENDS ClientRefresh
=============================================================================
