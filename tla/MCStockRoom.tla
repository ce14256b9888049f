---------------------------- MODULE MCStockRoom ----------------------------
(***************************************************************************)
(* TLC instance of StockRoom: two requests overlap over one item and two   *)
(* orders of it.                                                           *)
(***************************************************************************)
EXTENDS StockRoom, TLC

MCDeltas == {-1, 1}
Symmetry == Permutations(Requests)
=============================================================================
