--------------------------- MODULE MCOrganisation ---------------------------
(***************************************************************************)
(* TLC instance of Organisation: two requests overlap over one academy     *)
(* with two branches, and three users for one seat.                        *)
(***************************************************************************)
EXTENDS Organisation, TLC

Symmetry == Permutations(Requests) \cup Permutations(Users)
=============================================================================
