-------------------------- MODULE MCStudentRoster --------------------------
(***************************************************************************)
(* TLC instances of StudentRoster: MCStudentRoster.cfg overlaps two        *)
(* requests over one batch with one place.                                 *)
(***************************************************************************)
EXTENDS StudentRoster, TLC

Symmetry == Permutations(Requests)
=============================================================================
