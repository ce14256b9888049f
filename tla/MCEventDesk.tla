----------------------------- MODULE MCEventDesk -----------------------------
(***************************************************************************)
(* TLC instance of EventDesk: two requests overlap on two parents, two     *)
(* students and an event with one place.                                   *)
(***************************************************************************)
EXTENDS EventDesk, TLC

MCEventRows ==
    {[row |-> "live", status |-> "PUBLISHED", capacity |-> 1, approval |-> TRUE]}
Symmetry == Permutations(Requests) \cup Permutations(Parents) \cup Permutations(Students)
=============================================================================
