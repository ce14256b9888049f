--------------------------- MODULE MCAccountAccess ---------------------------
(***************************************************************************)
(* TLC instance of AccountAccess: two requests overlap on one account with *)
(* three attempts and two links.                                           *)
(***************************************************************************)
EXTENDS AccountAccess, Combinatorics, TLC

Symmetry == Permutations(Requests)

\* GuessesBounded in numbers: N requests and M attempts have choose(N + M - 1, N) tallies.
ASSUME TalliesCounted ==
    \A attempts \in 1 .. 5, requests \in 1 .. 3 :
        Cardinality(Tallies(attempts, requests)) = choose(requests + attempts - 1, requests)
=============================================================================
