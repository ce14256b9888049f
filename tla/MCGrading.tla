------------------------------ MODULE MCGrading ------------------------------
(***************************************************************************)
(* TLC instance of Grading: two requests overlap on one student, one exam  *)
(* and three belts.                                                        *)
(***************************************************************************)
EXTENDS Grading, TLC

Symmetry == Permutations(Requests)

\* Two states that differ only in the belt of admission of a student whose history tells a
\* later one behave alike, and no property tells them apart.
View ==
    [vars EXCEPT ![1] = [s \in Students |->
        IF history[s] = {} THEN student[s] ELSE [student[s] EXCEPT !.admitted = 0]]]
=============================================================================
