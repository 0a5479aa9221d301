----------------------------- MODULE MCLearning -----------------------------
(***************************************************************************)
(* A video with a quiz and an assignment.                                  *)
(***************************************************************************)
EXTENDS Learning, TLC

\* Rows that only accumulate are capped together: two earned certificates, or two
\* attempts, or one of each, or one certificate by hand.
RowsBound ==
    \A l \in QuizLessons :
        attempts[l] + certificates.earned + 2 * certificates.manual <= 2

Symmetry == Permutations(Request)
=============================================================================
