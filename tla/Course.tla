------------------------------- MODULE Course -------------------------------
(***************************************************************************)
(* What a learner's progress (Learning) and the locks (Curriculum) have in *)
(* common: the lessons of one course, those that are assignments, and the  *)
(* null of a time that has not come (completedAt).                         *)
(***************************************************************************)
EXTENDS Integers, FiniteSets, FiniteSetsExt

CONSTANTS Lessons,
          Tasks    \* the lessons of type ASSIGNMENT

ASSUME CourseAssumption == IsFiniteSet(Lessons) /\ Tasks \subseteq Lessons

Never == -1
=============================================================================
