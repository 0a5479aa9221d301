---------------------------- MODULE MCCurriculum ----------------------------
(***************************************************************************)
(* Three lessons, the second an assignment, in two modules or in none; the *)
(* third lesson and the second module open an hour late.                   *)
(***************************************************************************)
EXTENDS Curriculum

MCLessonDelay == [l \in Lessons |-> IF l = 3 THEN 1 ELSE 0]
MCModuleDelay == [m \in ModuleIds |-> IF m = 2 THEN 1 ELSE 0]
=============================================================================
