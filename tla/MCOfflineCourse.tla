--------------------------- MODULE MCOfflineCourse ---------------------------
(***************************************************************************)
(* One lesson, two flows at once, one mishap, access regained once.  No    *)
(* symmetry: the run checks liveness.                                      *)
(***************************************************************************)
EXTENDS OfflineCourse
=============================================================================
