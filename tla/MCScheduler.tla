---------------------------- MODULE MCScheduler ----------------------------
(***************************************************************************)
(* A one-off and a daily broadcast, two runs at once, two days, one        *)
(* failure.                                                                *)
(***************************************************************************)
EXTENDS Scheduler
=============================================================================
