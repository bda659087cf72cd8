-------------------------- MODULE MCUpdateSchedule --------------------------
(* The scheduled update controller and its promise, instantiated for TLC. *)
EXTENDS UpdateSchedule, UpdateRefinement
=============================================================================
