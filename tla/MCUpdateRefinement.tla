------------------------- MODULE MCUpdateRefinement -------------------------
(* The refinement of the updater's promise, instantiated for TLC.           *)
EXTENDS UpdateRefinement
=============================================================================
