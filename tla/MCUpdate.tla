------------------------------- MODULE MCUpdate -------------------------------
(* The update controller on its own, instantiated for TLC.                    *)
EXTENDS UpdateController
=============================================================================
