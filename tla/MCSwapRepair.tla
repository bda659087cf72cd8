----------------------------- MODULE MCSwapRepair -----------------------------
(* The swap repair, instantiated for TLC.                                     *)
EXTENDS SwapRepair, TLC

\* Swap files are interchangeable.
FileSymmetry == Permutations(Files)
=============================================================================
