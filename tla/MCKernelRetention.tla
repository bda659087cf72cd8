--------------------------- MODULE MCKernelRetention ---------------------------
(* Kernel retention, instantiated for TLC.                                    *)
EXTENDS KernelRetention
=============================================================================
