------------------------------ MODULE MCKernel ------------------------------
(* Small instances of Kernel for TLC.                                      *)
EXTENDS Kernel

\* The register value of hardware.h: a configuration cannot hold a negative number.
MCIdleProcess == -1
=============================================================================
