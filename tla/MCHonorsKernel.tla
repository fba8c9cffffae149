--------------------------- MODULE MCHonorsKernel ---------------------------
(* Small instances of HonorsKernel for TLC.                                *)
EXTENDS HonorsKernel

\* The register value of hardware.h: a configuration cannot hold a negative number.
MCIdleProcess == -1
=============================================================================
