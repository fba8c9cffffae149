----------------------------- MODULE MCPidQueue -----------------------------
(* Small instances of PidQueue for TLC.                                    *)
EXTENDS PidQueue, TLC

\* The code never compares two addresses.
MCNodes == Permutations(Nodes)
=============================================================================
