----------------------------- MODULE MC_Threads -----------------------------
(* A small instance of ServerThreads for TLC.                              *)
EXTENDS ServerThreads

CONSTANTS k1, k2, k3
=============================================================================
