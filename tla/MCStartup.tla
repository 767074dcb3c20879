----------------------------- MODULE MCStartup -----------------------------
(* A model of two layers on a machine of three nodes, the last of which has *)
(* no thread of the pool.                                                   *)
EXTENDS Startup

ThreadsOfNodes == <<2, 0>>
=============================================================================
