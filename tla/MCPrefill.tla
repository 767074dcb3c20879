----------------------------- MODULE MCPrefill ------------------------------
(***************************************************************************)
(* Instances of Prefill: three layers are a first, a middle and a last one *)
(* of the pipeline, and three calls mix the two paths in every order.      *)
(***************************************************************************)
EXTENDS Prefill
=============================================================================
