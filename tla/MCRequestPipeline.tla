-------------------------- MODULE MCRequestPipeline --------------------------
(***************************************************************************)
(* RequestPipeline for TLC.                                                *)
(***************************************************************************)
EXTENDS RequestPipeline, TLC

Processes == Permutations(Child)

=============================================================================
