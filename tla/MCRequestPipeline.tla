-------------------------- MODULE MCRequestPipeline --------------------------
(* Instances of RequestPipeline for TLC: three ids, interchangeable.        *)
EXTENDS RequestPipeline, TLC

IdSymmetry == Permutations(Ids)
=============================================================================
