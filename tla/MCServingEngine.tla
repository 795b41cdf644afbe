-------------------------- MODULE MCServingEngine --------------------------
(* ServingEngine on small instances: interchangeable requests. *)
EXTENDS ServingEngine, TLC

RequestSymmetry == Permutations(Request)
=============================================================================
