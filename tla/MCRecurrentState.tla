------------------------------ MODULE MCRecurrentState ------------------------------
(* A two-slot pool, so that two requests share the working row and the packed block;   *)
(* three requests, so that a slot is used again.  Requests are interchangeable.        *)
EXTENDS RecurrentState, TLC

RequestSymmetry == Permutations(Request)
======================================================================================
