----------------------------- MODULE MCKvShare -----------------------------
(* A leader and two twins, two heads of three chunks: both slots of a ring *)
(* are used again and a head follows a head.                               *)
EXTENDS KvShare

(* The read-ahead branch with the tail mask it is used with, and the       *)
(* stage-3 branch with a mask on every chunk.                              *)
BothBranches == {[readAhead |-> TRUE, mask |-> "tail"], [readAhead |-> FALSE, mask |-> "every"]}
=============================================================================
