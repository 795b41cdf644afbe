---------------------------- MODULE MCTreeReduce ----------------------------
(* Every group size and cache length is planned; groups of up to RunCores  *)
(* run.  Five cores: two levels, an orphan and an inner node.              *)
EXTENDS TreeReduce
=============================================================================
