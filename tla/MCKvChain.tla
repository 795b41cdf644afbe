---------------------------------- MODULE MCKvChain ----------------------------------
(* KvChain for a chain with an injector, a core that receives and forwards, and a sink. *)
EXTENDS KvChain
======================================================================================
