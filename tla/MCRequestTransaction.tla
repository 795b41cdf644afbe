---------------------------- MODULE MCRequestTransaction ----------------------------
(* RequestTransaction on a small vocabulary, budget and set of verifier widths. *)
EXTENDS RequestTransaction

=============================================================================
