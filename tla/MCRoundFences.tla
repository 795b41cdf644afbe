---------------------------- MODULE MCRoundFences ----------------------------
(* Two users of one block, interchangeable.                                *)
EXTENDS RoundFences, TLC

Users == Permutations(Seg)

AllOff == [padded |-> TRUE, fences |-> FALSE, prestage |-> FALSE,
           early |-> FALSE, afterPairs |-> FALSE, pipelined |-> FALSE]
Deferring == [AllOff EXCEPT !.fences = TRUE, !.early = TRUE, !.afterPairs = TRUE, !.pipelined = TRUE]

(* Commits run at once, and commits deferred behind the drafts, enqueued   *)
(* or blocking.                                                            *)
DirectOrDeferring == {AllOff, Deferring, [Deferring EXCEPT !.pipelined = FALSE]}

(* Everything on.                                                          *)
AllOn == {[Deferring EXCEPT !.prestage = TRUE]}
==============================================================================
