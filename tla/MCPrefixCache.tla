--------------------------- MODULE MCPrefixCache ---------------------------
(* Three workloads for TLC.                                                *)
EXTENDS PrefixCache

(* A conversation: a is a first turn; b and c continue it with its prompt, *)
(* its answer and a new question.  Chunks of two blocks, a store of one    *)
(* checkpoint, and fewer blocks than the three hold together.              *)
Conversation ==
    [text |-> [a |-> <<1, 1, 2, 3, 9>>, b |-> <<1, 1, 2, 3, 4, 9>>, c |-> <<1, 1, 2, 3, 5, 9>>],
     prompt |-> [a |-> 3, b |-> 5, c |-> 5],
     excluded |-> {}, blocks |-> 6, chunk |-> 2, budget |-> 1,
     sticky |-> FALSE, midLoop |-> TRUE, killable |-> TRUE]

(* One system prompt of a chunk and a question each; d has no salt.        *)
Siblings ==
    [text |-> [a |-> <<1, 1, 2, 9>>, b |-> <<1, 1, 3, 9>>, d |-> <<1, 1, 4, 9>>],
     prompt |-> [a |-> 3, b |-> 3, d |-> 3],
     excluded |-> {"d"}, blocks |-> 5, chunk |-> 2, budget |-> 1,
     sticky |-> FALSE, midLoop |-> FALSE, killable |-> TRUE]

(* Sticky sessions: with three-block chunks vLLM's hit on b's prompt can   *)
(* reach into the last chunk, which the trim must keep for this prefill.   *)
Sessions ==
    [text |-> [a |-> <<1, 1, 1, 2, 2, 2, 3, 3, 3, 9>>, b |-> <<1, 1, 1, 2, 2, 2, 3, 4, 9>>],
     prompt |-> [a |-> 9, b |-> 8],
     excluded |-> {}, blocks |-> 10, chunk |-> 3, budget |-> 2,
     sticky |-> TRUE, midLoop |-> TRUE, killable |-> FALSE]

Loads == {Conversation, Siblings, Sessions}
=============================================================================
