-------------------------------- MODULE GreedyDecode --------------------------------
(***************************************************************************)
(* What a served request promises its client, however it is computed: the  *)
(* stream is what the target model would emit alone, one greedy token at a *)
(* time, cut at the first EOS or at the budget.  Blocks of any size may    *)
(* arrive at once, nothing is ever taken back.  This is plain decoding as  *)
(* greedy_verify.select_prefix and GreedySession.commit bound it.          *)
(***************************************************************************)
EXTENDS Integers, Sequences

CONSTANTS Token, Eos, MaxNew

VARIABLES target, out

\* The stream may grow: budget is left and the last token did not end it.
Open == Len(out) < MaxNew /\ out[Len(out)] \notin Eos

Init ==
    /\ target \in [1..MaxNew -> Token] /\ target[1] \notin Eos
    /\ out = <<target[1]>>

\* The next tokens of the target's own stream, with no EOS before the last of them.
Emit ==
    /\ Open
    /\ \E m \in (Len(out) + 1)..MaxNew :
         /\ out' = [i \in 1..m |-> target[i]]
         /\ \A i \in (Len(out) + 1)..(m - 1) : target[i] \notin Eos
    /\ UNCHANGED target

Spec == Init /\ [][Emit]_<<target, out>>

=============================================================================
