----------------------------- MODULE TreeReduce -----------------------------
(***************************************************************************)
(* The tree reduction of the decode attention.  On every core that has     *)
(* data the compute kernel reduces the core's own chunks to an output O, a *)
(* maximum M and a sum L, then combines the results of its children as the *)
(* writer kernel hands them over, one per round; the writer of a core that *)
(* is not the root sends the combined result to the parent, where it lands *)
(* in the block of the round and a nibble of one semaphore announces it.   *)
(*                                                                         *)
(* A partial result is the set of cores whose chunks it covers.  A buffer  *)
(* that is empty holds the empty set.  One circular buffer, c_16, carries  *)
(* O both ways: the children's from writer to compute, the core's own from *)
(* compute to writer.                                                      *)
(***************************************************************************)
EXTENDS TreePlan, FiniteSetsExt

CONSTANT RunCores  \* bound: larger groups are only planned, their kernels are not run

ASSUME RunAssumption == RunCores \in 1..MaxCores

VARIABLES wpc,    \* per core: where the writer kernel is
          todo,   \* per core: the rounds the writer still has to receive
          cpc,    \* per core: where the compute kernel is
          ctodo,  \* per core: the rounds the compute kernel still has to combine
          acc,    \* per core: cb_prev_sum, cb_prev_max, cb_out_accumulate_im
          in,     \* per core: cb_l_in (l) and cb_m_in (m)
          c16,    \* per core: cb_out_o and cb_out_worker, one buffer
          out,    \* per core: cb_out_l (l), cb_out_m (m)
          block,  \* per core and round: what has landed in cb_intermed_out
          flight, \* writes issued and not landed: <<sender, part, contents>>
          sflight,\* senders whose semaphore increment is still on its way
          sem,    \* per core and round: the nibble of the reducer semaphore
          output  \* what the root has written to the output tensor

vars == <<cores, chunks, wpc, todo, cpc, ctodo, acc, in, c16, out, block,
          flight, sflight, sem, output>>

All == 0..(RunCores - 1)
Parts == {"l", "m", "o"}
Empty == [p \in Parts |-> {}]

(* With more chunks than cores every core has data: one step with as many  *)
(* chunks as cores stands for them.                                        *)
Launched == cores <= RunCores /\ chunks <= cores
Runs(c) == Launched /\ HasLocalData(c)

(* A core without data returns at once; a core without active children     *)
(* goes straight to the send, or as the root to the output.                *)
Start(c) == CASE ~Runs(c) -> "end"
              [] Runs(c) /\ ActiveRounds(c) # {} -> "poll"
              [] OTHER -> IF c = 0 THEN "root" ELSE "send"

Init ==
    /\ cores \in 1..MaxCores
    /\ chunks \in 1..MaxChunks
    /\ wpc = [c \in Group |-> Start(c)]
    /\ todo = [c \in Group |-> IF Runs(c) THEN ActiveRounds(c) ELSE {}]
    /\ cpc = [c \in Group |-> IF Runs(c) THEN "local" ELSE "end"]
    /\ ctodo = todo
    /\ acc = [c \in Group |-> Empty]
    /\ in = [c \in Group |-> Empty]
    /\ c16 = [c \in Group |-> {}]
    /\ out = [c \in Group |-> Empty]
    /\ block = [c \in Group |-> [r \in Rounds |-> Empty]]
    /\ flight = {} /\ sflight = {}
    /\ sem = [c \in Group |-> [r \in Rounds |-> 0]]
    /\ output = {}

----------------------------------------------------------------------------
(* The writer kernel.  It polls the nibble of the round, then copies L, M  *)
(* and O of the block to the compute kernel, each as soon as its buffer is *)
(* free.                                                                   *)
Poll(c) ==
    /\ wpc[c] = "poll"
    /\ sem[c][Min(todo[c])] >= 1
    /\ wpc' = [wpc EXCEPT ![c] = "giveL"]
    /\ UNCHANGED <<cores, chunks, todo, cpc, ctodo, acc, in, c16, out, block, flight, sflight, sem, output>>

Give(c, part, from, to) ==
    /\ wpc[c] = from
    /\ in[c][part] = {}
    /\ in' = [in EXCEPT ![c][part] = block[c][Min(todo[c])][part]]
    /\ wpc' = [wpc EXCEPT ![c] = to]
    /\ UNCHANGED <<cores, chunks, todo, cpc, ctodo, acc, c16, out, block, flight, sflight, sem, output>>

GiveO(c) ==
    /\ wpc[c] = "giveO"
    /\ c16[c] = {}
    /\ c16' = [c16 EXCEPT ![c] = block[c][Min(todo[c])]["o"]]
    /\ todo' = [todo EXCEPT ![c] = @ \ {Min(@)}]
    /\ wpc' = [wpc EXCEPT ![c] = CASE todo'[c] # {} -> "poll"
                                   [] todo'[c] = {} /\ c = 0 -> "root"
                                   [] OTHER -> "send"]
    /\ UNCHANGED <<cores, chunks, cpc, ctodo, acc, in, out, block, flight, sflight, sem, output>>

(* Mutant: the sender waits for O alone.                                   *)
SendEager(c) ==
    /\ wpc[c] = "send"
    /\ c16[c] # {}
    /\ flight' = flight \union {<<c, "l", out[c]["l"]>>, <<c, "m", out[c]["m"]>>, <<c, "o", c16[c]>>}
    /\ wpc' = [wpc EXCEPT ![c] = "barrier"]
    /\ UNCHANGED <<cores, chunks, todo, cpc, ctodo, acc, in, c16, out, block, sflight, sem, output>>

(* The sender waits for all three buffers before it reads any of them.     *)
Send(c) ==
    /\ wpc[c] = "send"
    /\ c16[c] # {} /\ out[c]["m"] # {} /\ out[c]["l"] # {}
    /\ flight' = flight \union {<<c, "l", out[c]["l"]>>, <<c, "m", out[c]["m"]>>, <<c, "o", c16[c]>>}
    /\ wpc' = [wpc EXCEPT ![c] = "barrier"]
    /\ UNCHANGED <<cores, chunks, todo, cpc, ctodo, acc, in, c16, out, block, sflight, sem, output>>

Announce(c) ==
    /\ wpc[c] = "barrier"
    /\ \A f \in flight : f[1] # c
    /\ sflight' = sflight \union {c}
    /\ c16' = [c16 EXCEPT ![c] = {}]
    /\ out' = [out EXCEPT ![c] = Empty]
    /\ wpc' = [wpc EXCEPT ![c] = "atomic"]
    /\ UNCHANGED <<cores, chunks, todo, cpc, ctodo, acc, in, block, flight, sem, output>>

SenderReturns(c) ==
    /\ wpc[c] = "atomic"
    /\ c \notin sflight
    /\ wpc' = [wpc EXCEPT ![c] = "end"]
    /\ UNCHANGED <<cores, chunks, todo, cpc, ctodo, acc, in, c16, out, block, flight, sflight, sem, output>>

(* Mutant: the root writes what it has when its last child is handed over. *)
WriteOutputEarly ==
    /\ wpc[0] = "root"
    /\ acc[0]["o"] # {}
    /\ output' = acc[0]["o"]
    /\ wpc' = [wpc EXCEPT ![0] = "end"]
    /\ UNCHANGED <<cores, chunks, todo, cpc, ctodo, acc, in, c16, out, block, flight, sflight, sem>>

(* The root's writer waits for cb_out and writes it to memory.             *)
WriteOutput ==
    /\ wpc[0] = "root"
    /\ cpc[0] = "end"
    /\ output' = acc[0]["o"]
    /\ wpc' = [wpc EXCEPT ![0] = "end"]
    /\ UNCHANGED <<cores, chunks, todo, cpc, ctodo, acc, in, c16, out, block, flight, sflight, sem>>

----------------------------------------------------------------------------
(* The network.                                                            *)
LandPart(f) ==
    /\ flight' = flight \ {f}
    /\ block' = [block EXCEPT ![Parent(f[1])][SendAt(f[1])][f[2]] = f[3]]
    /\ UNCHANGED <<cores, chunks, wpc, todo, cpc, ctodo, acc, in, c16, out, sflight, sem, output>>

LandIncrement(c) ==
    /\ c \in sflight
    /\ sflight' = sflight \ {c}
    /\ sem' = [sem EXCEPT ![Parent(c)][SendAt(c)] = @ + 1]
    /\ UNCHANGED <<cores, chunks, wpc, todo, cpc, ctodo, acc, in, c16, out, block, flight, output>>

----------------------------------------------------------------------------
(* The compute kernel.                                                     *)
AfterRound(c, left) == CASE left # {} -> "takeL"
                         [] left = {} /\ c = 0 -> "end"
                         [] OTHER -> "moveO"

LocalAttention(c) ==
    /\ cpc[c] = "local"
    /\ acc' = [acc EXCEPT ![c] = [p \in Parts |-> {c}]]
    /\ cpc' = [cpc EXCEPT ![c] = AfterRound(c, ctodo[c])]
    /\ UNCHANGED <<cores, chunks, wpc, todo, ctodo, in, c16, out, block, flight, sflight, sem, output>>

(* cb_l_in is moved away first.  The correction needs M, which stays in    *)
(* cb_m_in until O has been moved out of c_16.                             *)
TakeL(c) ==
    /\ cpc[c] = "takeL"
    /\ in[c]["l"] # {}
    /\ acc' = [acc EXCEPT ![c]["l"] = @ \union in[c]["l"]]
    /\ in' = [in EXCEPT ![c]["l"] = {}]
    /\ cpc' = [cpc EXCEPT ![c] = "takeO"]
    /\ UNCHANGED <<cores, chunks, wpc, todo, ctodo, c16, out, block, flight, sflight, sem, output>>

TakeO(c) ==
    /\ cpc[c] = "takeO"
    /\ in[c]["m"] # {} /\ c16[c] # {}
    /\ acc' = [acc EXCEPT ![c]["o"] = @ \union c16[c]]
    /\ c16' = [c16 EXCEPT ![c] = {}]
    /\ cpc' = [cpc EXCEPT ![c] = "takeM"]
    /\ UNCHANGED <<cores, chunks, wpc, todo, ctodo, in, out, block, flight, sflight, sem, output>>

(* Mutant: cb_m_in is read and left standing.                              *)
TakeMKeeps(c) ==
    /\ cpc[c] = "takeM"
    /\ acc' = [acc EXCEPT ![c]["m"] = @ \union in[c]["m"]]
    /\ ctodo' = [ctodo EXCEPT ![c] = @ \ {Min(@)}]
    /\ cpc' = [cpc EXCEPT ![c] = AfterRound(c, ctodo'[c])]
    /\ UNCHANGED <<cores, chunks, wpc, todo, in, c16, out, block, flight, sflight, sem, output>>

TakeM(c) ==
    /\ cpc[c] = "takeM"
    /\ acc' = [acc EXCEPT ![c]["m"] = @ \union in[c]["m"]]
    /\ in' = [in EXCEPT ![c]["m"] = {}]
    /\ ctodo' = [ctodo EXCEPT ![c] = @ \ {Min(@)}]
    /\ cpc' = [cpc EXCEPT ![c] = AfterRound(c, ctodo'[c])]
    /\ UNCHANGED <<cores, chunks, wpc, todo, c16, out, block, flight, sflight, sem, output>>

MoveO(c) ==
    /\ cpc[c] = "moveO"
    /\ c16[c] = {}
    /\ c16' = [c16 EXCEPT ![c] = acc[c]["o"]]
    /\ cpc' = [cpc EXCEPT ![c] = "moveM"]
    /\ UNCHANGED <<cores, chunks, wpc, todo, ctodo, acc, in, out, block, flight, sflight, sem, output>>

Move(c, part, from, to) ==
    /\ cpc[c] = from
    /\ out[c][part] = {}
    /\ out' = [out EXCEPT ![c][part] = acc[c][part]]
    /\ cpc' = [cpc EXCEPT ![c] = to]
    /\ UNCHANGED <<cores, chunks, wpc, todo, ctodo, acc, in, c16, block, flight, sflight, sem, output>>

----------------------------------------------------------------------------
Writer(c) == \/ Poll(c) \/ GiveO(c) \/ Send(c) \/ Announce(c) \/ SenderReturns(c)
             \/ Give(c, "l", "giveL", "giveM") \/ Give(c, "m", "giveM", "giveO")
Compute(c) == \/ LocalAttention(c) \/ TakeL(c) \/ TakeO(c) \/ TakeM(c) \/ MoveO(c)
              \/ Move(c, "m", "moveM", "moveL") \/ Move(c, "l", "moveL", "end")
Network == (\E f \in flight : LandPart(f)) \/ (\E c \in sflight : LandIncrement(c))

Next == \/ \E c \in Group : Writer(c) \/ Compute(c)
        \/ WriteOutput
        \/ Network

(* The two processors of a core run to the end of their programs and the   *)
(* network delivers.                                                       *)
Fairness == /\ \A c \in All : WF_vars(c \in Group /\ Writer(c)) /\ WF_vars(c \in Group /\ Compute(c))
            /\ WF_vars(WriteOutput)
            /\ WF_vars(Network)

Spec == Init /\ [][Next]_vars /\ Fairness

----------------------------------------------------------------------------
(* The kernels' places and buffers; a nibble is announced at most once, so *)
(* it can neither wrap nor carry into the nibble of the next round.        *)
TypeOK ==
    /\ cores \in 1..MaxCores /\ chunks \in 1..MaxChunks
    /\ wpc \in [Group -> {"poll", "giveL", "giveM", "giveO", "send", "barrier", "atomic", "root", "end"}]
    /\ cpc \in [Group -> {"local", "takeL", "takeO", "takeM", "moveO", "moveM", "moveL", "end"}]
    /\ todo \in [Group -> SUBSET Rounds] /\ ctodo \in [Group -> SUBSET Rounds]
    /\ acc \in [Group -> [Parts -> SUBSET Group]]
    /\ in \in [Group -> [Parts -> SUBSET Group]]
    /\ c16 \in [Group -> SUBSET Group]
    /\ out \in [Group -> [Parts -> SUBSET Group]]
    /\ sem \in [Group -> [Rounds -> 0..1]]

(* What a parent is told is there is its child's combined result: all of   *)
(* L, M and O, of the child itself and not of a child of the child, whose  *)
(* O passed through the same buffer c_16 on its way to the child.          *)
SentIsCombined ==
    \A c \in Group : \A r \in Rounds :
      sem[c][r] >= 1 =>
        \A p \in Parts : block[c][r][p] = acc[Child(c, r)][p]

(* The output of a step covers the chunks of every core that has any.      *)
OutputCoversAll == output # {} => output = {c \in Group : HasLocalData(c)}

(* Every kernel returns and the output is written: nobody waits for a      *)
(* child that does not send or for a buffer that nobody drains.            *)
EverybodyEnds ==
    Launched ~> output # {} /\ \A c \in Group : wpc[c] = "end" /\ cpc[c] = "end"
=============================================================================
