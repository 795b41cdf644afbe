---------------------------------- MODULE KvChain ----------------------------------
(***************************************************************************)
(* The G6 K/V chain of the prefill attention kernel                        *)
(* (reader_interleaved_qwen_chain.cpp).  The cores of a group need the     *)
(* same K and V chunks in the same order.  The first one, the injector,    *)
(* reads each chunk from DRAM; every other one gets both slots of the      *)
(* round from the core before it.  A round on a link is one credit         *)
(* upstream, two data writes and one VALID flag downstream, all of them    *)
(* messages on the network-on-chip that land some time after they were     *)
(* issued.  Each core also runs its own compute kernel, which pops the     *)
(* chunks the reader pushed.  A chunk is the number of its round.          *)
(***************************************************************************)
EXTENDS Integers

CONSTANTS
    Size,      \* cores of the group, in chain order
    Rounds,    \* K/V chunks every core of the group processes
    First,     \* the rounds that begin a unit, whose Q is pushed with their K
    Slots,     \* chunks the K and the V circular buffer of a core hold
    QUnits,    \* units the Q circular buffer of a core holds
    TestHang   \* flag 0x200: the sink withholds its last credit

ASSUME ChainAssumption == Size \in Nat /\ Size > 1
ASSUME RoundAssumption == Rounds \in Nat \ {0} /\ First \subseteq 1..Rounds /\ 1 \in First
ASSUME BufferAssumption == Slots \in Nat \ {0} /\ QUnits \in Nat \ {0} /\ TestHang \in BOOLEAN

Core == 1..Size
Receiver == 2..Size
Sender == 1..(Size - 1)
Slot(n) == n % Slots
Place == {"reserve", "credit", "valid", "q", "v", "forward", "relay", "exit", "done"}

VARIABLES
    pc,       \* where each reader stands in its round
    round,    \* the round each reader works on
    kslot,    \* what the K slots of each core hold
    vslot,    \* what its V slots hold
    kpushed, vpushed, qpushed,  \* K chunks, V chunks and Q units the reader has pushed
    kpopped, vpopped, qpopped,  \* and those the compute kernel has popped
    credit,   \* sender semaphore: the next core has reserved the slots of a round
    flag,     \* receiver semaphore is VALID: both slots of the round have landed
    credits,  \* credits of each core still in flight to the core before it
    writes    \* writes of each core still in flight to the core after it

slots == <<kslot, vslot>>
pushed == <<kpushed, vpushed, qpushed>>
popped == <<kpopped, vpopped, qpopped>>
vars == <<pc, round, kslot, vslot, kpushed, vpushed, qpushed, kpopped, vpopped, qpopped,
          credit, flag, credits, writes>>

Data(c) == {[what |-> "k", slot |-> Slot(round[c])], [what |-> "v", slot |-> Slot(round[c])]}
Valid == [what |-> "valid", slot |-> 0]

Init ==
    /\ pc = [c \in Core |-> "reserve"] /\ round = [c \in Core |-> 1]
    /\ kslot = [c \in Core |-> [i \in 0..(Slots - 1) |-> 0]]
    /\ vslot = [c \in Core |-> [i \in 0..(Slots - 1) |-> 0]]
    /\ kpushed = [c \in Core |-> 0] /\ vpushed = [c \in Core |-> 0] /\ qpushed = [c \in Core |-> 0]
    /\ kpopped = [c \in Core |-> 0] /\ vpopped = [c \in Core |-> 0] /\ qpopped = [c \in Core |-> 0]
    /\ credit = [c \in Core |-> 0] /\ flag = [c \in Core |-> FALSE]
    /\ credits = [c \in Core |-> 0] /\ writes = [c \in Core |-> {}]

-----------------------------------------------------------------------------
(* The reader *)

Goes(c, to) == pc' = [pc EXCEPT ![c] = to] /\ UNCHANGED round

\* The loop's next round, or the end of the kernel.
NextRound(c) ==
    IF round[c] = Rounds THEN Goes(c, "exit")
    ELSE /\ pc' = [pc EXCEPT ![c] = "reserve"]
         /\ round' = [round EXCEPT ![c] = @ + 1]

\* reserve_back returns.
KSpace(c) == kpushed[c] - kpopped[c] < Slots
VSpace(c) == vpushed[c] - vpopped[c] < Slots

\* pf_test_hang, only ever set to plant a hang.
Withheld(c) == TestHang /\ c = Size /\ round[c] = Rounds

\* Mutant: the receiver asks for the round without its slots reserved.
ReserveNothing(c) ==
    /\ c \in Receiver /\ pc[c] = "reserve"
    /\ flag' = [flag EXCEPT ![c] = FALSE]
    /\ Goes(c, "credit")
    /\ UNCHANGED <<slots, pushed, popped, credit, credits, writes>>

\* A receiver reserves both slots of the round and resets its flag.
Reserve(c) ==
    /\ c \in Receiver /\ pc[c] = "reserve" /\ KSpace(c) /\ VSpace(c)
    /\ flag' = [flag EXCEPT ![c] = FALSE]
    /\ Goes(c, "credit")
    /\ UNCHANGED <<slots, pushed, popped, credit, credits, writes>>

\* credit_prev: only then does it ask the core before it for the round.
CreditPrev(c) ==
    /\ pc[c] = "credit"
    /\ credits' = IF Withheld(c) THEN credits ELSE [credits EXCEPT ![c] = @ + 1]
    /\ Goes(c, "valid")
    /\ UNCHANGED <<slots, pushed, popped, credit, flag, writes>>

AfterK(c) == IF round[c] \in First THEN "q" ELSE "v"

\* wd_wait_valid returns, and K is pushed to the own compute kernel.
ReceiveK(c) ==
    /\ pc[c] = "valid" /\ flag[c]
    /\ kpushed' = [kpushed EXCEPT ![c] = @ + 1]
    /\ Goes(c, AfterK(c))
    /\ UNCHANGED <<slots, vpushed, qpushed, popped, credit, flag, credits, writes>>

\* The injector reads its K chunk from DRAM.
InjectK ==
    /\ pc[1] = "reserve" /\ KSpace(1)
    /\ kslot' = [kslot EXCEPT ![1][Slot(round[1])] = round[1]]
    /\ kpushed' = [kpushed EXCEPT ![1] = @ + 1]
    /\ Goes(1, AfterK(1))
    /\ UNCHANGED <<vslot, vpushed, qpushed, popped, credit, flag, credits, writes>>

\* The Q of a unit goes with its first chunk, once the core's credit has landed.
PushQ(c) ==
    /\ pc[c] = "q" /\ credits[c] = 0 /\ qpushed[c] - qpopped[c] < QUnits
    /\ qpushed' = [qpushed EXCEPT ![c] = @ + 1]
    /\ Goes(c, "v")
    /\ UNCHANGED <<slots, kpushed, vpushed, popped, credit, flag, credits, writes>>

AfterV(c) == IF c = Size THEN NextRound(c) ELSE Goes(c, "forward")

\* V has landed with K.
ReceiveV(c) ==
    /\ c \in Receiver /\ pc[c] = "v"
    /\ vpushed' = [vpushed EXCEPT ![c] = @ + 1]
    /\ AfterV(c)
    /\ UNCHANGED <<slots, kpushed, qpushed, popped, credit, flag, credits, writes>>

\* The injector reads its V chunk from DRAM.
InjectV ==
    /\ pc[1] = "v" /\ VSpace(1)
    /\ vslot' = [vslot EXCEPT ![1][Slot(round[1])] = round[1]]
    /\ vpushed' = [vpushed EXCEPT ![1] = @ + 1]
    /\ AfterV(1)
    /\ UNCHANGED <<kslot, kpushed, qpushed, popped, credit, flag, credits, writes>>

\* Mutant: the credit is not consumed.
ForwardCreditKept(c) ==
    /\ pc[c] = "forward" /\ credit[c] = 1
    /\ writes' = [writes EXCEPT ![c] = @ \cup Data(c)]
    /\ Goes(c, "relay")
    /\ UNCHANGED <<slots, pushed, popped, credit, flag, credits>>

\* forward_round up to its data writes: wd_wait_credit, an equality wait, returns.
Forward(c) ==
    /\ pc[c] = "forward" /\ credit[c] = 1
    /\ credit' = [credit EXCEPT ![c] = 0]
    /\ writes' = [writes EXCEPT ![c] = @ \cup Data(c)]
    /\ Goes(c, "relay")
    /\ UNCHANGED <<slots, pushed, popped, flag, credits>>

\* Mutant: the flag is relayed before the data is acknowledged.
RelayUnacked(c) ==
    /\ pc[c] = "relay"
    /\ writes' = [writes EXCEPT ![c] = @ \cup {Valid}]
    /\ NextRound(c)
    /\ UNCHANGED <<slots, pushed, popped, credit, flag, credits>>

\* The rest of forward_round: the data is acknowledged, the flag is relayed.
Relay(c) ==
    /\ pc[c] = "relay" /\ writes[c] = {}
    /\ writes' = [writes EXCEPT ![c] = {Valid}]
    /\ NextRound(c)
    /\ UNCHANGED <<slots, pushed, popped, credit, flag, credits>>

\* Mutant: the kernel ends without its barriers.
ExitAtOnce(c) ==
    /\ pc[c] = "exit"
    /\ flag' = [flag EXCEPT ![c] = FALSE]
    /\ credit' = [credit EXCEPT ![c] = 0]
    /\ Goes(c, "done")
    /\ UNCHANGED <<slots, pushed, popped, credits, writes>>

\* Both barriers, then the semaphores get their initial values back.
Exit(c) ==
    /\ pc[c] = "exit" /\ writes[c] = {} /\ credits[c] = 0
    /\ flag' = [flag EXCEPT ![c] = FALSE]
    /\ credit' = [credit EXCEPT ![c] = 0]
    /\ Goes(c, "done")
    /\ UNCHANGED <<slots, pushed, popped, credits, writes>>

-----------------------------------------------------------------------------
(* The compute kernel *)

\* K is waited for, with Q at the first chunk of a unit, used and popped.
PopK(c) ==
    LET n == kpopped[c] + 1
    IN /\ kpopped[c] = vpopped[c] /\ n <= kpushed[c]
       /\ n \in First => qpopped[c] < qpushed[c]
       /\ kpopped' = [kpopped EXCEPT ![c] = n]
       /\ UNCHANGED <<pc, round, slots, pushed, vpopped, qpopped, credit, flag, credits, writes>>

\* Then V; the last chunk of a unit releases its Q.
PopV(c) ==
    LET n == vpopped[c] + 1
        unitEnds == n = Rounds \/ n + 1 \in First
    IN /\ n = kpopped[c] /\ n <= vpushed[c]
       /\ vpopped' = [vpopped EXCEPT ![c] = n]
       /\ qpopped' = IF unitEnds THEN [qpopped EXCEPT ![c] = @ + 1] ELSE qpopped
       /\ UNCHANGED <<pc, round, slots, pushed, kpopped, credit, flag, credits, writes>>

-----------------------------------------------------------------------------
(* The network: what was issued lands later, in any order *)

CreditLands(c) ==
    /\ credits[c] > 0
    /\ credits' = [credits EXCEPT ![c] = @ - 1]
    /\ credit' = [credit EXCEPT ![c - 1] = @ + 1]
    /\ UNCHANGED <<pc, round, slots, pushed, popped, flag, writes>>

\* The bytes are those the source slot holds when the write lands.
DataLands(c) ==
    \E w \in writes[c] :
        /\ writes' = [writes EXCEPT ![c] = @ \ {w}]
        /\ \/ w.what = "k" /\ kslot' = [kslot EXCEPT ![c + 1][w.slot] = kslot[c][w.slot]] /\ UNCHANGED vslot
           \/ w.what = "v" /\ vslot' = [vslot EXCEPT ![c + 1][w.slot] = vslot[c][w.slot]] /\ UNCHANGED kslot
        /\ UNCHANGED <<pc, round, pushed, popped, credit, flag, credits>>

FlagLands(c) ==
    /\ Valid \in writes[c]
    /\ writes' = [writes EXCEPT ![c] = @ \ {Valid}]
    /\ flag' = [flag EXCEPT ![c + 1] = TRUE]
    /\ UNCHANGED <<pc, round, slots, pushed, popped, credit, credits>>

-----------------------------------------------------------------------------

Reader(c) == \/ Reserve(c) \/ CreditPrev(c) \/ ReceiveK(c) \/ PushQ(c) \/ ReceiveV(c)
             \/ Forward(c) \/ Relay(c) \/ Exit(c)
Injector == InjectK \/ InjectV
Compute(c) == PopK(c) \/ PopV(c)
Lands(c) == CreditLands(c) \/ DataLands(c) \/ FlagLands(c)

Next == Injector \/ \E c \in Core : Reader(c) \/ Compute(c) \/ Lands(c)

Spec == Init /\ [][Next]_vars

\* Every core has a processor for its reader and others for its compute kernel, and the
\* network delivers what it accepted.
Fairness ==
    /\ WF_vars(Injector)
    /\ \A c \in Core : WF_vars(Reader(c)) /\ WF_vars(Compute(c)) /\ WF_vars(Lands(c))

FairSpec == Spec /\ Fairness

-----------------------------------------------------------------------------
(* Properties *)

\* Every variable has its type.
TypeOK ==
    /\ pc \in [Core -> Place]
    /\ round \in [Core -> 1..Rounds]
    /\ kslot \in [Core -> [0..(Slots - 1) -> 0..Rounds]] /\ vslot \in [Core -> [0..(Slots - 1) -> 0..Rounds]]
    /\ kpushed \in [Core -> 0..Rounds] /\ vpushed \in [Core -> 0..Rounds] /\ qpushed \in [Core -> Nat]
    /\ kpopped \in [Core -> 0..Rounds] /\ vpopped \in [Core -> 0..Rounds] /\ qpopped \in [Core -> Nat]
    /\ credit \in [Core -> Nat] /\ flag \in [Core -> BOOLEAN] /\ credits \in [Core -> Nat]
    /\ writes \in [Core -> SUBSET [what : {"k", "v", "valid"}, slot : 0..(Slots - 1)]]

\* From the push to the pop every K and V slot holds the chunk of its round, on every core:
\* no stale slot is pushed and none is overwritten under the compute kernel (R7).
SlotsHoldTheirRound ==
    \A c \in Core :
        /\ \A n \in (kpopped[c] + 1)..kpushed[c] : kslot[c][Slot(n)] = n
        /\ \A n \in (vpopped[c] + 1)..vpushed[c] : vslot[c][Slot(n)] = n

\* Data in flight is addressed to the slot the next core has reserved for the same round and
\* not pushed: the sender uses its own slot address, so the write pointers of both ends must
\* agree (forward_round: "next has reserved both slots of this round").
LandsInReservedSlot ==
    \A c \in Sender : \A w \in writes[c] \ {Valid} :
        /\ pc[c + 1] = "valid" /\ round[c + 1] = round[c] /\ w.slot = Slot(round[c + 1])
        /\ KSpace(c + 1) /\ VSpace(c + 1)

\* The credit semaphore is waited for by equality with one, so a second credit before the
\* first is consumed would hang the link for good (wd_wait_credit).
OneCredit == \A c \in Sender : credit[c] + credits[c + 1] <= 1

\* A kernel that ended has its semaphores at their initial values, nothing of its own in
\* flight, and nothing will land on it: the next program finds the core as this one did (R8).
CleanExit ==
    \A c \in Core : pc[c] = "done" =>
        /\ credit[c] = 0 /\ ~flag[c] /\ credits[c] = 0 /\ writes[c] = {}
        /\ c \in Sender => credits[c + 1] = 0
        /\ c \in Receiver => writes[c - 1] = {}

\* The chain never hangs: every reader ends and every compute kernel gets all its chunks.
EverybodyEnds == <>(\A c \in Core : pc[c] = "done" /\ vpopped[c] = Rounds)

====================================================================================
