------------------------------- MODULE KvChainProofs -------------------------------
(***************************************************************************)
(* Proofs about KvChain for every chain length, number of rounds, division *)
(* into units and buffer size: data only ever lands in a slot reserved for *)
(* it, every slot holds its round's chunk from push to pop, no credit is   *)
(* ever doubled, a reader that ended leaves its core clean, and the chain  *)
(* never comes to a stop with work undone.                                 *)
(***************************************************************************)
EXTENDS KvChain, FiniteSetTheorems, WellFoundedInduction, TLAPS

\* Rounds whose K, and whose V, the reader of a core has pushed.
KIn(c) == IF pc[c] \in {"reserve", "credit", "valid"} THEN round[c] - 1 ELSE round[c]
VIn(c) == IF pc[c] \in {"reserve", "credit", "valid", "q", "v"} THEN round[c] - 1 ELSE round[c]

\* Rounds a core has relayed to the next one, and rounds it took a credit for.
Sent(c) == IF pc[c] \in {"exit", "done"} THEN Rounds ELSE round[c] - 1
Taken(c) == IF pc[c] = "relay" THEN round[c] ELSE Sent(c)

\* Rounds a core has asked its upstream for.
Issued(c) == IF pc[c] \in {"reserve", "credit"} \/ Withheld(c) THEN round[c] - 1 ELSE round[c]

Up(c) == IF pc[c] = "valid" /\ flag[c] THEN 1 ELSE 0
Flying(c) == IF Valid \in writes[c] THEN 1 ELSE 0

\* The ends of the chain have no upstream and no downstream.
Ends ==
    /\ pc[1] \notin {"credit", "valid"} /\ pc[Size] \notin {"forward", "relay"}
    /\ credits[1] = 0 /\ credit[Size] = 0 /\ writes[Size] = {}

\* A reader ends after its last round; a flag seen while waiting for VALID belongs to this
\* round; a withheld credit is never answered.
Role(c) ==
    /\ pc[c] \in {"exit", "done"} => round[c] = Rounds
    /\ pc[c] = "credit" => ~flag[c]
    /\ pc[c] = "done" => ~flag[c] /\ credits[c] = 0 /\ writes[c] = {}
    /\ Withheld(c) => pc[c] \in {"reserve", "credit", "valid"}
Roles == \A c \in Core : Role(c)

\* The circular buffers hold what the reader pushed and the compute kernel did not pop, and
\* a receiver that asked for a round has room for it.
Buffer(c) ==
    /\ kpushed[c] = KIn(c) /\ kpopped[c] <= kpushed[c] /\ kpushed[c] - kpopped[c] <= Slots
    /\ vpushed[c] = VIn(c) /\ vpopped[c] <= vpushed[c] /\ vpushed[c] - vpopped[c] <= Slots
    /\ pc[c] \in {"credit", "valid"} => KSpace(c)
    /\ pc[c] \in {"credit", "valid"} \/ (c \in Receiver /\ pc[c] \in {"q", "v"}) => VSpace(c)
Buffers == \A c \in Core : Buffer(c)

\* Conservation on a link: every round asked for is taken or a credit somewhere, and every
\* round relayed is pushed or a flag somewhere.
Link(c) ==
    /\ Issued(c + 1) = Taken(c) + credit[c] + credits[c + 1]
    /\ Sent(c) = KIn(c + 1) + Up(c + 1) + Flying(c)
    /\ writes[c] \subseteq IF pc[c] = "relay" THEN Data(c) ELSE {Valid}
Links == \A c \in Sender : Link(c)

\* Where the chunk of a reader's own round is: in its slots once K is pushed, and in the
\* slots it was asked for once the flag was relayed, or the write of it landed.
Held(c) ==
    /\ pc[c] \in {"q", "v", "forward", "relay"} => kslot[c][Slot(round[c])] = round[c]
    /\ pc[c] \in {"forward", "relay"} \/ (c \in Receiver /\ pc[c] \in {"q", "v"})
          => vslot[c][Slot(round[c])] = round[c]
Landed(c) ==
    /\ pc[c + 1] = "valid" /\ Sent(c) = round[c + 1] =>
          /\ kslot[c + 1][Slot(round[c + 1])] = round[c + 1]
          /\ vslot[c + 1][Slot(round[c + 1])] = round[c + 1]
    /\ pc[c] = "relay" =>
          /\ [what |-> "k", slot |-> Slot(round[c])] \notin writes[c]
                => kslot[c + 1][Slot(round[c])] = round[c]
          /\ [what |-> "v", slot |-> Slot(round[c])] \notin writes[c]
                => vslot[c + 1][Slot(round[c])] = round[c]
Contents == (\A c \in Core : Held(c)) /\ (\A c \in Sender : Landed(c))

\* The slots of the compute kernel.
Full(c) ==
    /\ \A n \in (kpopped[c] + 1)..kpushed[c] : kslot[c][Slot(n)] = n
    /\ \A n \in (vpopped[c] + 1)..vpushed[c] : vslot[c][Slot(n)] = n

\* The inductive invariant.
Inductive == TypeOK /\ Ends /\ Roles /\ Buffers /\ Links /\ Contents /\ SlotsHoldTheirRound

-----------------------------------------------------------------------------
(* Slots *)

\* Two rounds closer than the buffer is long use different slots.
LEMMA SlotsDiffer ==
    ASSUME NEW n \in Nat, NEW m \in Nat, n < m, m < n + Slots
    PROVE  Slot(n) # Slot(m)
<1> DEFINE a == n \div Slots
           b == m \div Slots
<1>0. Slots \in Nat \ {0} BY BufferAssumption
<1>1. n = Slots * a + (n % Slots) /\ m = Slots * b + (m % Slots) BY <1>0, SMT
<1>2. a \in Int /\ b \in Int /\ n % Slots \in Int /\ m % Slots \in Int BY <1>0, SMT
<1> SUFFICES ASSUME n % Slots = m % Slots PROVE FALSE BY DEF Slot
<1> HIDE DEF a, b
<1>3. m - n = Slots * (b - a) BY <1>0, <1>1, <1>2, SMT
<1>4. CASE b - a <= 0 BY <1>0, <1>2, <1>3, <1>4, SMT
<1>5. CASE b - a >= 1 BY <1>0, <1>2, <1>3, <1>5, SMT
<1> QED BY <1>2, <1>4, <1>5, SMT

\* A slot number is an index of the buffer.
LEMMA SlotIndex == ASSUME NEW n \in Nat PROVE Slot(n) \in 0..(Slots - 1)
BY BufferAssumption, SMT DEF Slot

-----------------------------------------------------------------------------
(* What the invariant says of a link *)

\* Cores, senders and receivers: all but the last core forward, all but the first receive.
LEMMA CoreFacts ==
    /\ Size \in Nat /\ 1 \in Core /\ Size \in Core /\ Size # 1
    /\ \A c \in Sender : c \in Core /\ c + 1 \in Core /\ c + 1 \in Receiver /\ c # Size /\ c + 1 # 1 /\ c + 1 # c
    /\ \A c \in Receiver : c \in Core /\ c - 1 \in Core /\ c - 1 \in Sender /\ c # 1 /\ c - 1 # Size /\ (c - 1) + 1 = c
    /\ \A c \in Core : c \in Int /\ (c \in Sender <=> c # Size) /\ (c \in Receiver <=> c # 1)
BY ChainAssumption, SMT DEF Core, Sender, Receiver

\* The counters of a core are numbers within its round.
LEMMA Counters ==
    ASSUME TypeOK, NEW c \in Core
    PROVE  /\ round[c] \in Nat /\ round[c] >= 1 /\ round[c] <= Rounds /\ Rounds \in Nat
           /\ KIn(c) \in Nat /\ VIn(c) \in Nat /\ Sent(c) \in Nat /\ Taken(c) \in Nat /\ Issued(c) \in Nat
           /\ Up(c) \in 0..1 /\ Flying(c) \in 0..1 /\ credit[c] \in Nat /\ credits[c] \in Nat
           /\ Sent(c) <= Taken(c) /\ Taken(c) <= Rounds
           /\ KIn(c) <= round[c] /\ round[c] <= KIn(c) + 1
           /\ Issued(c) <= KIn(c) + 1 /\ Issued(c) <= round[c]
<1>1. round[c] \in 1..Rounds /\ Rounds \in Nat BY RoundAssumption DEF TypeOK
<1> QED BY <1>1, SMT DEF TypeOK, KIn, VIn, Sent, Taken, Issued, Up, Flying

\* At most one credit of a link is on its way, and only while the receiver waits for the
\* round and nothing is in flight to it.
LEMMA CreditOut ==
    ASSUME Inductive, NEW c \in Sender
    PROVE  /\ credit[c] + credits[c + 1] <= 1
           /\ credit[c] + credits[c + 1] > 0 =>
                /\ pc[c + 1] = "valid" /\ ~flag[c + 1] /\ pc[c] # "relay" /\ writes[c] = {}
                /\ Sent(c) = round[c + 1] - 1
<1>1. c \in Core /\ c + 1 \in Core BY CoreFacts
<1>2. TypeOK /\ Link(c) /\ Role(c + 1) BY <1>1 DEF Inductive, Links, Roles
<1>3. KIn(c + 1) <= Sent(c) BY <1>1, <1>2, Counters, SMT DEF Link
<1>4. credit[c] + credits[c + 1] <= 1 BY <1>1, <1>2, <1>3, Counters, SMT DEF Link
<1>5. ASSUME credit[c] + credits[c + 1] > 0
      PROVE  /\ pc[c + 1] = "valid" /\ ~flag[c + 1] /\ pc[c] # "relay" /\ writes[c] = {}
             /\ Sent(c) = round[c + 1] - 1
  <2>1. Issued(c + 1) = KIn(c + 1) + 1 /\ Sent(c) = KIn(c + 1) /\ Taken(c) = Sent(c)
    BY <1>1, <1>2, <1>3, <1>5, Counters, SMT DEF Link
  <2>2. pc[c + 1] = "valid" /\ KIn(c + 1) = round[c + 1] - 1
    BY <1>1, <1>2, <2>1, Counters, SMT DEF Issued, KIn, Role
  <2>3. Up(c + 1) = 0 /\ Flying(c) = 0 BY <1>1, <1>2, <2>1, Counters, SMT DEF Link
  <2>4. ~flag[c + 1] /\ Valid \notin writes[c] BY <2>2, <2>3, SMT DEF Up, Flying
  <2>5. pc[c] # "relay"
    <3>1. CASE pc[c] = "relay"
      <4>1. Taken(c) = round[c] /\ Sent(c) = round[c] - 1 BY <3>1 DEF Taken, Sent
      <4> QED BY <1>1, <1>2, <2>1, <4>1, Counters, SMT
    <3> QED BY <3>1
  <2>6. writes[c] = {} BY <1>2, <2>4, <2>5 DEF Link
  <2> QED BY <2>1, <2>2, <2>4, <2>5, <2>6
<1> QED BY <1>4, <1>5

\* A core that forwards does so for the round its receiver waits for.
LEMMA Forwarding ==
    ASSUME Inductive, NEW c \in Sender, pc[c] = "relay"
    PROVE  /\ pc[c + 1] = "valid" /\ round[c + 1] = round[c] /\ ~flag[c + 1]
           /\ credit[c] = 0 /\ credits[c + 1] = 0 /\ Valid \notin writes[c]
<1>1. c \in Core /\ c + 1 \in Core BY CoreFacts
<1>2. TypeOK /\ Link(c) /\ Role(c + 1) BY <1>1 DEF Inductive, Links, Roles
<1>3. Taken(c) = round[c] /\ Sent(c) = round[c] - 1 BY SMT DEF Taken, Sent
<1>4. KIn(c + 1) <= Sent(c) /\ Issued(c + 1) >= round[c] BY <1>1, <1>2, <1>3, Counters, SMT DEF Link
<1>5. Issued(c + 1) = round[c] /\ KIn(c + 1) = round[c] - 1 BY <1>1, <1>2, <1>3, <1>4, Counters, SMT
<1>6. pc[c + 1] = "valid" /\ round[c + 1] = round[c]
  BY <1>1, <1>2, <1>5, Counters, SMT DEF Issued, KIn, Role
<1>7. credit[c] = 0 /\ credits[c + 1] = 0 /\ Up(c + 1) = 0 /\ Flying(c) = 0
  BY <1>1, <1>2, <1>3, <1>5, Counters, SMT DEF Link
<1> QED BY <1>6, <1>7, SMT DEF Up, Flying

\* A flag, on its way or up, announces the round its receiver waits for.
LEMMA Announced ==
    ASSUME Inductive, NEW c \in Sender,
           Valid \in writes[c] \/ (pc[c + 1] = "valid" /\ flag[c + 1])
    PROVE  /\ pc[c + 1] = "valid" /\ Sent(c) = round[c + 1] /\ ~Withheld(c + 1)
           /\ Valid \in writes[c] => ~flag[c + 1]
<1>1. c \in Core /\ c + 1 \in Core BY CoreFacts
<1>2. TypeOK /\ Link(c) /\ Role(c + 1) BY <1>1 DEF Inductive, Links, Roles
<1>3. Up(c + 1) + Flying(c) >= 1 BY <1>1, <1>2, Counters, SMT DEF Up, Flying
<1>4. Sent(c) <= Issued(c + 1) BY <1>1, <1>2, Counters, SMT DEF Link
<1>5. Issued(c + 1) = KIn(c + 1) + 1 /\ Sent(c) = KIn(c + 1) + 1 /\ Up(c + 1) + Flying(c) = 1
  BY <1>1, <1>2, <1>3, <1>4, Counters, SMT DEF Link
<1>6. pc[c + 1] = "valid" /\ Sent(c) = round[c + 1] /\ ~Withheld(c + 1)
  BY <1>1, <1>2, <1>5, Counters, SMT DEF Issued, KIn, Role
<1> QED BY <1>5, <1>6, SMT DEF Up, Flying

-----------------------------------------------------------------------------
(* The steps *)

\* Which cores take the steps that the guards of the code restrict only by position.
LEMMA Positions ==
    ASSUME Inductive, NEW c \in Core
    PROVE  /\ pc[c] \in {"credit", "valid"} => c \in Receiver
           /\ pc[c] \in {"forward", "relay"} => c \in Sender
           /\ credits[c] > 0 => c \in Receiver
           /\ writes[c] # {} => c \in Sender
BY CoreFacts DEF Inductive, Ends

\* The round after a round, for every measure of progress.
LEMMA NextRoundFacts ==
    ASSUME TypeOK, Roles, NEW c \in Core, NextRound(c), pc[c] \notin {"exit", "done"}
    PROVE  /\ pc' \in [Core -> Place]
           /\ round' \in [Core -> 1..Rounds]
           /\ pc'[c] \in {"reserve", "exit"} /\ (pc'[c] = "exit" => round'[c] = Rounds /\ round[c] = Rounds)
           /\ pc'[c] = "reserve" => round'[c] = round[c] + 1
           /\ \A d \in Core : d # c => pc'[d] = pc[d] /\ round'[d] = round[d]
<1>1. round[c] \in 1..Rounds /\ Rounds \in Nat BY RoundAssumption DEF TypeOK
<1>2. pc \in [Core -> Place]
      /\ round \in [Core -> 1..Rounds]
  BY DEF TypeOK
<1>3. CASE round[c] = Rounds
  <2>1. pc' = [pc EXCEPT ![c] = "exit"] /\ round' = round BY <1>3 DEF NextRound, Goes
  <2> QED BY <1>2, <1>3, <2>1, SMT DEF Place
<1>4. CASE round[c] # Rounds
  <2>1. pc' = [pc EXCEPT ![c] = "reserve"] /\ round' = [round EXCEPT ![c] = round[c] + 1]
    BY <1>4 DEF NextRound
  <2>2. round[c] + 1 \in 1..Rounds BY <1>1, <1>4, SMT
  <2> QED BY <1>2, <2>1, <2>2, SMT DEF Place
<1> QED BY <1>3, <1>4

\* A reader that moves on within its round.
LEMMA GoesFacts ==
    ASSUME TypeOK, NEW c \in Core, NEW to \in Place, Goes(c, to)
    PROVE  /\ pc' \in [Core -> Place] /\ pc'[c] = to
           /\ \A d \in Core : d # c => pc'[d] = pc[d]
           /\ round' = round
BY SMT DEF TypeOK, Goes

\* Nothing of a core changes in a step.
Same(d) ==
    /\ pc'[d] = pc[d] /\ round'[d] = round[d] /\ kslot'[d] = kslot[d] /\ vslot'[d] = vslot[d]
    /\ kpushed'[d] = kpushed[d] /\ vpushed'[d] = vpushed[d]
    /\ kpopped'[d] = kpopped[d] /\ vpopped'[d] = vpopped[d]
    /\ credit'[d] = credit[d] /\ flag'[d] = flag[d] /\ credits'[d] = credits[d] /\ writes'[d] = writes[d]

\* Such a core keeps its measures, and its part of the invariant.
LEMMA Frame ==
    ASSUME NEW d \in Core, Same(d)
    PROVE  /\ KIn(d)' = KIn(d) /\ VIn(d)' = VIn(d) /\ Sent(d)' = Sent(d) /\ Taken(d)' = Taken(d)
           /\ Issued(d)' = Issued(d) /\ Data(d)' = Data(d)
           /\ Up(d)' = Up(d) /\ Flying(d)' = Flying(d)
           /\ Role(d) => Role(d)'
           /\ Buffer(d) => Buffer(d)'
           /\ Held(d) => Held(d)'
           /\ Full(d) => Full(d)'
<1>1. /\ KIn(d)' = KIn(d) /\ VIn(d)' = VIn(d) /\ Sent(d)' = Sent(d) /\ Taken(d)' = Taken(d)
      /\ Issued(d)' = Issued(d) /\ Data(d)' = Data(d)
      /\ Up(d)' = Up(d) /\ Flying(d)' = Flying(d)
  BY SMT DEF Same, KIn, VIn, Sent, Taken, Issued, Withheld, Data, Up, Flying
<1>2. Role(d) => Role(d)' BY DEF Same, Role, Withheld
<1>3. Buffer(d) => Buffer(d)' BY <1>1 DEF Same, Buffer, KSpace, VSpace
<1>4. Held(d) => Held(d)' BY DEF Same, Held
<1>5. Full(d) => Full(d)' BY DEF Same, Full
<1> QED BY <1>1, <1>2, <1>3, <1>4, <1>5

\* So does a link none of whose ends change.
LEMMA LinkFrame ==
    ASSUME NEW d \in Sender, Same(d), Same(d + 1)
    PROVE  (Link(d) => Link(d)') /\ (Landed(d) => Landed(d)')
<1>1. d \in Core /\ d + 1 \in Core BY CoreFacts
<1>2. Link(d) => Link(d)' BY <1>1, Frame DEF Same, Link
<1>3. Landed(d) => Landed(d)' BY <1>1, Frame DEF Same, Landed
<1> QED BY <1>2, <1>3

\* A step of one core alone has to be checked on that core and on its two links.
LEMMA Local ==
    ASSUME Inductive, NEW c \in Core, TypeOK', Ends',
           \A d \in Core : d # c => Same(d),
           Role(c)', Buffer(c)', Held(c)', Full(c)',
           c \in Sender => Link(c)' /\ Landed(c)',
           c \in Receiver => Link(c - 1)' /\ Landed(c - 1)'
    PROVE  Inductive'
<1> USE CoreFacts
<1>1. \A d \in Core : Role(d) /\ Buffer(d) /\ Held(d) /\ Full(d)
  BY DEF Inductive, Roles, Buffers, Contents, SlotsHoldTheirRound, Full
<1>2. \A d \in Core : Role(d)' /\ Buffer(d)' /\ Held(d)' /\ Full(d)' BY <1>1, Frame
<1>3. ASSUME NEW d \in Sender PROVE Link(d)' /\ Landed(d)'
  <2>1. Link(d) /\ Landed(d) BY DEF Inductive, Links, Contents
  <2>2. CASE d = c BY <2>2
  <2>3. CASE d + 1 = c
    <3>1. d \in Int /\ c \in Receiver BY <2>3
    <3>2. c - 1 = d BY <2>3, <3>1, SMT
    <3> QED BY <3>1, <3>2
  <2>4. CASE d # c /\ d + 1 # c BY <2>1, <2>4, LinkFrame
  <2> QED BY <2>2, <2>3, <2>4
<1>4. SlotsHoldTheirRound' BY <1>2 DEF SlotsHoldTheirRound, Full
<1> QED BY <1>2, <1>3, <1>4 DEF Inductive, Roles, Buffers, Links, Contents

\* What the invariant says of one core.
LEMMA Here ==
    ASSUME Inductive, NEW c \in Core
    PROVE  /\ TypeOK /\ Ends /\ Role(c) /\ Buffer(c) /\ Held(c) /\ Full(c)
           /\ c \in Sender => Link(c) /\ Landed(c)
           /\ c \in Receiver => Link(c - 1) /\ Landed(c - 1)
BY CoreFacts DEF Inductive, Roles, Buffers, Links, Contents, SlotsHoldTheirRound, Full

\* A reservation changes nothing the upstream core can see yet.
LEMMA ReserveStep == ASSUME Inductive, NEW c \in Core, Reserve(c) PROVE Inductive'
<1> USE CoreFacts
<1>0. /\ TypeOK /\ Ends /\ Role(c) /\ Buffer(c) /\ Held(c) /\ Full(c)
      /\ c \in Sender => Link(c) /\ Landed(c)
      /\ c \in Receiver => Link(c - 1) /\ Landed(c - 1)
  BY Here
<1>1. c \in Receiver /\ pc[c] = "reserve" /\ KSpace(c) /\ VSpace(c) BY DEF Reserve
<1>2. /\ pc' \in [Core -> Place] /\ pc'[c] = "credit" /\ (\A d \in Core : d # c => pc'[d] = pc[d])
      /\ round' = round
  BY <1>0, GoesFacts DEF Reserve, Place
<1>3. /\ flag' \in [Core -> BOOLEAN] /\ flag'[c] = FALSE /\ (\A d \in Core : d # c => flag'[d] = flag[d])
  BY <1>0 DEF Reserve, TypeOK
<1>4. /\ kslot' = kslot /\ vslot' = vslot
      /\ kpushed' = kpushed /\ vpushed' = vpushed /\ qpushed' = qpushed
      /\ kpopped' = kpopped /\ vpopped' = vpopped /\ qpopped' = qpopped
      /\ credit' = credit /\ credits' = credits /\ writes' = writes
  BY DEF Reserve, slots, pushed, popped
<1>5. TypeOK' BY <1>0, <1>2, <1>3, <1>4 DEF TypeOK
<1>6. Ends' BY <1>0, <1>1, <1>2, <1>4, SMT DEF Ends
<1>7. \A d \in Core : d # c => Same(d) BY <1>2, <1>3, <1>4 DEF Same
<1>8. Role(c)' BY <1>2, <1>3, <1>4 DEF Role
<1>9. /\ KIn(c)' = KIn(c) /\ VIn(c)' = VIn(c) /\ Sent(c)' = Sent(c) /\ Taken(c)' = Taken(c)
      /\ Issued(c)' = Issued(c) /\ Up(c)' = Up(c) /\ Flying(c)' = Flying(c) /\ Data(c)' = Data(c)
  BY <1>1, <1>2, <1>3, <1>4, SMT DEF KIn, VIn, Sent, Taken, Issued, Up, Flying, Data
<1>10. Buffer(c)' BY <1>0, <1>1, <1>2, <1>4, <1>9, SMT DEF Buffer, KSpace, VSpace
<1>11. Held(c)' /\ Full(c)' BY <1>0, <1>2, <1>4 DEF Held, Full
<1>12. ASSUME c \in Sender PROVE Link(c)' /\ Landed(c)'
  <2>1. c + 1 \in Core /\ Same(c + 1) BY <1>7, <1>12
  <2> QED BY <1>0, <1>1, <1>2, <1>4, <1>9, <1>12, <2>1, Frame DEF Link, Landed
<1>13. Link(c - 1)' /\ Landed(c - 1)'
  <2>1. c - 1 \in Core /\ (c - 1) + 1 = c /\ Same(c - 1) BY <1>1, <1>7
  <2> QED BY <1>0, <1>1, <1>2, <1>4, <1>9, <2>1, Frame DEF Link, Landed
<1> QED BY <1>5, <1>6, <1>7, <1>8, <1>10, <1>11, <1>12, <1>13, Local

\* A credit, once issued, accounts for the round the receiver asked for.
LEMMA CreditPrevStep == ASSUME Inductive, NEW c \in Core, CreditPrev(c) PROVE Inductive'
<1> USE CoreFacts
<1>0. /\ TypeOK /\ Ends /\ Role(c) /\ Buffer(c) /\ Held(c) /\ Full(c)
      /\ c \in Sender => Link(c) /\ Landed(c)
      /\ c \in Receiver => Link(c - 1) /\ Landed(c - 1)
  BY Here
<1>1. pc[c] = "credit" /\ ~flag[c] BY <1>0 DEF CreditPrev, Role
<1>2. c \in Receiver BY <1>1, Positions
<1>3. /\ pc' \in [Core -> Place] /\ pc'[c] = "valid" /\ (\A d \in Core : d # c => pc'[d] = pc[d])
      /\ round' = round
  BY <1>0, GoesFacts DEF CreditPrev, Place
<1>4. /\ credits' \in [Core -> Nat] /\ (\A d \in Core : d # c => credits'[d] = credits[d])
      /\ credits'[c] = IF Withheld(c) THEN credits[c] ELSE credits[c] + 1
  <2>1. credits \in [Core -> Nat] BY <1>0 DEF TypeOK
  <2> QED BY <2>1, SMT DEF CreditPrev
<1>5. /\ kslot' = kslot /\ vslot' = vslot
      /\ kpushed' = kpushed /\ vpushed' = vpushed /\ qpushed' = qpushed
      /\ kpopped' = kpopped /\ vpopped' = vpopped /\ qpopped' = qpopped
      /\ credit' = credit /\ flag' = flag /\ writes' = writes
  BY DEF CreditPrev, slots, pushed, popped
<1>6. TypeOK' BY <1>0, <1>3, <1>4, <1>5 DEF TypeOK
<1>7. Ends' BY <1>0, <1>2, <1>3, <1>4, <1>5, SMT DEF Ends
<1>8. \A d \in Core : d # c => Same(d) BY <1>3, <1>4, <1>5 DEF Same
<1>9. Role(c)' BY <1>3, <1>5 DEF Role
<1>10. /\ KIn(c)' = KIn(c) /\ VIn(c)' = VIn(c) /\ Sent(c)' = Sent(c) /\ Taken(c)' = Taken(c)
       /\ Up(c)' = Up(c) /\ Flying(c)' = Flying(c) /\ Data(c)' = Data(c)
       /\ KIn(c) = round[c] - 1 /\ Up(c) = 0
  BY <1>1, <1>3, <1>5, SMT DEF KIn, VIn, Sent, Taken, Up, Flying, Data
<1>11. Issued(c) = round[c] - 1 /\ Issued(c)' = IF Withheld(c) THEN round[c] - 1 ELSE round[c]
  BY <1>1, <1>3, SMT DEF Issued, Withheld
<1>12. Buffer(c)' BY <1>0, <1>1, <1>3, <1>5, <1>10, SMT DEF Buffer, KSpace, VSpace
<1>13. Held(c)' /\ Full(c)' BY <1>0, <1>3, <1>5 DEF Held, Full
<1>14. ASSUME c \in Sender PROVE Link(c)' /\ Landed(c)'
  <2>1. c + 1 \in Core /\ Same(c + 1) /\ c + 1 # c BY <1>8, <1>14
  <2> QED BY <1>0, <1>1, <1>3, <1>4, <1>5, <1>10, <1>14, <2>1, Frame DEF Link, Landed
<1>15. Link(c - 1)' /\ Landed(c - 1)'
  <2> DEFINE u == c - 1
  <2>1. u \in Core /\ u \in Sender /\ u + 1 = c /\ Same(u) BY <1>2, <1>8
  <2> HIDE DEF u
  <2>2. Valid \notin writes[u] BY <1>1, <2>1, Announced
  <2>3. pc[u] # "relay" BY <1>1, <2>1, Forwarding
  <2>4. Link(u) BY <2>1 DEF Inductive, Links
  <2>5. Link(u)'
    <3>1. Issued(c) = Taken(u) + credit[u] + credits[c] /\ Sent(u) = KIn(c) + Up(c) + Flying(u)
      BY <2>1, <2>4 DEF Link
    <3>2. Issued(c)' = Taken(u)' + credit'[u] + credits'[c]
      BY <1>0, <1>4, <1>11, <2>1, <3>1, Counters, Frame, SMT DEF Same
    <3>3. Sent(u)' = KIn(c)' + Up(c)' + Flying(u)' BY <1>10, <2>1, <3>1, Frame
    <3> QED BY <1>5, <2>1, <2>3, <2>4, <3>2, <3>3, Frame DEF Link, Same
  <2>6. Sent(u) = round[c] - 1 BY <1>0, <1>10, <2>1, <2>2, <2>4, Counters, SMT DEF Link, Flying
  <2>7. Landed(u)'
    <3>1. Sent(u)' # round'[c] BY <1>0, <1>3, <2>1, <2>6, Frame, Counters, SMT
    <3> QED BY <2>1, <2>3, <3>1 DEF Landed, Same
  <2> QED BY <2>5, <2>7 DEF u
<1> QED BY <1>2, <1>6, <1>7, <1>8, <1>9, <1>12, <1>13, <1>14, <1>15, Local

\* The Q push moves the reader on, and nothing else the links depend on.
LEMMA PushQStep == ASSUME Inductive, NEW c \in Core, PushQ(c) PROVE Inductive'
<1> USE CoreFacts
<1>0. /\ TypeOK /\ Ends /\ Role(c) /\ Buffer(c) /\ Held(c) /\ Full(c)
      /\ c \in Sender => Link(c) /\ Landed(c)
      /\ c \in Receiver => Link(c - 1) /\ Landed(c - 1)
  BY Here
<1>1. pc[c] = "q" BY DEF PushQ
<1>2. /\ pc' \in [Core -> Place] /\ pc'[c] = "v" /\ (\A d \in Core : d # c => pc'[d] = pc[d])
      /\ round' = round
  BY <1>0, GoesFacts DEF PushQ, Place
<1>3. qpushed' \in [Core -> Nat]
  <2>1. qpushed \in [Core -> Nat] BY <1>0 DEF TypeOK
  <2> QED BY <2>1, SMT DEF PushQ
<1>4. /\ kslot' = kslot /\ vslot' = vslot /\ kpushed' = kpushed /\ vpushed' = vpushed
      /\ kpopped' = kpopped /\ vpopped' = vpopped /\ qpopped' = qpopped
      /\ credit' = credit /\ flag' = flag /\ credits' = credits /\ writes' = writes
  BY DEF PushQ, slots, popped
<1>5. TypeOK' BY <1>0, <1>2, <1>3, <1>4 DEF TypeOK
<1>6. Ends' BY <1>0, <1>1, <1>2, <1>4, SMT DEF Ends
<1>7. \A d \in Core : d # c => Same(d) BY <1>2, <1>4 DEF Same
<1>8. Role(c)' BY <1>0, <1>1, <1>2, <1>4 DEF Role, Withheld
<1>9. /\ KIn(c)' = KIn(c) /\ VIn(c)' = VIn(c) /\ Sent(c)' = Sent(c) /\ Taken(c)' = Taken(c)
      /\ Issued(c)' = Issued(c) /\ Up(c)' = Up(c) /\ Flying(c)' = Flying(c) /\ Data(c)' = Data(c)
  BY <1>1, <1>2, <1>4, SMT DEF KIn, VIn, Sent, Taken, Issued, Withheld, Up, Flying, Data
<1>10. Buffer(c)' BY <1>0, <1>1, <1>2, <1>4, <1>9, SMT DEF Buffer, KSpace, VSpace
<1>11. Held(c)' /\ Full(c)' BY <1>0, <1>1, <1>2, <1>4 DEF Held, Full
<1>12. ASSUME c \in Sender PROVE Link(c)' /\ Landed(c)'
  <2>1. c + 1 \in Core /\ Same(c + 1) BY <1>7, <1>12
  <2> QED BY <1>0, <1>1, <1>2, <1>4, <1>9, <1>12, <2>1, Frame DEF Link, Landed
<1>13. ASSUME c \in Receiver PROVE Link(c - 1)' /\ Landed(c - 1)'
  <2>1. c - 1 \in Core /\ (c - 1) + 1 = c /\ Same(c - 1) BY <1>7, <1>13
  <2> QED BY <1>0, <1>1, <1>2, <1>4, <1>9, <1>13, <2>1, Frame DEF Link, Landed
<1> QED BY <1>5, <1>6, <1>7, <1>8, <1>10, <1>11, <1>12, <1>13, Local

\* VALID answers the round asked for, so the K chunk the receiver pushes has landed.
LEMMA ReceiveKStep == ASSUME Inductive, NEW c \in Core, ReceiveK(c) PROVE Inductive'
<1> USE CoreFacts
<1>0. /\ TypeOK /\ Ends /\ Role(c) /\ Buffer(c) /\ Held(c) /\ Full(c)
      /\ c \in Sender => Link(c) /\ Landed(c)
      /\ c \in Receiver => Link(c - 1) /\ Landed(c - 1)
  BY Here
<1>1. pc[c] = "valid" /\ flag[c] BY DEF ReceiveK
<1>2. c \in Receiver BY <1>1, Positions
<1> DEFINE u == c - 1
<1>3. u \in Core /\ u \in Sender /\ u + 1 = c /\ u # c BY <1>2, SMT
<1> HIDE DEF u
<1>4. Sent(u) = round[c] /\ ~Withheld(c) BY <1>1, <1>3, Announced
<1>5. kslot[c][Slot(round[c])] = round[c] /\ vslot[c][Slot(round[c])] = round[c]
  <2>1. Landed(u) BY <1>3 DEF Inductive, Contents
  <2> QED BY <1>1, <1>3, <1>4, <2>1 DEF Landed
<1>6. /\ pc' \in [Core -> Place] /\ pc'[c] \in {"q", "v"} /\ (\A d \in Core : d # c => pc'[d] = pc[d])
      /\ round' = round
  <2>1. AfterK(c) \in {"q", "v"} /\ Goes(c, AfterK(c)) BY DEF AfterK, ReceiveK
  <2> QED BY <1>0, <2>1, GoesFacts DEF Place
<1>7. kpushed[c] = round[c] - 1 /\ kpushed[c] + 1 \in 0..Rounds
  BY <1>0, <1>1, Counters, SMT DEF Buffer, KIn
<1>8. /\ kpushed' \in [Core -> 0..Rounds] /\ (\A d \in Core : d # c => kpushed'[d] = kpushed[d])
      /\ kpushed'[c] = round[c]
  <2>1. kpushed \in [Core -> 0..Rounds] /\ kpushed' = [kpushed EXCEPT ![c] = kpushed[c] + 1]
    BY <1>0 DEF TypeOK, ReceiveK
  <2>2. kpushed[c] + 1 = round[c] BY <1>0, <1>7, Counters, SMT
  <2> QED BY <1>7, <2>1, <2>2
<1>9. /\ kslot' = kslot /\ vslot' = vslot /\ vpushed' = vpushed /\ qpushed' = qpushed
      /\ kpopped' = kpopped /\ vpopped' = vpopped /\ qpopped' = qpopped
      /\ credit' = credit /\ flag' = flag /\ credits' = credits /\ writes' = writes
  BY DEF ReceiveK, slots, popped
<1>10. TypeOK' BY <1>0, <1>6, <1>8, <1>9 DEF TypeOK
<1>11. Ends' BY <1>0, <1>2, <1>6, <1>9, SMT DEF Ends
<1>12. \A d \in Core : d # c => Same(d) BY <1>6, <1>8, <1>9 DEF Same
<1>13. Role(c)' BY <1>0, <1>4, <1>6, <1>9 DEF Role, Withheld
<1>14. /\ KIn(c)' = round[c] /\ KIn(c) = round[c] - 1 /\ Up(c)' = 0 /\ Up(c) = 1
       /\ VIn(c)' = VIn(c) /\ Sent(c)' = Sent(c) /\ Taken(c)' = Taken(c)
       /\ Issued(c)' = Issued(c) /\ Flying(c)' = Flying(c) /\ Data(c)' = Data(c)
  BY <1>1, <1>4, <1>6, <1>9, SMT DEF KIn, VIn, Sent, Taken, Issued, Withheld, Up, Flying, Data
<1>15. Buffer(c)'
  <2>1. kpopped[c] \in Int /\ vpopped[c] \in Int /\ Slots \in Int /\ round[c] \in Int
    BY <1>0, BufferAssumption, Counters, SMT DEF TypeOK
  <2> QED BY <1>0, <1>1, <1>6, <1>7, <1>8, <1>9, <1>14, <2>1, SMT DEF Buffer, KSpace, VSpace
<1>16. Held(c)' BY <1>5, <1>6, <1>9 DEF Held
<1>17. Full(c)'
  <2>1. kpopped[c] \in Int /\ round[c] \in Int BY <1>0, Counters, SMT DEF TypeOK
  <2>2. ASSUME NEW n \in (kpopped[c] + 1)..round[c] PROVE kslot[c][Slot(n)] = n
    <3>1. n = round[c] \/ n \in (kpopped[c] + 1)..kpushed[c] BY <1>7, <2>1, SMT
    <3> QED BY <1>0, <1>5, <3>1 DEF Full
  <2> QED BY <1>0, <1>8, <1>9, <2>2 DEF Full
<1>18. ASSUME c \in Sender PROVE Link(c)' /\ Landed(c)'
  <2>1. c + 1 \in Core /\ Same(c + 1) BY <1>12, <1>18
  <2> QED BY <1>0, <1>1, <1>6, <1>9, <1>14, <1>18, <2>1, Frame DEF Link, Landed
<1>19. Link(u)' /\ Landed(u)'
  <2>1. Same(u) /\ Link(u) BY <1>3, <1>12 DEF Inductive, Links
  <2>2. pc[u] # "relay" BY <1>1, <1>3, Forwarding
  <2>3. KIn(c)' + Up(c)' = KIn(c) + Up(c) BY <1>0, <1>14, Counters, SMT
  <2>4. Link(u)' BY <1>3, <1>9, <1>14, <2>1, <2>2, <2>3, Frame DEF Link, Same
  <2>5. Landed(u)' BY <1>3, <1>6, <2>1, <2>2 DEF Landed, Same
  <2> QED BY <2>4, <2>5
<1> QED BY <1>2, <1>10, <1>11, <1>12, <1>13, <1>15, <1>16, <1>17, <1>18, <1>19, Local DEF u

\* V landed with K; the receiver pushes it and forwards, or the sink ends its round.
LEMMA ReceiveVStep == ASSUME Inductive, NEW c \in Core, ReceiveV(c) PROVE Inductive'
<1> USE CoreFacts
<1>0. /\ TypeOK /\ Ends /\ Role(c) /\ Buffer(c) /\ Held(c) /\ Full(c)
      /\ c \in Sender => Link(c) /\ Landed(c)
      /\ c \in Receiver => Link(c - 1) /\ Landed(c - 1)
  BY Here
<1>1. pc[c] = "v" /\ c \in Receiver BY DEF ReceiveV
<1>2. ~Withheld(c) BY <1>0, <1>1 DEF Role
<1>3. kslot[c][Slot(round[c])] = round[c] /\ vslot[c][Slot(round[c])] = round[c] BY <1>0, <1>1 DEF Held
<1>4. /\ pc' \in [Core -> Place] /\ round' \in [Core -> 1..Rounds]
      /\ \A d \in Core : d # c => pc'[d] = pc[d] /\ round'[d] = round[d]
      /\ c # Size => pc'[c] = "forward" /\ round'[c] = round[c]
      /\ c = Size => /\ pc'[c] \in {"reserve", "exit"}
                     /\ pc'[c] = "exit" => round'[c] = Rounds /\ round[c] = Rounds
                     /\ pc'[c] = "reserve" => round'[c] = round[c] + 1
  <2>1. CASE c = Size
    <3>1. NextRound(c) BY <2>1 DEF ReceiveV, AfterV
    <3> QED BY <1>0, <1>1, <2>1, <3>1, NextRoundFacts DEF Inductive
  <2>2. CASE c # Size
    <3>1. Goes(c, "forward") BY <2>2 DEF ReceiveV, AfterV
    <3>2. round \in [Core -> 1..Rounds] BY <1>0 DEF TypeOK
    <3> QED BY <1>0, <2>2, <3>1, <3>2, GoesFacts DEF Place
  <2> QED BY <2>1, <2>2
<1>5. vpushed[c] = round[c] - 1 /\ vpushed[c] + 1 \in 0..Rounds /\ vpushed[c] + 1 = round[c]
  <2>1. vpushed[c] = round[c] - 1 BY <1>0, <1>1 DEF Buffer, VIn
  <2> QED BY <1>0, <2>1, Counters, SMT
<1>6. /\ vpushed' \in [Core -> 0..Rounds] /\ (\A d \in Core : d # c => vpushed'[d] = vpushed[d])
      /\ vpushed'[c] = round[c]
  <2>1. vpushed \in [Core -> 0..Rounds] /\ vpushed' = [vpushed EXCEPT ![c] = vpushed[c] + 1]
    BY <1>0 DEF TypeOK, ReceiveV
  <2> QED BY <1>5, <2>1
<1>7. /\ kslot' = kslot /\ vslot' = vslot /\ kpushed' = kpushed /\ qpushed' = qpushed
      /\ kpopped' = kpopped /\ vpopped' = vpopped /\ qpopped' = qpopped
      /\ credit' = credit /\ flag' = flag /\ credits' = credits /\ writes' = writes
  BY DEF ReceiveV, slots, popped
<1>8. TypeOK' BY <1>0, <1>4, <1>6, <1>7 DEF TypeOK
<1>9. Ends' BY <1>0, <1>1, <1>4, <1>7, SMT DEF Ends
<1>10. \A d \in Core : d # c => Same(d) BY <1>4, <1>6, <1>7 DEF Same
<1>11. Role(c)' BY <1>0, <1>1, <1>2, <1>4, <1>7, SMT DEF Role, Withheld
<1>12. /\ KIn(c)' = round[c] /\ KIn(c) = round[c] /\ VIn(c)' = round[c]
       /\ Up(c)' = 0 /\ Up(c) = 0 /\ Issued(c)' = Issued(c) /\ Flying(c)' = Flying(c)
  <2>1. KIn(c) = round[c] /\ Up(c) = 0 /\ Issued(c) = round[c]
    BY <1>1, <1>2, SMT DEF KIn, Up, Issued
  <2>2. Flying(c)' = Flying(c) BY <1>7 DEF Flying
  <2>3. Up(c)' = 0 BY <1>4, SMT DEF Up
  <2>4. KIn(c)' = round[c] /\ VIn(c)' = round[c] BY <1>0, <1>4, Counters, SMT DEF KIn, VIn
  <2>5. Issued(c)' = round[c] BY <1>0, <1>2, <1>4, Counters, SMT DEF Issued, Withheld
  <2> QED BY <2>1, <2>2, <2>3, <2>4, <2>5
<1>13. Buffer(c)'
  <2>1. kpopped[c] \in Int /\ vpopped[c] \in Int /\ Slots \in Int /\ round[c] \in Int
    BY <1>0, BufferAssumption, Counters, SMT DEF TypeOK
  <2>2. pc'[c] \in {"forward", "reserve", "exit"} BY <1>4
  <2> QED BY <1>0, <1>1, <1>5, <1>6, <1>7, <1>12, <2>1, <2>2, SMT DEF Buffer, KSpace, VSpace
<1>14. Held(c)' BY <1>3, <1>4, <1>7 DEF Held
<1>15. Full(c)'
  <2>1. vpopped[c] \in Int /\ round[c] \in Int BY <1>0, Counters, SMT DEF TypeOK
  <2>2. ASSUME NEW n \in (vpopped[c] + 1)..round[c] PROVE vslot[c][Slot(n)] = n
    <3>1. n = round[c] \/ n \in (vpopped[c] + 1)..vpushed[c] BY <1>5, <2>1, SMT
    <3> QED BY <1>0, <1>3, <3>1 DEF Full
  <2> QED BY <1>0, <1>6, <1>7, <2>2 DEF Full
<1>16. ASSUME c \in Sender PROVE Link(c)' /\ Landed(c)'
  <2>1. c + 1 \in Core /\ Same(c + 1) BY <1>10, <1>16
  <2>2. pc'[c] = "forward" /\ round'[c] = round[c] BY <1>4, <1>16
  <2>3. Sent(c)' = Sent(c) /\ Taken(c)' = Taken(c) /\ Data(c)' = Data(c)
    BY <1>1, <2>2, SMT DEF Sent, Taken, Data
  <2>4. Link(c)' BY <1>0, <1>1, <1>7, <1>12, <1>16, <2>1, <2>2, <2>3, Frame DEF Link
  <2>5. Landed(c)' BY <1>0, <1>1, <1>7, <1>16, <2>1, <2>2, <2>3, Frame DEF Landed, Same
  <2> QED BY <2>4, <2>5
<1>17. Link(c - 1)' /\ Landed(c - 1)'
  <2> DEFINE u == c - 1
  <2>1. u \in Core /\ u \in Sender /\ u + 1 = c /\ Same(u) BY <1>1, <1>10
  <2> HIDE DEF u
  <2>2. pc[u] # "relay" BY <1>1, <2>1, Forwarding
  <2>3. Link(u) BY <2>1 DEF Inductive, Links
  <2>4. Link(u)' BY <1>7, <1>12, <2>1, <2>2, <2>3, Frame DEF Link, Same
  <2>5. Landed(u)' BY <1>4, <2>1, <2>2 DEF Landed, Same
  <2> QED BY <2>4, <2>5 DEF u
<1> QED BY <1>1, <1>8, <1>9, <1>10, <1>11, <1>13, <1>14, <1>15, <1>16, <1>17, Local

\* The injector writes the slot of its round, which no chunk still to be popped occupies.
LEMMA InjectKStep == ASSUME Inductive, InjectK PROVE Inductive'
<1> USE CoreFacts
<1>0. TypeOK /\ Ends /\ Role(1) /\ Buffer(1) /\ Held(1) /\ Full(1) /\ Link(1) /\ Landed(1) BY Here
<1>1. pc[1] = "reserve" /\ KSpace(1) BY DEF InjectK
<1>2. /\ pc' \in [Core -> Place] /\ pc'[1] \in {"q", "v"} /\ (\A d \in Core : d # 1 => pc'[d] = pc[d])
      /\ round' = round
  <2>1. AfterK(1) \in {"q", "v"} /\ Goes(1, AfterK(1)) BY DEF AfterK, InjectK
  <2> QED BY <1>0, <2>1, GoesFacts DEF Place
<1>3. kpushed[1] = round[1] - 1 /\ kpushed[1] + 1 \in 0..Rounds /\ kpushed[1] + 1 = round[1]
  <2>1. kpushed[1] = round[1] - 1 BY <1>0, <1>1 DEF Buffer, KIn
  <2> QED BY <1>0, <2>1, Counters, SMT
<1>4. /\ kpushed' \in [Core -> 0..Rounds] /\ (\A d \in Core : d # 1 => kpushed'[d] = kpushed[d])
      /\ kpushed'[1] = round[1]
  <2>1. kpushed \in [Core -> 0..Rounds] /\ kpushed' = [kpushed EXCEPT ![1] = kpushed[1] + 1]
    BY <1>0 DEF TypeOK, InjectK
  <2> QED BY <1>3, <2>1
<1>5. /\ kslot' \in [Core -> [0..(Slots - 1) -> 0..Rounds]]
      /\ \A d \in Core : d # 1 => kslot'[d] = kslot[d]
      /\ kslot'[1][Slot(round[1])] = round[1]
      /\ \A i \in 0..(Slots - 1) : i # Slot(round[1]) => kslot'[1][i] = kslot[1][i]
  <2>1. Slot(round[1]) \in 0..(Slots - 1) /\ round[1] \in 0..Rounds
    BY <1>0, Counters, SlotIndex, SMT
  <2>2. kslot \in [Core -> [0..(Slots - 1) -> 0..Rounds]] BY <1>0 DEF TypeOK
  <2>3. kslot' = [kslot EXCEPT ![1] = [kslot[1] EXCEPT ![Slot(round[1])] = round[1]]] BY DEF InjectK
  <2> QED BY <2>1, <2>2, <2>3
<1>6. /\ vslot' = vslot /\ vpushed' = vpushed /\ qpushed' = qpushed
      /\ kpopped' = kpopped /\ vpopped' = vpopped /\ qpopped' = qpopped
      /\ credit' = credit /\ flag' = flag /\ credits' = credits /\ writes' = writes
  BY DEF InjectK, popped
<1>7. TypeOK' BY <1>0, <1>2, <1>4, <1>5, <1>6 DEF TypeOK
<1>8. Ends' BY <1>0, <1>2, <1>6, SMT DEF Ends
<1>9. \A d \in Core : d # 1 => Same(d) BY <1>2, <1>4, <1>5, <1>6 DEF Same
<1>10. Role(1)' BY <1>0, <1>2, <1>6 DEF Role, Withheld
<1>11. /\ KIn(1)' = round[1] /\ VIn(1)' = VIn(1) /\ Sent(1)' = Sent(1) /\ Taken(1)' = Taken(1)
       /\ Flying(1)' = Flying(1) /\ Data(1)' = Data(1)
  BY <1>1, <1>2, <1>6, SMT DEF KIn, VIn, Sent, Taken, Flying, Data
<1>12. Buffer(1)'
  <2>1. kpopped[1] \in Int /\ vpopped[1] \in Int /\ Slots \in Int /\ round[1] \in Int
    BY <1>0, BufferAssumption, Counters, SMT DEF TypeOK
  <2> QED BY <1>0, <1>1, <1>2, <1>3, <1>4, <1>6, <1>11, <2>1, SMT DEF Buffer, KSpace, VSpace
<1>13. Held(1)' BY <1>2, <1>5 DEF Held
<1>14. Full(1)'
  <2>0. kpopped[1] \in 0..Rounds /\ Rounds \in Nat BY <1>0, Counters DEF TypeOK
  <2>1. kpopped[1] \in Nat /\ round[1] \in Nat /\ Slots \in Nat BY <1>0, <2>0, Counters, BufferAssumption, SMT
  <2>2. ASSUME NEW n \in (kpopped[1] + 1)..round[1], n # round[1] PROVE kslot'[1][Slot(n)] = n
    <3>1. n \in Nat /\ n < round[1] /\ round[1] < n + Slots /\ n \in (kpopped[1] + 1)..kpushed[1]
      BY <1>1, <1>3, <2>1, <2>2, SMT DEF KSpace
    <3>2. Slot(n) # Slot(round[1]) BY <2>1, <3>1, SlotsDiffer
    <3> QED BY <1>0, <1>5, <3>1, <3>2, SlotIndex DEF Full
  <2> QED BY <1>0, <1>4, <1>5, <1>6, <2>2 DEF Full
<1>15. Link(1)' /\ Landed(1)'
  <2>1. 1 \in Sender /\ 1 + 1 \in Core /\ Same(1 + 1) BY <1>9
  <2>2. Link(1)' BY <1>0, <1>1, <1>2, <1>6, <1>11, <2>1, Frame DEF Link
  <2>3. Landed(1)' BY <1>0, <1>1, <1>2, <1>6, <1>11, <2>1, Frame DEF Landed, Same
  <2> QED BY <2>2, <2>3
<1> QED BY <1>7, <1>8, <1>9, <1>10, <1>12, <1>13, <1>14, <1>15, Local

\* The same for V.
LEMMA InjectVStep == ASSUME Inductive, InjectV PROVE Inductive'
<1> USE CoreFacts
<1>0. TypeOK /\ Ends /\ Role(1) /\ Buffer(1) /\ Held(1) /\ Full(1) /\ Link(1) /\ Landed(1) BY Here
<1>1. pc[1] = "v" /\ VSpace(1) BY DEF InjectV
<1>2. /\ pc' \in [Core -> Place] /\ pc'[1] = "forward" /\ (\A d \in Core : d # 1 => pc'[d] = pc[d])
      /\ round' = round
  <2>1. Goes(1, "forward") BY DEF AfterV, InjectV
  <2> QED BY <1>0, <2>1, GoesFacts DEF Place
<1>3. vpushed[1] = round[1] - 1 /\ vpushed[1] + 1 \in 0..Rounds /\ vpushed[1] + 1 = round[1]
  <2>1. vpushed[1] = round[1] - 1 BY <1>0, <1>1 DEF Buffer, VIn
  <2> QED BY <1>0, <2>1, Counters, SMT
<1>4. /\ vpushed' \in [Core -> 0..Rounds] /\ (\A d \in Core : d # 1 => vpushed'[d] = vpushed[d])
      /\ vpushed'[1] = round[1]
  <2>1. vpushed \in [Core -> 0..Rounds] /\ vpushed' = [vpushed EXCEPT ![1] = vpushed[1] + 1]
    BY <1>0 DEF TypeOK, InjectV
  <2> QED BY <1>3, <2>1
<1>5. /\ vslot' \in [Core -> [0..(Slots - 1) -> 0..Rounds]]
      /\ \A d \in Core : d # 1 => vslot'[d] = vslot[d]
      /\ vslot'[1][Slot(round[1])] = round[1]
      /\ \A i \in 0..(Slots - 1) : i # Slot(round[1]) => vslot'[1][i] = vslot[1][i]
  <2>1. Slot(round[1]) \in 0..(Slots - 1) /\ round[1] \in 0..Rounds
    BY <1>0, Counters, SlotIndex, SMT
  <2>2. vslot \in [Core -> [0..(Slots - 1) -> 0..Rounds]] BY <1>0 DEF TypeOK
  <2>3. vslot' = [vslot EXCEPT ![1] = [vslot[1] EXCEPT ![Slot(round[1])] = round[1]]] BY DEF InjectV
  <2> QED BY <2>1, <2>2, <2>3
<1>6. /\ kslot' = kslot /\ kpushed' = kpushed /\ qpushed' = qpushed
      /\ kpopped' = kpopped /\ vpopped' = vpopped /\ qpopped' = qpopped
      /\ credit' = credit /\ flag' = flag /\ credits' = credits /\ writes' = writes
  BY DEF InjectV, popped
<1>7. TypeOK' BY <1>0, <1>2, <1>4, <1>5, <1>6 DEF TypeOK
<1>8. Ends' BY <1>0, <1>2, <1>6, SMT DEF Ends
<1>9. \A d \in Core : d # 1 => Same(d) BY <1>2, <1>4, <1>5, <1>6 DEF Same
<1>10. Role(1)' BY <1>0, <1>2, <1>6 DEF Role, Withheld
<1>11. /\ KIn(1)' = KIn(1) /\ VIn(1)' = round[1] /\ Sent(1)' = Sent(1) /\ Taken(1)' = Taken(1)
       /\ Flying(1)' = Flying(1) /\ Data(1)' = Data(1)
  BY <1>1, <1>2, <1>6, SMT DEF KIn, VIn, Sent, Taken, Flying, Data
<1>12. Buffer(1)'
  <2>1. kpopped[1] \in Int /\ vpopped[1] \in Int /\ Slots \in Int /\ round[1] \in Int
    BY <1>0, BufferAssumption, Counters, SMT DEF TypeOK
  <2> QED BY <1>0, <1>1, <1>2, <1>3, <1>4, <1>6, <1>11, <2>1, SMT DEF Buffer, KSpace, VSpace
<1>13. Held(1)' BY <1>0, <1>1, <1>2, <1>5, <1>6 DEF Held
<1>14. Full(1)'
  <2>0. vpopped[1] \in 0..Rounds /\ Rounds \in Nat BY <1>0, Counters DEF TypeOK
  <2>1. vpopped[1] \in Nat /\ round[1] \in Nat /\ Slots \in Nat BY <1>0, <2>0, Counters, BufferAssumption, SMT
  <2>2. ASSUME NEW n \in (vpopped[1] + 1)..round[1], n # round[1] PROVE vslot'[1][Slot(n)] = n
    <3>1. n \in Nat /\ n < round[1] /\ round[1] < n + Slots /\ n \in (vpopped[1] + 1)..vpushed[1]
      BY <1>1, <1>3, <2>1, <2>2, SMT DEF VSpace
    <3>2. Slot(n) # Slot(round[1]) BY <2>1, <3>1, SlotsDiffer
    <3> QED BY <1>0, <1>5, <3>1, <3>2, SlotIndex DEF Full
  <2> QED BY <1>0, <1>4, <1>5, <1>6, <2>2 DEF Full
<1>15. Link(1)' /\ Landed(1)'
  <2>1. 1 \in Sender /\ 1 + 1 \in Core /\ Same(1 + 1) BY <1>9
  <2>2. Link(1)' BY <1>0, <1>1, <1>2, <1>6, <1>11, <2>1, Frame DEF Link
  <2>3. Landed(1)' BY <1>0, <1>1, <1>2, <1>6, <1>11, <2>1, Frame DEF Landed, Same
  <2> QED BY <2>2, <2>3
<1> QED BY <1>7, <1>8, <1>9, <1>10, <1>12, <1>13, <1>14, <1>15, Local

\* The credit taken says that the next core waits for this very round with nothing in flight.
LEMMA ForwardStep == ASSUME Inductive, NEW c \in Core, Forward(c) PROVE Inductive'
<1> USE CoreFacts
<1>0. /\ TypeOK /\ Ends /\ Role(c) /\ Buffer(c) /\ Held(c) /\ Full(c)
      /\ c \in Sender => Link(c) /\ Landed(c)
      /\ c \in Receiver => Link(c - 1) /\ Landed(c - 1)
  BY Here
<1>1. pc[c] = "forward" /\ credit[c] = 1 BY DEF Forward
<1>2. c \in Sender /\ c + 1 \in Core /\ c # Size /\ c + 1 # c BY <1>1, Positions
<1>3. credits[c + 1] = 0 /\ writes[c] = {}
  <2>1. credit[c] + credits[c + 1] <= 1 /\ credits[c + 1] \in Nat BY <1>0, <1>2, CreditOut, Counters
  <2>2. credit[c] + credits[c + 1] > 0 BY <1>1, <2>1, SMT
  <2> QED BY <1>1, <1>2, <2>1, <2>2, CreditOut, SMT
<1>4. /\ pc' \in [Core -> Place] /\ pc'[c] = "relay" /\ (\A d \in Core : d # c => pc'[d] = pc[d])
      /\ round' = round
  BY <1>0, GoesFacts DEF Forward, Place
<1>5. /\ credit' \in [Core -> Nat] /\ credit'[c] = 0 /\ (\A d \in Core : d # c => credit'[d] = credit[d])
  <2>1. credit \in [Core -> Nat] /\ credit' = [credit EXCEPT ![c] = 0] BY <1>0 DEF TypeOK, Forward
  <2> QED BY <2>1, SMT
<1>6. /\ writes' \in [Core -> SUBSET [what : {"k", "v", "valid"}, slot : 0..(Slots - 1)]]
      /\ writes'[c] = Data(c) /\ (\A d \in Core : d # c => writes'[d] = writes[d])
  <2>1. Slot(round[c]) \in 0..(Slots - 1) BY <1>0, Counters, SlotIndex
  <2>2. Data(c) \subseteq [what : {"k", "v", "valid"}, slot : 0..(Slots - 1)] BY <2>1 DEF Data
  <2>3. writes \in [Core -> SUBSET [what : {"k", "v", "valid"}, slot : 0..(Slots - 1)]]
        /\ writes' = [writes EXCEPT ![c] = writes[c] \cup Data(c)]
    BY <1>0 DEF TypeOK, Forward
  <2> HIDE DEF Data
  <2>4. writes[c] \cup Data(c) = Data(c) BY <1>3
  <2> QED BY <2>2, <2>3, <2>4
<1>7. /\ kslot' = kslot /\ vslot' = vslot
      /\ kpushed' = kpushed /\ vpushed' = vpushed /\ qpushed' = qpushed
      /\ kpopped' = kpopped /\ vpopped' = vpopped /\ qpopped' = qpopped
      /\ flag' = flag /\ credits' = credits
  BY DEF Forward, slots, pushed, popped
<1>8. TypeOK' BY <1>0, <1>4, <1>5, <1>6, <1>7 DEF TypeOK
<1>9. Ends' BY <1>0, <1>2, <1>4, <1>5, <1>6, <1>7, SMT DEF Ends
<1>10. \A d \in Core : d # c => Same(d) BY <1>4, <1>5, <1>6, <1>7 DEF Same
<1>11. Role(c)' BY <1>0, <1>1, <1>4, <1>7 DEF Role, Withheld
<1>12. /\ KIn(c)' = KIn(c) /\ VIn(c)' = VIn(c) /\ Sent(c)' = Sent(c) /\ Taken(c) = round[c] - 1
       /\ Taken(c)' = round[c] /\ Issued(c)' = Issued(c) /\ Up(c)' = Up(c) /\ Data(c)' = Data(c)
  BY <1>1, <1>4, <1>7, SMT DEF KIn, VIn, Sent, Taken, Issued, Withheld, Up, Data
<1>13. Flying(c)' = 0 /\ Flying(c) = 0 BY <1>3, <1>6 DEF Flying, Valid, Data
<1>14. Buffer(c)' BY <1>0, <1>1, <1>4, <1>7, <1>12, SMT DEF Buffer, KSpace, VSpace
<1>15. Held(c)' /\ Full(c)' BY <1>0, <1>1, <1>4, <1>7 DEF Held, Full
<1>16. Link(c)' /\ Landed(c)'
  <2>1. Same(c + 1) BY <1>2, <1>10
  <2>2. Issued(c + 1) = Taken(c) + credit[c] + credits[c + 1] BY <1>0, <1>2 DEF Link
  <2>3. Issued(c + 1)' = Taken(c)' + credit'[c] + credits'[c + 1]
    <3>1. Issued(c + 1)' = Issued(c + 1) /\ credits'[c + 1] = 0 BY <1>2, <1>3, <1>7, <2>1, Frame
    <3>2. round[c] \in Int BY <1>0, Counters
    <3> QED BY <1>1, <1>3, <1>5, <1>12, <2>2, <3>1, <3>2, SMT
  <2>4. Sent(c)' = KIn(c + 1)' + Up(c + 1)' + Flying(c)' BY <1>0, <1>2, <1>12, <1>13, <2>1, Frame DEF Link
  <2>5. Link(c)' BY <1>4, <1>6, <1>12, <2>3, <2>4 DEF Link
  <2>6. Landed(c)' BY <1>0, <1>1, <1>2, <1>4, <1>6, <1>7, <1>12, <2>1, Frame DEF Landed, Same, Data
  <2> QED BY <2>5, <2>6
<1>17. ASSUME c \in Receiver PROVE Link(c - 1)' /\ Landed(c - 1)'
  <2>1. c - 1 \in Core /\ (c - 1) + 1 = c /\ Same(c - 1) BY <1>10, <1>17
  <2>2. Link(c - 1)' BY <1>0, <1>7, <1>12, <1>17, <2>1, Frame DEF Link, Same
  <2>3. Landed(c - 1)' BY <1>0, <1>1, <1>4, <1>7, <1>12, <1>17, <2>1, Frame DEF Landed, Same
  <2> QED BY <2>2, <2>3
<1> QED BY <1>2, <1>8, <1>9, <1>10, <1>11, <1>14, <1>15, <1>16, <1>17, Local

\* The flag is relayed once both slots have landed: from then on they answer the round.
LEMMA RelayStep == ASSUME Inductive, NEW c \in Core, Relay(c) PROVE Inductive'
<1> USE CoreFacts
<1>0. /\ TypeOK /\ Ends /\ Role(c) /\ Buffer(c) /\ Held(c) /\ Full(c)
      /\ c \in Sender => Link(c) /\ Landed(c)
      /\ c \in Receiver => Link(c - 1) /\ Landed(c - 1)
  BY Here
<1>1. pc[c] = "relay" /\ writes[c] = {} BY DEF Relay
<1>2. c \in Sender /\ c + 1 \in Core /\ c # Size /\ c + 1 # c BY <1>1, Positions
<1>3. pc[c + 1] = "valid" /\ round[c + 1] = round[c] BY <1>1, <1>2, Forwarding
<1>4. /\ pc' \in [Core -> Place] /\ round' \in [Core -> 1..Rounds] /\ pc'[c] \in {"reserve", "exit"}
      /\ pc'[c] = "exit" => round'[c] = Rounds /\ round[c] = Rounds
      /\ pc'[c] = "reserve" => round'[c] = round[c] + 1
      /\ \A d \in Core : d # c => pc'[d] = pc[d] /\ round'[d] = round[d]
  BY <1>0, <1>1, NextRoundFacts DEF Relay, Inductive
<1>5. /\ writes' \in [Core -> SUBSET [what : {"k", "v", "valid"}, slot : 0..(Slots - 1)]]
      /\ writes'[c] = {Valid} /\ (\A d \in Core : d # c => writes'[d] = writes[d])
  <2>1. 0 \in 0..(Slots - 1) BY BufferAssumption, SMT
  <2>2. {Valid} \subseteq [what : {"k", "v", "valid"}, slot : 0..(Slots - 1)] BY <2>1 DEF Valid
  <2>3. writes \in [Core -> SUBSET [what : {"k", "v", "valid"}, slot : 0..(Slots - 1)]]
        /\ writes' = [writes EXCEPT ![c] = {Valid}]
    BY <1>0 DEF TypeOK, Relay
  <2> QED BY <2>2, <2>3
<1>6. /\ kslot' = kslot /\ vslot' = vslot
      /\ kpushed' = kpushed /\ vpushed' = vpushed /\ qpushed' = qpushed
      /\ kpopped' = kpopped /\ vpopped' = vpopped /\ qpopped' = qpopped
      /\ credit' = credit /\ flag' = flag /\ credits' = credits
  BY DEF Relay, slots, pushed, popped
<1>7. TypeOK' BY <1>0, <1>4, <1>5, <1>6 DEF TypeOK
<1>8. Ends' BY <1>0, <1>2, <1>4, <1>5, <1>6, SMT DEF Ends
<1>9. \A d \in Core : d # c => Same(d) BY <1>4, <1>5, <1>6 DEF Same
<1>10. Role(c)' BY <1>2, <1>4 DEF Role, Withheld
<1>11. /\ KIn(c) = round[c] /\ VIn(c) = round[c] /\ Sent(c) = round[c] - 1 /\ Taken(c) = round[c]
       /\ Issued(c) = round[c] /\ Up(c) = 0 /\ Flying(c) = 0
  BY <1>1, <1>2, SMT DEF KIn, VIn, Sent, Taken, Issued, Withheld, Up, Flying
<1>12. /\ KIn(c)' = round[c] /\ VIn(c)' = round[c] /\ Sent(c)' = round[c] /\ Taken(c)' = round[c]
       /\ Issued(c)' = round[c] /\ Up(c)' = 0 /\ Flying(c)' = 1
  <2>1. CASE pc'[c] = "exit"
    BY <1>2, <1>4, <1>5, <2>1, SMT DEF KIn, VIn, Sent, Taken, Issued, Withheld, Up, Flying
  <2>2. CASE pc'[c] = "reserve"
    <3>1. (round[c] + 1) - 1 = round[c] /\ round'[c] = round[c] + 1 BY <1>0, <1>4, <2>2, Counters, SMT
    <3> QED BY <1>2, <1>5, <2>2, <3>1, SMT DEF KIn, VIn, Sent, Taken, Issued, Withheld, Up, Flying
  <2> QED BY <1>4, <2>1, <2>2
<1>13. Buffer(c)' BY <1>0, <1>1, <1>4, <1>6, <1>11, <1>12 DEF Buffer, KSpace, VSpace
<1>14. Held(c)' /\ Full(c)' BY <1>0, <1>4, <1>6 DEF Held, Full
<1>15. Link(c)' /\ Landed(c)'
  <2>1. Same(c + 1) BY <1>2, <1>9
  <2>2. Issued(c + 1)' = Taken(c)' + credit'[c] + credits'[c + 1]
    BY <1>0, <1>2, <1>6, <1>11, <1>12, <2>1, Frame DEF Link
  <2>3. Sent(c) = KIn(c + 1) + Up(c + 1) + Flying(c) BY <1>0, <1>2 DEF Link
  <2>4. Sent(c)' = KIn(c + 1)' + Up(c + 1)' + Flying(c)'
    BY <1>0, <1>2, <1>11, <1>12, <2>1, <2>3, Frame, Counters, SMT
  <2>5. Link(c)' BY <1>4, <1>5, <2>2, <2>4 DEF Link
  <2>6. kslot[c + 1][Slot(round[c])] = round[c] /\ vslot[c + 1][Slot(round[c])] = round[c]
    BY <1>0, <1>1, <1>2 DEF Landed
  <2>7. round'[c + 1] = round[c] /\ kslot'[c + 1] = kslot[c + 1] /\ vslot'[c + 1] = vslot[c + 1]
    BY <1>3, <2>1 DEF Same
  <2>8. pc'[c] # "relay" BY <1>4
  <2>9. Landed(c)' BY <2>6, <2>7, <2>8 DEF Landed
  <2> QED BY <2>5, <2>9
<1>16. ASSUME c \in Receiver PROVE Link(c - 1)' /\ Landed(c - 1)'
  <2> DEFINE u == c - 1
  <2>1. u \in Core /\ u \in Sender /\ u + 1 = c /\ Same(u) BY <1>9, <1>16
  <2> HIDE DEF u
  <2>2. pc[u] # "relay" BY <1>1, <2>1, Forwarding
  <2>3. Link(u) BY <2>1 DEF Inductive, Links
  <2>4. Link(u)' BY <1>6, <1>11, <1>12, <2>1, <2>2, <2>3, Frame DEF Link, Same
  <2>5. Landed(u)' BY <1>4, <2>1, <2>2 DEF Landed, Same
  <2> QED BY <2>4, <2>5 DEF u
<1> QED BY <1>2, <1>7, <1>8, <1>9, <1>10, <1>13, <1>14, <1>15, <1>16, Local

\* At the end every credit was taken, so the resets only clear the last flag.
LEMMA ExitStep == ASSUME Inductive, NEW c \in Core, Exit(c) PROVE Inductive'
<1> USE CoreFacts
<1>0. /\ TypeOK /\ Ends /\ Role(c) /\ Buffer(c) /\ Held(c) /\ Full(c)
      /\ c \in Sender => Link(c) /\ Landed(c)
      /\ c \in Receiver => Link(c - 1) /\ Landed(c - 1)
  BY Here
<1>1. pc[c] = "exit" /\ writes[c] = {} /\ credits[c] = 0 /\ round[c] = Rounds BY <1>0 DEF Exit, Role
<1>2. credit[c] = 0
  <2>1. CASE c = Size BY <1>0, <2>1 DEF Ends
  <2>2. CASE c # Size
    <3>1. c \in Sender /\ c + 1 \in Core BY <2>2
    <3>2. Issued(c + 1) = Taken(c) + credit[c] + credits[c + 1] BY <1>0, <3>1 DEF Link
    <3>3. Taken(c) = Rounds BY <1>1 DEF Taken, Sent
    <3>4. Issued(c + 1) <= Rounds /\ Issued(c + 1) \in Nat /\ Rounds \in Nat /\ credit[c] \in Nat /\ credits[c + 1] \in Nat
      BY <1>0, <3>1, Counters, SMT
    <3> QED BY <3>2, <3>3, <3>4, SMT
  <2> QED BY <2>1, <2>2
<1>3. /\ pc' \in [Core -> Place] /\ pc'[c] = "done" /\ (\A d \in Core : d # c => pc'[d] = pc[d])
      /\ round' = round
  BY <1>0, GoesFacts DEF Exit, Place
<1>4. /\ flag' \in [Core -> BOOLEAN] /\ flag'[c] = FALSE /\ (\A d \in Core : d # c => flag'[d] = flag[d])
  BY <1>0 DEF Exit, TypeOK
<1>5. /\ credit' \in [Core -> Nat] /\ credit'[c] = 0 /\ (\A d \in Core : d # c => credit'[d] = credit[d])
  <2>1. credit \in [Core -> Nat] /\ credit' = [credit EXCEPT ![c] = 0] BY <1>0 DEF TypeOK, Exit
  <2> QED BY <2>1, SMT
<1>6. /\ kslot' = kslot /\ vslot' = vslot
      /\ kpushed' = kpushed /\ vpushed' = vpushed /\ qpushed' = qpushed
      /\ kpopped' = kpopped /\ vpopped' = vpopped /\ qpopped' = qpopped
      /\ credits' = credits /\ writes' = writes
  BY DEF Exit, slots, pushed, popped
<1>7. TypeOK' BY <1>0, <1>3, <1>4, <1>5, <1>6 DEF TypeOK
<1>8. Ends' BY <1>0, <1>3, <1>5, <1>6, SMT DEF Ends
<1>9. \A d \in Core : d # c => Same(d) BY <1>3, <1>4, <1>5, <1>6 DEF Same
<1>10. Role(c)' BY <1>0, <1>1, <1>3, <1>4, <1>6 DEF Role, Withheld
<1>11. /\ KIn(c)' = KIn(c) /\ VIn(c)' = VIn(c) /\ Sent(c)' = Sent(c) /\ Taken(c)' = Taken(c)
       /\ Issued(c)' = Issued(c) /\ Up(c)' = Up(c) /\ Flying(c)' = Flying(c) /\ Data(c)' = Data(c)
  <2>1. KIn(c)' = KIn(c) /\ VIn(c)' = VIn(c) BY <1>1, <1>3, SMT DEF KIn, VIn
  <2>2. Sent(c)' = Sent(c) /\ Taken(c)' = Taken(c) BY <1>1, <1>3, SMT DEF Sent, Taken
  <2>3. Issued(c)' = Issued(c) BY <1>1, <1>3, SMT DEF Issued, Withheld
  <2>4. Up(c)' = Up(c) /\ Flying(c)' = Flying(c) BY <1>1, <1>3, <1>6, SMT DEF Up, Flying
  <2>5. Data(c)' = Data(c) BY <1>3 DEF Data
  <2> QED BY <2>1, <2>2, <2>3, <2>4, <2>5
<1>12. Buffer(c)' BY <1>0, <1>1, <1>3, <1>6, <1>11, SMT DEF Buffer, KSpace, VSpace
<1>13. Held(c)' /\ Full(c)' BY <1>0, <1>3, <1>6 DEF Held, Full
<1>14. ASSUME c \in Sender PROVE Link(c)' /\ Landed(c)'
  <2>1. c + 1 \in Core /\ Same(c + 1) BY <1>9, <1>14
  <2>2. Link(c)' BY <1>0, <1>1, <1>2, <1>3, <1>5, <1>6, <1>11, <1>14, <2>1, Frame DEF Link
  <2>3. Landed(c)' BY <1>0, <1>1, <1>3, <1>6, <1>11, <1>14, <2>1, Frame DEF Landed, Same
  <2> QED BY <2>2, <2>3
<1>15. ASSUME c \in Receiver PROVE Link(c - 1)' /\ Landed(c - 1)'
  <2> DEFINE u == c - 1
  <2>1. u \in Core /\ u \in Sender /\ u + 1 = c /\ Same(u) BY <1>9, <1>15
  <2> HIDE DEF u
  <2>2. pc[u] # "relay" BY <1>1, <2>1, Forwarding
  <2>3. Link(u) BY <2>1 DEF Inductive, Links
  <2>4. Link(u)' BY <1>6, <1>11, <2>1, <2>2, <2>3, Frame DEF Link, Same
  <2>5. Landed(u)' BY <1>3, <2>1, <2>2 DEF Landed, Same
  <2> QED BY <2>4, <2>5 DEF u
<1> QED BY <1>7, <1>8, <1>9, <1>10, <1>12, <1>13, <1>14, <1>15, Local

\* The compute kernel only frees slots.
LEMMA ComputeStep == ASSUME Inductive, NEW c \in Core, Compute(c) PROVE Inductive'
<1> USE CoreFacts
<1>0. /\ TypeOK /\ Ends /\ Role(c) /\ Buffer(c) /\ Held(c) /\ Full(c)
      /\ c \in Sender => Link(c) /\ Landed(c)
      /\ c \in Receiver => Link(c - 1) /\ Landed(c - 1)
  BY Here
<1>1. /\ pc' = pc /\ round' = round /\ kslot' = kslot /\ vslot' = vslot
      /\ kpushed' = kpushed /\ vpushed' = vpushed /\ qpushed' = qpushed
      /\ credit' = credit /\ flag' = flag /\ credits' = credits /\ writes' = writes
  BY DEF Compute, PopK, PopV, slots, pushed
<1>2. /\ kpopped[c] \in 0..Rounds /\ vpopped[c] \in 0..Rounds /\ Rounds \in Nat
      /\ kpushed[c] \in 0..Rounds /\ vpushed[c] \in 0..Rounds
      /\ kpopped \in [Core -> 0..Rounds] /\ vpopped \in [Core -> 0..Rounds] /\ qpopped \in [Core -> Nat]
  BY <1>0, RoundAssumption DEF TypeOK
<1>3. /\ kpopped' \in [Core -> 0..Rounds] /\ (\A d \in Core : d # c => kpopped'[d] = kpopped[d])
      /\ vpopped' \in [Core -> 0..Rounds] /\ (\A d \in Core : d # c => vpopped'[d] = vpopped[d])
      /\ qpopped' \in [Core -> Nat]
      /\ kpopped[c] <= kpopped'[c] /\ kpopped'[c] <= kpushed[c]
      /\ vpopped[c] <= vpopped'[c] /\ vpopped'[c] <= vpushed[c]
  <2>1. CASE PopK(c)
    <3>1. /\ kpopped[c] + 1 <= kpushed[c] /\ kpopped' = [kpopped EXCEPT ![c] = kpopped[c] + 1]
          /\ vpopped' = vpopped /\ qpopped' = qpopped
      BY <2>1 DEF PopK
    <3>2. kpopped[c] + 1 \in 0..Rounds BY <1>2, <3>1, SMT
    <3>3. vpopped[c] <= vpushed[c] BY <1>0 DEF Buffer
    <3> QED BY <1>2, <3>1, <3>2, <3>3, SMT
  <2>2. CASE PopV(c)
    <3>1. /\ vpopped[c] + 1 <= vpushed[c] /\ vpopped' = [vpopped EXCEPT ![c] = vpopped[c] + 1]
          /\ kpopped' = kpopped
      BY <2>2 DEF PopV
    <3>2. vpopped[c] + 1 \in 0..Rounds BY <1>2, <3>1, SMT
    <3>3. kpopped[c] <= kpushed[c] BY <1>0 DEF Buffer
    <3>4. qpopped' \in [Core -> Nat]
      <4>1. qpopped' = [qpopped EXCEPT ![c] = qpopped[c] + 1] \/ qpopped' = qpopped BY <2>2, Zenon DEF PopV
      <4> QED BY <1>2, <4>1, SMT
    <3>5. /\ vpopped' \in [Core -> 0..Rounds] /\ (\A d \in Core : d # c => vpopped'[d] = vpopped[d])
          /\ vpopped'[c] = vpopped[c] + 1
      BY <1>2, <3>1, <3>2
    <3>6. kpopped[c] <= kpopped'[c] /\ vpopped[c] <= vpopped[c] + 1 BY <1>2, <3>1, SMT
    <3> QED BY <1>2, <3>1, <3>3, <3>4, <3>5, <3>6
  <2> QED BY <2>1, <2>2 DEF Compute
<1>4. TypeOK' BY <1>0, <1>1, <1>3 DEF TypeOK
<1>5. Ends' BY <1>0, <1>1 DEF Ends
<1>6. \A d \in Core : d # c => Same(d) BY <1>1, <1>3 DEF Same
<1>7. Role(c)' BY <1>0, <1>1 DEF Role, Withheld
<1>8. \A d \in Core : /\ KIn(d)' = KIn(d) /\ VIn(d)' = VIn(d) /\ Sent(d)' = Sent(d) /\ Taken(d)' = Taken(d)
                      /\ Issued(d)' = Issued(d) /\ Up(d)' = Up(d) /\ Flying(d)' = Flying(d)
                      /\ Data(d)' = Data(d)
  BY <1>1 DEF KIn, VIn, Sent, Taken, Issued, Withheld, Up, Flying, Data
<1>9. kpopped'[c] \in Int /\ vpopped'[c] \in Int /\ Slots \in Int BY <1>3, BufferAssumption, SMT
<1>10. Buffer(c)' BY <1>0, <1>1, <1>2, <1>3, <1>8, <1>9, SMT DEF Buffer, KSpace, VSpace
<1>11. Held(c)' BY <1>0, <1>1 DEF Held
<1>12. Full(c)'
  <2>1. \A n \in (kpopped'[c] + 1)..kpushed[c] : n \in (kpopped[c] + 1)..kpushed[c] BY <1>2, <1>3, <1>9, SMT
  <2>2. \A n \in (vpopped'[c] + 1)..vpushed[c] : n \in (vpopped[c] + 1)..vpushed[c] BY <1>2, <1>3, <1>9, SMT
  <2> QED BY <1>0, <1>1, <2>1, <2>2 DEF Full
<1>13. \A d \in Sender : (Link(d) => Link(d)') /\ (Landed(d) => Landed(d)')
  <2> TAKE d \in Sender
  <2>1. d \in Core /\ d + 1 \in Core OBVIOUS
  <2>2. Link(d) => Link(d)' BY <1>1, <1>8, <2>1 DEF Link
  <2>3. Landed(d) => Landed(d)' BY <1>1, <1>8, <2>1 DEF Landed
  <2> QED BY <2>2, <2>3
<1> QED BY <1>0, <1>4, <1>5, <1>6, <1>7, <1>10, <1>11, <1>12, <1>13, Local

-----------------------------------------------------------------------------
(* What lands *)

\* A landing changes what a link carries and what its receiver sees, no reader's position.
LEMMA OnLink ==
    ASSUME Inductive, NEW s \in Sender, TypeOK', Ends',
           pc' = pc, round' = round, kpushed' = kpushed, vpushed' = vpushed,
           kpopped' = kpopped, vpopped' = vpopped,
           \A d \in Core : d # s /\ d # s + 1 => Same(d),
           kslot'[s] = kslot[s], vslot'[s] = vslot[s], flag'[s] = flag[s], credits'[s] = credits[s],
           credit'[s + 1] = credit[s + 1], writes'[s + 1] = writes[s + 1],
           Role(s)', Role(s + 1)', Held(s + 1)', Full(s + 1)', Link(s)', Landed(s)'
    PROVE  Inductive'
<1> USE CoreFacts
<1>1. s \in Core /\ s + 1 \in Core /\ s + 1 # s OBVIOUS
<1>2. \A d \in Core : Role(d) /\ Buffer(d) /\ Held(d) /\ Full(d)
  BY DEF Inductive, Roles, Buffers, Contents, SlotsHoldTheirRound, Full
<1>3. \A d \in Core : /\ KIn(d)' = KIn(d) /\ VIn(d)' = VIn(d) /\ Sent(d)' = Sent(d) /\ Taken(d)' = Taken(d)
                      /\ Issued(d)' = Issued(d) /\ Data(d)' = Data(d)
  BY DEF KIn, VIn, Sent, Taken, Issued, Withheld, Data
<1>4. \A d \in Core : Buffer(d)' BY <1>2, <1>3 DEF Buffer, KSpace, VSpace
<1>5. Held(s)' /\ Full(s)' BY <1>1, <1>2 DEF Held, Full
<1>6. \A d \in Core : Role(d)' /\ Held(d)' /\ Full(d)' BY <1>2, <1>5, Frame
<1>7. ASSUME NEW d \in Sender PROVE Link(d)' /\ Landed(d)'
  <2>0. d \in Core /\ d + 1 \in Core /\ d + 1 # d /\ Link(d) /\ Landed(d) BY DEF Inductive, Links, Contents
  <2>1. CASE d = s BY <2>1
  <2>2. CASE d = s + 1
    <3>1. d + 1 # s /\ d + 1 # s + 1 BY <1>1, <2>0, <2>2, SMT
    <3>2. Same(d + 1) BY <2>0, <3>1
    <3>3. Flying(d)' = Flying(d) /\ Up(d + 1)' = Up(d + 1) BY <2>0, <2>2, <3>2, Frame DEF Flying
    <3>4. Link(d)'
      <4>1. credit'[d] = credit[d] /\ writes'[d] = writes[d] /\ credits'[d + 1] = credits[d + 1]
        BY <2>2, <3>2 DEF Same
      <4> QED BY <1>3, <2>0, <3>3, <4>1 DEF Link
    <3>5. Landed(d)' BY <1>3, <2>0, <2>2, <3>2 DEF Landed, Same
    <3> QED BY <3>4, <3>5
  <2>3. CASE d + 1 = s
    <3>0. d \in Int BY <2>0
    <3>1. d # s /\ d # s + 1 BY <2>3, <3>0, SMT
    <3>2. Same(d) BY <2>0, <3>1
    <3>3. Up(d + 1)' = Up(d + 1) /\ Flying(d)' = Flying(d) BY <2>0, <2>3, <3>2, Frame DEF Up
    <3>4. Link(d)'
      <4>1. credit'[d] = credit[d] /\ writes'[d] = writes[d] /\ credits'[d + 1] = credits[d + 1]
        BY <2>3, <3>2 DEF Same
      <4> QED BY <1>3, <2>0, <3>3, <4>1 DEF Link
    <3>5. Landed(d)' BY <1>3, <2>0, <2>3, <3>2 DEF Landed, Same
    <3> QED BY <3>4, <3>5
  <2>4. CASE d # s /\ d # s + 1 /\ d + 1 # s
    <3>1. d + 1 # s + 1 BY <1>1, <2>0, <2>4, SMT
    <3> QED BY <2>0, <2>4, <3>1, LinkFrame
  <2> QED BY <2>1, <2>2, <2>3, <2>4
<1>8. SlotsHoldTheirRound' BY <1>6 DEF SlotsHoldTheirRound, Full
<1> QED BY <1>4, <1>6, <1>7, <1>8 DEF Inductive, Roles, Buffers, Links, Contents

\* A credit that lands moves from the network to the semaphore.
LEMMA CreditLandsStep == ASSUME Inductive, NEW c \in Core, CreditLands(c) PROVE Inductive'
<1> USE CoreFacts
<1> DEFINE s == c - 1
<1>0. TypeOK /\ Ends BY DEF Inductive
<1>1. credits[c] > 0 /\ credits[c] \in Nat BY <1>0, Counters DEF CreditLands
<1>2. c \in Receiver BY <1>1, Positions
<1>3. s \in Core /\ s \in Sender /\ s + 1 = c /\ s # c /\ s # Size /\ c # 1 BY <1>2, SMT
<1>4. credits' = [credits EXCEPT ![c] = credits[c] - 1] /\ credit' = [credit EXCEPT ![s] = credit[s] + 1]
  BY DEF CreditLands
<1> HIDE DEF s
<1>5. /\ pc' = pc /\ round' = round /\ kslot' = kslot /\ vslot' = vslot
      /\ kpushed' = kpushed /\ vpushed' = vpushed /\ qpushed' = qpushed
      /\ kpopped' = kpopped /\ vpopped' = vpopped /\ qpopped' = qpopped
      /\ flag' = flag /\ writes' = writes
  BY DEF CreditLands, slots, pushed, popped
<1>6. credits \in [Core -> Nat] /\ credit \in [Core -> Nat] BY <1>0 DEF TypeOK
<1>7. /\ credits' \in [Core -> Nat] /\ credits'[c] = credits[c] - 1
      /\ \A d \in Core : d # c => credits'[d] = credits[d]
  <2>1. credits[c] - 1 \in Nat BY <1>1, SMT
  <2> QED BY <1>4, <1>6, <2>1
<1>8. /\ credit' \in [Core -> Nat] /\ credit'[s] = credit[s] + 1
      /\ \A d \in Core : d # s => credit'[d] = credit[d]
  <2>1. credit[s] + 1 \in Nat BY <1>3, <1>6, SMT
  <2> QED BY <1>3, <1>4, <1>6, <2>1
<1>9. TypeOK' BY <1>0, <1>5, <1>7, <1>8 DEF TypeOK
<1>10. Ends' BY <1>0, <1>3, <1>5, <1>7, <1>8 DEF Ends
<1>11. \A d \in Core : d # s /\ d # s + 1 => Same(d) BY <1>3, <1>5, <1>7, <1>8 DEF Same
<1>12. pc[c] = "valid"
  <2>1. credit[s] + credits[s + 1] > 0 BY <1>1, <1>3, <1>6, SMT
  <2> QED BY <1>3, <2>1, CreditOut
<1>13. Role(s) /\ Role(c) /\ Held(c) /\ Full(c) /\ Link(s) /\ Landed(s)
  BY <1>3 DEF Inductive, Roles, Contents, Links, SlotsHoldTheirRound, Full
<1>14. Role(s)' /\ Role(s + 1)' BY <1>3, <1>5, <1>7, <1>12, <1>13 DEF Role, Withheld
<1>15. Held(s + 1)' /\ Full(s + 1)' BY <1>3, <1>5, <1>13 DEF Held, Full
<1>16. Landed(s)' BY <1>5, <1>13 DEF Landed, Sent
<1>17. Link(s)'
  <2>1. credit'[s] + credits'[c] = credit[s] + credits[c] /\ Issued(c) = Taken(s) + credit[s] + credits[c]
    BY <1>1, <1>3, <1>6, <1>7, <1>8, <1>13, SMT DEF Link
  <2>2. Issued(c)' = Issued(c) /\ Taken(s)' = Taken(s) /\ Sent(s)' = Sent(s) /\ KIn(c)' = KIn(c)
        /\ Up(c)' = Up(c) /\ Flying(s)' = Flying(s) /\ Data(s)' = Data(s)
    BY <1>5 DEF Issued, Withheld, Taken, Sent, KIn, Up, Flying, Data
  <2>3. Issued(c)' = Taken(s)' + credit'[s] + credits'[c]
    BY <1>0, <1>1, <1>3, <1>6, <1>7, <1>8, <2>1, <2>2, Counters, SMT
  <2> QED BY <1>3, <1>5, <1>13, <2>2, <2>3 DEF Link
<1> QED BY <1>3, <1>5, <1>7, <1>8, <1>9, <1>10, <1>11, <1>14, <1>15, <1>16, <1>17, OnLink

\* The flag moves from the network to the receiver, which waits for it.
LEMMA FlagLandsStep == ASSUME Inductive, NEW s \in Core, FlagLands(s) PROVE Inductive'
<1> USE CoreFacts
<1>0. TypeOK /\ Ends BY DEF Inductive
<1>1. Valid \in writes[s] BY DEF FlagLands
<1>2. s \in Sender /\ s + 1 \in Core /\ s + 1 # s BY <1>1, Positions
<1>3. pc[s + 1] = "valid" /\ ~flag[s + 1] BY <1>1, <1>2, Announced
<1>4. pc[s] # "relay" BY <1>1, <1>2, Forwarding
<1>5. /\ pc' = pc /\ round' = round /\ kslot' = kslot /\ vslot' = vslot
      /\ kpushed' = kpushed /\ vpushed' = vpushed /\ qpushed' = qpushed
      /\ kpopped' = kpopped /\ vpopped' = vpopped /\ qpopped' = qpopped
      /\ credit' = credit /\ credits' = credits
  BY DEF FlagLands, slots, pushed, popped
<1>6. /\ writes' \in [Core -> SUBSET [what : {"k", "v", "valid"}, slot : 0..(Slots - 1)]]
      /\ writes'[s] = writes[s] \ {Valid} /\ (\A d \in Core : d # s => writes'[d] = writes[d])
  BY <1>0 DEF TypeOK, FlagLands
<1>7. /\ flag' \in [Core -> BOOLEAN] /\ flag'[s + 1] /\ (\A d \in Core : d # s + 1 => flag'[d] = flag[d])
  BY <1>0, <1>2 DEF TypeOK, FlagLands
<1>8. TypeOK' BY <1>0, <1>5, <1>6, <1>7 DEF TypeOK
<1>9. Ends' BY <1>0, <1>2, <1>5, <1>6 DEF Ends
<1>10. \A d \in Core : d # s /\ d # s + 1 => Same(d) BY <1>5, <1>6, <1>7 DEF Same
<1>11. Role(s) /\ Role(s + 1) /\ Held(s + 1) /\ Full(s + 1) /\ Link(s) /\ Landed(s)
  BY <1>2 DEF Inductive, Roles, Contents, Links, SlotsHoldTheirRound, Full
<1>12. Role(s)' BY <1>2, <1>5, <1>6, <1>7, <1>11 DEF Role, Withheld
<1>13. Role(s + 1)' BY <1>3, <1>5, <1>11 DEF Role, Withheld
<1>14. Held(s + 1)' /\ Full(s + 1)' BY <1>5, <1>11 DEF Held, Full
<1>15. Landed(s)' BY <1>4, <1>5, <1>11 DEF Landed, Sent
<1>16. Link(s)'
  <2>1. Issued(s + 1)' = Issued(s + 1) /\ Taken(s)' = Taken(s) /\ Sent(s)' = Sent(s) /\ KIn(s + 1)' = KIn(s + 1)
    BY <1>5 DEF Issued, Withheld, Taken, Sent, KIn
  <2>2. Up(s + 1)' = 1 /\ Up(s + 1) = 0 /\ Flying(s)' = 0 /\ Flying(s) = 1
    BY <1>1, <1>3, <1>5, <1>6, <1>7 DEF Up, Flying
  <2>3. Sent(s) = KIn(s + 1) + Up(s + 1) + Flying(s) BY <1>11 DEF Link
  <2>4. Sent(s)' = KIn(s + 1)' + Up(s + 1)' + Flying(s)'
    BY <1>0, <1>2, <2>1, <2>2, <2>3, Counters, SMT
  <2> QED BY <1>4, <1>5, <1>6, <1>11, <2>1, <2>4 DEF Link
<1> QED BY <1>2, <1>5, <1>6, <1>7, <1>8, <1>9, <1>10, <1>12, <1>13, <1>14, <1>15, <1>16, OnLink

\* Data in flight is that of the sender's round, on its way to a slot reserved for it.
LEMMA InFlight ==
    ASSUME Inductive, NEW s \in Sender, NEW w \in writes[s], w # Valid
    PROVE  /\ pc[s] = "relay" /\ pc[s + 1] = "valid" /\ round[s + 1] = round[s] /\ w \in Data(s)
           /\ w.slot = Slot(round[s])
<1>1. Link(s) BY DEF Inductive, Links
<1>2. pc[s] = "relay" /\ w \in Data(s) BY <1>1 DEF Link
<1>3. w.slot = Slot(round[s]) BY <1>2 DEF Data
<1> QED BY <1>2, <1>3, Forwarding

\* A slot that is reserved holds nothing the compute kernel still has to pop.
LEMMA Reserved ==
    ASSUME Inductive, NEW c \in Core, pc[c] = "valid"
    PROVE  /\ \A n \in (kpopped[c] + 1)..kpushed[c] : Slot(n) # Slot(round[c]) /\ Slot(n) \in 0..(Slots - 1)
           /\ \A n \in (vpopped[c] + 1)..vpushed[c] : Slot(n) # Slot(round[c]) /\ Slot(n) \in 0..(Slots - 1)
<1>0. TypeOK /\ Buffer(c) BY DEF Inductive, Buffers
<1>1. kpopped[c] \in 0..Rounds /\ vpopped[c] \in 0..Rounds BY <1>0 DEF TypeOK
<1>2. round[c] \in Nat /\ Rounds \in Nat /\ Slots \in Nat BY <1>0, Counters, BufferAssumption
<1>3. kpushed[c] = round[c] - 1 /\ vpushed[c] = round[c] - 1 BY <1>0 DEF Buffer, KIn, VIn
<1>4. kpushed[c] - kpopped[c] < Slots /\ vpushed[c] - vpopped[c] < Slots BY <1>0 DEF Buffer, KSpace, VSpace
<1>5. ASSUME NEW n \in (kpopped[c] + 1)..kpushed[c] PROVE Slot(n) # Slot(round[c]) /\ Slot(n) \in 0..(Slots - 1)
  <2>1. n \in Nat /\ n < round[c] /\ round[c] < n + Slots BY <1>1, <1>2, <1>3, <1>4, SMT
  <2> QED BY <1>2, <2>1, SlotsDiffer, SlotIndex
<1>6. ASSUME NEW n \in (vpopped[c] + 1)..vpushed[c] PROVE Slot(n) # Slot(round[c]) /\ Slot(n) \in 0..(Slots - 1)
  <2>1. n \in Nat /\ n < round[c] /\ round[c] < n + Slots BY <1>1, <1>2, <1>3, <1>4, SMT
  <2> QED BY <1>2, <2>1, SlotsDiffer, SlotIndex
<1> QED BY <1>5, <1>6

\* The chunk that lands is the one its receiver asked for, in a slot nobody uses.
LEMMA DataLandsStep == ASSUME Inductive, NEW s \in Core, DataLands(s) PROVE Inductive'
<1> USE CoreFacts
<1>0. TypeOK /\ Ends BY DEF Inductive
<1>1. PICK w \in writes[s] :
        /\ writes' = [writes EXCEPT ![s] = @ \ {w}]
        /\ \/ w.what = "k" /\ kslot' = [kslot EXCEPT ![s + 1][w.slot] = kslot[s][w.slot]] /\ vslot' = vslot
           \/ w.what = "v" /\ vslot' = [vslot EXCEPT ![s + 1][w.slot] = vslot[s][w.slot]] /\ kslot' = kslot
  BY DEF DataLands
<1> DEFINE b == Slot(round[s])
<1>2. s \in Sender /\ s + 1 \in Core /\ s + 1 # s BY Positions
<1>3. w # Valid
  <2>1. w.what = "k" \/ w.what = "v" BY <1>1
  <2>2. Valid.what = "valid" BY DEF Valid
  <2> QED BY <2>1, <2>2
<1>4. pc[s] = "relay" /\ pc[s + 1] = "valid" /\ round[s + 1] = round[s] /\ w \in Data(s) /\ w.slot = b
  BY <1>2, <1>3, InFlight
<1>5. /\ pc' = pc /\ round' = round /\ flag' = flag
      /\ kpushed' = kpushed /\ vpushed' = vpushed /\ qpushed' = qpushed
      /\ kpopped' = kpopped /\ vpopped' = vpopped /\ qpopped' = qpopped
      /\ credit' = credit /\ credits' = credits
  BY DEF DataLands, pushed, popped
<1>6. /\ writes' \in [Core -> SUBSET [what : {"k", "v", "valid"}, slot : 0..(Slots - 1)]]
      /\ writes'[s] = writes[s] \ {w} /\ (\A d \in Core : d # s => writes'[d] = writes[d])
  <2>1. writes \in [Core -> SUBSET [what : {"k", "v", "valid"}, slot : 0..(Slots - 1)]]
        /\ writes' = [writes EXCEPT ![s] = writes[s] \ {w}]
    BY <1>0, <1>1 DEF TypeOK
  <2> QED BY <2>1
<1>7. b \in 0..(Slots - 1) /\ kslot[s][b] = round[s] /\ vslot[s][b] = round[s] /\ round[s] \in 0..Rounds
  <2>1. Held(s) BY <1>2 DEF Inductive, Contents
  <2>2. round[s] \in Nat /\ round[s] <= Rounds /\ Rounds \in Nat BY <1>0, Counters
  <2> QED BY <1>4, <2>1, <2>2, SlotIndex, SMT DEF Held
<1>8. kslot \in [Core -> [0..(Slots - 1) -> 0..Rounds]] /\ vslot \in [Core -> [0..(Slots - 1) -> 0..Rounds]]
  BY <1>0 DEF TypeOK
<1> HIDE DEF b
<1>9. /\ kslot' \in [Core -> [0..(Slots - 1) -> 0..Rounds]]
      /\ \A d \in Core : d # s + 1 => kslot'[d] = kslot[d]
      /\ \A i \in 0..(Slots - 1) : i # b => kslot'[s + 1][i] = kslot[s + 1][i]
      /\ w.what = "k" => kslot'[s + 1][b] = round[s]
      /\ w.what # "k" => kslot' = kslot
  <2>1. CASE w.what = "k"
    <3>1. kslot' = [kslot EXCEPT ![s + 1] = [kslot[s + 1] EXCEPT ![b] = round[s]]] BY <1>1, <1>4, <1>7, <2>1
    <3> QED BY <1>2, <1>7, <1>8, <2>1, <3>1
  <2>2. CASE w.what # "k"
    <3>1. kslot' = kslot BY <1>1, <2>2
    <3> QED BY <1>8, <2>2, <3>1
  <2> QED BY <2>1, <2>2
<1>10. /\ vslot' \in [Core -> [0..(Slots - 1) -> 0..Rounds]]
       /\ \A d \in Core : d # s + 1 => vslot'[d] = vslot[d]
       /\ \A i \in 0..(Slots - 1) : i # b => vslot'[s + 1][i] = vslot[s + 1][i]
       /\ w.what = "v" => vslot'[s + 1][b] = round[s]
       /\ w.what # "v" => vslot' = vslot
  <2>1. CASE w.what = "v"
    <3>1. vslot' = [vslot EXCEPT ![s + 1] = [vslot[s + 1] EXCEPT ![b] = round[s]]] BY <1>1, <1>4, <1>7, <2>1
    <3> QED BY <1>2, <1>7, <1>8, <2>1, <3>1
  <2>2. CASE w.what # "v"
    <3>1. vslot' = vslot BY <1>1, <2>2
    <3> QED BY <1>8, <2>2, <3>1
  <2> QED BY <2>1, <2>2
<1>11. TypeOK' BY <1>0, <1>5, <1>6, <1>9, <1>10 DEF TypeOK
<1>12. Ends' BY <1>0, <1>2, <1>5, <1>6 DEF Ends
<1>13. \A d \in Core : d # s /\ d # s + 1 => Same(d) BY <1>5, <1>6, <1>9, <1>10 DEF Same
<1>14. Role(s) /\ Role(s + 1) /\ Full(s + 1) /\ Link(s) /\ Landed(s)
  BY <1>2 DEF Inductive, Roles, Contents, Links, SlotsHoldTheirRound, Full
<1>15. Role(s)' /\ Role(s + 1)' BY <1>2, <1>4, <1>5, <1>14 DEF Role, Withheld
<1>16. Held(s + 1)' BY <1>4, <1>5 DEF Held
<1>17. Full(s + 1)'
  <2>1. /\ \A n \in (kpopped[s + 1] + 1)..kpushed[s + 1] : Slot(n) # b /\ Slot(n) \in 0..(Slots - 1)
        /\ \A n \in (vpopped[s + 1] + 1)..vpushed[s + 1] : Slot(n) # b /\ Slot(n) \in 0..(Slots - 1)
    BY <1>2, <1>4, Reserved DEF b
  <2>2. \A n \in (kpopped[s + 1] + 1)..kpushed[s + 1] : kslot'[s + 1][Slot(n)] = n
    BY <1>9, <1>14, <2>1 DEF Full
  <2>3. \A n \in (vpopped[s + 1] + 1)..vpushed[s + 1] : vslot'[s + 1][Slot(n)] = n
    BY <1>10, <1>14, <2>1 DEF Full
  <2>4. \A n : Slot(n)' = Slot(n) BY DEF Slot
  <2> QED BY <1>5, <2>2, <2>3, <2>4 DEF Full
<1>18. Link(s)'
  <2>1. Issued(s + 1)' = Issued(s + 1) /\ Taken(s)' = Taken(s) /\ Sent(s)' = Sent(s) /\ KIn(s + 1)' = KIn(s + 1)
        /\ Up(s + 1)' = Up(s + 1) /\ Data(s)' = Data(s)
    BY <1>5 DEF Issued, Withheld, Taken, Sent, KIn, Up, Data
  <2>2. Flying(s)' = Flying(s) BY <1>3, <1>6 DEF Flying
  <2> QED BY <1>4, <1>5, <1>6, <1>14, <2>1, <2>2 DEF Link
<1>19. Landed(s)'
  <2>1. Sent(s)' = round[s] - 1 /\ round[s] \in Nat BY <1>0, <1>4, <1>5, Counters DEF Sent
  <2>2. Sent(s)' # round'[s + 1] BY <1>4, <1>5, <2>1, SMT
  <2>3. /\ [what |-> "k", slot |-> b] \notin writes[s] => kslot[s + 1][b] = round[s]
        /\ [what |-> "v", slot |-> b] \notin writes[s] => vslot[s + 1][b] = round[s]
    BY <1>4, <1>14 DEF Landed, b
  <2>4. w.what = "k" \/ w # [what |-> "k", slot |-> b] OBVIOUS
  <2>5. w.what = "v" \/ w # [what |-> "v", slot |-> b] OBVIOUS
  <2>6. [what |-> "k", slot |-> b] \notin writes'[s] => kslot'[s + 1][b] = round[s]
    BY <1>6, <1>9, <2>3, <2>4
  <2>7. [what |-> "v", slot |-> b] \notin writes'[s] => vslot'[s + 1][b] = round[s]
    BY <1>6, <1>10, <2>3, <2>5
  <2> QED BY <1>5, <2>2, <2>6, <2>7 DEF Landed, b
<1> QED BY <1>2, <1>5, <1>6, <1>9, <1>10, <1>11, <1>12, <1>13, <1>15, <1>16, <1>17, <1>18, <1>19, OnLink

-----------------------------------------------------------------------------
(* The invariant and the theorems *)

\* Nothing has been asked for, sent or pushed.
LEMMA InductiveInit == Init => Inductive
<1> SUFFICES ASSUME Init PROVE Inductive OBVIOUS
<1> USE CoreFacts
<1>0. Rounds \in Nat /\ 1 \in 1..Rounds /\ 0 \in 0..Rounds /\ Slots \in Nat /\ Slots > 0
  BY RoundAssumption, BufferAssumption, SMT
<1>1. TypeOK
  <2>1. pc \in [Core -> Place] /\ round \in [Core -> 1..Rounds] BY <1>0 DEF Init, Place
  <2>2. kslot \in [Core -> [0..(Slots - 1) -> 0..Rounds]] /\ vslot \in [Core -> [0..(Slots - 1) -> 0..Rounds]]
    BY <1>0 DEF Init
  <2>3. /\ kpushed \in [Core -> 0..Rounds] /\ vpushed \in [Core -> 0..Rounds] /\ qpushed \in [Core -> Nat]
        /\ kpopped \in [Core -> 0..Rounds] /\ vpopped \in [Core -> 0..Rounds] /\ qpopped \in [Core -> Nat]
    BY <1>0 DEF Init
  <2>4. /\ credit \in [Core -> Nat] /\ flag \in [Core -> BOOLEAN] /\ credits \in [Core -> Nat]
        /\ writes \in [Core -> SUBSET [what : {"k", "v", "valid"}, slot : 0..(Slots - 1)]]
    BY DEF Init
  <2> QED BY <2>1, <2>2, <2>3, <2>4 DEF TypeOK
<1>2. Ends BY DEF Init, Ends
<1>3. \A c \in Core : Role(c) BY DEF Init, Role
<1>4. \A c \in Core : /\ KIn(c) = 0 /\ VIn(c) = 0 /\ Sent(c) = 0 /\ Taken(c) = 0
                      /\ Issued(c) = 0 /\ Up(c) = 0 /\ Flying(c) = 0
  BY SMT DEF Init, KIn, VIn, Sent, Taken, Issued, Up, Flying
<1>5. \A c \in Core : Buffer(c) BY <1>0, <1>4, SMT DEF Init, Buffer
<1>6. \A c \in Sender : Link(c)
  <2> TAKE c \in Sender
  <2>1. c \in Core /\ c + 1 \in Core OBVIOUS
  <2>2. credit[c] = 0 /\ credits[c + 1] = 0 /\ writes[c] = {} BY <2>1 DEF Init
  <2>3. Issued(c + 1) = 0 /\ Taken(c) = 0 /\ Sent(c) = 0 /\ KIn(c + 1) = 0 /\ Up(c + 1) = 0 /\ Flying(c) = 0
    BY <1>4, <2>1
  <2> QED BY <2>2, <2>3, SMT DEF Link
<1>7. \A c \in Core : Held(c) BY DEF Init, Held
<1>8. \A c \in Sender : Landed(c) BY DEF Init, Landed
<1>9. SlotsHoldTheirRound BY SMT DEF Init, SlotsHoldTheirRound
<1> QED BY <1>1, <1>2, <1>3, <1>5, <1>6, <1>7, <1>8, <1>9 DEF Inductive, Roles, Buffers, Links, Contents

\* Every step of a reader, the compute kernel or the network keeps the invariant.
LEMMA InductiveStep == Inductive /\ [Next]_vars => Inductive'
<1> SUFFICES ASSUME Inductive, [Next]_vars PROVE Inductive' OBVIOUS
<1>1. CASE UNCHANGED vars
  <2>1. /\ pc' = pc /\ round' = round /\ kslot' = kslot /\ vslot' = vslot
        /\ kpushed' = kpushed /\ vpushed' = vpushed /\ qpushed' = qpushed
        /\ kpopped' = kpopped /\ vpopped' = vpopped /\ qpopped' = qpopped
        /\ credit' = credit /\ flag' = flag /\ credits' = credits /\ writes' = writes
    BY <1>1 DEF vars
  <2>2. TypeOK' /\ Ends' BY <2>1 DEF Inductive, TypeOK, Ends
  <2>3. \A d \in Core : Same(d) BY <2>1 DEF Same
  <2>4. \A d \in Core : Role(d)' /\ Buffer(d)' /\ Held(d)' /\ Full(d)'
    BY <2>3, Frame DEF Inductive, Roles, Buffers, Contents, SlotsHoldTheirRound, Full
  <2>5. \A d \in Sender : Link(d)' /\ Landed(d)'
    BY <2>3, LinkFrame, CoreFacts DEF Inductive, Links, Contents
  <2>6. SlotsHoldTheirRound' BY <2>4 DEF SlotsHoldTheirRound, Full
  <2> QED BY <2>2, <2>4, <2>5, <2>6 DEF Inductive, Roles, Buffers, Links, Contents
<1>2. CASE Injector BY <1>2, InjectKStep, InjectVStep DEF Injector
<1>3. ASSUME NEW c \in Core, Reader(c) PROVE Inductive'
  BY <1>3, ReserveStep, CreditPrevStep, ReceiveKStep, PushQStep, ReceiveVStep, ForwardStep, RelayStep, ExitStep
  DEF Reader
<1>4. ASSUME NEW c \in Core, Compute(c) PROVE Inductive' BY <1>4, ComputeStep
<1>5. ASSUME NEW c \in Core, Lands(c) PROVE Inductive'
  BY <1>5, CreditLandsStep, DataLandsStep, FlagLandsStep DEF Lands
<1> QED BY <1>1, <1>2, <1>3, <1>4, <1>5 DEF Next

\* The invariant holds in every reachable state.
LEMMA Invariance == Spec => []Inductive
BY InductiveInit, InductiveStep, PTL DEF Spec

\* Every variable keeps its type: no core pushes or pops more than its rounds, for chains,
\* buffers and unit lists of every size.
THEOREM TypeCorrect == Spec => []TypeOK
<1>1. Inductive => TypeOK BY DEF Inductive
<1> QED BY <1>1, Invariance, PTL

\* R7: the compute kernel of every core finds in each slot the chunk of that round, whether
\* the core read it from DRAM or got it through the chain, however writes are delayed.
THEOREM SlotsSound == Spec => []SlotsHoldTheirRound
<1>1. Inductive => SlotsHoldTheirRound BY DEF Inductive
<1> QED BY <1>1, Invariance, PTL

\* forward_round writes only into slots its receiver has reserved for the same round: the
\* write pointers of the two ends agree although each computes its own.
THEOREM LandsReserved == Spec => []LandsInReservedSlot
<1>1. Inductive => LandsInReservedSlot
  <2> SUFFICES ASSUME Inductive, NEW c \in Sender, NEW w \in writes[c] \ {Valid}
               PROVE  /\ pc[c + 1] = "valid" /\ round[c + 1] = round[c] /\ w.slot = Slot(round[c + 1])
                      /\ KSpace(c + 1) /\ VSpace(c + 1)
    BY DEF LandsInReservedSlot
  <2>1. pc[c + 1] = "valid" /\ round[c + 1] = round[c] /\ w.slot = Slot(round[c]) BY InFlight
  <2>2. Buffer(c + 1) BY CoreFacts DEF Inductive, Buffers
  <2> QED BY <2>1, <2>2 DEF Buffer
<1> QED BY <1>1, Invariance, PTL

\* The credit semaphore never counts past one, so the equality wait of wd_wait_credit is
\* never jumped over.
THEOREM CreditNeverDoubled == Spec => []OneCredit
<1>1. Inductive => OneCredit BY CreditOut DEF OneCredit
<1> QED BY <1>1, Invariance, PTL

\* R8: a reader that ended leaves its semaphores at their initial values and nothing in
\* flight to or from its core.
THEOREM ExitClean == Spec => []CleanExit
<1>1. Inductive => CleanExit
  <2> SUFFICES ASSUME Inductive, NEW c \in Core, pc[c] = "done"
               PROVE  /\ credit[c] = 0 /\ ~flag[c] /\ credits[c] = 0 /\ writes[c] = {}
                      /\ c \in Sender => credits[c + 1] = 0
                      /\ c \in Receiver => writes[c - 1] = {}
    BY DEF CleanExit
  <2> USE CoreFacts
  <2>1. TypeOK /\ Ends /\ Role(c) BY DEF Inductive, Roles
  <2>2. ~flag[c] /\ credits[c] = 0 /\ writes[c] = {} /\ round[c] = Rounds BY <2>1 DEF Role
  <2>3. ASSUME c \in Sender PROVE credit[c] = 0 /\ credits[c + 1] = 0
    <3>1. c + 1 \in Core BY <2>3
    <3>2. Issued(c + 1) = Rounds + credit[c] + credits[c + 1]
      BY <2>3 DEF Inductive, Links, Link, Taken, Sent
    <3>3. Issued(c + 1) \in Nat /\ Issued(c + 1) <= round[c + 1] /\ round[c + 1] <= Rounds /\ round[c + 1] \in Nat
          /\ Rounds \in Nat /\ credit[c] \in Nat /\ credits[c + 1] \in Nat
      BY <2>1, <3>1, Counters
    <3> QED BY <3>2, <3>3, SMT
  <2>4. c = Size => credit[c] = 0 BY <2>1 DEF Ends
  <2>5. ASSUME c \in Receiver PROVE writes[c - 1] = {}
    <3> DEFINE u == c - 1
    <3>1. u \in Sender /\ u + 1 = c BY <2>5
    <3> HIDE DEF u
    <3>2. pc[u] # "relay" BY <3>1, Forwarding
    <3>3. Valid \notin writes[u] BY <3>1, Announced
    <3>4. writes[u] = {} BY <3>1, <3>2, <3>3 DEF Inductive, Links, Link
    <3> QED BY <3>4 DEF u
  <2> QED BY <2>2, <2>3, <2>4, <2>5
<1> QED BY <1>1, Invariance, PTL

-----------------------------------------------------------------------------
(* Nobody waits for ever *)

\* The guards of the actions: what lets a reader, a compute kernel or a message go on.
ReaderCanGo(c) ==
    \/ pc[c] = "reserve" /\ KSpace(c) /\ (c # 1 => VSpace(c))
    \/ pc[c] = "credit"
    \/ pc[c] = "valid" /\ flag[c]
    \/ pc[c] = "q" /\ credits[c] = 0 /\ qpushed[c] - qpopped[c] < QUnits
    \/ pc[c] = "v" /\ (c = 1 => VSpace(c))
    \/ pc[c] = "forward" /\ credit[c] = 1
    \/ pc[c] = "relay" /\ writes[c] = {}
    \/ pc[c] = "exit" /\ writes[c] = {} /\ credits[c] = 0
ComputeCanGo(c) ==
    \/ /\ kpopped[c] = vpopped[c] /\ kpopped[c] + 1 <= kpushed[c]
       /\ kpopped[c] + 1 \in First => qpopped[c] < qpushed[c]
    \/ vpopped[c] + 1 = kpopped[c] /\ vpopped[c] + 1 <= vpushed[c]
MessageCanLand(c) == credits[c] > 0 \/ writes[c] # {}

AllEnded == \A c \in Core : pc[c] = "done" /\ vpopped[c] = Rounds
NobodyStuck == TestHang \/ AllEnded \/ \E c \in Core : ReaderCanGo(c) \/ ComputeCanGo(c) \/ MessageCanLand(c)

\* Units that begin in the first n rounds, and whether the last of them is over with round n.
Began(n) == Cardinality({m \in First : m <= n})
UnitOver(n) == n = Rounds \/ n + 1 \in First

\* Rounds whose Q, if they begin a unit, the reader has pushed.
QIn(c) == IF pc[c] \in {"reserve", "credit", "valid", "q"} THEN round[c] - 1 ELSE round[c]

\* The compute kernel takes K and V in turn; Q is pushed and popped unit by unit.
InTurn(c) ==
    /\ kpopped[c] = vpopped[c] \/ kpopped[c] = vpopped[c] + 1
    /\ pc[c] = "q" => round[c] \in First
    /\ qpushed[c] = Began(QIn(c))
    /\ qpopped[c] = Began(vpopped[c]) - (IF UnitOver(vpopped[c]) THEN 0 ELSE 1)
UnitsInTurn == \A c \in Core : InTurn(c)

\* Units are counted round by round.
LEMMA BeganFacts ==
    /\ Began(0) = 0
    /\ \A n \in Nat : Began(n) \in Nat
    /\ \A n \in Nat : n + 1 \in First => Began(n + 1) = Began(n) + 1
    /\ \A n \in Nat : n + 1 \notin First => Began(n + 1) = Began(n)
    /\ \A m, n \in Nat : m <= n => Began(m) <= Began(n)
<1> DEFINE S(n) == {m \in First : m <= n}
<1>1. Rounds \in Nat /\ First \subseteq 1..Rounds /\ IsFiniteSet(1..Rounds)
  BY RoundAssumption, FS_Interval
<1>2. First \subseteq Nat /\ IsFiniteSet(First) /\ \A m \in First : 1 <= m
  <2>1. IsFiniteSet(First) BY <1>1, FS_Subset
  <2> QED BY <1>1, <2>1, SMT
<1>3. \A n : S(n) \subseteq First /\ \A m : m \in S(n) <=> m \in First /\ m <= n OBVIOUS
<1>4. \A n : Began(n) = Cardinality(S(n)) BY DEF Began
<1> HIDE DEF S
<1>5. S(0) = {}
  <2>1. \A m \in First : ~(m <= 0) BY <1>2
  <2> QED BY <1>3, <2>1
<1>6. ASSUME NEW n \in Nat, n + 1 \in First PROVE S(n + 1) = S(n) \cup {n + 1} /\ n + 1 \notin S(n)
  <2>1. \A m \in First : m <= n + 1 <=> m <= n \/ m = n + 1 BY <1>2
  <2>2. ~(n + 1 <= n) /\ n + 1 <= n + 1 OBVIOUS
  <2> QED BY <1>3, <1>6, <2>1, <2>2
<1>7. ASSUME NEW n \in Nat, n + 1 \notin First PROVE S(n + 1) = S(n)
  <2>1. \A m \in First : m <= n + 1 <=> m <= n BY <1>2, <1>7
  <2> QED BY <1>3, <2>1
<1>8. ASSUME NEW m \in Nat, NEW n \in Nat, m <= n PROVE S(m) \subseteq S(n)
  <2>1. \A x \in First : x <= m => x <= n BY <1>2, <1>8
  <2> QED BY <1>3, <2>1
<1>9. \A n : IsFiniteSet(S(n)) /\ Cardinality(S(n)) \in Nat BY <1>2, <1>3, FS_Subset, FS_CardinalityType
<1>10. Began(0) = 0 BY <1>4, <1>5, FS_EmptySet
<1>11. ASSUME NEW n \in Nat, n + 1 \in First PROVE Began(n + 1) = Began(n) + 1
  <2>1. Cardinality(S(n) \cup {n + 1}) = Cardinality(S(n)) + 1 BY <1>6, <1>9, <1>11, FS_AddElement
  <2> QED BY <1>6, <1>4, <1>11, <2>1
<1>12. \A n \in Nat : n + 1 \notin First => Began(n + 1) = Began(n) BY <1>4, <1>7
<1>13. ASSUME NEW m \in Nat, NEW n \in Nat, m <= n PROVE Began(m) <= Began(n)
  <2>1. S(m) \in SUBSET S(n) BY <1>8, <1>13
  <2>2. Cardinality(S(m)) <= Cardinality(S(n)) BY <1>9, <2>1, FS_Subset
  <2> QED BY <1>4, <2>2
<1> QED BY <1>4, <1>9, <1>10, <1>11, <1>12, <1>13

\* A core whose buffers' counts stay.
LEMMA TurnKept ==
    ASSUME UnitsInTurn, NEW d \in Core, pc'[d] = "q" => round'[d] \in First,
           kpopped'[d] = kpopped[d], vpopped'[d] = vpopped[d], qpopped'[d] = qpopped[d],
           qpushed'[d] = Began(QIn(d)')
    PROVE  InTurn(d)'
<1>1. InTurn(d) BY DEF UnitsInTurn
<1>2. Began(vpopped[d])' = Began(vpopped[d]) /\ UnitOver(vpopped[d])' = UnitOver(vpopped[d])
  BY DEF Began, UnitOver
<1>3. Began(QIn(d))' = Began(QIn(d)') BY DEF Began
<1> QED BY <1>1, <1>2, <1>3 DEF InTurn

\* Each reader pushes Q with the first K of a unit and counts on from there.
LEMMA ReaderTurns ==
    ASSUME Inductive, UnitsInTurn, NEW c \in Core, Reader(c) \/ (c = 1 /\ Injector)
    PROVE  UnitsInTurn'
<1>1. /\ popped' = popped /\ TypeOK /\ TypeOK' /\ Roles
  <2>1. [Next]_vars BY CoreFacts DEF Next
  <2>2. TypeOK /\ Roles /\ TypeOK' BY <2>1, InductiveStep DEF Inductive
  <2> QED BY <2>2 DEF Reader, Injector, Reserve, CreditPrev, ReceiveK, PushQ, ReceiveV, Forward, Relay, Exit,
                      InjectK, InjectV
<1>2. kpopped' = kpopped /\ vpopped' = vpopped /\ qpopped' = qpopped BY <1>1 DEF popped
<1>3. \A d \in Core : InTurn(d) BY DEF UnitsInTurn
<1>4. pc \in [Core -> Place] /\ round \in [Core -> 1..Rounds] /\ Rounds \in Nat /\ qpushed \in [Core -> Nat]
  BY <1>1, RoundAssumption DEF TypeOK
<1>5. round[c] \in Nat /\ round[c] - 1 \in Nat /\ (round[c] - 1) + 1 = round[c] BY <1>4, SMT
<1> DEFINE Moves == /\ pc'[c] = "q" => round'[c] \in First
                    /\ qpushed'[c] = Began(QIn(c)')
                    /\ \A d \in Core : d # c => pc'[d] = pc[d] /\ round'[d] = round[d] /\ qpushed'[d] = qpushed[d]
<1>6. ASSUME qpushed' = qpushed, NextRound(c), pc[c] \notin {"reserve", "credit", "valid", "q", "exit", "done"}
      PROVE  Moves
  <2>1. /\ pc'[c] \in {"reserve", "exit"} /\ (pc'[c] = "exit" => round'[c] = Rounds /\ round[c] = Rounds)
        /\ pc'[c] = "reserve" => round'[c] = round[c] + 1
        /\ \A d \in Core : d # c => pc'[d] = pc[d] /\ round'[d] = round[d]
    BY <1>1, <1>6, NextRoundFacts
  <2>2. QIn(c)' = round[c] /\ QIn(c) = round[c] BY <1>5, <1>6, <2>1, SMT DEF QIn
  <2> QED BY <1>3, <1>6, <2>1, <2>2 DEF InTurn
<1>7. ASSUME NEW to \in Place, Goes(c, to), qpushed' = qpushed,
             to = "q" => round[c] \in First,
             Began(IF to \in {"reserve", "credit", "valid", "q"} THEN round[c] - 1 ELSE round[c]) = Began(QIn(c))
      PROVE  Moves
  <2>1. pc'[c] = to /\ round' = round /\ \A d \in Core : d # c => pc'[d] = pc[d] BY <1>1, <1>7, GoesFacts
  <2>2. QIn(c)' = IF to \in {"reserve", "credit", "valid", "q"} THEN round[c] - 1 ELSE round[c]
    BY <2>1 DEF QIn
  <2> QED BY <1>3, <1>7, <2>1, <2>2 DEF InTurn
<1>8. ASSUME PushQ(c) PROVE Moves
  <2>1. Goes(c, "v") /\ qpushed' = [qpushed EXCEPT ![c] = qpushed[c] + 1] /\ pc[c] = "q" BY <1>8 DEF PushQ
  <2>2. pc'[c] = "v" /\ round' = round /\ \A d \in Core : d # c => pc'[d] = pc[d]
    BY <1>1, <2>1, GoesFacts DEF Place
  <2>3. QIn(c) = round[c] - 1 /\ QIn(c)' = round[c] BY <2>1, <2>2 DEF QIn
  <2>4. Began(round[c]) = Began(round[c] - 1) + 1 BY <1>3, <1>5, <2>1, BeganFacts DEF InTurn
  <2>5. qpushed'[c] = qpushed[c] + 1 /\ \A d \in Core : d # c => qpushed'[d] = qpushed[d] BY <1>4, <2>1
  <2>6. qpushed[c] = Began(round[c] - 1) BY <1>3, <2>3 DEF InTurn
  <2>7. pc'[c] # "q" BY <2>2
  <2> QED BY <2>2, <2>3, <2>4, <2>5, <2>6, <2>7
<1> HIDE DEF Moves
<1>9. ASSUME Reserve(c) \/ CreditPrev(c) PROVE Moves
  <2>1. \E to \in {"credit", "valid"} : Goes(c, to) BY <1>9 DEF Reserve, CreditPrev
  <2>2. qpushed' = qpushed /\ QIn(c) = round[c] - 1 BY <1>9 DEF Reserve, CreditPrev, pushed, QIn
  <2> QED BY <1>7, <2>1, <2>2 DEF Place
<1>10. ASSUME ReceiveK(c) \/ (c = 1 /\ InjectK) PROVE Moves
  <2>1. Goes(c, AfterK(c)) /\ qpushed' = qpushed /\ QIn(c) = round[c] - 1
    BY <1>10 DEF ReceiveK, InjectK, QIn
  <2>2. CASE round[c] \in First BY <1>7, <2>1, <2>2 DEF AfterK, Place
  <2>3. CASE round[c] \notin First
    <3>1. Began(round[c]) = Began(round[c] - 1) BY <1>5, <2>3, BeganFacts
    <3> QED BY <1>7, <2>1, <2>3, <3>1 DEF AfterK, Place
  <2> QED BY <2>2, <2>3
<1>11. ASSUME ReceiveV(c) \/ (c = 1 /\ InjectV) PROVE Moves
  <2>1. AfterV(c) /\ qpushed' = qpushed /\ pc[c] = "v" BY <1>11 DEF ReceiveV, InjectV
  <2>2. CASE c = Size BY <1>6, <2>1, <2>2 DEF AfterV
  <2>3. CASE c # Size BY <1>7, <2>1, <2>3 DEF AfterV, Place, QIn
  <2> QED BY <2>2, <2>3
<1>12. ASSUME Forward(c) PROVE Moves
  <2>1. Goes(c, "relay") /\ qpushed' = qpushed /\ QIn(c) = round[c] BY <1>12 DEF Forward, pushed, QIn
  <2> QED BY <1>7, <2>1 DEF Place
<1>13. ASSUME Relay(c) PROVE Moves
  <2>1. NextRound(c) /\ qpushed' = qpushed /\ pc[c] = "relay" BY <1>13 DEF Relay, pushed
  <2> QED BY <1>6, <2>1
<1>14. ASSUME Exit(c) PROVE Moves
  <2>1. Goes(c, "done") /\ qpushed' = qpushed /\ QIn(c) = round[c] BY <1>14 DEF Exit, pushed, QIn
  <2> QED BY <1>7, <2>1 DEF Place
<1>15. Moves BY <1>8, <1>9, <1>10, <1>11, <1>12, <1>13, <1>14 DEF Reader, Injector
<1> SUFFICES ASSUME NEW d \in Core PROVE InTurn(d)' BY DEF UnitsInTurn
<1>16. CASE d = c BY <1>2, <1>15, <1>16, TurnKept DEF Moves
<1>17. CASE d # c
  <2>1. pc'[d] = pc[d] /\ round'[d] = round[d] /\ qpushed'[d] = qpushed[d] BY <1>15, <1>17 DEF Moves
  <2>2. QIn(d)' = QIn(d) BY <2>1 DEF QIn
  <2>3. InTurn(d) BY <1>3
  <2> QED BY <1>2, <2>1, <2>2, <2>3, TurnKept DEF InTurn
<1> QED BY <1>16, <1>17

\* Each compute kernel pops Q with the last V of a unit.
LEMMA ComputeTurns ==
    ASSUME Inductive, UnitsInTurn, NEW c \in Core, Compute(c)
    PROVE  UnitsInTurn'
<1>1. pc' = pc /\ round' = round /\ qpushed' = qpushed BY DEF Compute, PopK, PopV, pushed
<1>2. \A d \in Core : InTurn(d) BY DEF UnitsInTurn
<1>3. TypeOK /\ Buffer(c) BY DEF Inductive, Buffers
<1>4. /\ kpopped \in [Core -> 0..Rounds] /\ vpopped \in [Core -> 0..Rounds] /\ qpopped \in [Core -> Nat]
      /\ Rounds \in Nat /\ vpushed[c] \in 0..Rounds
  BY <1>3, RoundAssumption DEF TypeOK
<1>5. \A d \in Core : QIn(d)' = QIn(d) BY <1>1 DEF QIn
<1>6. ASSUME NEW d \in Core, kpopped'[d] = kpopped[d], vpopped'[d] = vpopped[d], qpopped'[d] = qpopped[d]
      PROVE  InTurn(d)'
  <2>1. InTurn(d) BY <1>2
  <2> QED BY <1>1, <1>5, <1>6, <2>1, TurnKept DEF InTurn
<1> DEFINE Others == \A d \in Core : d # c =>
                        kpopped'[d] = kpopped[d] /\ vpopped'[d] = vpopped[d] /\ qpopped'[d] = qpopped[d]
<1>7. CASE PopK(c)
  <2>1. /\ kpopped[c] = vpopped[c] /\ kpopped' = [kpopped EXCEPT ![c] = kpopped[c] + 1]
        /\ vpopped' = vpopped /\ qpopped' = qpopped
    BY <1>7 DEF PopK
  <2>2. Others /\ kpopped'[c] = vpopped[c] + 1 BY <1>4, <2>1
  <2>3. Began(vpopped[c])' = Began(vpopped[c]) /\ UnitOver(vpopped[c])' = UnitOver(vpopped[c])
        /\ Began(QIn(c))' = Began(QIn(c)) /\ vpopped'[c] = vpopped[c] /\ qpopped'[c] = qpopped[c]
    BY <1>5, <2>1 DEF Began, UnitOver
  <2>4. InTurn(c) BY <1>2
  <2>5. InTurn(c)' BY <1>1, <2>2, <2>3, <2>4 DEF InTurn
  <2> QED BY <1>6, <2>2, <2>5 DEF UnitsInTurn
<1>8. CASE PopV(c)
  <2>1. PICK n : n = vpopped[c] + 1 OBVIOUS
  <2>2. /\ n = kpopped[c] /\ n <= vpushed[c] /\ kpopped' = kpopped
        /\ vpopped' = [vpopped EXCEPT ![c] = n]
        /\ qpopped' = IF UnitOver(n) THEN [qpopped EXCEPT ![c] = qpopped[c] + 1] ELSE qpopped
    BY <1>8, <2>1 DEF PopV, UnitOver
  <2>3. vpopped'[c] = n /\ kpopped'[c] = n /\ Others
        /\ qpopped'[c] = (IF UnitOver(n) THEN qpopped[c] + 1 ELSE qpopped[c])
    BY <1>4, <2>2
  <2>4. vpopped[c] \in Nat /\ n \in Nat /\ vpopped[c] # Rounds /\ qpopped[c] \in Nat BY <1>4, <2>1, <2>2
  <2>5. qpopped[c] = Began(vpopped[c]) - (IF n \in First THEN 0 ELSE 1)
    BY <1>2, <2>1, <2>4 DEF InTurn, UnitOver
  <2>6. Began(n) = Began(vpopped[c]) + (IF n \in First THEN 1 ELSE 0) /\ Began(n) \in Nat /\ Began(vpopped[c]) \in Nat
    BY <2>1, <2>4, BeganFacts
  <2>7. qpopped'[c] = Began(n) - (IF UnitOver(n) THEN 0 ELSE 1) BY <2>3, <2>4, <2>5, <2>6
  <2>8. Began(vpopped[c])' = Began(n) /\ UnitOver(vpopped[c])' = UnitOver(n) /\ Began(QIn(c))' = Began(QIn(c))
    BY <1>5, <2>3 DEF Began, UnitOver
  <2>9. InTurn(c) BY <1>2
  <2>10. InTurn(c)' BY <1>1, <2>3, <2>7, <2>8, <2>9 DEF InTurn
  <2> QED BY <1>6, <2>3, <2>10 DEF UnitsInTurn
<1> QED BY <1>7, <1>8 DEF Compute

LEMMA TurnsStep == Inductive /\ UnitsInTurn /\ [Next]_vars => UnitsInTurn'
<1> SUFFICES ASSUME Inductive, UnitsInTurn, [Next]_vars PROVE UnitsInTurn' OBVIOUS
<1>1. CASE Injector BY <1>1, ReaderTurns, CoreFacts
<1>2. ASSUME NEW c \in Core, Reader(c) PROVE UnitsInTurn' BY <1>2, ReaderTurns
<1>3. ASSUME NEW c \in Core, Compute(c) PROVE UnitsInTurn' BY <1>3, ComputeTurns
<1>4. CASE UNCHANGED vars \/ \E c \in Core : Lands(c)
  <2>1. /\ pc' = pc /\ round' = round /\ qpushed' = qpushed
        /\ kpopped' = kpopped /\ vpopped' = vpopped /\ qpopped' = qpopped
    BY <1>4 DEF vars, Lands, CreditLands, DataLands, FlagLands, pushed, popped
  <2> SUFFICES ASSUME NEW d \in Core PROVE InTurn(d)' BY DEF UnitsInTurn
  <2>2. InTurn(d) /\ QIn(d)' = QIn(d) BY <2>1 DEF UnitsInTurn, QIn
  <2> QED BY <2>1, <2>2, TurnKept DEF InTurn
<1> QED BY <1>1, <1>2, <1>3, <1>4 DEF Next

\* Its own compute kernel never keeps a reader waiting: when it has nothing to do, there is room.
LEMMA ReaderGoesOn ==
    ASSUME Inductive, UnitsInTurn, NEW c \in Core, ~ComputeCanGo(c), ~MessageCanLand(c),
           pc[c] \notin {"valid", "forward", "done"}
    PROVE  ReaderCanGo(c)
<1>1. TypeOK /\ Buffer(c) /\ InTurn(c) BY DEF Inductive, Buffers, UnitsInTurn
<1>2. /\ kpopped[c] \in Nat /\ vpopped[c] \in Nat /\ kpushed[c] \in Nat /\ vpushed[c] \in Nat /\ round[c] \in Nat
      /\ Slots \in Nat /\ Slots > 0 /\ QUnits \in Nat /\ QUnits > 0 /\ credits[c] = 0 /\ writes[c] = {}
      /\ round[c] - 1 \in Nat /\ qpopped[c] \in Nat /\ Rounds \in Nat /\ round[c] <= Rounds /\ pc[c] \in Place
  <2>1. Rounds \in Nat /\ Slots \in Nat /\ Slots > 0 /\ QUnits \in Nat /\ QUnits > 0
    BY RoundAssumption, BufferAssumption
  <2>2. /\ kpopped[c] \in 0..Rounds /\ vpopped[c] \in 0..Rounds /\ kpushed[c] \in 0..Rounds
        /\ vpushed[c] \in 0..Rounds /\ round[c] \in 1..Rounds /\ qpopped[c] \in Nat /\ credits[c] \in Nat
        /\ pc[c] \in Place
    BY <1>1 DEF TypeOK
  <2>3. credits[c] = 0 /\ writes[c] = {} BY <2>2 DEF MessageCanLand
  <2> QED BY <2>1, <2>2, <2>3
<1>3. CASE pc[c] = "reserve"
  <2>1. kpushed[c] = vpushed[c] /\ kpopped[c] <= kpushed[c] /\ vpopped[c] <= vpushed[c]
    BY <1>1, <1>3 DEF Buffer, KIn, VIn
  <2>2. kpushed[c] = round[c] - 1 /\ QIn(c) = round[c] - 1 BY <1>1, <1>3 DEF Buffer, KIn, QIn
  <2>3. kpopped[c] = vpopped[c] BY <1>1, <1>2, <2>1 DEF InTurn, ComputeCanGo
  <2>4. kpopped[c] = kpushed[c]
    <3> SUFFICES ASSUME kpopped[c] # kpushed[c] PROVE FALSE OBVIOUS
    <3>1. kpopped[c] + 1 <= round[c] - 1 BY <1>2, <2>1, <2>2
    <3>2. kpopped[c] + 1 \in First /\ ~(qpopped[c] < qpushed[c]) BY <2>2, <2>3, <3>1 DEF ComputeCanGo
    <3>3. qpushed[c] = Began(round[c] - 1) /\ qpopped[c] = Began(kpopped[c])
      BY <1>1, <1>2, <2>2, <2>3, <3>2, BeganFacts DEF InTurn, UnitOver
    <3>4. /\ Began(kpopped[c] + 1) = Began(kpopped[c]) + 1 /\ Began(kpopped[c] + 1) <= Began(round[c] - 1)
          /\ Began(round[c] - 1) \in Nat /\ Began(kpopped[c]) \in Nat
      BY <1>2, <3>1, <3>2, BeganFacts
    <3> QED BY <3>2, <3>3, <3>4
  <2> QED BY <1>2, <1>3, <2>1, <2>3, <2>4 DEF ReaderCanGo, KSpace, VSpace
<1>4. CASE pc[c] = "q"
  <2>1. /\ kpushed[c] = round[c] /\ vpushed[c] = round[c] - 1 /\ QIn(c) = round[c] - 1 /\ round[c] \in First
        /\ kpopped[c] <= kpushed[c] /\ vpopped[c] <= vpushed[c]
    BY <1>1, <1>4 DEF Buffer, KIn, VIn, QIn, InTurn
  <2>2. vpopped[c] = round[c] - 1
    <3> SUFFICES ASSUME vpopped[c] # round[c] - 1 PROVE FALSE OBVIOUS
    <3>1. vpopped[c] + 1 <= round[c] - 1 BY <1>2, <2>1
    <3>2. kpopped[c] = vpopped[c] BY <1>1, <2>1, <3>1 DEF InTurn, ComputeCanGo
    <3>3. kpopped[c] + 1 <= kpushed[c] BY <1>2, <2>1, <3>1, <3>2
    <3>4. vpopped[c] + 1 \in First /\ ~(qpopped[c] < qpushed[c]) BY <3>2, <3>3 DEF ComputeCanGo
    <3>5. qpushed[c] = Began(round[c] - 1) /\ qpopped[c] = Began(vpopped[c])
      BY <1>1, <1>2, <2>1, <3>4, BeganFacts DEF InTurn, UnitOver
    <3>6. /\ Began(vpopped[c] + 1) = Began(vpopped[c]) + 1 /\ Began(vpopped[c] + 1) <= Began(round[c] - 1)
          /\ Began(round[c] - 1) \in Nat /\ Began(vpopped[c]) \in Nat
      BY <1>2, <3>1, <3>4, BeganFacts
    <3> QED BY <3>4, <3>5, <3>6
  <2>3. qpushed[c] = Began(round[c] - 1) BY <1>1, <2>1 DEF InTurn
  <2>4. UnitOver(vpopped[c]) BY <1>2, <2>1, <2>2 DEF UnitOver
  <2>5. qpopped[c] = Began(round[c] - 1) /\ Began(round[c] - 1) \in Nat
    BY <1>1, <1>2, <2>2, <2>4, BeganFacts DEF InTurn
  <2> QED BY <1>2, <1>4, <2>3, <2>5 DEF ReaderCanGo
<1>5. CASE pc[c] = "v"
  <2>1. /\ kpushed[c] = round[c] /\ vpushed[c] = round[c] - 1 /\ QIn(c) = round[c]
        /\ kpopped[c] <= kpushed[c] /\ vpopped[c] <= vpushed[c]
    BY <1>1, <1>5 DEF Buffer, KIn, VIn, QIn
  <2>2. vpopped[c] = round[c] - 1
    <3> SUFFICES ASSUME vpopped[c] # round[c] - 1 PROVE FALSE OBVIOUS
    <3>1. vpopped[c] + 1 <= round[c] - 1 BY <1>2, <2>1
    <3>2. kpopped[c] = vpopped[c] BY <1>1, <2>1, <3>1 DEF InTurn, ComputeCanGo
    <3>3. kpopped[c] + 1 <= kpushed[c] BY <1>2, <2>1, <3>1, <3>2
    <3>4. vpopped[c] + 1 \in First /\ ~(qpopped[c] < qpushed[c]) BY <3>2, <3>3 DEF ComputeCanGo
    <3>5. qpushed[c] = Began(round[c]) /\ qpopped[c] = Began(vpopped[c])
      BY <1>1, <1>2, <2>1, <3>4, BeganFacts DEF InTurn, UnitOver
    <3>6. vpopped[c] + 1 <= round[c] BY <1>2, <3>1
    <3>7. /\ Began(vpopped[c] + 1) = Began(vpopped[c]) + 1 /\ Began(vpopped[c] + 1) <= Began(round[c])
          /\ Began(round[c]) \in Nat /\ Began(vpopped[c]) \in Nat
      BY <1>2, <3>4, <3>6, BeganFacts
    <3> QED BY <3>4, <3>5, <3>7
  <2>3. VSpace(c) BY <1>2, <2>1, <2>2 DEF VSpace
  <2> QED BY <1>5, <2>3 DEF ReaderCanGo
<1>6. CASE pc[c] \in {"credit", "relay", "exit"} BY <1>2, <1>6 DEF ReaderCanGo
<1> QED BY <1>2, <1>3, <1>4, <1>5, <1>6 DEF Place

\* Where everything of one core and its links stands still, a reader that waits for a credit
\* waits for one that does, and a reader that waits for VALID is fed by one that waits.
LEMMA WaitingPasses ==
    ASSUME Inductive, UnitsInTurn, ~TestHang,
           \A c \in Core : ~ReaderCanGo(c) /\ ~ComputeCanGo(c) /\ ~MessageCanLand(c)
    PROVE  /\ \A c \in Core : pc[c] \in {"valid", "forward", "done"}
           /\ \A c \in Core : pc[c] = "forward" => c \in Sender /\ pc[c + 1] = "forward"
           /\ \A c \in Core : pc[c] = "valid" => c \in Receiver /\ pc[c - 1] \in {"valid", "forward"}
<1>1. \A c \in Core : pc[c] \in {"valid", "forward", "done"} BY ReaderGoesOn
<1>2. \A c \in Core : ~Withheld(c) /\ credits[c] = 0 /\ writes[c] = {} /\ Role(c)
  <2>1. \A c \in Core : credits[c] \in Nat BY DEF Inductive, TypeOK
  <2> QED BY <2>1 DEF Withheld, MessageCanLand, Inductive, Roles
<1>3. TypeOK BY DEF Inductive
<1>4. ASSUME NEW u \in Sender, NEW c \in Receiver, c = u + 1
      PROVE  /\ pc[u] = "forward" => pc[c] = "forward"
             /\ pc[c] = "valid" => pc[u] \in {"valid", "forward"}
  <2>1. u \in Core /\ c \in Core BY CoreFacts
  <2>2. Issued(c) = Taken(u) + credit[u] + credits[c] /\ Sent(u) = KIn(c) + Up(c) + Flying(u)
    BY <1>4 DEF Inductive, Links, Link
  <2>3. credits[c] = 0 /\ Flying(u) = 0 BY <1>2, <2>1 DEF Flying
  <2>4. /\ pc[u] \in {"valid", "forward", "done"} /\ pc[c] \in {"valid", "forward", "done"}
        /\ ~Withheld(c) /\ Role(u) /\ Role(c)
    BY <1>1, <1>2, <2>1
  <2>5. /\ round[u] \in Nat /\ round[c] \in Nat /\ round[u] <= Rounds /\ round[c] <= Rounds /\ Rounds \in Nat
        /\ credit[u] \in Nat
    BY <1>3, <2>1, Counters
  <2>6. Up(c) = 0 BY <2>1 DEF Up, ReaderCanGo
  <2>7. ASSUME pc[u] = "forward" PROVE pc[c] = "forward"
    <3>1. credit[u] # 1 BY <2>1, <2>7 DEF ReaderCanGo
    <3>2. credit[u] <= 1 BY <1>4, <2>3, <2>5, CreditOut
    <3>3. Issued(c) = round[u] - 1 /\ Sent(u) = round[u] - 1
      BY <2>2, <2>3, <2>5, <2>7, <3>1, <3>2 DEF Taken, Sent
    <3>4. Issued(c) = round[c] BY <2>4 DEF Issued
    <3>5. KIn(c) = round[u] - 1 BY <2>2, <2>3, <2>5, <2>6, <3>3 DEF KIn
    <3>6. pc[c] # "valid" BY <2>5, <3>3, <3>4, <3>5 DEF KIn
    <3>7. pc[c] # "done" BY <2>4, <2>5, <3>3, <3>4 DEF Role
    <3> QED BY <2>4, <3>6, <3>7
  <2>8. ASSUME pc[c] = "valid" PROVE pc[u] # "done"
    <3>1. KIn(c) = round[c] - 1 BY <2>8 DEF KIn
    <3>2. Sent(u) = round[c] - 1 BY <2>2, <2>3, <2>5, <2>6, <3>1
    <3> QED BY <2>5, <3>2 DEF Sent
  <2> QED BY <2>4, <2>7, <2>8
<1>5. \A c \in Core : /\ pc[c] = "forward" => c \in Sender
                      /\ pc[c] = "valid" => c \in Receiver
  BY Positions
<1> QED BY <1>1, <1>4, <1>5, CoreFacts

\* A nonempty set of cores has a first and a last one.
LEMMA FirstCore ==
    ASSUME NEW S \in SUBSET Core, S # {}
    PROVE  (\E c \in S : c = 1 \/ c - 1 \notin S) /\ (\E c \in S : c = Size \/ c + 1 \notin S)
<1>1. ASSUME NEW T \in SUBSET Nat, T # {} PROVE \E x \in T : \A y \in T : x <= y
  <2> DEFINE R == OpToRel(<, Nat)
  <2>1. IsWellFoundedOn(R, Nat) BY NatLessThanWellFounded DEF OpToRel
  <2>2. \A x, y \in Nat : x < y => <<x, y>> \in R BY DEF OpToRel
  <2> HIDE DEF R
  <2>3. PICK x \in T : \A y \in T : ~ (<<y, x>> \in R) BY <1>1, <2>1, WFMin
  <2>4. \A y \in T : ~(y < x) BY <1>1, <2>2, <2>3
  <2> QED BY <1>1, <2>4
<1>2. Size \in Nat /\ \A c \in S : c \in Nat /\ 1 <= c /\ c <= Size BY ChainAssumption DEF Core
<1>3. \E c \in S : c = 1 \/ c - 1 \notin S
  <2>1. S \in SUBSET Nat BY <1>2
  <2>2. PICK x \in S : \A y \in S : x <= y BY <1>1, <2>1
  <2>3. x - 1 \notin S
    <3> SUFFICES ASSUME x - 1 \in S PROVE FALSE OBVIOUS
    <3>1. x <= x - 1 /\ x \in Nat BY <1>2, <2>2
    <3> QED BY <3>1
  <2> QED BY <2>3
<1>4. \E c \in S : c = Size \/ c + 1 \notin S
  <2> DEFINE T == {n \in Nat : \E c \in S : n = Size - c}
  <2>1. T # {}
    <3>1. PICK c \in S : TRUE OBVIOUS
    <3>2. Size - c \in Nat BY <1>2
    <3> QED BY <3>2
  <2>2. T \in SUBSET Nat OBVIOUS
  <2>3. \A n \in T : \E c \in S : n = Size - c OBVIOUS
  <2>4. \A c \in S : Size - c \in T BY <1>2
  <2> HIDE DEF T
  <2>5. PICK x \in T : \A y \in T : x <= y BY <1>1, <2>1, <2>2
  <2>6. PICK c \in S : x = Size - c BY <2>3
  <2>7. c + 1 \notin S
    <3> SUFFICES ASSUME c + 1 \in S PROVE FALSE OBVIOUS
    <3>1. Size - c <= Size - (c + 1) /\ c \in Nat BY <1>2, <2>4, <2>5, <2>6
    <3> QED BY <1>2, <3>1
  <2> QED BY <2>7
<1> QED BY <1>3, <1>4

\* No chain hangs: in every reachable state every reader has ended and every compute kernel has its
\* chunks, or somebody can go on, unless the flag that plants a hang is set. The injector waits for
\* nobody's VALID and the sink for nobody's credit, and waiting passes along the chain.
THEOREM NeverStuck == Spec => []NobodyStuck
<1>1. Init => UnitsInTurn
  <2> SUFFICES ASSUME Init, NEW c \in Core PROVE InTurn(c) BY DEF UnitsInTurn
  <2>1. /\ pc[c] = "reserve" /\ round[c] = 1 /\ qpushed[c] = 0
        /\ kpopped[c] = 0 /\ vpopped[c] = 0 /\ qpopped[c] = 0
    BY DEF Init
  <2>2. QIn(c) = 0 /\ UnitOver(vpopped[c]) BY <2>1, RoundAssumption DEF QIn, UnitOver
  <2> QED BY <2>1, <2>2, BeganFacts DEF InTurn
<1>2. Inductive /\ UnitsInTurn => NobodyStuck
  <2> SUFFICES ASSUME Inductive, UnitsInTurn, ~TestHang,
                      \A c \in Core : ~ReaderCanGo(c) /\ ~ComputeCanGo(c) /\ ~MessageCanLand(c)
               PROVE  AllEnded
    BY DEF NobodyStuck
  <2>1. \A c \in Core : pc[c] # "forward"
    <3> DEFINE S == {c \in Core : pc[c] = "forward"}
    <3>1. \A c \in S : c \in Sender /\ c + 1 \in S BY WaitingPasses, CoreFacts
    <3>2. S = {} BY <3>1, FirstCore, CoreFacts
    <3> QED BY <3>2
  <2>2. \A c \in Core : pc[c] # "valid"
    <3> DEFINE S == {c \in Core : pc[c] = "valid"}
    <3>1. \A c \in S : c \in Receiver /\ c - 1 \in S BY <2>1, WaitingPasses, CoreFacts
    <3>2. S = {} BY <3>1, FirstCore, CoreFacts
    <3> QED BY <3>2
  <2> SUFFICES ASSUME NEW c \in Core PROVE pc[c] = "done" /\ vpopped[c] = Rounds BY DEF AllEnded
  <2>3. pc[c] = "done" BY <2>1, <2>2, WaitingPasses
  <2>4. TypeOK /\ Role(c) /\ Buffer(c) /\ InTurn(c) BY DEF Inductive, Roles, Buffers, UnitsInTurn
  <2>5. /\ kpushed[c] = Rounds /\ vpushed[c] = Rounds /\ QIn(c) = Rounds
        /\ kpopped[c] <= Rounds /\ vpopped[c] <= Rounds
    BY <2>3, <2>4 DEF Role, Buffer, KIn, VIn, QIn
  <2>6. kpopped[c] \in Nat /\ vpopped[c] \in Nat /\ Rounds \in Nat /\ qpopped[c] \in Nat
    BY <2>4, RoundAssumption DEF TypeOK
  <2>7. kpopped[c] = vpopped[c] BY <2>4, <2>5, <2>6 DEF InTurn, ComputeCanGo
  <2>8. vpopped[c] = Rounds
    <3> SUFFICES ASSUME vpopped[c] # Rounds PROVE FALSE OBVIOUS
    <3>1. vpopped[c] + 1 <= Rounds BY <2>5, <2>6
    <3>2. vpopped[c] + 1 \in First /\ ~(qpopped[c] < qpushed[c]) BY <2>5, <2>7, <3>1 DEF ComputeCanGo
    <3>3. qpushed[c] = Began(Rounds) /\ qpopped[c] = Began(vpopped[c])
      BY <2>4, <2>5, <2>6, <3>2, BeganFacts DEF InTurn, UnitOver
    <3>4. /\ Began(vpopped[c] + 1) = Began(vpopped[c]) + 1 /\ Began(vpopped[c] + 1) <= Began(Rounds)
          /\ Began(Rounds) \in Nat /\ Began(vpopped[c]) \in Nat
      BY <2>6, <3>1, <3>2, BeganFacts
    <3> QED BY <3>2, <3>3, <3>4
  <2> QED BY <2>3, <2>8
<1> QED BY <1>1, <1>2, Invariance, TurnsStep, PTL DEF Spec

====================================================================================
