----------------------------- MODULE KvShareProofs -----------------------------
(***************************************************************************)
(* Proofs about KvShare for every number of twins, heads and chunks and    *)
(* every build: no slot is overwritten or handed on before its bytes are   *)
(* there, no mask is taken for another chunk's, when the readers have      *)
(* returned the network is empty and the semaphores are back at zero, and  *)
(* the bundle never comes to a stop before that.                           *)
(***************************************************************************)
EXTENDS KvShare, FiniteSetTheorems, TLAPS

\* The chunks whose VALID the leader has sent.
Announced == IF ~ReadAhead /\ lpc = "mask" THEN round[0] + 1 ELSE round[0]

\* The leader reads in its loop, one chunk ahead of the one it multicasts.
ReadingAhead ==
    /\ ReadAhead /\ lpc \in {"readK", "fillK", "readV", "fillV"}
    /\ pushed[0]["V"] = round[0] + 1

\* The READY increments of chunk round[0] are consumed, its VALID is not sent.
Opened ==
    \/ lpc \in {"mcastK", "mcastV", "barrier", "valid"}
    \/ ReadAhead /\ lpc = "mask"
    \/ ReadingAhead

\* The multicast of the ring's slot has been issued for that chunk.
Issued(ring) == Opened /\ lpc # "mcastK" /\ (ring = "V" => lpc # "mcastV")

\* The chunks a core's reader has decided the mask of, and those whose mask, if any, the
\* compute kernel has taken.
MaskedTo(c) ==
    IF c = 0 /\ ReadAhead /\ (lpc \in {"barrier", "valid"} \/ ReadingAhead) THEN round[0] + 1 ELSE round[c]
TakenTo(c) == IF cpc[c] = "V" THEN done[c] + 1 ELSE done[c]

\* A twin is in line: it has pushed every announced chunk, or all but the last one.
Behind(t) == pushed[t]["V"] + 1 = Announced
Level(t) == pushed[t]["V"] = Announced

\* The twins whose READY for the next chunk is sent and not consumed.
Asking == {t \in Twin : ~Opened /\ tpc[t] = "wait" /\ Level(t)}

-----------------------------------------------------------------------------
(* The inductive invariant *)

\* The leader pushes chunk by chunk, in the read-ahead loop one ahead of its multicasts
\* but never past the end of a head.
LeaderInOrder ==
    LET r == round[0]
        k == pushed[0]["K"]
        v == pushed[0]["V"]
    IN  /\ lpc \in {"exit", "end"} => r = Last /\ k = Last /\ v = Last
        /\ lpc \notin {"exit", "end"} => r < Last
        /\ lpc \in {"ready", "reset", "mcastK", "mcastV", "mask"} => k = r + 1 /\ v = r + 1
        /\ lpc \in {"barrier", "valid"} =>
             /\ k = v
             /\ v = IF ReadAhead /\ ~HeadStart(r + 1) THEN r + 2 ELSE r + 1
        /\ lpc \in {"readK", "fillK"} => k = v
        /\ lpc \in {"readV", "fillV"} => k = v + 1
        /\ lpc \in {"readK", "fillK", "readV", "fillV"} =>
             v = r \/ (ReadAhead /\ v = r + 1 /\ ~HeadStart(r + 1))

\* A twin pushes both rings at once and then reads the mask of the chunk.
TwinInOrder ==
    \A t \in Twin :
      /\ pushed[t]["K"] = pushed[t]["V"]
      /\ pushed[t]["V"] = IF tpc[t] = "mask" THEN round[t] + 1 ELSE round[t]

\* The rings hold two chunks, and a reserved slot stays free until it is pushed.
RingsBounded ==
    /\ \A c \in Core, ring \in Rings : pushed[c][ring] <= Popped(c, ring) + 2
    /\ \A ring \in Rings : lpc = Fill[ring] => Room(0, ring)
    /\ \A t \in Twin, ring \in Rings : tpc[t] \in {"clear", "signal", "wait"} => Room(t, ring)

\* The compute kernel stays behind the reader.
ComputeBehind ==
    \A c \in Core :
      /\ done[c] <= pushed[c]["V"]
      /\ cpc[c] # "K" => done[c] < pushed[c]["K"]

\* A VALID is on its way or set exactly for the twins that lack the announced chunk; a
\* twin that asks for the next one has cleared its own.
ValidInStep ==
    /\ vflight # {} => valid[0] = 1
    /\ lpc = "end" => valid[0] = 0
    /\ \A t \in Twin :
         /\ Behind(t) \/ Level(t)
         /\ Behind(t) => tpc[t] = "wait" /\ (t \in vflight \/ valid[t] = 1)
         /\ t \in vflight => Behind(t) /\ valid[t] = 0
         /\ tpc[t] \in {"signal", "wait"} /\ valid[t] = 1 => Behind(t)
         /\ tpc[t] = "end" => valid[t] = 0

\* The leader's semaphore counts the twins that ask and whose increment has landed; once
\* it has seen all of them they wait for the chunk it multicasts.
ReadyCounts ==
    /\ rflight \subseteq Asking
    /\ ready = Cardinality(Asking \ rflight)
    /\ lpc = "reset" => Asking = Twin /\ rflight = {}
    /\ Opened => \A t \in Twin : tpc[t] = "wait" /\ Level(t)

\* Multicasts on the network carry the chunk being served; VALID goes after all of them.
FlightsInRound ==
    /\ \A t \in Twin, ring \in Rings, s \in 0..1 :
         <<t, <<ring, s>>>> \in flight => Issued(ring) /\ s = At(round[0])
    /\ lpc = "valid" => flight = {}

\* The leader's rings: the last two chunks pushed, the older one gone while its slot fills.
LeaderHolds ==
    \A ring \in Rings : \A n \in 0..(pushed[0][ring] - 1) :
      pushed[0][ring] <= n + 2 /\ (lpc = Fill[ring] => pushed[0][ring] = n + 1)
        => slot[0][ring][At(n)] = n

\* A twin's rings: the last two chunks pushed, the older one perhaps gone while it waits;
\* what has landed of the chunk it waits for; and all of it once VALID is on its way.
TwinHolds ==
    \A t \in Twin, ring \in Rings :
      /\ \A n \in 0..(pushed[t][ring] - 1) :
           pushed[t][ring] <= n + 2 /\ (tpc[t] = "wait" => pushed[t][ring] = n + 1)
             => slot[t][ring][At(n)] = n
      /\ Issued(ring) /\ <<t, <<ring, At(round[0])>>>> \notin flight
           => slot[t][ring][At(round[0])] = round[0]
      /\ Behind(t) => slot[t][ring][At(pushed[t]["V"])] = pushed[t]["V"]

\* The mask buffer holds the one mask that is written and not taken.
MasksInOrder ==
    \A c \in Core :
      /\ cpc[c] = "M" => Masked(done[c])
      /\ \A n \in 0..Last : Masked(n) /\ TakenTo(c) <= n /\ n < MaskedTo(c) => mask[c] = n
      /\ mask[c] # NoChunk => Masked(mask[c]) /\ TakenTo(c) <= mask[c] /\ mask[c] < MaskedTo(c)
      /\ \A n \in 0..Last : Masked(n) /\ n < TakenTo(c) => n < MaskedTo(c)

Inv ==
    /\ TypeOK /\ LeaderInOrder /\ TwinInOrder /\ RingsBounded /\ ComputeBehind /\ ValidInStep
    /\ ReadyCounts /\ FlightsInRound /\ LeaderHolds /\ TwinHolds /\ MasksInOrder

-----------------------------------------------------------------------------
(* Cores, counters and slots *)

\* The leader is core 0, its twins are the others.
LEMMA Cores == Core = {0} \cup Twin /\ 0 \in Core /\ 0 \notin Twin /\ \A t \in Twin : t \in Core /\ t # 0
BY ShareAssumption DEF Core, Twin

\* The two slots of a ring alternate.
LEMMA Slots ==
    /\ \A n \in Nat : At(n) \in 0..1 /\ At(n + 1) # At(n) /\ At(n + 2) = At(n)
    /\ \A n, m \in Nat : n < m /\ m <= n + 2 /\ At(n) = At(m) => m = n + 2
<1>1. ASSUME NEW n \in Nat PROVE At(n) \in 0..1 /\ At(n + 1) # At(n) /\ At(n + 2) = At(n)
  BY DEF At
<1>2. ASSUME NEW n \in Nat, NEW m \in Nat, n < m, m <= n + 2, At(n) = At(m) PROVE m = n + 2
  BY <1>2 DEF At
<1> QED BY <1>1, <1>2

\* The run ends with a head: a chunk that starts no head is not the end of the run.
LEMMA LastStartsAHead == Last \in Nat \ {0} /\ HeadStart(Last)
<1>1. ASSUME NEW h \in Nat \ {0}, NEW c \in Nat \ {0} PROVE (h * c) % c = 0 /\ h * c \in Nat \ {0}
  OBVIOUS
<1> QED BY <1>1, ShareAssumption DEF Last, HeadStart

\* The counters are natural numbers.
LEMMA Counters ==
    ASSUME TypeOK
    PROVE  /\ \A c \in Core : /\ round[c] \in Nat /\ round[c] <= Last
                              /\ done[c] \in Nat /\ done[c] <= Last /\ mask[c] \in Int
                              /\ \A ring \in Rings : pushed[c][ring] \in Nat /\ pushed[c][ring] <= Last
                              /\ pushed[c]["K"] \in Nat /\ pushed[c]["V"] \in Nat
           /\ ready \in Nat /\ Last \in Nat
           /\ \A c \in Core, ring \in Rings : Popped(c, ring) \in Nat
           /\ \A c \in Core : TakenTo(c) \in Nat
<1>1. Last \in Nat BY LastStartsAHead
<1>2. ASSUME NEW c \in Core
      PROVE  /\ round[c] \in Nat /\ round[c] <= Last
             /\ done[c] \in Nat /\ done[c] <= Last /\ mask[c] \in Int
  BY <1>1 DEF TypeOK
<1>3. ASSUME NEW c \in Core, NEW ring \in Rings PROVE pushed[c][ring] \in Nat /\ pushed[c][ring] <= Last
  <2>1. pushed[c] \in [Rings -> 0..Last] BY DEF TypeOK
  <2>2. pushed[c][ring] \in 0..Last BY <2>1
  <2> QED BY <1>1, <2>2
<1>4. "K" \in Rings /\ "V" \in Rings BY DEF Rings
<1>5. ready \in Nat BY ShareAssumption DEF TypeOK
<1>6. \A c \in Core, ring \in Rings : Popped(c, ring) \in Nat BY <1>2 DEF Popped
<1>7. \A c \in Core : TakenTo(c) \in Nat BY <1>2 DEF TakenTo
<1> QED BY <1>1, <1>2, <1>3, <1>4, <1>5, <1>6, <1>7

\* One slot of one ring of one core is written, every other one is left.
Written(c, ring, s, v) ==
    /\ slot' \in [Core -> [Rings -> [0..1 -> -1..Last]]]
    /\ slot'[c][ring][s] = v
    /\ \A d \in Core, q \in Rings, u \in 0..1 :
         d # c \/ q # ring \/ u # s => slot'[d][q][u] = slot[d][q][u]
    /\ \A d \in Core : d # c => slot'[d] = slot[d]

\* Writing one slot of one ring of one core.
LEMMA SlotWritten ==
    ASSUME TypeOK, NEW c \in Core, NEW ring \in Rings, NEW s \in 0..1, NEW v \in -1..Last,
           slot' = [slot EXCEPT ![c][ring][s] = v]
    PROVE  Written(c, ring, s, v)
<1>0. slot \in [Core -> [Rings -> [0..1 -> -1..Last]]] BY DEF TypeOK
<1>1. slot[c] \in [Rings -> [0..1 -> -1..Last]] /\ slot[c][ring] \in [0..1 -> -1..Last] BY <1>0
<1> DEFINE x == [slot[c][ring] EXCEPT ![s] = v]
           y == [slot[c] EXCEPT ![ring] = x]
<1>2. x \in [0..1 -> -1..Last] /\ x[s] = v /\ \A u \in 0..1 : u # s => x[u] = slot[c][ring][u] BY <1>1
<1>3. slot' = [slot EXCEPT ![c] = y] BY Zenon
<1> HIDE DEF x
<1>4. y \in [Rings -> [0..1 -> -1..Last]] /\ y[ring] = x /\ \A q \in Rings : q # ring => y[q] = slot[c][q]
  BY <1>1, <1>2
<1> HIDE DEF y
<1>5. slot' \in [Core -> [Rings -> [0..1 -> -1..Last]]] BY <1>0, <1>3, <1>4
<1>6. slot'[c] = y /\ \A d \in Core : d # c => slot'[d] = slot[d] BY <1>0, <1>3
<1> QED BY <1>2, <1>4, <1>5, <1>6 DEF Written

\* Writing one slot of the leader's.
LEMMA LeaderSlotWritten ==
    ASSUME TypeOK, NEW ring \in Rings, NEW s \in 0..1, NEW v \in -1..Last,
           slot' = [slot EXCEPT ![0][ring][s] = v]
    PROVE  /\ slot' \in [Core -> [Rings -> [0..1 -> -1..Last]]]
           /\ slot'[0][ring][s] = v
           /\ \A q \in Rings, u \in 0..1 : q # ring \/ u # s => slot'[0][q][u] = slot[0][q][u]
           /\ \A t \in Twin : slot'[t] = slot[t]
<1>1. 0 \in Core BY Cores
<1>2. Written(0, ring, s, v) BY <1>1, SlotWritten, Zenon
<1> QED BY <1>1, <1>2, Cores DEF Written

\* A chunk pushed into one ring of one core.
LEMMA RingPushed ==
    ASSUME TypeOK, NEW ring \in Rings, pushed[0][ring] < Last,
           pushed' = [pushed EXCEPT ![0][ring] = @ + 1]
    PROVE  /\ pushed' \in [Core -> [Rings -> 0..Last]]
           /\ pushed'[0][ring] = pushed[0][ring] + 1
           /\ \A q \in Rings : q # ring => pushed'[0][q] = pushed[0][q]
           /\ \A t \in Twin : pushed'[t] = pushed[t]
<1>0. pushed \in [Core -> [Rings -> 0..Last]] BY DEF TypeOK
<1>1. pushed[0] \in [Rings -> 0..Last] /\ pushed[0][ring] + 1 \in 0..Last BY <1>0, Cores, Counters
<1> DEFINE y == [pushed[0] EXCEPT ![ring] = pushed[0][ring] + 1]
<1>2. y \in [Rings -> 0..Last] /\ y[ring] = pushed[0][ring] + 1 /\ \A q \in Rings : q # ring => y[q] = pushed[0][q]
  BY <1>1
<1>3. pushed' = [pushed EXCEPT ![0] = y] OBVIOUS
<1> HIDE DEF y
<1>4. pushed' \in [Core -> [Rings -> 0..Last]] BY <1>0, <1>2, <1>3
<1>5. pushed'[0] = y /\ \A t \in Twin : pushed'[t] = pushed[t] BY <1>0, <1>3, Cores
<1> QED BY <1>2, <1>4, <1>5

\* The set of the values a function takes after one update.
LEMMA Updated ==
    ASSUME NEW S, NEW T, NEW f \in [S -> T], NEW x \in S, NEW v \in T
    PROVE  /\ [f EXCEPT ![x] = v] \in [S -> T] /\ [f EXCEPT ![x] = v][x] = v
           /\ \A y \in S : y # x => [f EXCEPT ![x] = v][y] = f[y]
OBVIOUS

-----------------------------------------------------------------------------
(* What the leader's steps do to what the twins see of it *)

\* A step that keeps the leader where it was for everybody else.
ViewsKept ==
    /\ Announced' = Announced /\ round'[0] = round[0]
    /\ Opened' <=> Opened
    /\ \A ring \in Rings : Issued(ring)' <=> Issued(ring)
    /\ MaskedTo(0)' = MaskedTo(0)

\* The build never changes, so neither do the chunks that are masked.
LEMMA BuildKept ==
    ASSUME build' = build
    PROVE  (ReadAhead' <=> ReadAhead) /\ \A n : Masked(n)' <=> Masked(n)
BY DEF ReadAhead, Masked, MaskMode

\* A step of a twin, a compute kernel or the network.
LEMMA OthersKeepViews ==
    ASSUME build' = build, lpc' = lpc, round'[0] = round[0], pushed'[0]["V"] = pushed[0]["V"]
    PROVE  ViewsKept
BY BuildKept DEF ViewsKept, Announced, Opened, ReadingAhead, Issued, MaskedTo

\* Reserving a slot and starting to fill it.
LEMMA ReadStartViews ==
    ASSUME NEW ring \in Rings, ReadStart(ring), build' = build
    PROVE  ViewsKept
<1>1. /\ (lpc = "readK" /\ lpc' = "fillK") \/ (lpc = "readV" /\ lpc' = "fillV")
      /\ round' = round /\ pushed' = pushed
  <2>1. lpc = Read[ring] /\ lpc' = Fill[ring] /\ round' = round /\ pushed' = pushed BY DEF ReadStart
  <2>2. ring = "K" \/ ring = "V" BY DEF Rings
  <2> QED BY <2>1, <2>2 DEF Read, Fill
<1> QED BY <1>1, BuildKept DEF ViewsKept, Announced, Opened, ReadingAhead, Issued, MaskedTo

\* Where the leader goes once a chunk is read.
LEMMA ReadEndMoves ==
    ASSUME Inv, NEW ring \in Rings, ReadEnd(ring)
    PROVE  /\ round' = round /\ pushed[0][ring] < Last /\ pushed' = [pushed EXCEPT ![0][ring] = @ + 1]
           /\ \/ ring = "K" /\ lpc = "fillK" /\ lpc' = "readV"
              \/ /\ ring = "V" /\ lpc = "fillV" /\ pushed[0]["V"] = round[0] /\ lpc' = "ready"
              \/ /\ ring = "V" /\ lpc = "fillV" /\ pushed[0]["V"] = round[0] + 1 /\ lpc' = "barrier"
                 /\ ReadAhead /\ ~HeadStart(round[0] + 1)
<1>a. /\ round[0] \in Nat /\ round[0] <= Last /\ Last \in Nat /\ pushed[0]["V"] \in Nat
      /\ pushed[0]["K"] \in Nat
  BY Counters, Cores DEF Inv
<1>b. round[0] + 1 # Last \/ HeadStart(round[0] + 1) BY LastStartsAHead
<1>1. CASE ring = "K"
  <2>1. lpc = "fillK" /\ lpc' = "readV" /\ round' = round /\ pushed' = [pushed EXCEPT ![0]["K"] = @ + 1]
    BY <1>1 DEF ReadEnd, Fill
  <2>2. round[0] < Last /\ pushed[0]["K"] = pushed[0]["V"]
        /\ (pushed[0]["V"] = round[0] \/ (pushed[0]["V"] = round[0] + 1 /\ ~HeadStart(round[0] + 1)))
    BY <2>1 DEF Inv, LeaderInOrder
  <2>3. pushed[0]["K"] < Last BY <1>a, <1>b, <2>2
  <2> QED BY <1>1, <2>1, <2>3
<1>2. CASE ring = "V"
  <2>1. lpc = "fillV" /\ lpc' = AfterRead /\ round' = round /\ pushed' = [pushed EXCEPT ![0]["V"] = @ + 1]
    BY <1>2 DEF ReadEnd, Fill
  <2>2. round[0] < Last
        /\ (pushed[0]["V"] = round[0] \/ (ReadAhead /\ pushed[0]["V"] = round[0] + 1 /\ ~HeadStart(round[0] + 1)))
    BY <2>1 DEF Inv, LeaderInOrder
  <2>3. pushed[0]["V"] < Last BY <1>a, <1>b, <2>2
  <2> QED BY <1>a, <1>2, <2>1, <2>2, <2>3 DEF AfterRead
<1> QED BY <1>1, <1>2 DEF Rings

\* Pushing a chunk: the read of the chunk ahead belongs to the round that is open.
LEMMA ReadEndViews ==
    ASSUME Inv, NEW ring \in Rings, ReadEnd(ring), build' = build
    PROVE  ViewsKept
<1>a. round[0] \in Nat /\ pushed[0]["V"] \in Nat BY Counters, Cores DEF Inv
<1>b. "V" \in Rings /\ "K" \in Rings BY DEF Rings
<1>1. round' = round BY ReadEndMoves
<1>2. CASE ring = "K"
  <2>1. lpc = "fillK" /\ lpc' = "readV" BY <1>2, ReadEndMoves
  <2>2. pushed'[0]["V"] = pushed[0]["V"] BY <1>2, <1>b, ReadEndMoves, RingPushed DEF Inv
  <2> QED BY <1>1, <2>1, <2>2, BuildKept DEF ViewsKept, Announced, Opened, ReadingAhead, Issued, MaskedTo
<1>3. CASE ring = "V" /\ pushed[0]["V"] = round[0]
  <2>1. lpc = "fillV" /\ lpc' = "ready" BY <1>a, <1>3, ReadEndMoves
  <2>2. ~ReadingAhead BY <1>a, <1>3 DEF ReadingAhead
  <2> QED BY <1>1, <2>1, <2>2, BuildKept DEF ViewsKept, Announced, Opened, ReadingAhead, Issued, MaskedTo
<1>4. CASE ring = "V" /\ pushed[0]["V"] = round[0] + 1
  <2>1. lpc = "fillV" /\ lpc' = "barrier" /\ ReadAhead BY <1>a, <1>4, ReadEndMoves
  <2>2. ReadingAhead BY <1>4, <2>1 DEF ReadingAhead
  <2> QED BY <1>1, <2>1, <2>2, BuildKept DEF ViewsKept, Announced, Opened, ReadingAhead, Issued, MaskedTo
<1> QED BY <1>2, <1>3, <1>4, ReadEndMoves

\* Waiting for the increments, the write barrier and the exit change nothing of it.
LEMMA WaitingKeepsViews ==
    ASSUME WaitReady \/ WriteBarrier \/ LeaderExit, build' = build
    PROVE  ViewsKept
<1>1. CASE WaitReady
  <2>1. lpc = "ready" /\ lpc' = "reset" /\ round' = round BY <1>1 DEF WaitReady
  <2> QED BY <2>1, BuildKept DEF ViewsKept, Announced, Opened, ReadingAhead, Issued, MaskedTo
<1>2. CASE WriteBarrier
  <2>1. lpc = "barrier" /\ lpc' = "valid" /\ round' = round BY <1>2 DEF WriteBarrier
  <2> QED BY <2>1, BuildKept DEF ViewsKept, Announced, Opened, ReadingAhead, Issued, MaskedTo
<1>3. CASE LeaderExit
  <2>1. lpc = "exit" /\ lpc' = "end" /\ round' = round BY <1>3 DEF LeaderExit
  <2> QED BY <2>1, BuildKept DEF ViewsKept, Announced, Opened, ReadingAhead, Issued, MaskedTo
<1> QED BY <1>1, <1>2, <1>3

\* The reset opens the round.
LEMMA ResetViews ==
    ASSUME ResetReady, build' = build
    PROVE  /\ lpc = "reset" /\ lpc' = "mcastK" /\ round' = round
           /\ Announced' = Announced /\ ~Opened /\ Opened'
           /\ \A ring \in Rings : ~Issued(ring) /\ ~Issued(ring)'
           /\ MaskedTo(0)' = MaskedTo(0)
<1>1. lpc = "reset" /\ lpc' = "mcastK" /\ round' = round BY DEF ResetReady
<1> QED BY <1>1, BuildKept DEF Announced, Opened, ReadingAhead, Issued, MaskedTo

\* A multicast issues one ring.
LEMMA MulticastViews ==
    ASSUME NEW ring \in Rings, Multicast(ring), build' = build
    PROVE  /\ lpc = Mcast[ring] /\ lpc' \in {"mcastV", "mask", "barrier"} /\ round' = round
           /\ Announced' = Announced /\ Opened /\ Opened' /\ Announced = round[0]
           /\ ~Issued(ring) /\ Issued(ring)'
           /\ \A q \in Rings : q # ring => (Issued(q)' <=> Issued(q))
           /\ MaskedTo(0)' = MaskedTo(0)
           /\ (lpc' = "mask" => ReadAhead) /\ (lpc' = "barrier" => ~ReadAhead)
           /\ lpc \in {"mcastK", "mcastV"}
<1>1. CASE ring = "K"
  <2>1. lpc = "mcastK" /\ lpc' = "mcastV" /\ round' = round /\ lpc = Mcast[ring]
    BY <1>1 DEF Multicast, Mcast
  <2> QED BY <1>1, <2>1, BuildKept DEF Announced, Opened, ReadingAhead, Issued, MaskedTo, Rings
<1>2. CASE ring = "V"
  <2>1. /\ lpc = "mcastV" /\ lpc' = (IF ReadAhead THEN "mask" ELSE "barrier") /\ round' = round
        /\ lpc = Mcast[ring]
    BY <1>2 DEF Multicast, Mcast
  <2> QED BY <1>2, <2>1, BuildKept DEF Announced, Opened, ReadingAhead, Issued, MaskedTo, Rings
<1> QED BY <1>1, <1>2 DEF Rings

\* The mask of the chunk is decided; in the stage-3 branch the round number follows.
LEMMA LeaderMaskViews ==
    ASSUME Inv, LeaderMask, build' = build
    PROVE  /\ lpc = "mask" /\ lpc' \in {"barrier", "readK", "exit"}
           /\ round' \in [Core -> 0..Last] /\ \A t \in Twin : round'[t] = round[t]
           /\ IF ReadAhead
              THEN /\ round'[0] = round[0]
                   /\ lpc' = IF HeadStart(round[0] + 1) THEN "barrier" ELSE "readK"
              ELSE /\ round'[0] = round[0] + 1
                   /\ lpc' = IF round[0] + 1 = Last THEN "exit" ELSE "readK"
           /\ Announced' = Announced /\ (Opened' <=> Opened)
           /\ \A ring \in Rings : Issued(ring)' <=> Issued(ring)
           /\ Opened => round'[0] = round[0]
           /\ MaskedTo(0) = round[0] /\ MaskedTo(0)' = round[0] + 1
<1>a. /\ lpc = "mask" /\ pushed' = pushed /\ pushed[0]["V"] = round[0] + 1 /\ round[0] < Last
      /\ round[0] \in Nat /\ Last \in Nat
  BY Counters, Cores DEF Inv, LeaderInOrder, LeaderMask
<1>0. round \in [Core -> 0..Last] BY DEF Inv, TypeOK
<1>1. CASE ReadAhead
  <2>1. lpc' = (IF HeadStart(round[0] + 1) THEN "barrier" ELSE "readK") /\ round' = round
    BY <1>1 DEF LeaderMask, AfterMask
  <2>2. ReadAhead' BY <1>1, BuildKept
  <2>3. lpc' \in {"barrier", "readK"} /\ (lpc' = "readK" => ReadingAhead') BY <1>a, <2>1, <2>2 DEF ReadingAhead
  <2>4. Opened /\ Opened' BY <1>a, <1>1, <2>3 DEF Opened
  <2>5. \A ring \in Rings : Issued(ring) /\ Issued(ring)' BY <1>a, <2>3, <2>4 DEF Issued
  <2>6. MaskedTo(0) = round[0] /\ MaskedTo(0)' = round[0] + 1
    BY <1>a, <1>1, <2>1, <2>2, <2>3 DEF MaskedTo, ReadingAhead
  <2>7. Announced' = Announced BY <1>1, <2>1, <2>2 DEF Announced
  <2> QED BY <1>a, <1>0, <1>1, <2>1, <2>3, <2>4, <2>5, <2>6, <2>7
<1>2. CASE ~ReadAhead
  <2>1. /\ lpc' = (IF round[0] + 1 = Last THEN "exit" ELSE "readK")
        /\ round' = [round EXCEPT ![0] = @ + 1]
    BY <1>2 DEF LeaderMask, AfterMask
  <2>2. ~ReadAhead' BY <1>2, BuildKept
  <2>3. lpc' \in {"exit", "readK"} BY <2>1
  <2>4. /\ round'[0] = round[0] + 1 /\ round' \in [Core -> 0..Last]
        /\ \A t \in Twin : round'[t] = round[t]
    BY <1>a, <1>0, <2>1, Cores
  <2>5. ~Opened /\ ~Opened' BY <1>a, <1>2, <2>2, <2>3 DEF Opened, ReadingAhead
  <2>6. Announced' = Announced BY <1>a, <1>2, <2>2, <2>3, <2>4 DEF Announced
  <2>7. MaskedTo(0) = round[0] /\ MaskedTo(0)' = round[0] + 1 BY <1>2, <2>2, <2>4 DEF MaskedTo
  <2> QED BY <1>a, <1>2, <2>1, <2>3, <2>4, <2>5, <2>6, <2>7 DEF Issued
<1> QED BY <1>1, <1>2

\* VALID announces the chunk and closes the round.
LEMMA SendValidViews ==
    ASSUME Inv, SendValid, build' = build
    PROVE  /\ lpc = "valid" /\ lpc' \in {"mask", "exit", "readK", "ready"}
           /\ round' \in [Core -> 0..Last] /\ \A t \in Twin : round'[t] = round[t]
           /\ IF ReadAhead
              THEN /\ round'[0] = round[0] + 1
                   /\ lpc' = IF round[0] + 1 = Last THEN "exit"
                             ELSE IF HeadStart(round[0] + 1) THEN "readK" ELSE "ready"
              ELSE round'[0] = round[0] /\ lpc' = "mask"
           /\ Announced' = Announced + 1 /\ Opened /\ ~Opened'
           /\ \A ring \in Rings : Issued(ring) /\ ~Issued(ring)'
           /\ Announced = round[0] /\ MaskedTo(0)' = MaskedTo(0)
<1>a. /\ lpc = "valid" /\ pushed' = pushed /\ round[0] < Last /\ round[0] \in Nat /\ Last \in Nat
      /\ pushed[0]["V"] = IF ReadAhead /\ ~HeadStart(round[0] + 1) THEN round[0] + 2 ELSE round[0] + 1
  BY Counters, Cores DEF Inv, LeaderInOrder, SendValid
<1>0. round \in [Core -> 0..Last] BY DEF Inv, TypeOK
<1>b. Opened /\ Announced = round[0] /\ \A ring \in Rings : Issued(ring)
  BY <1>a DEF Opened, Announced, Issued
<1>1. CASE ReadAhead
  <2>1. /\ lpc' = (IF round[0] + 1 = Last THEN "exit"
                   ELSE IF HeadStart(round[0] + 1) THEN "readK" ELSE "ready")
        /\ round' = [round EXCEPT ![0] = @ + 1]
    BY <1>1 DEF SendValid, AfterValid
  <2>2. ReadAhead' BY <1>1, BuildKept
  <2>3. /\ round'[0] = round[0] + 1 /\ round' \in [Core -> 0..Last]
        /\ \A t \in Twin : round'[t] = round[t]
    BY <1>a, <1>0, <2>1, Cores
  <2>4. lpc' \in {"exit", "readK", "ready"} /\ (lpc' = "readK" => pushed'[0]["V"] = round'[0])
    BY <1>a, <2>1, <2>3
  <2>5. ~ReadingAhead' BY <1>a, <2>3, <2>4 DEF ReadingAhead
  <2>6. ~Opened' BY <2>4, <2>5 DEF Opened
  <2>7. Announced' = Announced + 1 BY <1>b, <2>2, <2>3 DEF Announced
  <2>8. MaskedTo(0)' = MaskedTo(0) BY <1>a, <1>1, <2>3, <2>4, <2>5 DEF MaskedTo
  <2> QED BY <1>a, <1>b, <1>1, <2>1, <2>3, <2>4, <2>6, <2>7, <2>8 DEF Issued
<1>2. CASE ~ReadAhead
  <2>1. lpc' = "mask" /\ round' = round BY <1>2 DEF SendValid, AfterValid
  <2>2. ~ReadAhead' BY <1>2, BuildKept
  <2>3. ~Opened' BY <2>1, <2>2 DEF Opened, ReadingAhead
  <2>4. Announced' = Announced + 1 BY <1>b, <2>1, <2>2 DEF Announced
  <2>5. MaskedTo(0)' = MaskedTo(0) BY <1>2, <2>1, <2>2 DEF MaskedTo
  <2> QED BY <1>a, <1>0, <1>b, <1>2, <2>1, <2>3, <2>4, <2>5 DEF Issued
<1> QED BY <1>1, <1>2

-----------------------------------------------------------------------------
(* What keeps each part of the invariant *)

\* The leader's place and its rings' counters.
LEMMA LeaderInOrderKept ==
    ASSUME LeaderInOrder, build' = build, lpc' = lpc, round'[0] = round[0], pushed'[0] = pushed[0]
    PROVE  LeaderInOrder'
BY BuildKept DEF LeaderInOrder

\* The twins' places and counters.
LEMMA TwinInOrderKept ==
    ASSUME TwinInOrder, tpc' = tpc, \A t \in Twin : round'[t] = round[t] /\ pushed'[t] = pushed[t]
    PROVE  TwinInOrder'
BY DEF TwinInOrder

\* Nothing pushed, nothing reserved, perhaps something popped.
LEMMA RingsBoundedKept ==
    ASSUME TypeOK, RingsBounded, \A c \in Core : pushed'[c] = pushed[c],
           \A c \in Core, ring \in Rings : Popped(c, ring)' \in Nat /\ Popped(c, ring) <= Popped(c, ring)',
           \A ring \in Rings : lpc' = Fill[ring] => lpc = Fill[ring],
           \A t \in Twin : tpc'[t] \in {"clear", "signal", "wait"} => tpc[t] \in {"clear", "signal", "wait"}
    PROVE  RingsBounded'
<1>1. ASSUME NEW c \in Core, NEW ring \in Rings
      PROVE  /\ pushed'[c][ring] <= Popped(c, ring)' + 2
             /\ (Room(c, ring) => Room(c, ring)')
  <2>1. pushed[c][ring] \in Nat /\ pushed'[c][ring] = pushed[c][ring] BY <1>1, Counters
  <2>2. Popped(c, ring) \in Nat /\ Popped(c, ring)' \in Nat /\ Popped(c, ring) <= Popped(c, ring)'
    BY <1>1, Counters
  <2>3. pushed[c][ring] <= Popped(c, ring) + 2 BY <1>1 DEF RingsBounded
  <2> QED BY <2>1, <2>2, <2>3 DEF Room
<1>2. \A ring \in Rings : lpc' = Fill[ring] => Room(0, ring)' BY <1>1, Cores DEF RingsBounded
<1>3. \A t \in Twin, ring \in Rings : tpc'[t] \in {"clear", "signal", "wait"} => Room(t, ring)'
  BY <1>1, Cores DEF RingsBounded
<1> QED BY <1>1, <1>2, <1>3 DEF RingsBounded

\* Readers that push do not get behind.
LEMMA ComputeBehindKept ==
    ASSUME TypeOK, ComputeBehind, done' = done, cpc' = cpc,
           \A c \in Core, ring \in Rings : pushed'[c][ring] \in Nat /\ pushed[c][ring] <= pushed'[c][ring]
    PROVE  ComputeBehind'
<1>1. ASSUME NEW c \in Core
      PROVE  done[c] <= pushed'[c]["V"] /\ (cpc[c] # "K" => done[c] < pushed'[c]["K"])
  <2>1. "K" \in Rings /\ "V" \in Rings BY DEF Rings
  <2>2. /\ done[c] \in Nat /\ pushed[c]["K"] \in Nat /\ pushed[c]["V"] \in Nat
        /\ pushed'[c]["K"] \in Nat /\ pushed'[c]["V"] \in Nat
        /\ pushed[c]["K"] <= pushed'[c]["K"] /\ pushed[c]["V"] <= pushed'[c]["V"]
    BY <2>1, Counters
  <2>3. done[c] <= pushed[c]["V"] /\ (cpc[c] # "K" => done[c] < pushed[c]["K"]) BY DEF ComputeBehind
  <2> QED BY <2>2, <2>3
<1> QED BY <1>1 DEF ComputeBehind

\* No VALID sent, landed or consumed.
LEMMA ValidInStepKept ==
    ASSUME ValidInStep, Announced' = Announced, \A t \in Twin : pushed'[t] = pushed[t],
           tpc' = tpc, valid' = valid, vflight' = vflight, lpc' = "end" => lpc = "end"
    PROVE  ValidInStep'
BY DEF ValidInStep, Behind, Level

\* No READY sent, landed or consumed.
LEMMA ReadyCountsKept ==
    ASSUME ReadyCounts, Announced' = Announced, Opened' <=> Opened, \A t \in Twin : pushed'[t] = pushed[t],
           tpc' = tpc, rflight' = rflight, ready' = ready, lpc' = "reset" => lpc = "reset"
    PROVE  ReadyCounts'
<1>1. \A t \in Twin : Level(t)' <=> Level(t) BY DEF Level
<1>2. Asking' = Asking BY <1>1 DEF Asking
<1> QED BY <1>1, <1>2 DEF ReadyCounts

\* No multicast issued.
LEMMA FlightsInRoundKept ==
    ASSUME FlightsInRound, \A ring \in Rings : Issued(ring)' <=> Issued(ring), round'[0] = round[0],
           flight' \subseteq flight, lpc' = "valid" => flight' = {}
    PROVE  FlightsInRound'
BY DEF FlightsInRound

\* Nothing read, nothing reserved.
LEMMA LeaderHoldsKept ==
    ASSUME LeaderHolds, pushed'[0] = pushed[0], slot'[0] = slot[0],
           \A ring \in Rings : lpc = Fill[ring] => lpc' = Fill[ring]
    PROVE  LeaderHolds'
BY DEF LeaderHolds

\* Nothing landed, issued or pushed.
LEMMA TwinHoldsKept ==
    ASSUME TwinHolds, \A t \in Twin : pushed'[t] = pushed[t] /\ slot'[t] = slot[t],
           \A t \in Twin : tpc[t] = "wait" => tpc'[t] = "wait", Announced' = Announced,
           \A ring \in Rings : Issued(ring)' <=> Issued(ring), round'[0] = round[0], flight' = flight
    PROVE  TwinHolds'
<1>1. \A t \in Twin : Behind(t)' <=> Behind(t) BY DEF Behind
<1> QED BY <1>1 DEF TwinHolds

\* No mask written or taken.
LEMMA MasksInOrderKept ==
    ASSUME MasksInOrder, build' = build, mask' = mask, done' = done,
           \A c \in Core : MaskedTo(c)' = MaskedTo(c) /\ cpc'[c] = cpc[c]
    PROVE  MasksInOrder'
<1>1. \A c \in Core : TakenTo(c)' = TakenTo(c) BY DEF TakenTo
<1>2. \A n : Masked(n)' <=> Masked(n) BY BuildKept
<1> QED BY <1>1, <1>2 DEF MasksInOrder

\* A twin decides its own masks.
LEMMA MaskedToKept ==
    ASSUME MaskedTo(0)' = MaskedTo(0), \A t \in Twin : round'[t] = round[t]
    PROVE  \A c \in Core : MaskedTo(c)' = MaskedTo(c)
BY Cores DEF MaskedTo

-----------------------------------------------------------------------------
(* The leader's steps *)

\* The places where the leader is about to fill a slot of a ring.
LEMMA FillPlaces ==
    /\ \A ring \in Rings : lpc = Fill[ring] <=> (ring = "K" /\ lpc = "fillK") \/ (ring = "V" /\ lpc = "fillV")
    /\ \A ring \in Rings : lpc' = Fill[ring] <=> (ring = "K" /\ lpc' = "fillK") \/ (ring = "V" /\ lpc' = "fillV")
BY DEF Fill, Rings

\* Filling a slot spares the chunk pushed last.
LEMMA ReadStartStep == ASSUME Inv, NEW ring \in Rings, ReadStart(ring), build' = build PROVE Inv'
<1>0. /\ TypeOK /\ LeaderInOrder /\ TwinInOrder /\ RingsBounded /\ ComputeBehind /\ ValidInStep
      /\ ReadyCounts /\ FlightsInRound /\ LeaderHolds /\ TwinHolds /\ MasksInOrder
  BY DEF Inv
<1>1. /\ (ring = "K" /\ lpc = "readK" /\ lpc' = "fillK") \/ (ring = "V" /\ lpc = "readV" /\ lpc' = "fillV")
      /\ Room(0, ring) /\ slot' = [slot EXCEPT ![0][ring][At(pushed[0][ring])] = NoChunk]
      /\ round' = round /\ tpc' = tpc /\ cpc' = cpc /\ done' = done /\ pushed' = pushed /\ mask' = mask
      /\ flight' = flight /\ vflight' = vflight /\ rflight' = rflight /\ ready' = ready /\ valid' = valid
  BY DEF ReadStart, Read, Fill, Rings
<1>2. ViewsKept BY ReadStartViews
<1>3. pushed[0][ring] \in Nat /\ At(pushed[0][ring]) \in 0..1 BY <1>0, Counters, Cores, Slots
<1>4. /\ slot' \in [Core -> [Rings -> [0..1 -> -1..Last]]]
      /\ slot'[0][ring][At(pushed[0][ring])] = NoChunk
      /\ \A q \in Rings, u \in 0..1 : q # ring \/ u # At(pushed[0][ring]) => slot'[0][q][u] = slot[0][q][u]
      /\ \A t \in Twin : slot'[t] = slot[t]
  <2>1. NoChunk \in -1..Last BY LastStartsAHead DEF NoChunk
  <2>2. slot' = [slot EXCEPT ![0][ring][At(pushed[0][ring])] = NoChunk] BY <1>1, Zenon
  <2>3. TypeOK /\ At(pushed[0][ring]) \in 0..1 BY <1>0, <1>3
  <2> QED BY <2>1, <2>2, <2>3, LeaderSlotWritten, Zenon
<1>5. TypeOK' BY <1>0, <1>1, <1>4 DEF TypeOK
<1>6. LeaderInOrder' BY <1>0, <1>1, BuildKept DEF LeaderInOrder
<1>7. TwinInOrder' BY <1>0, <1>1, TwinInOrderKept
<1>8. RingsBounded'
  <2>1. \A c \in Core, q \in Rings : Popped(c, q)' = Popped(c, q) BY <1>1 DEF Popped
  <2>2. \A c \in Core, q \in Rings : Room(c, q)' <=> Room(c, q) BY <1>1, <2>1 DEF Room
  <2>3. \A q \in Rings : lpc' = Fill[q] => q = ring BY <1>1, FillPlaces
  <2> QED BY <1>0, <1>1, <2>1, <2>2, <2>3, Cores DEF RingsBounded
<1>9. ComputeBehind' BY <1>0, <1>1 DEF ComputeBehind
<1>10. ValidInStep' BY <1>0, <1>1, <1>2, ValidInStepKept DEF ViewsKept
<1>11. ReadyCounts' BY <1>0, <1>1, <1>2, ReadyCountsKept DEF ViewsKept
<1>12. FlightsInRound' BY <1>0, <1>1, <1>2, FlightsInRoundKept DEF ViewsKept
<1>13. LeaderHolds'
  <2> SUFFICES ASSUME NEW q \in Rings, NEW n \in 0..(pushed[0][q] - 1), pushed[0][q] <= n + 2,
                      lpc' = Fill[q] => pushed[0][q] = n + 1
               PROVE  slot'[0][q][At(n)] = n
    BY <1>1 DEF LeaderHolds
  <2>1. n \in Nat /\ At(n) \in 0..1 /\ n < pushed[0][q] /\ pushed[0][q] \in Nat
    BY <1>0, Counters, Cores, Slots
  <2>2. lpc # Fill[q] BY <1>1, FillPlaces
  <2>3. slot[0][q][At(n)] = n BY <1>0, <2>2 DEF LeaderHolds
  <2>4. CASE q # ring BY <1>4, <2>1, <2>3, <2>4
  <2>5. CASE q = ring
    <3>1. pushed[0][q] = n + 1 BY <1>1, <2>5, FillPlaces
    <3>2. At(pushed[0][ring]) # At(n) BY <2>1, <2>5, <3>1, Slots
    <3> QED BY <1>4, <2>1, <2>3, <3>2
  <2> QED BY <2>4, <2>5
<1>14. TwinHolds' BY <1>0, <1>1, <1>2, <1>4, TwinHoldsKept DEF ViewsKept
<1>15. MasksInOrder'
  <2>1. \A c \in Core : MaskedTo(c)' = MaskedTo(c) BY <1>1, <1>2, MaskedToKept DEF ViewsKept
  <2> QED BY <1>0, <1>1, <2>1, MasksInOrderKept
<1> QED BY <1>5, <1>6, <1>7, <1>8, <1>9, <1>10, <1>11, <1>12, <1>13, <1>14, <1>15 DEF Inv

\* A chunk read is pushed with its bytes.
LEMMA ReadEndStep == ASSUME Inv, NEW ring \in Rings, ReadEnd(ring), build' = build PROVE Inv'
<1>0. /\ TypeOK /\ LeaderInOrder /\ TwinInOrder /\ RingsBounded /\ ComputeBehind /\ ValidInStep
      /\ ReadyCounts /\ FlightsInRound /\ LeaderHolds /\ TwinHolds /\ MasksInOrder
  BY DEF Inv
<1>1. /\ lpc = Fill[ring] /\ slot' = [slot EXCEPT ![0][ring][At(pushed[0][ring])] = pushed[0][ring]]
      /\ round' = round /\ tpc' = tpc /\ cpc' = cpc /\ done' = done /\ mask' = mask
      /\ flight' = flight /\ vflight' = vflight /\ rflight' = rflight /\ ready' = ready /\ valid' = valid
  BY DEF ReadEnd
<1>2. ViewsKept BY ReadEndViews
<1>3. pushed[0][ring] \in Nat /\ At(pushed[0][ring]) \in 0..1 /\ pushed[0][ring] < Last /\ Last \in Nat
  BY <1>0, Counters, Cores, Slots, ReadEndMoves
<1>4. /\ slot' \in [Core -> [Rings -> [0..1 -> -1..Last]]]
      /\ slot'[0][ring][At(pushed[0][ring])] = pushed[0][ring]
      /\ \A q \in Rings, u \in 0..1 : q # ring \/ u # At(pushed[0][ring]) => slot'[0][q][u] = slot[0][q][u]
      /\ \A t \in Twin : slot'[t] = slot[t]
  <2>1. pushed[0][ring] \in -1..Last BY <1>3
  <2> QED BY <1>0, <1>1, <1>3, <2>1, LeaderSlotWritten, Zenon
<1>5. /\ pushed' \in [Core -> [Rings -> 0..Last]] /\ pushed'[0][ring] = pushed[0][ring] + 1
      /\ \A q \in Rings : q # ring => pushed'[0][q] = pushed[0][q]
      /\ \A t \in Twin : pushed'[t] = pushed[t]
  BY <1>0, ReadEndMoves, RingPushed
<1>6. \/ ring = "K" /\ lpc = "fillK" /\ lpc' = "readV"
      \/ ring = "V" /\ lpc = "fillV" /\ pushed[0]["V"] = round[0] /\ lpc' = "ready"
      \/ /\ ring = "V" /\ lpc = "fillV" /\ pushed[0]["V"] = round[0] + 1 /\ lpc' = "barrier"
         /\ ReadAhead /\ ~HeadStart(round[0] + 1)
  BY ReadEndMoves
<1>7. TypeOK' BY <1>0, <1>1, <1>4, <1>5, <1>6 DEF TypeOK
<1>8. LeaderInOrder'
  <2>1. "K" \in Rings /\ "V" \in Rings BY DEF Rings
  <2>2. round[0] \in Nat /\ pushed[0]["K"] \in Nat /\ pushed[0]["V"] \in Nat BY <1>0, Counters, Cores
  <2>3. CASE ring = "K"
    <3>1. /\ lpc = "fillK" /\ lpc' = "readV" /\ round'[0] = round[0]
          /\ pushed'[0]["K"] = pushed[0]["K"] + 1 /\ pushed'[0]["V"] = pushed[0]["V"]
      BY <1>1, <1>5, <1>6, <2>1, <2>3
    <3> QED BY <1>0, <2>2, <3>1, BuildKept DEF LeaderInOrder
  <2>4. CASE ring = "V"
    <3>1. /\ lpc = "fillV" /\ round'[0] = round[0]
          /\ pushed'[0]["K"] = pushed[0]["K"] /\ pushed'[0]["V"] = pushed[0]["V"] + 1
      BY <1>1, <1>5, <1>6, <2>1, <2>4
    <3>2. pushed[0]["K"] = pushed[0]["V"] + 1 /\ round[0] < Last BY <1>0, <3>1 DEF LeaderInOrder
    <3>3. CASE lpc' = "ready" /\ pushed[0]["V"] = round[0]
      BY <2>2, <3>1, <3>2, <3>3 DEF LeaderInOrder
    <3>4. CASE lpc' = "barrier" /\ pushed[0]["V"] = round[0] + 1 /\ ReadAhead /\ ~HeadStart(round[0] + 1)
      BY <2>2, <3>1, <3>2, <3>4, BuildKept DEF LeaderInOrder
    <3> QED BY <1>6, <2>4, <3>3, <3>4
  <2> QED BY <2>3, <2>4 DEF Rings
<1>9. TwinInOrder' BY <1>0, <1>1, <1>5, TwinInOrderKept
<1>10. RingsBounded'
  <2>1. \A c \in Core, q \in Rings : Popped(c, q)' = Popped(c, q) BY <1>1 DEF Popped
  <2>2. \A q \in Rings : lpc' # Fill[q] BY <1>6, FillPlaces
  <2>3. \A t \in Twin, q \in Rings : Room(t, q)' <=> Room(t, q) BY <1>5, <2>1, Cores DEF Room
  <2>4. pushed'[0][ring] <= Popped(0, ring) + 2
    <3>1. pushed[0][ring] - Popped(0, ring) < 2 BY <1>0, <1>1 DEF RingsBounded, Room
    <3>2. Popped(0, ring) \in Nat BY <1>0, Counters, Cores
    <3> QED BY <1>3, <1>5, <3>1, <3>2
  <2>5. \A c \in Core, q \in Rings : pushed'[c][q] <= Popped(c, q) + 2
    BY <1>0, <1>5, <2>4, Cores DEF RingsBounded
  <2> QED BY <1>0, <1>1, <2>1, <2>2, <2>3, <2>5 DEF RingsBounded
<1>11. ComputeBehind'
  <2>1. \A c \in Core, q \in Rings : pushed[c][q] \in Nat BY <1>0, Counters
  <2>2. \A c \in Core, q \in Rings : pushed'[c][q] \in Nat /\ pushed[c][q] <= pushed'[c][q]
    BY <1>5, <2>1, Cores
  <2> QED BY <1>0, <1>1, <2>2, ComputeBehindKept
<1>12. ValidInStep' BY <1>0, <1>1, <1>2, <1>5, <1>6, ValidInStepKept DEF ViewsKept
<1>13. ReadyCounts' BY <1>0, <1>1, <1>2, <1>5, <1>6, ReadyCountsKept DEF ViewsKept
<1>14. FlightsInRound' BY <1>0, <1>1, <1>2, <1>6, FlightsInRoundKept DEF ViewsKept
<1>15. LeaderHolds'
  <2> SUFFICES ASSUME NEW q \in Rings, NEW n \in 0..(pushed'[0][q] - 1), pushed'[0][q] <= n + 2
               PROVE  slot'[0][q][At(n)] = n
    BY DEF LeaderHolds
  <2>1. n \in Nat /\ At(n) \in 0..1 /\ pushed[0][q] \in Nat BY <1>0, Counters, Cores, Slots
  <2>2. CASE q # ring
    <3>1. lpc # Fill[q] /\ pushed'[0][q] = pushed[0][q] BY <1>5, <1>6, <2>2, FillPlaces
    <3>2. slot[0][q][At(n)] = n BY <1>0, <3>1 DEF LeaderHolds
    <3> QED BY <1>4, <2>1, <2>2, <3>2
  <2>3. CASE q = ring
    <3>1. n = pushed[0][ring] \/ (n \in 0..(pushed[0][ring] - 1) /\ pushed[0][ring] = n + 1)
      <4>1. pushed'[0][ring] = pushed[0][ring] + 1 /\ n <= pushed'[0][ring] - 1 /\ pushed'[0][ring] <= n + 2
        BY <1>3, <1>5, <2>3
      <4>2. n <= pushed[0][ring] /\ pushed[0][ring] <= n + 1 BY <1>3, <2>1, <4>1
      <4> QED BY <1>3, <2>1, <4>2
    <3>2. CASE n = pushed[0][ring] BY <1>4, <2>3, <3>2
    <3>3. CASE n \in 0..(pushed[0][ring] - 1) /\ pushed[0][ring] = n + 1
      <4>1. pushed[0][ring] <= n + 2 BY <2>1, <3>3
      <4>2. slot[0][ring][At(n)] = n BY <1>0, <3>3, <4>1 DEF LeaderHolds
      <4>3. At(n) # At(pushed[0][ring]) BY <2>1, <3>3, Slots
      <4> QED BY <1>4, <2>1, <2>3, <4>2, <4>3
    <3> QED BY <3>1, <3>2, <3>3
  <2> QED BY <2>2, <2>3
<1>16. TwinHolds' BY <1>0, <1>1, <1>2, <1>4, <1>5, TwinHoldsKept DEF ViewsKept
<1>17. MasksInOrder'
  <2>1. \A c \in Core : MaskedTo(c)' = MaskedTo(c) BY <1>1, <1>2, MaskedToKept DEF ViewsKept
  <2> QED BY <1>0, <1>1, <2>1, MasksInOrderKept
<1> QED BY <1>7, <1>8, <1>9, <1>10, <1>11, <1>12, <1>13, <1>14, <1>15, <1>16, <1>17 DEF Inv


\* All the twins' increments have arrived when the semaphore reads their number.
LEMMA AllAsked == ASSUME TypeOK, ReadyCounts, ready = Twins PROVE Asking = Twin /\ rflight = {}
<1>1. Twins \in Nat /\ Twins # 0 BY ShareAssumption
<1>2. IsFiniteSet(Twin) /\ Cardinality(Twin) = Twins BY <1>1, FS_Interval DEF Twin
<1>3. Asking \ rflight \in SUBSET Twin /\ Asking \subseteq Twin /\ rflight \subseteq Asking
  BY DEF Asking, ReadyCounts
<1>4. Cardinality(Asking \ rflight) = Cardinality(Twin) BY <1>2 DEF ReadyCounts
<1>5. Asking \ rflight = Twin BY <1>2, <1>3, <1>4, FS_Subset
<1> QED BY <1>3, <1>5

\* A step that moves the leader on, without reading, multicasting or announcing.
LEMMA LeaderMovesOn ==
    ASSUME Inv, build' = build, round' = round, tpc' = tpc, cpc' = cpc, done' = done, pushed' = pushed,
           slot' = slot, mask' = mask, flight' = flight, Announced' = Announced, MaskedTo(0)' = MaskedTo(0),
           \A ring \in Rings : (Issued(ring)' <=> Issued(ring)) /\ lpc # Fill[ring] /\ lpc' # Fill[ring]
    PROVE  TwinInOrder' /\ RingsBounded' /\ ComputeBehind' /\ LeaderHolds' /\ TwinHolds' /\ MasksInOrder'
<1>0. /\ TypeOK /\ TwinInOrder /\ RingsBounded /\ ComputeBehind /\ LeaderHolds /\ TwinHolds /\ MasksInOrder
  BY DEF Inv
<1>1. TwinInOrder' BY <1>0, TwinInOrderKept
<1>2. RingsBounded'
  <2>1. \A c \in Core, q \in Rings : Popped(c, q)' = Popped(c, q) BY DEF Popped
  <2>2. \A c \in Core, q \in Rings : Room(c, q)' <=> Room(c, q) BY <2>1 DEF Room
  <2> QED BY <1>0, <2>1, <2>2, Cores DEF RingsBounded
<1>3. ComputeBehind' BY <1>0 DEF ComputeBehind
<1>4. LeaderHolds' BY <1>0, LeaderHoldsKept
<1>5. TwinHolds' BY <1>0, TwinHoldsKept
<1>6. MasksInOrder'
  <2>1. \A c \in Core : MaskedTo(c)' = MaskedTo(c) BY MaskedToKept
  <2> QED BY <1>0, <2>1, MasksInOrderKept
<1> QED BY <1>1, <1>2, <1>3, <1>4, <1>5, <1>6

\* The wait for READY ends when every twin asks.
LEMMA WaitReadyStep == ASSUME Inv, WaitReady, build' = build PROVE Inv'
<1>0. /\ TypeOK /\ LeaderInOrder /\ ValidInStep /\ ReadyCounts /\ FlightsInRound BY DEF Inv
<1>1. /\ lpc = "ready" /\ lpc' = "reset" /\ ready = Twins
      /\ round' = round /\ tpc' = tpc /\ cpc' = cpc /\ done' = done /\ pushed' = pushed /\ slot' = slot
      /\ mask' = mask /\ flight' = flight /\ vflight' = vflight /\ rflight' = rflight /\ ready' = ready
      /\ valid' = valid
  BY DEF WaitReady
<1>2. ViewsKept BY WaitingKeepsViews
<1>3. \A ring \in Rings : lpc # Fill[ring] /\ lpc' # Fill[ring] BY <1>1, FillPlaces
<1>4. /\ Announced' = Announced /\ (Opened' <=> Opened) /\ MaskedTo(0)' = MaskedTo(0)
      /\ \A ring \in Rings : Issued(ring)' <=> Issued(ring)
  BY <1>2 DEF ViewsKept
<1>5. TypeOK' BY <1>0, <1>1 DEF TypeOK
<1>6. LeaderInOrder' BY <1>0, <1>1, BuildKept DEF LeaderInOrder
<1>7. ValidInStep' BY <1>0, <1>1, <1>4, ValidInStepKept
<1>8. ReadyCounts'
  <2>1. \A t \in Twin : Level(t)' <=> Level(t) BY <1>1, <1>4 DEF Level
  <2>2. Asking' = Asking BY <1>1, <1>4, <2>1 DEF Asking
  <2>3. Asking = Twin /\ rflight = {} BY <1>0, <1>1, AllAsked
  <2> QED BY <1>0, <1>1, <1>4, <2>1, <2>2, <2>3 DEF ReadyCounts
<1>9. FlightsInRound' BY <1>0, <1>1, <1>4, FlightsInRoundKept
<1>10. TwinInOrder' /\ RingsBounded' /\ ComputeBehind' /\ LeaderHolds' /\ TwinHolds' /\ MasksInOrder'
  BY <1>1, <1>3, <1>4, LeaderMovesOn
<1> QED BY <1>5, <1>6, <1>7, <1>8, <1>9, <1>10 DEF Inv

\* The reset consumes the increments: from here the twins wait for the chunk.
LEMMA ResetReadyStep == ASSUME Inv, ResetReady, build' = build PROVE Inv'
<1>0. /\ TypeOK /\ LeaderInOrder /\ ValidInStep /\ ReadyCounts /\ FlightsInRound BY DEF Inv
<1>1. /\ lpc = "reset" /\ lpc' = "mcastK" /\ ready' = 0
      /\ round' = round /\ tpc' = tpc /\ cpc' = cpc /\ done' = done /\ pushed' = pushed /\ slot' = slot
      /\ mask' = mask /\ flight' = flight /\ vflight' = vflight /\ rflight' = rflight /\ valid' = valid
  BY DEF ResetReady
<1>2. /\ Announced' = Announced /\ ~Opened /\ Opened' /\ MaskedTo(0)' = MaskedTo(0)
      /\ \A ring \in Rings : ~Issued(ring) /\ ~Issued(ring)'
  BY ResetViews
<1>3. \A ring \in Rings : lpc # Fill[ring] /\ lpc' # Fill[ring] BY <1>1, FillPlaces
<1>5. TypeOK' BY <1>0, <1>1, ShareAssumption DEF TypeOK
<1>6. LeaderInOrder' BY <1>0, <1>1, BuildKept DEF LeaderInOrder
<1>7. ValidInStep' BY <1>0, <1>1, <1>2, ValidInStepKept
<1>8. ReadyCounts'
  <2>1. Asking = Twin /\ rflight = {} BY <1>0, <1>1 DEF ReadyCounts
  <2>2. \A t \in Twin : tpc'[t] = "wait" /\ Level(t)' BY <1>1, <1>2, <2>1 DEF Asking, Level
  <2>3. Asking' = {} BY <1>2 DEF Asking
  <2>4. Cardinality(Asking' \ rflight') = 0 BY <2>3, FS_EmptySet
  <2> QED BY <1>1, <2>1, <2>2, <2>3, <2>4 DEF ReadyCounts
<1>9. FlightsInRound' BY <1>0, <1>1, <1>2 DEF FlightsInRound
<1>10. TwinInOrder' /\ RingsBounded' /\ ComputeBehind' /\ LeaderHolds' /\ TwinHolds' /\ MasksInOrder'
  BY <1>1, <1>2, <1>3, LeaderMovesOn
<1> QED BY <1>5, <1>6, <1>7, <1>8, <1>9, <1>10 DEF Inv

\* The write barrier empties the network of multicasts.
LEMMA WriteBarrierStep == ASSUME Inv, WriteBarrier, build' = build PROVE Inv'
<1>0. /\ TypeOK /\ LeaderInOrder /\ ValidInStep /\ ReadyCounts /\ FlightsInRound BY DEF Inv
<1>1. /\ lpc = "barrier" /\ lpc' = "valid" /\ flight = {}
      /\ round' = round /\ tpc' = tpc /\ cpc' = cpc /\ done' = done /\ pushed' = pushed /\ slot' = slot
      /\ mask' = mask /\ flight' = flight /\ vflight' = vflight /\ rflight' = rflight /\ ready' = ready
      /\ valid' = valid
  BY DEF WriteBarrier
<1>2. ViewsKept BY WaitingKeepsViews
<1>3. \A ring \in Rings : lpc # Fill[ring] /\ lpc' # Fill[ring] BY <1>1, FillPlaces
<1>4. /\ Announced' = Announced /\ (Opened' <=> Opened) /\ MaskedTo(0)' = MaskedTo(0)
      /\ \A ring \in Rings : Issued(ring)' <=> Issued(ring)
  BY <1>2 DEF ViewsKept
<1>5. TypeOK' BY <1>0, <1>1 DEF TypeOK
<1>6. LeaderInOrder' BY <1>0, <1>1, BuildKept DEF LeaderInOrder
<1>7. ValidInStep' BY <1>0, <1>1, <1>4, ValidInStepKept
<1>8. ReadyCounts' BY <1>0, <1>1, <1>4, ReadyCountsKept
<1>9. FlightsInRound' BY <1>0, <1>1, <1>4, FlightsInRoundKept
<1>10. TwinInOrder' /\ RingsBounded' /\ ComputeBehind' /\ LeaderHolds' /\ TwinHolds' /\ MasksInOrder'
  BY <1>1, <1>3, <1>4, LeaderMovesOn
<1> QED BY <1>5, <1>6, <1>7, <1>8, <1>9, <1>10 DEF Inv

\* The last barrier, and the leader's VALID back at zero.
LEMMA LeaderExitStep == ASSUME Inv, LeaderExit, build' = build PROVE Inv'
<1>0. /\ TypeOK /\ LeaderInOrder /\ ValidInStep /\ ReadyCounts /\ FlightsInRound BY DEF Inv
<1>1. /\ lpc = "exit" /\ lpc' = "end" /\ flight = {} /\ vflight = {} /\ valid' = [valid EXCEPT ![0] = 0]
      /\ round' = round /\ tpc' = tpc /\ cpc' = cpc /\ done' = done /\ pushed' = pushed /\ slot' = slot
      /\ mask' = mask /\ flight' = flight /\ vflight' = vflight /\ rflight' = rflight /\ ready' = ready
  BY DEF LeaderExit
<1>2. ViewsKept BY WaitingKeepsViews
<1>3. \A ring \in Rings : lpc # Fill[ring] /\ lpc' # Fill[ring] BY <1>1, FillPlaces
<1>4. /\ Announced' = Announced /\ (Opened' <=> Opened) /\ MaskedTo(0)' = MaskedTo(0)
      /\ \A ring \in Rings : Issued(ring)' <=> Issued(ring)
  BY <1>2 DEF ViewsKept
<1>a. valid' \in [Core -> 0..1] /\ valid'[0] = 0 /\ \A t \in Twin : valid'[t] = valid[t]
  BY <1>0, <1>1, Cores DEF TypeOK
<1>5. TypeOK' BY <1>0, <1>1, <1>a DEF TypeOK
<1>6. LeaderInOrder' BY <1>0, <1>1, BuildKept DEF LeaderInOrder
<1>7. ValidInStep'
  <2>1. \A t \in Twin : (Behind(t)' <=> Behind(t)) /\ (Level(t)' <=> Level(t)) BY <1>1, <1>4 DEF Behind, Level
  <2> QED BY <1>0, <1>1, <1>a, <2>1 DEF ValidInStep
<1>8. ReadyCounts' BY <1>0, <1>1, <1>4, ReadyCountsKept
<1>9. FlightsInRound' BY <1>0, <1>1, <1>4, FlightsInRoundKept
<1>10. TwinInOrder' /\ RingsBounded' /\ ComputeBehind' /\ LeaderHolds' /\ TwinHolds' /\ MasksInOrder'
  BY <1>1, <1>3, <1>4, LeaderMovesOn
<1> QED BY <1>5, <1>6, <1>7, <1>8, <1>9, <1>10 DEF Inv

\* A reader decides the mask of its chunk m: it writes the buffer only when m is masked.
LEMMA MaskDecided ==
    ASSUME TypeOK, MasksInOrder, NEW c \in Core, NEW m \in Nat, m < Last, build' = build,
           done' = done, cpc' = cpc, Masked(m) => mask[c] = NoChunk,
           mask' = IF Masked(m) THEN [mask EXCEPT ![c] = m] ELSE mask,
           MaskedTo(c) = m, MaskedTo(c)' = m + 1, \A d \in Core : d # c => MaskedTo(d)' = MaskedTo(d)
    PROVE  mask' \in [Core -> -1..Last] /\ MasksInOrder'
<1>0. Last \in Nat /\ m \in -1..Last /\ NoChunk = -1 BY LastStartsAHead DEF NoChunk
<1>1. mask \in [Core -> -1..Last] BY DEF TypeOK
<1>2. /\ mask' \in [Core -> -1..Last] /\ (\A d \in Core : d # c => mask'[d] = mask[d])
      /\ mask'[c] = IF Masked(m) THEN m ELSE mask[c]
  BY <1>0, <1>1
<1>3. \A d \in Core : TakenTo(d)' = TakenTo(d) /\ TakenTo(d) \in Nat BY Counters DEF TakenTo
<1>4. \A n : Masked(n)' <=> Masked(n) BY BuildKept
<1>5. /\ cpc[c] = "M" => Masked(done[c])
      /\ \A n \in 0..Last : Masked(n) /\ TakenTo(c) <= n /\ n < m => mask[c] = n
      /\ mask[c] # NoChunk => Masked(mask[c]) /\ TakenTo(c) <= mask[c] /\ mask[c] < m
      /\ \A n \in 0..Last : Masked(n) /\ n < TakenTo(c) => n < m
  BY DEF MasksInOrder
<1>6. /\ \A n \in 0..Last : Masked(n) /\ TakenTo(c) <= n /\ n < m + 1 => mask'[c] = n
      /\ mask'[c] # NoChunk => Masked(mask'[c]) /\ TakenTo(c) <= mask'[c] /\ mask'[c] < m + 1
      /\ \A n \in 0..Last : Masked(n) /\ n < TakenTo(c) => n < m + 1
  <2>1. ASSUME NEW n \in 0..Last, Masked(n), TakenTo(c) <= n, n < m + 1 PROVE mask'[c] = n
    <3>1. CASE n = m BY <1>2, <2>1, <3>1
    <3>2. CASE n < m
      <4>1. mask[c] = n BY <1>5, <2>1, <3>2
      <4>2. n # NoChunk BY <1>0
      <4> QED BY <1>2, <4>1, <4>2
    <3> QED BY <2>1, <3>1, <3>2
  <2>2. ASSUME mask'[c] # NoChunk PROVE Masked(mask'[c]) /\ TakenTo(c) <= mask'[c] /\ mask'[c] < m + 1
    <3>1. CASE Masked(m)
      <4>1. ~(m < TakenTo(c)) BY <1>0, <1>5, <3>1
      <4> QED BY <1>2, <1>3, <3>1, <4>1
    <3>2. CASE ~Masked(m)
      <4>1. mask'[c] = mask[c] /\ mask[c] \in -1..Last BY <1>1, <1>2, <3>2
      <4> QED BY <1>5, <2>2, <4>1
    <3> QED BY <3>1, <3>2
  <2>3. ASSUME NEW n \in 0..Last, Masked(n), n < TakenTo(c) PROVE n < m + 1 BY <1>5, <2>3
  <2> QED BY <2>1, <2>2, <2>3
<1>7. ASSUME NEW d \in Core
      PROVE  /\ cpc[d] = "M" => Masked(done[d])
             /\ \A n \in 0..Last : Masked(n) /\ TakenTo(d) <= n /\ n < MaskedTo(d)' => mask'[d] = n
             /\ mask'[d] # NoChunk => Masked(mask'[d]) /\ TakenTo(d) <= mask'[d] /\ mask'[d] < MaskedTo(d)'
             /\ \A n \in 0..Last : Masked(n) /\ n < TakenTo(d) => n < MaskedTo(d)'
  <2>1. CASE d = c BY <1>5, <1>6, <2>1
  <2>2. CASE d # c BY <1>2, <2>2 DEF MasksInOrder
  <2> QED BY <2>1, <2>2
<1> QED BY <1>2, <1>3, <1>4, <1>7 DEF MasksInOrder

\* A multicast puts the slot of the chunk being served on the network, to every twin.
LEMMA MulticastStep == ASSUME Inv, NEW ring \in Rings, Multicast(ring), build' = build PROVE Inv'
<1>0. /\ TypeOK /\ LeaderInOrder /\ TwinInOrder /\ RingsBounded /\ ComputeBehind /\ ValidInStep
      /\ ReadyCounts /\ FlightsInRound /\ LeaderHolds /\ TwinHolds /\ MasksInOrder
  BY DEF Inv
<1>1. /\ flight' = flight \union (Twin \X {<<ring, At(round[0])>>})
      /\ round' = round /\ tpc' = tpc /\ cpc' = cpc /\ done' = done /\ pushed' = pushed /\ slot' = slot
      /\ mask' = mask /\ vflight' = vflight /\ rflight' = rflight /\ ready' = ready /\ valid' = valid
  BY DEF Multicast
<1>2. /\ lpc \in {"mcastK", "mcastV"} /\ lpc' \in {"mcastV", "mask", "barrier"}
      /\ Announced' = Announced /\ Opened /\ Opened'
      /\ ~Issued(ring) /\ Issued(ring)'
      /\ \A q \in Rings : q # ring => (Issued(q)' <=> Issued(q))
      /\ MaskedTo(0)' = MaskedTo(0) /\ (lpc' = "barrier" => ~ReadAhead)
  BY MulticastViews
<1>3. \A q \in Rings : lpc # Fill[q] /\ lpc' # Fill[q] BY <1>2, FillPlaces
<1>a. round[0] \in Nat /\ At(round[0]) \in 0..1 BY <1>0, Counters, Cores, Slots
<1>b. \A t \in Twin, q \in Rings, s \in 0..1 :
        <<t, <<q, s>>>> \in flight' <=> <<t, <<q, s>>>> \in flight \/ (q = ring /\ s = At(round[0]))
  BY <1>1
<1>4. TypeOK' BY <1>0, <1>1, <1>2, <1>a DEF TypeOK
<1>5. LeaderInOrder' BY <1>0, <1>1, <1>2, BuildKept DEF LeaderInOrder
<1>6. TwinInOrder' BY <1>0, <1>1, TwinInOrderKept
<1>7. RingsBounded'
  <2>1. \A c \in Core, q \in Rings : Popped(c, q)' = Popped(c, q) BY <1>1 DEF Popped
  <2>2. \A c \in Core, q \in Rings : Room(c, q)' <=> Room(c, q) BY <1>1, <2>1 DEF Room
  <2> QED BY <1>0, <1>1, <1>3, <2>1, <2>2, Cores DEF RingsBounded
<1>8. ComputeBehind' BY <1>0, <1>1 DEF ComputeBehind
<1>9. ValidInStep' BY <1>0, <1>1, <1>2, ValidInStepKept
<1>10. ReadyCounts' BY <1>0, <1>1, <1>2, ReadyCountsKept
<1>11. FlightsInRound'
  <2>1. ASSUME NEW t \in Twin, NEW q \in Rings, NEW s \in 0..1, <<t, <<q, s>>>> \in flight'
        PROVE  Issued(q)' /\ s = At(round[0])
    <3>1. CASE <<t, <<q, s>>>> \in flight
      <4>1. Issued(q) /\ s = At(round[0]) BY <1>0, <3>1 DEF FlightsInRound
      <4> QED BY <1>2, <4>1
    <3>2. CASE q = ring /\ s = At(round[0]) BY <1>2, <3>2
    <3> QED BY <1>b, <2>1, <3>1, <3>2
  <2> QED BY <1>1, <1>2, <2>1 DEF FlightsInRound
<1>12. LeaderHolds' BY <1>0, <1>1, <1>3, LeaderHoldsKept
<1>13. TwinHolds'
  <2>1. \A t \in Twin : Behind(t)' <=> Behind(t) BY <1>1, <1>2 DEF Behind
  <2>2. ASSUME NEW t \in Twin, NEW q \in Rings, Issued(q)', <<t, <<q, At(round[0])>>>> \notin flight'
        PROVE  slot[t][q][At(round[0])] = round[0]
    <3>1. q # ring /\ <<t, <<q, At(round[0])>>>> \notin flight BY <1>a, <1>b, <2>2
    <3>2. Issued(q) BY <1>2, <2>2, <3>1
    <3> QED BY <1>0, <3>1, <3>2 DEF TwinHolds
  <2> QED BY <1>0, <1>1, <2>1, <2>2 DEF TwinHolds
<1>14. MasksInOrder'
  <2>1. \A c \in Core : MaskedTo(c)' = MaskedTo(c) BY <1>1, <1>2, MaskedToKept
  <2> QED BY <1>0, <1>1, <2>1, MasksInOrderKept
<1> QED BY <1>4, <1>5, <1>6, <1>7, <1>8, <1>9, <1>10, <1>11, <1>12, <1>13, <1>14 DEF Inv

\* The leader decides the mask of its chunk.
LEMMA LeaderMaskStep == ASSUME Inv, LeaderMask, build' = build PROVE Inv'
<1>0. /\ TypeOK /\ LeaderInOrder /\ TwinInOrder /\ RingsBounded /\ ComputeBehind /\ ValidInStep
      /\ ReadyCounts /\ FlightsInRound /\ LeaderHolds /\ TwinHolds /\ MasksInOrder
  BY DEF Inv
<1>1. /\ Masked(round[0]) => mask[0] = NoChunk
      /\ mask' = IF Masked(round[0]) THEN [mask EXCEPT ![0] = round[0]] ELSE mask
      /\ tpc' = tpc /\ cpc' = cpc /\ done' = done /\ pushed' = pushed /\ slot' = slot
      /\ flight' = flight /\ vflight' = vflight /\ rflight' = rflight /\ ready' = ready /\ valid' = valid
  BY DEF LeaderMask
<1>2. /\ lpc = "mask" /\ lpc' \in {"barrier", "readK", "exit"}
      /\ round' \in [Core -> 0..Last] /\ \A t \in Twin : round'[t] = round[t]
  BY LeaderMaskViews
<1>3. IF ReadAhead
      THEN round'[0] = round[0] /\ lpc' = IF HeadStart(round[0] + 1) THEN "barrier" ELSE "readK"
      ELSE round'[0] = round[0] + 1 /\ lpc' = IF round[0] + 1 = Last THEN "exit" ELSE "readK"
  BY LeaderMaskViews
<1>4. /\ Announced' = Announced /\ (Opened' <=> Opened)
      /\ \A ring \in Rings : Issued(ring)' <=> Issued(ring)
      /\ Opened => round'[0] = round[0]
      /\ MaskedTo(0) = round[0] /\ MaskedTo(0)' = round[0] + 1
  BY LeaderMaskViews
<1>5. \A q \in Rings : lpc # Fill[q] /\ lpc' # Fill[q] BY <1>2, FillPlaces
<1>a. /\ round[0] \in Nat /\ round[0] < Last /\ Last \in Nat /\ pushed[0]["K"] = round[0] + 1
      /\ pushed[0]["V"] = round[0] + 1
  BY <1>0, <1>2, Counters, Cores DEF LeaderInOrder
<1>6. mask' \in [Core -> -1..Last] /\ MasksInOrder'
  <2>1. \A d \in Core : d # 0 => MaskedTo(d)' = MaskedTo(d) BY <1>2, Cores DEF MaskedTo
  <2>2. 0 \in Core BY Cores
  <2> QED BY <1>0, <1>1, <1>4, <1>a, <2>1, <2>2, MaskDecided
<1>7. TypeOK' BY <1>0, <1>1, <1>2, <1>6 DEF TypeOK
<1>8. LeaderInOrder'
  <2>1. CASE ReadAhead
    <3>1. round'[0] = round[0] /\ lpc' = (IF HeadStart(round[0] + 1) THEN "barrier" ELSE "readK") BY <1>3, <2>1
    <3> QED BY <1>1, <1>a, <2>1, <3>1, BuildKept DEF LeaderInOrder
  <2>2. CASE ~ReadAhead
    <3>1. round'[0] = round[0] + 1 /\ lpc' = (IF round[0] + 1 = Last THEN "exit" ELSE "readK") BY <1>3, <2>2
    <3> QED BY <1>1, <1>a, <2>2, <3>1, BuildKept DEF LeaderInOrder
  <2> QED BY <2>1, <2>2
<1>9. TwinInOrder' BY <1>0, <1>1, <1>2, TwinInOrderKept
<1>10. RingsBounded'
  <2>1. \A c \in Core, q \in Rings : Popped(c, q)' = Popped(c, q) BY <1>1 DEF Popped
  <2>2. \A c \in Core, q \in Rings : Room(c, q)' <=> Room(c, q) BY <1>1, <2>1 DEF Room
  <2> QED BY <1>0, <1>1, <1>5, <2>1, <2>2, Cores DEF RingsBounded
<1>11. ComputeBehind' BY <1>0, <1>1 DEF ComputeBehind
<1>12. ValidInStep' BY <1>0, <1>1, <1>2, <1>4, ValidInStepKept
<1>13. ReadyCounts' BY <1>0, <1>1, <1>2, <1>4, ReadyCountsKept
<1>14. FlightsInRound'
  <2>1. \A ring \in Rings : Issued(ring) => round'[0] = round[0] BY <1>4 DEF Issued
  <2> QED BY <1>0, <1>1, <1>2, <1>4, <2>1 DEF FlightsInRound
<1>15. LeaderHolds' BY <1>0, <1>1, <1>5, LeaderHoldsKept
<1>16. TwinHolds'
  <2>1. \A ring \in Rings : Issued(ring) => round'[0] = round[0] BY <1>4 DEF Issued
  <2>2. \A t \in Twin : Behind(t)' <=> Behind(t) BY <1>1, <1>4 DEF Behind
  <2> QED BY <1>0, <1>1, <1>4, <2>1, <2>2 DEF TwinHolds
<1> QED BY <1>6, <1>7, <1>8, <1>9, <1>10, <1>11, <1>12, <1>13, <1>14, <1>15, <1>16 DEF Inv

\* VALID goes out when the network holds no multicast: every twin is told of one more chunk.
LEMMA SendValidStep == ASSUME Inv, SendValid, build' = build PROVE Inv'
<1>0. /\ TypeOK /\ LeaderInOrder /\ TwinInOrder /\ RingsBounded /\ ComputeBehind /\ ValidInStep
      /\ ReadyCounts /\ FlightsInRound /\ LeaderHolds /\ TwinHolds /\ MasksInOrder
  BY DEF Inv
<1>1. /\ valid' = [valid EXCEPT ![0] = 1] /\ vflight' = Twin
      /\ tpc' = tpc /\ cpc' = cpc /\ done' = done /\ pushed' = pushed /\ slot' = slot
      /\ mask' = mask /\ flight' = flight /\ rflight' = rflight /\ ready' = ready
  BY DEF SendValid
<1>2. /\ lpc = "valid" /\ lpc' \in {"mask", "exit", "readK", "ready"}
      /\ round' \in [Core -> 0..Last] /\ \A t \in Twin : round'[t] = round[t]
  BY SendValidViews
<1>3. IF ReadAhead
      THEN /\ round'[0] = round[0] + 1
           /\ lpc' = IF round[0] + 1 = Last THEN "exit"
                     ELSE IF HeadStart(round[0] + 1) THEN "readK" ELSE "ready"
      ELSE round'[0] = round[0] /\ lpc' = "mask"
  BY SendValidViews
<1>4. /\ Announced' = Announced + 1 /\ Opened /\ ~Opened' /\ Announced = round[0]
      /\ MaskedTo(0)' = MaskedTo(0) /\ \A ring \in Rings : Issued(ring) /\ ~Issued(ring)'
  BY SendValidViews
<1>5. \A q \in Rings : lpc # Fill[q] /\ lpc' # Fill[q] BY <1>2, FillPlaces
<1>a. /\ round[0] \in Nat /\ round[0] < Last /\ Last \in Nat /\ pushed[0]["K"] = pushed[0]["V"]
      /\ pushed[0]["V"] = IF ReadAhead /\ ~HeadStart(round[0] + 1) THEN round[0] + 2 ELSE round[0] + 1
  BY <1>0, <1>2, Counters, Cores DEF LeaderInOrder
<1>b. valid' \in [Core -> 0..1] /\ valid'[0] = 1 /\ \A t \in Twin : valid'[t] = valid[t]
  BY <1>0, <1>1, Cores DEF TypeOK
<1>c. \A t \in Twin : tpc[t] = "wait" /\ pushed[t]["V"] = round[0]
  BY <1>0, <1>4 DEF ReadyCounts, Level
<1>d. \A t \in Twin : Behind(t)' /\ ~Level(t)' /\ ~Behind(t)
  BY <1>1, <1>4, <1>a, <1>c DEF Behind, Level
<1>7. TypeOK' BY <1>0, <1>1, <1>2, <1>b DEF TypeOK
<1>8. LeaderInOrder'
  <2>1. HeadStart(Last) BY LastStartsAHead
  <2>2. CASE ReadAhead
    <3>1. /\ round'[0] = round[0] + 1
          /\ lpc' = (IF round[0] + 1 = Last THEN "exit"
                     ELSE IF HeadStart(round[0] + 1) THEN "readK" ELSE "ready")
      BY <1>3, <2>2
    <3>2. pushed[0]["V"] = IF HeadStart(round[0] + 1) THEN round[0] + 1 ELSE round[0] + 2 BY <1>a, <2>2
    <3> QED BY <1>1, <1>a, <2>1, <3>1, <3>2 DEF LeaderInOrder
  <2>3. CASE ~ReadAhead
    <3>1. round'[0] = round[0] /\ lpc' = "mask" /\ pushed[0]["V"] = round[0] + 1 BY <1>3, <1>a, <2>3
    <3> QED BY <1>1, <1>a, <3>1 DEF LeaderInOrder
  <2> QED BY <2>2, <2>3
<1>9. TwinInOrder' BY <1>0, <1>1, <1>2, TwinInOrderKept
<1>10. RingsBounded'
  <2>1. \A c \in Core, q \in Rings : Popped(c, q)' = Popped(c, q) BY <1>1 DEF Popped
  <2>2. \A c \in Core, q \in Rings : Room(c, q)' <=> Room(c, q) BY <1>1, <2>1 DEF Room
  <2> QED BY <1>0, <1>1, <1>5, <2>1, <2>2, Cores DEF RingsBounded
<1>11. ComputeBehind' BY <1>0, <1>1 DEF ComputeBehind
<1>12. ValidInStep'
  <2>1. \A t \in Twin : valid[t] = 0
    <3>1. \A t \in Twin : valid[t] # 1 BY <1>0, <1>c, <1>d DEF ValidInStep
    <3>2. \A t \in Twin : valid[t] \in 0..1 BY <1>0, Cores DEF TypeOK
    <3> QED BY <3>1, <3>2
  <2> QED BY <1>1, <1>2, <1>b, <1>c, <1>d, <2>1 DEF ValidInStep
<1>13. ReadyCounts'
  <2>1. Asking = {} BY <1>4 DEF Asking
  <2>2. Asking' = {} BY <1>d DEF Asking
  <2>3. rflight = {} /\ ready = 0
    <3>1. rflight = {} /\ ready = Cardinality({}) BY <1>0, <2>1 DEF ReadyCounts
    <3> QED BY <3>1, FS_EmptySet
  <2>4. Cardinality(Asking' \ rflight') = 0 BY <2>2, FS_EmptySet
  <2> QED BY <1>1, <1>2, <1>4, <2>3, <2>4 DEF ReadyCounts
<1>14. FlightsInRound' BY <1>0, <1>1, <1>2 DEF FlightsInRound
<1>15. LeaderHolds' BY <1>0, <1>1, <1>5, LeaderHoldsKept
<1>16. TwinHolds'
  <2>1. flight = {} BY <1>0, <1>2 DEF FlightsInRound
  <2>2. \A t \in Twin, ring \in Rings : slot[t][ring][At(round[0])] = round[0] BY <1>0, <1>4, <2>1 DEF TwinHolds
  <2>3. ASSUME NEW t \in Twin, NEW ring \in Rings
        PROVE  /\ \A n \in 0..(pushed[t][ring] - 1) :
                    pushed[t][ring] <= n + 2 /\ (tpc[t] = "wait" => pushed[t][ring] = n + 1)
                      => slot[t][ring][At(n)] = n
               /\ ~Issued(ring)' /\ slot[t][ring][At(pushed[t]["V"])] = pushed[t]["V"]
    <3>1. slot[t][ring][At(pushed[t]["V"])] = pushed[t]["V"] BY <1>c, <2>2
    <3> QED BY <1>0, <1>4, <3>1 DEF TwinHolds
  <2> QED BY <1>1, <2>3 DEF TwinHolds
<1>17. MasksInOrder'
  <2>1. \A c \in Core : MaskedTo(c)' = MaskedTo(c) BY <1>2, <1>4, MaskedToKept
  <2> QED BY <1>0, <1>1, <2>1, MasksInOrderKept
<1> QED BY <1>7, <1>8, <1>9, <1>10, <1>11, <1>12, <1>13, <1>14, <1>15, <1>16, <1>17 DEF Inv

-----------------------------------------------------------------------------
(* The twins' steps *)

\* A twin that does not wait has pushed every announced chunk, and the round is not open.
LEMMA NotWaiting ==
    ASSUME ValidInStep, ReadyCounts, NEW t \in Twin, tpc[t] # "wait"
    PROVE  Level(t) /\ ~Behind(t) /\ ~Opened /\ t \notin Asking /\ t \notin vflight /\ t \notin rflight
           /\ lpc # "reset"
<1>1. ~Behind(t) /\ Level(t) /\ t \notin vflight BY DEF ValidInStep
<1>2. ~Opened BY DEF ReadyCounts
<1>3. t \notin Asking BY DEF Asking
<1>4. t \notin rflight /\ lpc # "reset" BY <1>3 DEF ReadyCounts
<1> QED BY <1>1, <1>2, <1>3, <1>4

\* What a twin's own step leaves of everybody else.
LEMMA TwinLeaves ==
    ASSUME Inv, build' = build, lpc' = lpc, round'[0] = round[0], pushed'[0] = pushed[0], slot' = slot,
           flight' = flight
    PROVE  ViewsKept /\ LeaderInOrder' /\ FlightsInRound' /\ LeaderHolds'
<1>0. LeaderInOrder /\ FlightsInRound /\ LeaderHolds BY DEF Inv
<1>1. ViewsKept BY OthersKeepViews
<1>2. LeaderInOrder' BY <1>0, LeaderInOrderKept
<1>3. FlightsInRound' BY <1>0, <1>1 DEF FlightsInRound, ViewsKept
<1>4. LeaderHolds' BY <1>0, LeaderHoldsKept
<1> QED BY <1>1, <1>2, <1>3, <1>4

\* A step of a twin between two waits for VALID.
LEMMA TwinAside ==
    ASSUME Inv, NEW t \in Twin, NEW x \in {"reserve", "clear", "signal", "exit", "end"}, tpc[t] # "wait",
           tpc' = [tpc EXCEPT ![t] = x], valid' = valid \/ valid' = [valid EXCEPT ![t] = 0],
           x \in {"signal", "end"} => valid' = [valid EXCEPT ![t] = 0],
           x \in {"clear", "signal"} => \A ring \in Rings : Room(t, ring),
           build' = build, lpc' = lpc, round'[0] = round[0], cpc' = cpc, done' = done, pushed' = pushed,
           slot' = slot, flight' = flight, vflight' = vflight, rflight' = rflight, ready' = ready
    PROVE  /\ LeaderInOrder' /\ RingsBounded' /\ ComputeBehind' /\ ValidInStep' /\ ReadyCounts'
           /\ FlightsInRound' /\ LeaderHolds' /\ TwinHolds' /\ MaskedTo(0)' = MaskedTo(0)
           /\ tpc' \in [Twin -> {"reserve", "clear", "signal", "wait", "mask", "exit", "end"}]
           /\ valid' \in [Core -> 0..1] /\ tpc'[t] = x /\ \A u \in Twin : u # t => tpc'[u] = tpc[u]
<1>0. TypeOK /\ RingsBounded /\ ComputeBehind /\ ValidInStep /\ ReadyCounts /\ TwinHolds BY DEF Inv
<1>1. ViewsKept /\ LeaderInOrder' /\ FlightsInRound' /\ LeaderHolds' BY TwinLeaves
<1>2. /\ Announced' = Announced /\ (Opened' <=> Opened) /\ MaskedTo(0)' = MaskedTo(0)
      /\ round'[0] = round[0] /\ \A ring \in Rings : Issued(ring)' <=> Issued(ring)
  BY <1>1 DEF ViewsKept
<1>3. /\ Level(t) /\ ~Behind(t) /\ ~Opened /\ t \notin Asking /\ t \notin vflight /\ t \notin rflight
      /\ lpc # "reset"
  BY <1>0, NotWaiting
<1>4. /\ tpc' \in [Twin -> {"reserve", "clear", "signal", "wait", "mask", "exit", "end"}] /\ tpc'[t] = x
      /\ (\A u \in Twin : u # t => tpc'[u] = tpc[u]) /\ x # "wait"
  BY <1>0 DEF TypeOK
<1>5. /\ valid' \in [Core -> 0..1] /\ valid'[0] = valid[0] /\ \A u \in Twin : u # t => valid'[u] = valid[u]
      /\ x \in {"signal", "end"} => valid'[t] = 0
  <2>1. valid \in [Core -> 0..1] /\ t \in Core /\ t # 0 /\ 0 \in Core /\ \A u \in Twin : u \in Core
    BY <1>0, Cores DEF TypeOK
  <2>2. CASE valid' = valid BY <2>1, <2>2
  <2>3. CASE valid' = [valid EXCEPT ![t] = 0] BY <2>1, <2>3
  <2> QED BY <2>2, <2>3
<1>6. \A u \in Twin : (Behind(u)' <=> Behind(u)) /\ (Level(u)' <=> Level(u)) BY <1>2 DEF Behind, Level
<1>7. RingsBounded'
  <2>1. \A c \in Core, q \in Rings : Popped(c, q)' = Popped(c, q) BY DEF Popped
  <2>2. \A c \in Core, q \in Rings : Room(c, q)' <=> Room(c, q) BY <2>1 DEF Room
  <2>3. ASSUME NEW u \in Twin, NEW ring \in Rings, tpc'[u] \in {"clear", "signal", "wait"} PROVE Room(u, ring)
    BY <1>0, <1>4, <2>3 DEF RingsBounded
  <2> QED BY <1>0, <2>1, <2>2, <2>3, Cores DEF RingsBounded
<1>8. ComputeBehind' BY <1>0 DEF ComputeBehind
<1>9. ValidInStep'
  <2>1. vflight # {} => valid'[0] = 1 BY <1>0, <1>5 DEF ValidInStep
  <2>2. lpc = "end" => valid'[0] = 0 BY <1>0, <1>5 DEF ValidInStep
  <2>3. ASSUME NEW u \in Twin
        PROVE  /\ Behind(u) \/ Level(u)
               /\ Behind(u) => tpc'[u] = "wait" /\ (u \in vflight \/ valid'[u] = 1)
               /\ u \in vflight => Behind(u) /\ valid'[u] = 0
               /\ tpc'[u] \in {"signal", "wait"} /\ valid'[u] = 1 => Behind(u)
               /\ tpc'[u] = "end" => valid'[u] = 0
    <3>1. CASE u = t BY <1>3, <1>4, <1>5, <3>1
    <3>2. CASE u # t BY <1>0, <1>4, <1>5, <3>2 DEF ValidInStep
    <3> QED BY <3>1, <3>2
  <2> QED BY <1>6, <2>1, <2>2, <2>3 DEF ValidInStep
<1>10. ReadyCounts'
  <2>1. Asking' = Asking BY <1>2, <1>3, <1>4, <1>6 DEF Asking
  <2> QED BY <1>0, <1>2, <1>3, <2>1 DEF ReadyCounts
<1>11. TwinHolds' BY <1>0, <1>2, <1>4, TwinHoldsKept
<1> QED BY <1>1, <1>2, <1>4, <1>5, <1>7, <1>8, <1>9, <1>10, <1>11

\* Both rings have room: the slots stay reserved until VALID.
LEMMA ReserveStep == ASSUME Inv, NEW t \in Twin, Reserve(t), build' = build PROVE Inv'
<1>0. TypeOK /\ TwinInOrder /\ MasksInOrder BY DEF Inv
<1>1. /\ tpc[t] = "reserve" /\ Room(t, "K") /\ Room(t, "V") /\ tpc' = [tpc EXCEPT ![t] = "clear"]
      /\ lpc' = lpc /\ round' = round /\ cpc' = cpc /\ done' = done /\ pushed' = pushed /\ slot' = slot
      /\ mask' = mask /\ flight' = flight /\ vflight' = vflight /\ rflight' = rflight /\ ready' = ready
      /\ valid' = valid
  BY DEF Reserve
<1>2. \A ring \in Rings : Room(t, ring) BY <1>1 DEF Rings
<1>3. /\ LeaderInOrder' /\ RingsBounded' /\ ComputeBehind' /\ ValidInStep' /\ ReadyCounts'
      /\ FlightsInRound' /\ LeaderHolds' /\ TwinHolds' /\ MaskedTo(0)' = MaskedTo(0)
      /\ tpc' \in [Twin -> {"reserve", "clear", "signal", "wait", "mask", "exit", "end"}]
      /\ valid' \in [Core -> 0..1] /\ tpc'[t] = "clear" /\ \A u \in Twin : u # t => tpc'[u] = tpc[u]
  BY <1>1, <1>2, TwinAside
<1>4. TypeOK' BY <1>0, <1>1, <1>3 DEF TypeOK
<1>5. TwinInOrder' BY <1>0, <1>1, <1>3 DEF TwinInOrder
<1>6. MasksInOrder'
  <2>1. \A c \in Core : MaskedTo(c)' = MaskedTo(c) BY <1>1, <1>3, MaskedToKept
  <2> QED BY <1>0, <1>1, <2>1, MasksInOrderKept
<1> QED BY <1>3, <1>4, <1>5, <1>6 DEF Inv

\* The twin clears its VALID before it asks.
LEMMA ClearValidStep == ASSUME Inv, NEW t \in Twin, ClearValid(t), build' = build PROVE Inv'
<1>0. TypeOK /\ TwinInOrder /\ RingsBounded /\ MasksInOrder BY DEF Inv
<1>1. /\ tpc[t] = "clear" /\ tpc' = [tpc EXCEPT ![t] = "signal"] /\ valid' = [valid EXCEPT ![t] = 0]
      /\ lpc' = lpc /\ round' = round /\ cpc' = cpc /\ done' = done /\ pushed' = pushed /\ slot' = slot
      /\ mask' = mask /\ flight' = flight /\ vflight' = vflight /\ rflight' = rflight /\ ready' = ready
  BY DEF ClearValid
<1>2. \A ring \in Rings : Room(t, ring) BY <1>0, <1>1 DEF RingsBounded
<1>3. /\ LeaderInOrder' /\ RingsBounded' /\ ComputeBehind' /\ ValidInStep' /\ ReadyCounts'
      /\ FlightsInRound' /\ LeaderHolds' /\ TwinHolds' /\ MaskedTo(0)' = MaskedTo(0)
      /\ tpc' \in [Twin -> {"reserve", "clear", "signal", "wait", "mask", "exit", "end"}]
      /\ valid' \in [Core -> 0..1] /\ tpc'[t] = "signal" /\ \A u \in Twin : u # t => tpc'[u] = tpc[u]
  BY <1>1, <1>2, TwinAside
<1>4. TypeOK' BY <1>0, <1>1, <1>3 DEF TypeOK
<1>5. TwinInOrder' BY <1>0, <1>1, <1>3 DEF TwinInOrder
<1>6. MasksInOrder'
  <2>1. \A c \in Core : MaskedTo(c)' = MaskedTo(c) BY <1>1, <1>3, MaskedToKept
  <2> QED BY <1>0, <1>1, <2>1, MasksInOrderKept
<1> QED BY <1>3, <1>4, <1>5, <1>6 DEF Inv

\* The twin decides its mask and goes round, or leaves after its last chunk.
LEMMA TwinMaskStep == ASSUME Inv, NEW t \in Twin, TwinMask(t), build' = build PROVE Inv'
<1>0. TypeOK /\ TwinInOrder /\ MasksInOrder BY DEF Inv
<1> DEFINE x == IF round[t] + 1 = Last THEN "exit" ELSE "reserve"
<1>1. /\ tpc[t] = "mask" /\ tpc' = [tpc EXCEPT ![t] = x] /\ round' = [round EXCEPT ![t] = @ + 1]
      /\ Masked(round[t]) => mask[t] = NoChunk
      /\ mask' = IF Masked(round[t]) THEN [mask EXCEPT ![t] = round[t]] ELSE mask
      /\ lpc' = lpc /\ cpc' = cpc /\ done' = done /\ pushed' = pushed /\ slot' = slot
      /\ flight' = flight /\ vflight' = vflight /\ rflight' = rflight /\ ready' = ready /\ valid' = valid
  BY DEF TwinMask
<1>2. x \in {"reserve", "exit"} OBVIOUS
<1> HIDE DEF x
<1>3. t \in Core /\ t # 0 /\ 0 \in Core /\ round[t] \in Nat /\ Last \in Nat /\ round[t] < Last
  <2>1. pushed[t]["V"] = round[t] + 1 BY <1>0, <1>1 DEF TwinInOrder
  <2>2. "V" \in Rings /\ t \in Core BY Cores DEF Rings
  <2>3. pushed[t]["V"] \in Nat /\ pushed[t]["V"] <= Last /\ round[t] \in Nat /\ Last \in Nat
    BY <1>0, <2>2, Counters
  <2> QED BY <2>1, <2>3, Cores
<1>4. /\ round' \in [Core -> 0..Last] /\ round'[t] = round[t] + 1
      /\ \A c \in Core : c # t => round'[c] = round[c]
  BY <1>0, <1>1, <1>3 DEF TypeOK
<1>5. /\ LeaderInOrder' /\ RingsBounded' /\ ComputeBehind' /\ ValidInStep' /\ ReadyCounts'
      /\ FlightsInRound' /\ LeaderHolds' /\ TwinHolds' /\ MaskedTo(0)' = MaskedTo(0)
      /\ tpc' \in [Twin -> {"reserve", "clear", "signal", "wait", "mask", "exit", "end"}]
      /\ valid' \in [Core -> 0..1] /\ tpc'[t] = x /\ \A u \in Twin : u # t => tpc'[u] = tpc[u]
  <2>1. round'[0] = round[0] BY <1>3, <1>4
  <2>2. x \in {"reserve", "clear", "signal", "exit", "end"} /\ x \notin {"signal", "end"} /\ x \notin {"clear", "signal"}
    BY <1>2
  <2> QED BY <1>1, <2>1, <2>2, TwinAside
<1>6. mask' \in [Core -> -1..Last] /\ MasksInOrder'
  <2>1. \A d \in Core : d # t => MaskedTo(d)' = MaskedTo(d) BY <1>3, <1>4, <1>5 DEF MaskedTo
  <2>2. MaskedTo(t) = round[t] /\ MaskedTo(t)' = round[t] + 1 BY <1>3, <1>4 DEF MaskedTo
  <2> QED BY <1>0, <1>1, <1>3, <2>1, <2>2, MaskDecided
<1>7. TypeOK' BY <1>0, <1>1, <1>4, <1>5, <1>6 DEF TypeOK
<1>8. TwinInOrder'
  <2>1. ASSUME NEW u \in Twin
        PROVE  /\ pushed[u]["K"] = pushed[u]["V"]
               /\ pushed[u]["V"] = IF tpc'[u] = "mask" THEN round'[u] + 1 ELSE round'[u]
    <3>1. CASE u = t BY <1>0, <1>1, <1>2, <1>4, <1>5, <3>1 DEF TwinInOrder
    <3>2. CASE u # t BY <1>0, <1>4, <1>5, <3>2, Cores DEF TwinInOrder
    <3> QED BY <3>1, <3>2
  <2> QED BY <1>1, <2>1 DEF TwinInOrder
<1> QED BY <1>5, <1>6, <1>7, <1>8 DEF Inv

\* The twin leaves with its VALID at zero.
LEMMA TwinExitStep == ASSUME Inv, NEW t \in Twin, TwinExit(t), build' = build PROVE Inv'
<1>0. TypeOK /\ TwinInOrder /\ MasksInOrder BY DEF Inv
<1>1. /\ tpc[t] = "exit" /\ tpc' = [tpc EXCEPT ![t] = "end"] /\ valid' = [valid EXCEPT ![t] = 0]
      /\ lpc' = lpc /\ round' = round /\ cpc' = cpc /\ done' = done /\ pushed' = pushed /\ slot' = slot
      /\ mask' = mask /\ flight' = flight /\ vflight' = vflight /\ rflight' = rflight /\ ready' = ready
  BY DEF TwinExit
<1>3. /\ LeaderInOrder' /\ RingsBounded' /\ ComputeBehind' /\ ValidInStep' /\ ReadyCounts'
      /\ FlightsInRound' /\ LeaderHolds' /\ TwinHolds' /\ MaskedTo(0)' = MaskedTo(0)
      /\ tpc' \in [Twin -> {"reserve", "clear", "signal", "wait", "mask", "exit", "end"}]
      /\ valid' \in [Core -> 0..1] /\ tpc'[t] = "end" /\ \A u \in Twin : u # t => tpc'[u] = tpc[u]
  BY <1>1, TwinAside
<1>4. TypeOK' BY <1>0, <1>1, <1>3 DEF TypeOK
<1>5. TwinInOrder' BY <1>0, <1>1, <1>3 DEF TwinInOrder
<1>6. MasksInOrder'
  <2>1. \A c \in Core : MaskedTo(c)' = MaskedTo(c) BY <1>1, <1>3, MaskedToKept
  <2> QED BY <1>0, <1>1, <2>1, MasksInOrderKept
<1> QED BY <1>3, <1>4, <1>5, <1>6 DEF Inv

\* The increment of READY is on its way: the twin asks.
LEMMA SignalReadyStep == ASSUME Inv, NEW t \in Twin, SignalReady(t), build' = build PROVE Inv'
<1>0. /\ TypeOK /\ TwinInOrder /\ RingsBounded /\ ComputeBehind /\ ValidInStep /\ ReadyCounts
      /\ TwinHolds /\ MasksInOrder
  BY DEF Inv
<1>1. /\ tpc[t] = "signal" /\ tpc' = [tpc EXCEPT ![t] = "wait"] /\ rflight' = rflight \union {t}
      /\ lpc' = lpc /\ round' = round /\ cpc' = cpc /\ done' = done /\ pushed' = pushed /\ slot' = slot
      /\ mask' = mask /\ flight' = flight /\ vflight' = vflight /\ ready' = ready /\ valid' = valid
  BY DEF SignalReady
<1>2. ViewsKept /\ LeaderInOrder' /\ FlightsInRound' /\ LeaderHolds' BY <1>1, TwinLeaves
<1>3. /\ Announced' = Announced /\ (Opened' <=> Opened) /\ MaskedTo(0)' = MaskedTo(0)
      /\ \A ring \in Rings : Issued(ring)' <=> Issued(ring)
  BY <1>2 DEF ViewsKept
<1>4. /\ Level(t) /\ ~Behind(t) /\ ~Opened /\ t \notin Asking /\ t \notin vflight /\ t \notin rflight
      /\ lpc # "reset"
  BY <1>0, <1>1, NotWaiting
<1>5. /\ tpc' \in [Twin -> {"reserve", "clear", "signal", "wait", "mask", "exit", "end"}]
      /\ tpc'[t] = "wait" /\ \A u \in Twin : u # t => tpc'[u] = tpc[u]
  BY <1>0, <1>1 DEF TypeOK
<1>6. \A u \in Twin : (Behind(u)' <=> Behind(u)) /\ (Level(u)' <=> Level(u)) BY <1>1, <1>3 DEF Behind, Level
<1>7. TypeOK' BY <1>0, <1>1, <1>5 DEF TypeOK
<1>8. TwinInOrder' BY <1>0, <1>1, <1>5 DEF TwinInOrder
<1>9. RingsBounded'
  <2>1. \A c \in Core, q \in Rings : Popped(c, q)' = Popped(c, q) BY <1>1 DEF Popped
  <2>2. \A c \in Core, q \in Rings : Room(c, q)' <=> Room(c, q) BY <1>1, <2>1 DEF Room
  <2>3. ASSUME NEW u \in Twin, NEW ring \in Rings, tpc'[u] \in {"clear", "signal", "wait"} PROVE Room(u, ring)
    BY <1>0, <1>1, <1>5, <2>3 DEF RingsBounded
  <2> QED BY <1>0, <1>1, <2>1, <2>2, <2>3, Cores DEF RingsBounded
<1>10. ComputeBehind' BY <1>0, <1>1 DEF ComputeBehind
<1>11. ValidInStep'
  <2>1. valid[t] # 1 BY <1>0, <1>1, <1>4 DEF ValidInStep
  <2>2. ASSUME NEW u \in Twin
        PROVE  /\ Behind(u) \/ Level(u)
               /\ Behind(u) => tpc'[u] = "wait" /\ (u \in vflight \/ valid[u] = 1)
               /\ u \in vflight => Behind(u) /\ valid[u] = 0
               /\ tpc'[u] \in {"signal", "wait"} /\ valid[u] = 1 => Behind(u)
               /\ tpc'[u] = "end" => valid[u] = 0
    <3>1. CASE u = t BY <1>4, <1>5, <2>1, <3>1
    <3>2. CASE u # t BY <1>0, <1>5, <3>2 DEF ValidInStep
    <3> QED BY <3>1, <3>2
  <2> QED BY <1>0, <1>1, <1>6, <2>2 DEF ValidInStep
<1>12. ReadyCounts'
  <2>1. Asking' = Asking \cup {t} BY <1>3, <1>4, <1>5, <1>6 DEF Asking
  <2>2. Asking' \ rflight' = Asking \ rflight /\ rflight' \subseteq Asking' BY <1>0, <1>1, <1>4, <2>1 DEF ReadyCounts
  <2> QED BY <1>0, <1>1, <1>3, <1>4, <2>2 DEF ReadyCounts
<1>13. TwinHolds'
  <2>1. \A u \in Twin : tpc[u] = "wait" => tpc'[u] = "wait" BY <1>5
  <2> QED BY <1>0, <1>1, <1>3, <2>1, TwinHoldsKept
<1>14. MasksInOrder'
  <2>1. \A c \in Core : MaskedTo(c)' = MaskedTo(c) BY <1>1, <1>3, MaskedToKept
  <2> QED BY <1>0, <1>1, <2>1, MasksInOrderKept
<1> QED BY <1>2, <1>7, <1>8, <1>9, <1>10, <1>11, <1>12, <1>13, <1>14 DEF Inv

\* VALID has landed, so both slots of the chunk have: the twin pushes them.
LEMMA WaitValidStep == ASSUME Inv, NEW t \in Twin, WaitValid(t), build' = build PROVE Inv'
<1>0. /\ TypeOK /\ TwinInOrder /\ RingsBounded /\ ComputeBehind /\ ValidInStep /\ ReadyCounts
      /\ TwinHolds /\ MasksInOrder /\ LeaderInOrder
  BY DEF Inv
<1>1. /\ tpc[t] = "wait" /\ valid[t] = 1 /\ tpc' = [tpc EXCEPT ![t] = "mask"]
      /\ pushed' = [pushed EXCEPT ![t] = [r \in Rings |-> pushed[t][r] + 1]]
      /\ lpc' = lpc /\ round' = round /\ cpc' = cpc /\ done' = done /\ slot' = slot
      /\ mask' = mask /\ flight' = flight /\ vflight' = vflight /\ rflight' = rflight /\ ready' = ready
      /\ valid' = valid
  BY DEF WaitValid
<1>a. t \in Core /\ t # 0 /\ 0 \in Core /\ "K" \in Rings /\ "V" \in Rings BY Cores DEF Rings
<1>b. /\ Last \in Nat /\ pushed[t]["V"] \in Nat /\ pushed[t]["K"] = pushed[t]["V"] /\ round[0] \in Nat
      /\ round[0] <= Last /\ round[t] = pushed[t]["V"]
  BY <1>0, <1>1, <1>a, Counters DEF TwinInOrder
<1>2. Behind(t) /\ t \notin vflight
  <2>1. Behind(t) BY <1>0, <1>1 DEF ValidInStep
  <2>2. t \in vflight => valid[t] = 0 BY <1>0 DEF ValidInStep
  <2> QED BY <1>1, <2>1, <2>2
<1>3. pushed[t]["V"] + 1 = Announced /\ Announced <= Last
  <2>1. lpc = "mask" => round[0] < Last BY <1>0 DEF LeaderInOrder
  <2> QED BY <1>2, <1>b, <2>1 DEF Behind, Announced
<1>4. \A ring \in Rings : pushed[t][ring] = pushed[t]["V"] BY <1>b DEF Rings
<1>5. /\ pushed' \in [Core -> [Rings -> 0..Last]] /\ (\A c \in Core : c # t => pushed'[c] = pushed[c])
      /\ \A ring \in Rings : pushed'[t][ring] = pushed[t]["V"] + 1
  <2> DEFINE y == [r \in Rings |-> pushed[t][r] + 1]
  <2>1. \A ring \in Rings : y[ring] = pushed[t]["V"] + 1 BY <1>4
  <2>2. pushed[t]["V"] + 1 \in 0..Last BY <1>b, <1>3
  <2>3. y \in [Rings -> 0..Last] BY <2>1, <2>2
  <2>4. pushed \in [Core -> [Rings -> 0..Last]] /\ pushed' = [pushed EXCEPT ![t] = y] BY <1>0, <1>1 DEF TypeOK
  <2> HIDE DEF y
  <2>5. pushed'[t] = y /\ (\A c \in Core : c # t => pushed'[c] = pushed[c]) BY <1>a, <2>4
  <2> QED BY <1>a, <2>1, <2>3, <2>4, <2>5
<1>6. /\ tpc' \in [Twin -> {"reserve", "clear", "signal", "wait", "mask", "exit", "end"}]
      /\ tpc'[t] = "mask" /\ \A u \in Twin : u # t => tpc'[u] = tpc[u]
  BY <1>0, <1>1 DEF TypeOK
<1>7. ViewsKept /\ LeaderInOrder' /\ FlightsInRound' /\ LeaderHolds'
  <2>1. pushed'[0] = pushed[0] /\ round'[0] = round[0] BY <1>1, <1>a, <1>5
  <2> QED BY <1>1, <2>1, TwinLeaves
<1>8. /\ Announced' = Announced /\ (Opened' <=> Opened) /\ MaskedTo(0)' = MaskedTo(0)
      /\ \A ring \in Rings : Issued(ring)' <=> Issued(ring)
  BY <1>7 DEF ViewsKept
<1>9. Level(t)' /\ ~Behind(t)' /\ ~Level(t)
  BY <1>3, <1>5, <1>8, <1>a, <1>b DEF Level, Behind
<1>10. \A u \in Twin : u # t => (Behind(u)' <=> Behind(u)) /\ (Level(u)' <=> Level(u))
  BY <1>5, <1>8, Cores DEF Behind, Level
<1>11. ~Opened /\ t \notin Asking /\ lpc # "reset"
  <2>1. ~Opened BY <1>0, <1>9 DEF ReadyCounts
  <2>2. t \notin Asking BY <1>9 DEF Asking
  <2> QED BY <1>0, <2>1, <2>2 DEF ReadyCounts
<1>12. TypeOK' BY <1>0, <1>1, <1>5, <1>6 DEF TypeOK
<1>13. TwinInOrder'
  <2>1. ASSUME NEW u \in Twin
        PROVE  /\ pushed'[u]["K"] = pushed'[u]["V"]
               /\ pushed'[u]["V"] = IF tpc'[u] = "mask" THEN round[u] + 1 ELSE round[u]
    <3>1. CASE u = t BY <1>a, <1>b, <1>5, <1>6, <3>1
    <3>2. CASE u # t BY <1>0, <1>5, <1>6, <3>2, Cores DEF TwinInOrder
    <3> QED BY <3>1, <3>2
  <2> QED BY <1>1, <2>1 DEF TwinInOrder
<1>14. RingsBounded'
  <2>1. \A c \in Core, q \in Rings : Popped(c, q)' = Popped(c, q) BY <1>1 DEF Popped
  <2>2. \A q \in Rings : pushed'[t][q] <= Popped(t, q) + 2
    <3>1. \A q \in Rings : Room(t, q) BY <1>0, <1>1 DEF RingsBounded
    <3>2. \A q \in Rings : Popped(t, q) \in Nat BY <1>0, <1>a, Counters
    <3>3. \A q \in Rings : pushed[t]["V"] - Popped(t, q) < 2 BY <3>1, <1>4 DEF Room
    <3> QED BY <1>5, <1>b, <3>2, <3>3
  <2>3. \A c \in Core, q \in Rings : pushed'[c][q] <= Popped(c, q) + 2
    BY <1>0, <1>5, <2>2 DEF RingsBounded
  <2>4. \A c \in Core, q \in Rings : c # t => (Room(c, q)' <=> Room(c, q)) BY <1>5, <2>1 DEF Room
  <2>5. \A q \in Rings : lpc = Fill[q] => Room(0, q)' BY <1>0, <1>a, <2>4 DEF RingsBounded
  <2>6. \A u \in Twin, q \in Rings : tpc'[u] \in {"clear", "signal", "wait"} => Room(u, q)'
    BY <1>0, <1>6, <2>4, Cores DEF RingsBounded
  <2> QED BY <1>1, <2>1, <2>3, <2>5, <2>6 DEF RingsBounded
<1>15. ComputeBehind'
  <2>1. \A c \in Core, q \in Rings : pushed[c][q] \in Nat BY <1>0, Counters
  <2>2. ASSUME NEW c \in Core, NEW q \in Rings PROVE pushed'[c][q] \in Nat /\ pushed[c][q] <= pushed'[c][q]
    <3>1. CASE c = t BY <1>4, <1>5, <1>b, <3>1
    <3>2. CASE c # t BY <1>5, <2>1, <3>2
    <3> QED BY <3>1, <3>2
  <2> QED BY <1>0, <1>1, <2>2, ComputeBehindKept
<1>16. ValidInStep'
  <2>1. ASSUME NEW u \in Twin
        PROVE  /\ Behind(u)' \/ Level(u)'
               /\ Behind(u)' => tpc'[u] = "wait" /\ (u \in vflight \/ valid[u] = 1)
               /\ u \in vflight => Behind(u)' /\ valid[u] = 0
               /\ tpc'[u] \in {"signal", "wait"} /\ valid[u] = 1 => Behind(u)'
               /\ tpc'[u] = "end" => valid[u] = 0
    <3>1. CASE u = t BY <1>2, <1>6, <1>9, <3>1
    <3>2. CASE u # t BY <1>0, <1>6, <1>10, <3>2 DEF ValidInStep
    <3> QED BY <3>1, <3>2
  <2> QED BY <1>0, <1>1, <2>1 DEF ValidInStep
<1>17. ReadyCounts'
  <2>1. Asking' = Asking BY <1>6, <1>8, <1>10, <1>11 DEF Asking
  <2> QED BY <1>0, <1>1, <1>8, <1>11, <2>1 DEF ReadyCounts
<1>18. TwinHolds'
  <2>1. ASSUME NEW ring \in Rings, NEW n \in 0..(pushed'[t][ring] - 1), pushed'[t][ring] <= n + 2
        PROVE  slot[t][ring][At(n)] = n
    <3>1. n \in Nat /\ (n = pushed[t]["V"] \/ n + 1 = pushed[t]["V"])
      <4>1. n \in 0..pushed[t]["V"] /\ pushed[t]["V"] + 1 <= n + 2 BY <1>5, <1>b, <2>1
      <4> QED BY <1>b, <4>1
    <3>2. CASE n = pushed[t]["V"] BY <1>0, <1>2, <3>2 DEF TwinHolds
    <3>3. CASE n + 1 = pushed[t]["V"]
      <4>1. pushed[t][ring] = n + 1 BY <1>4, <3>3
      <4>2. n \in 0..(pushed[t][ring] - 1) /\ pushed[t][ring] <= n + 2 BY <3>1, <4>1
      <4> QED BY <1>0, <4>1, <4>2 DEF TwinHolds
    <3> QED BY <3>1, <3>2, <3>3
  <2>2. ASSUME NEW u \in Twin, NEW ring \in Rings
        PROVE  /\ \A n \in 0..(pushed'[u][ring] - 1) :
                    pushed'[u][ring] <= n + 2 /\ (tpc'[u] = "wait" => pushed'[u][ring] = n + 1)
                      => slot[u][ring][At(n)] = n
               /\ ~Issued(ring)
               /\ Behind(u)' => slot[u][ring][At(pushed'[u]["V"])] = pushed'[u]["V"]
    <3>0. ~Issued(ring) BY <1>11 DEF Issued
    <3>1. CASE u = t BY <1>9, <2>1, <3>0, <3>1
    <3>2. CASE u # t
      <4>1. pushed'[u] = pushed[u] /\ tpc'[u] = tpc[u] /\ (Behind(u)' <=> Behind(u))
        BY <1>5, <1>6, <1>10, <3>2, Cores
      <4> QED BY <1>0, <3>0, <4>1 DEF TwinHolds
    <3> QED BY <3>1, <3>2
  <2> QED BY <1>1, <1>8, <2>2 DEF TwinHolds
<1>19. MasksInOrder'
  <2>1. \A c \in Core : MaskedTo(c)' = MaskedTo(c) BY <1>1, <1>8, MaskedToKept
  <2> QED BY <1>0, <1>1, <2>1, MasksInOrderKept
<1> QED BY <1>7, <1>12, <1>13, <1>14, <1>15, <1>16, <1>17, <1>18, <1>19 DEF Inv

-----------------------------------------------------------------------------
(* The network *)

\* While a round is open the leader's slot keeps its chunk.
LEMMA LeaderSource ==
    ASSUME TypeOK, LeaderInOrder, LeaderHolds, NEW ring \in Rings, Issued(ring)
    PROVE  slot[0][ring][At(round[0])] = round[0]
<1>1. /\ round[0] \in Nat /\ pushed[0]["K"] \in Nat /\ pushed[0]["V"] \in Nat /\ pushed[0][ring] \in Nat
  BY Counters, Cores
<1>2. ring = "K" \/ ring = "V" BY DEF Rings
<1>3. lpc \in {"mcastV", "mask", "barrier", "valid"} \/ ReadingAhead BY DEF Issued, Opened
<1>4. CASE lpc \in {"mcastV", "mask", "barrier", "valid"}
  <2>1. pushed[0][ring] = round[0] + 1 \/ pushed[0][ring] = round[0] + 2
    BY <1>1, <1>2, <1>4 DEF LeaderInOrder
  <2>2. lpc # Fill[ring] BY <1>4, FillPlaces
  <2>3. round[0] \in 0..(pushed[0][ring] - 1) /\ pushed[0][ring] <= round[0] + 2 BY <1>1, <2>1
  <2> QED BY <2>2, <2>3 DEF LeaderHolds
<1>5. CASE ReadingAhead
  <2>1. /\ pushed[0]["V"] = round[0] + 1
        /\ lpc \in {"readK", "fillK"} => pushed[0]["K"] = pushed[0]["V"]
        /\ lpc \in {"readV", "fillV"} => pushed[0]["K"] = pushed[0]["V"] + 1
        /\ lpc \in {"readK", "fillK", "readV", "fillV"}
    BY <1>5 DEF ReadingAhead, LeaderInOrder
  <2>2. pushed[0][ring] = round[0] + 1 \/ pushed[0][ring] = round[0] + 2 BY <1>1, <1>2, <2>1
  <2>3. lpc = Fill[ring] => pushed[0][ring] = round[0] + 1 BY <1>1, <1>2, <2>1, FillPlaces
  <2>4. round[0] \in 0..(pushed[0][ring] - 1) /\ pushed[0][ring] <= round[0] + 2 BY <1>1, <2>2
  <2> QED BY <2>3, <2>4 DEF LeaderHolds
<1> QED BY <1>3, <1>4, <1>5

\* A multicast lands on the slot its twin has reserved, with the bytes of the chunk.
LEMMA LandDataStep ==
    ASSUME Inv, NEW t \in Twin, NEW ring \in Rings, NEW s \in 0..1, LandData(t, ring, s), build' = build
    PROVE  Inv'
<1>0. /\ TypeOK /\ LeaderInOrder /\ TwinInOrder /\ RingsBounded /\ ComputeBehind /\ ValidInStep
      /\ ReadyCounts /\ FlightsInRound /\ LeaderHolds /\ TwinHolds /\ MasksInOrder
  BY DEF Inv
<1>1. /\ <<t, <<ring, s>>>> \in flight /\ flight' = flight \ {<<t, <<ring, s>>>>}
      /\ lpc' = lpc /\ round' = round /\ tpc' = tpc /\ cpc' = cpc /\ done' = done /\ pushed' = pushed
      /\ mask' = mask /\ vflight' = vflight /\ rflight' = rflight /\ ready' = ready /\ valid' = valid
  BY DEF LandData
<1>2. slot' = [slot EXCEPT ![t][ring][s] = slot[0][ring][s]] BY DEF LandData
<1>3. Issued(ring) /\ s = At(round[0]) BY <1>0, <1>1 DEF FlightsInRound
<1>4. slot[0][ring][s] = round[0] BY <1>0, <1>3, LeaderSource
<1>5. Opened BY <1>3 DEF Issued
<1>a. t \in Core /\ t # 0 /\ 0 \in Core /\ round[0] \in Nat /\ round[0] <= Last /\ Last \in Nat
  BY <1>0, Cores, Counters
<1>6. \A u \in Twin : tpc[u] = "wait" /\ Level(u) /\ pushed[u]["V"] = round[0] /\ pushed[u]["K"] = round[0]
  <2>1. Announced = round[0] BY <1>5 DEF Announced, Opened, ReadingAhead
  <2> QED BY <1>0, <1>5, <2>1 DEF ReadyCounts, Level, TwinInOrder
<1>7. /\ slot' \in [Core -> [Rings -> [0..1 -> -1..Last]]] /\ slot'[t][ring][s] = round[0]
      /\ \A d \in Core, q \in Rings, u \in 0..1 :
           d # t \/ q # ring \/ u # s => slot'[d][q][u] = slot[d][q][u]
      /\ \A d \in Core : d # t => slot'[d] = slot[d]
  <2>1. slot' = [slot EXCEPT ![t][ring][s] = round[0]] BY <1>2, <1>4, Zenon
  <2>2. round[0] \in -1..Last BY <1>a
  <2>3. TypeOK /\ t \in Core BY <1>0, <1>a
  <2>4. Written(t, ring, s, round[0]) BY <2>1, <2>2, <2>3, SlotWritten, Zenon
  <2> QED BY <2>4 DEF Written
<1>8. ViewsKept BY <1>1, OthersKeepViews
<1>9. /\ Announced' = Announced /\ (Opened' <=> Opened) /\ MaskedTo(0)' = MaskedTo(0)
      /\ \A q \in Rings : Issued(q)' <=> Issued(q)
  BY <1>8 DEF ViewsKept
<1>10. TypeOK' BY <1>0, <1>1, <1>7 DEF TypeOK
<1>11. LeaderInOrder' BY <1>0, <1>1, LeaderInOrderKept
<1>12. TwinInOrder' BY <1>0, <1>1, TwinInOrderKept
<1>13. RingsBounded'
  <2>1. \A c \in Core, q \in Rings : Popped(c, q)' = Popped(c, q) BY <1>1 DEF Popped
  <2>2. \A c \in Core, q \in Rings : Room(c, q)' <=> Room(c, q) BY <1>1, <2>1 DEF Room
  <2> QED BY <1>0, <1>1, <2>1, <2>2, Cores DEF RingsBounded
<1>14. ComputeBehind' BY <1>0, <1>1 DEF ComputeBehind
<1>15. ValidInStep' BY <1>0, <1>1, <1>9, ValidInStepKept
<1>16. ReadyCounts' BY <1>0, <1>1, <1>9, ReadyCountsKept
<1>17. FlightsInRound'
  <2>1. flight' \subseteq flight BY <1>1
  <2>2. lpc # "valid" BY <1>0, <1>1 DEF FlightsInRound
  <2> QED BY <1>0, <1>1, <1>9, <2>1, <2>2, FlightsInRoundKept
<1>18. LeaderHolds' BY <1>0, <1>1, <1>7, <1>a, LeaderHoldsKept
<1>19. TwinHolds'
  <2>1. ASSUME NEW u \in Twin, NEW q \in Rings
        PROVE  /\ \A n \in 0..(pushed[u][q] - 1) : pushed[u][q] = n + 1 => slot'[u][q][At(n)] = n
               /\ Issued(q) /\ <<u, <<q, At(round[0])>>>> \notin flight'
                    => slot'[u][q][At(round[0])] = round[0]
    <3>0. pushed[u][q] = round[0] /\ u \in Core BY <1>6, Cores DEF Rings
    <3>1. CASE u = t /\ q = ring
      <4>1. ASSUME NEW n \in 0..(pushed[u][q] - 1), pushed[u][q] = n + 1 PROVE slot'[u][q][At(n)] = n
        <5>1. n \in Nat /\ round[0] = n + 1 BY <1>a, <3>0, <4>1
        <5>2. At(n) # s /\ At(n) \in 0..1 BY <1>3, <5>1, Slots
        <5>3. slot[u][q][At(n)] = n
          <6>1. pushed[u][q] <= n + 2 BY <4>1, <5>1
          <6> QED BY <1>0, <4>1, <6>1 DEF TwinHolds
        <5> QED BY <1>7, <1>a, <3>1, <5>2, <5>3
      <4> QED BY <1>3, <1>7, <3>1, <4>1
    <3>2. CASE u # t \/ q # ring
      <4>1. \A v \in 0..1 : slot'[u][q][v] = slot[u][q][v] BY <1>7, <3>0, <3>2
      <4>2. <<u, <<q, At(round[0])>>>> \notin flight' => <<u, <<q, At(round[0])>>>> \notin flight
        BY <1>1, <3>2
      <4>3. At(round[0]) \in 0..1 BY <1>a, Slots
      <4>4. ASSUME NEW n \in 0..(pushed[u][q] - 1), pushed[u][q] = n + 1 PROVE slot'[u][q][At(n)] = n
        <5>1. n \in Nat /\ At(n) \in 0..1 /\ pushed[u][q] <= n + 2 BY <1>a, <3>0, <4>4, Slots
        <5>2. slot[u][q][At(n)] = n BY <1>0, <4>4, <5>1 DEF TwinHolds
        <5> QED BY <4>1, <5>1, <5>2
      <4>5. Issued(q) /\ <<u, <<q, At(round[0])>>>> \notin flight
              => slot[u][q][At(round[0])] = round[0]
        BY <1>0 DEF TwinHolds
      <4> QED BY <4>1, <4>2, <4>3, <4>4, <4>5
    <3> QED BY <3>1, <3>2
  <2>2. \A u \in Twin : ~Behind(u)'
    <3>1. \A u \in Twin : pushed[u]["V"] = Announced /\ pushed[u]["V"] \in Nat BY <1>6, <1>a DEF Level
    <3> QED BY <1>1, <1>9, <3>1 DEF Behind
  <2> QED BY <1>1, <1>6, <1>9, <2>1, <2>2 DEF TwinHolds
<1>20. MasksInOrder'
  <2>1. \A c \in Core : MaskedTo(c)' = MaskedTo(c) BY <1>1, <1>9, MaskedToKept
  <2> QED BY <1>0, <1>1, <2>1, MasksInOrderKept
<1> QED BY <1>10, <1>11, <1>12, <1>13, <1>14, <1>15, <1>16, <1>17, <1>18, <1>19, <1>20 DEF Inv

\* A VALID or a READY lands: only the semaphores and the network change.
LEMMA LandingLeaves ==
    ASSUME Inv, build' = build, lpc' = lpc, round' = round, tpc' = tpc, cpc' = cpc, done' = done,
           pushed' = pushed, slot' = slot, mask' = mask, flight' = flight
    PROVE  /\ LeaderInOrder' /\ TwinInOrder' /\ RingsBounded' /\ ComputeBehind' /\ FlightsInRound'
           /\ LeaderHolds' /\ TwinHolds' /\ MasksInOrder'
           /\ Announced' = Announced /\ (Opened' <=> Opened)
<1>0. /\ TypeOK /\ LeaderInOrder /\ TwinInOrder /\ RingsBounded /\ ComputeBehind /\ FlightsInRound
      /\ LeaderHolds /\ TwinHolds /\ MasksInOrder
  BY DEF Inv
<1>1. ViewsKept /\ LeaderInOrder' /\ FlightsInRound' /\ LeaderHolds' BY TwinLeaves
<1>2. /\ Announced' = Announced /\ (Opened' <=> Opened) /\ MaskedTo(0)' = MaskedTo(0)
      /\ \A ring \in Rings : Issued(ring)' <=> Issued(ring)
  BY <1>1 DEF ViewsKept
<1>3. TwinInOrder' BY <1>0, TwinInOrderKept
<1>4. RingsBounded'
  <2>1. \A c \in Core, q \in Rings : Popped(c, q)' = Popped(c, q) BY DEF Popped
  <2>2. \A c \in Core, q \in Rings : Room(c, q)' <=> Room(c, q) BY <2>1 DEF Room
  <2> QED BY <1>0, <2>1, <2>2, Cores DEF RingsBounded
<1>5. ComputeBehind' BY <1>0 DEF ComputeBehind
<1>6. TwinHolds' BY <1>0, <1>2, TwinHoldsKept
<1>7. MasksInOrder'
  <2>1. \A c \in Core : MaskedTo(c)' = MaskedTo(c) BY <1>2, MaskedToKept
  <2> QED BY <1>0, <2>1, MasksInOrderKept
<1> QED BY <1>1, <1>2, <1>3, <1>4, <1>5, <1>6, <1>7

\* VALID lands with the one it was sent with.
LEMMA LandValidStep == ASSUME Inv, NEW t \in Twin, LandValid(t), build' = build PROVE Inv'
<1>0. TypeOK /\ ValidInStep /\ ReadyCounts BY DEF Inv
<1>1. /\ t \in vflight /\ vflight' = vflight \ {t} /\ valid' = [valid EXCEPT ![t] = valid[0]]
      /\ lpc' = lpc /\ round' = round /\ tpc' = tpc /\ cpc' = cpc /\ done' = done /\ pushed' = pushed
      /\ slot' = slot /\ mask' = mask /\ flight' = flight /\ rflight' = rflight /\ ready' = ready
  BY DEF LandValid
<1>2. /\ LeaderInOrder' /\ TwinInOrder' /\ RingsBounded' /\ ComputeBehind' /\ FlightsInRound'
      /\ LeaderHolds' /\ TwinHolds' /\ MasksInOrder'
      /\ Announced' = Announced /\ (Opened' <=> Opened)
  BY <1>1, LandingLeaves
<1>3. valid[0] = 1 /\ Behind(t) /\ tpc[t] = "wait" BY <1>0, <1>1 DEF ValidInStep
<1>4. /\ valid' \in [Core -> 0..1] /\ valid'[t] = 1 /\ valid'[0] = valid[0]
      /\ \A u \in Twin : u # t => valid'[u] = valid[u]
  <2>1. valid \in [Core -> 0..1] /\ t \in Core /\ t # 0 /\ 0 \in Core /\ \A u \in Twin : u \in Core
    BY <1>0, Cores DEF TypeOK
  <2> QED BY <1>1, <1>3, <2>1
<1>5. TypeOK' BY <1>0, <1>1, <1>4 DEF TypeOK
<1>6. \A u \in Twin : (Behind(u)' <=> Behind(u)) /\ (Level(u)' <=> Level(u)) BY <1>1, <1>2 DEF Behind, Level
<1>7. ValidInStep'
  <2>1. ASSUME NEW u \in Twin
        PROVE  /\ Behind(u) \/ Level(u)
               /\ Behind(u) => tpc[u] = "wait" /\ (u \in vflight' \/ valid'[u] = 1)
               /\ u \in vflight' => Behind(u) /\ valid'[u] = 0
               /\ tpc[u] \in {"signal", "wait"} /\ valid'[u] = 1 => Behind(u)
               /\ tpc[u] = "end" => valid'[u] = 0
    <3>1. CASE u = t BY <1>1, <1>3, <1>4, <3>1
    <3>2. CASE u # t BY <1>0, <1>1, <1>4, <3>2 DEF ValidInStep
    <3> QED BY <3>1, <3>2
  <2>2. lpc # "end" BY <1>0, <1>3 DEF ValidInStep
  <2> QED BY <1>1, <1>3, <1>4, <1>6, <2>1, <2>2 DEF ValidInStep
<1>8. ReadyCounts' BY <1>0, <1>1, <1>2, ReadyCountsKept
<1> QED BY <1>2, <1>5, <1>7, <1>8 DEF Inv

\* READY lands and is counted.
LEMMA LandReadyStep == ASSUME Inv, NEW t \in Twin, LandReady(t), build' = build PROVE Inv'
<1>0. TypeOK /\ ValidInStep /\ ReadyCounts BY DEF Inv
<1>1. /\ t \in rflight /\ rflight' = rflight \ {t} /\ ready' = ready + 1
      /\ lpc' = lpc /\ round' = round /\ tpc' = tpc /\ cpc' = cpc /\ done' = done /\ pushed' = pushed
      /\ slot' = slot /\ mask' = mask /\ flight' = flight /\ vflight' = vflight /\ valid' = valid
  BY DEF LandReady
<1>2. /\ LeaderInOrder' /\ TwinInOrder' /\ RingsBounded' /\ ComputeBehind' /\ FlightsInRound'
      /\ LeaderHolds' /\ TwinHolds' /\ MasksInOrder'
      /\ Announced' = Announced /\ (Opened' <=> Opened)
  BY <1>1, LandingLeaves
<1>3. t \in Asking /\ Asking \subseteq Twin BY <1>0, <1>1 DEF ReadyCounts, Asking
<1>4. IsFiniteSet(Twin) /\ Cardinality(Twin) = Twins /\ Twins \in Nat
  BY ShareAssumption, FS_Interval DEF Twin
<1>5. Asking' = Asking
  <2>1. \A u \in Twin : Level(u)' <=> Level(u) BY <1>1, <1>2 DEF Level
  <2> QED BY <1>1, <1>2, <2>1 DEF Asking
<1>6. Asking' \ rflight' = (Asking \ rflight) \cup {t} BY <1>1, <1>3, <1>5
<1>7. Asking \ rflight \in SUBSET Twin /\ Asking' \ rflight' \in SUBSET Twin /\ t \notin Asking \ rflight
  BY <1>1, <1>3, <1>5
<1>8. /\ IsFiniteSet(Asking \ rflight) /\ Cardinality(Asking' \ rflight') <= Twins
  BY <1>4, <1>7, FS_Subset
<1>9. ready = Cardinality(Asking \ rflight) /\ ready \in Nat BY <1>0, Counters DEF ReadyCounts
<1>10. Cardinality(Asking' \ rflight') = ready + 1 BY <1>6, <1>7, <1>8, <1>9, FS_AddElement
<1>11. ready' \in 0..Twins BY <1>1, <1>4, <1>8, <1>9, <1>10
<1>12. TypeOK' BY <1>0, <1>1, <1>11 DEF TypeOK
<1>13. ValidInStep' BY <1>0, <1>1, <1>2, ValidInStepKept
<1>14. ReadyCounts'
  <2>1. \A u \in Twin : Level(u)' <=> Level(u) BY <1>1, <1>2 DEF Level
  <2>2. lpc # "reset" BY <1>0, <1>1 DEF ReadyCounts
  <2>3. rflight' \subseteq Asking' BY <1>0, <1>1, <1>5 DEF ReadyCounts
  <2> QED BY <1>0, <1>1, <1>2, <1>10, <2>1, <2>2, <2>3 DEF ReadyCounts
<1> QED BY <1>2, <1>12, <1>13, <1>14 DEF Inv

-----------------------------------------------------------------------------
(* The compute kernels *)

\* A step of a compute kernel that gives no slot back it had popped.
LEMMA ComputeLeaves ==
    ASSUME Inv, TypeOK', build' = build, lpc' = lpc, round' = round, tpc' = tpc, pushed' = pushed,
           slot' = slot, flight' = flight, vflight' = vflight, rflight' = rflight, ready' = ready,
           valid' = valid, \A d \in Core, ring \in Rings : Popped(d, ring) <= Popped(d, ring)'
    PROVE  /\ LeaderInOrder' /\ TwinInOrder' /\ RingsBounded' /\ ValidInStep' /\ ReadyCounts'
           /\ FlightsInRound' /\ LeaderHolds' /\ TwinHolds' /\ \A d \in Core : MaskedTo(d)' = MaskedTo(d)
<1>0. /\ TypeOK /\ LeaderInOrder /\ TwinInOrder /\ RingsBounded /\ ValidInStep /\ ReadyCounts
      /\ FlightsInRound /\ LeaderHolds /\ TwinHolds
  BY DEF Inv
<1>1. ViewsKept /\ LeaderInOrder' /\ FlightsInRound' /\ LeaderHolds' BY TwinLeaves
<1>2. /\ Announced' = Announced /\ (Opened' <=> Opened) /\ MaskedTo(0)' = MaskedTo(0)
      /\ \A ring \in Rings : Issued(ring)' <=> Issued(ring)
  BY <1>1 DEF ViewsKept
<1>3. TwinInOrder' BY <1>0, TwinInOrderKept
<1>4. RingsBounded'
  <2>1. \A d \in Core : done'[d] \in Nat BY LastStartsAHead DEF TypeOK
  <2>2. \A d \in Core, ring \in Rings : Popped(d, ring)' \in Nat BY <2>1 DEF Popped
  <2> QED BY <1>0, <2>2, RingsBoundedKept
<1>5. ValidInStep' BY <1>0, <1>2, ValidInStepKept
<1>6. ReadyCounts' BY <1>0, <1>2, ReadyCountsKept
<1>7. TwinHolds' BY <1>0, <1>2, TwinHoldsKept
<1>8. \A d \in Core : MaskedTo(d)' = MaskedTo(d) BY <1>2, MaskedToKept
<1> QED BY <1>1, <1>3, <1>4, <1>5, <1>6, <1>7, <1>8

\* The masks, when one compute kernel moves and the other cores are left alone.
LEMMA MasksOfOne ==
    ASSUME MasksInOrder, NEW c \in Core, build' = build,
           \A d \in Core : MaskedTo(d)' = MaskedTo(d),
           \A d \in Core : d # c => cpc'[d] = cpc[d] /\ done'[d] = done[d] /\ mask'[d] = mask[d],
           cpc'[c] = "M" => Masked(done'[c]),
           \A n \in 0..Last : Masked(n) /\ TakenTo(c)' <= n /\ n < MaskedTo(c) => mask'[c] = n,
           mask'[c] # NoChunk => Masked(mask'[c]) /\ TakenTo(c)' <= mask'[c] /\ mask'[c] < MaskedTo(c),
           \A n \in 0..Last : Masked(n) /\ n < TakenTo(c)' => n < MaskedTo(c)
    PROVE  MasksInOrder'
<1>1. \A n : Masked(n)' <=> Masked(n) BY BuildKept
<1>2. \A d \in Core : d # c => TakenTo(d)' = TakenTo(d) BY DEF TakenTo
<1>3. ASSUME NEW d \in Core
      PROVE  /\ cpc'[d] = "M" => Masked(done'[d])
             /\ \A n \in 0..Last : Masked(n) /\ TakenTo(d)' <= n /\ n < MaskedTo(d) => mask'[d] = n
             /\ mask'[d] # NoChunk => Masked(mask'[d]) /\ TakenTo(d)' <= mask'[d] /\ mask'[d] < MaskedTo(d)
             /\ \A n \in 0..Last : Masked(n) /\ n < TakenTo(d)' => n < MaskedTo(d)
  <2>1. CASE d = c BY <2>1
  <2>2. CASE d # c BY <1>2, <2>2 DEF MasksInOrder
  <2> QED BY <2>1, <2>2
<1> QED BY <1>1, <1>3 DEF MasksInOrder

\* Scores from K: the slot of K is given back.
LEMMA ComputeKStep == ASSUME Inv, NEW c \in Core, ComputeK(c), build' = build PROVE Inv'
<1>0. TypeOK /\ ComputeBehind /\ MasksInOrder BY DEF Inv
<1> DEFINE x == IF Masked(done[c]) THEN "M" ELSE "V"
<1>1. /\ cpc[c] = "K" /\ done[c] < pushed[c]["K"] /\ cpc' = [cpc EXCEPT ![c] = x]
      /\ lpc' = lpc /\ round' = round /\ tpc' = tpc /\ done' = done /\ pushed' = pushed /\ slot' = slot
      /\ mask' = mask /\ flight' = flight /\ vflight' = vflight /\ rflight' = rflight /\ ready' = ready
      /\ valid' = valid
  BY DEF ComputeK
<1>2. (Masked(done[c]) /\ x = "M") \/ (~Masked(done[c]) /\ x = "V") OBVIOUS
<1> HIDE DEF x
<1>3. cpc' \in [Core -> {"K", "M", "V"}] /\ cpc'[c] = x /\ \A d \in Core : d # c => cpc'[d] = cpc[d]
  BY <1>0, <1>1, <1>2 DEF TypeOK
<1>4. TypeOK' BY <1>0, <1>1, <1>3 DEF TypeOK
<1>5. \A d \in Core, ring \in Rings : Popped(d, ring) <= Popped(d, ring)'
  <2>1. ASSUME NEW d \in Core, NEW ring \in Rings PROVE Popped(d, ring) <= Popped(d, ring)'
    <3>1. done[d] \in Nat BY <1>0, Counters
    <3>2. CASE d = c BY <1>1, <1>2, <1>3, <3>1, <3>2 DEF Popped
    <3>3. CASE d # c BY <1>1, <1>3, <3>1, <3>3 DEF Popped
    <3> QED BY <3>2, <3>3
  <2> QED BY <2>1
<1>6. /\ LeaderInOrder' /\ TwinInOrder' /\ RingsBounded' /\ ValidInStep' /\ ReadyCounts'
      /\ FlightsInRound' /\ LeaderHolds' /\ TwinHolds' /\ \A d \in Core : MaskedTo(d)' = MaskedTo(d)
  BY <1>1, <1>4, <1>5, ComputeLeaves
<1>7. ComputeBehind' BY <1>0, <1>1, <1>3 DEF ComputeBehind
<1>8. MasksInOrder'
  <2>1. /\ \A n \in 0..Last : Masked(n) /\ TakenTo(c) <= n /\ n < MaskedTo(c) => mask[c] = n
        /\ mask[c] # NoChunk => Masked(mask[c]) /\ TakenTo(c) <= mask[c] /\ mask[c] < MaskedTo(c)
        /\ \A n \in 0..Last : Masked(n) /\ n < TakenTo(c) => n < MaskedTo(c)
    BY <1>0 DEF MasksInOrder
  <2>2. TakenTo(c) = done[c] /\ done[c] \in Nat /\ mask[c] \in Int BY <1>0, <1>1, Counters DEF TakenTo
  <2>3. \A d \in Core : d # c => cpc'[d] = cpc[d] /\ done'[d] = done[d] /\ mask'[d] = mask[d] BY <1>1, <1>3
  <2>4. CASE Masked(done[c]) /\ x = "M"
    <3>1. TakenTo(c)' = TakenTo(c) BY <1>1, <1>3, <2>2, <2>4 DEF TakenTo
    <3>2. cpc'[c] = "M" /\ Masked(done'[c]) /\ mask'[c] = mask[c] BY <1>1, <1>3, <2>4
    <3> QED BY <1>0, <1>6, <2>1, <2>3, <3>1, <3>2, MasksOfOne
  <2>5. CASE ~Masked(done[c]) /\ x = "V"
    <3>1. TakenTo(c)' = done[c] + 1 BY <1>1, <1>3, <2>5 DEF TakenTo
    <3>2. \A n \in 0..Last : Masked(n) /\ done[c] + 1 <= n /\ n < MaskedTo(c) => mask[c] = n
      <4>1. \A n \in 0..Last : done[c] + 1 <= n => done[c] <= n BY <2>2
      <4> QED BY <2>1, <2>2, <4>1
    <3>3. mask[c] # NoChunk => Masked(mask[c]) /\ done[c] + 1 <= mask[c] /\ mask[c] < MaskedTo(c)
      <4>1. ASSUME mask[c] # NoChunk PROVE done[c] + 1 <= mask[c]
        <5>1. Masked(mask[c]) /\ done[c] <= mask[c] BY <2>1, <2>2, <4>1
        <5>2. mask[c] # done[c] BY <2>5, <5>1
        <5> QED BY <2>2, <5>1, <5>2
      <4> QED BY <2>1, <4>1
    <3>4. \A n \in 0..Last : Masked(n) /\ n < done[c] + 1 => n < MaskedTo(c)
      <4>1. \A n \in 0..Last : Masked(n) => n # done[c] BY <2>5
      <4>2. \A n \in 0..Last : n < done[c] + 1 /\ n # done[c] => n < done[c] BY <2>2
      <4> QED BY <2>1, <2>2, <4>1, <4>2
    <3>5. cpc'[c] # "M" /\ mask'[c] = mask[c] BY <1>1, <1>3, <2>5
    <3> QED BY <1>0, <1>6, <2>3, <3>1, <3>2, <3>3, <3>4, <3>5, MasksOfOne
  <2> QED BY <1>2, <2>4, <2>5
<1> QED BY <1>4, <1>6, <1>7, <1>8 DEF Inv

\* The mask taken is that of the chunk whose scores are there.
LEMMA ComputeMaskStep == ASSUME Inv, NEW c \in Core, ComputeMask(c), build' = build PROVE Inv'
<1>0. TypeOK /\ ComputeBehind /\ MasksInOrder BY DEF Inv
<1>1. /\ cpc[c] = "M" /\ mask[c] # NoChunk /\ mask' = [mask EXCEPT ![c] = NoChunk]
      /\ cpc' = [cpc EXCEPT ![c] = "V"]
      /\ lpc' = lpc /\ round' = round /\ tpc' = tpc /\ done' = done /\ pushed' = pushed /\ slot' = slot
      /\ flight' = flight /\ vflight' = vflight /\ rflight' = rflight /\ ready' = ready /\ valid' = valid
  BY DEF ComputeMask
<1>2. cpc' \in [Core -> {"K", "M", "V"}] /\ cpc'[c] = "V" /\ \A d \in Core : d # c => cpc'[d] = cpc[d]
  BY <1>0, <1>1 DEF TypeOK
<1>3. mask' \in [Core -> -1..Last] /\ mask'[c] = NoChunk /\ \A d \in Core : d # c => mask'[d] = mask[d]
  <2>1. NoChunk \in -1..Last BY LastStartsAHead DEF NoChunk
  <2>2. mask \in [Core -> -1..Last] BY <1>0 DEF TypeOK
  <2> QED BY <1>1, <2>1, <2>2
<1>4. TypeOK' BY <1>0, <1>1, <1>2, <1>3 DEF TypeOK
<1>5. \A d \in Core, ring \in Rings : Popped(d, ring) <= Popped(d, ring)'
  <2>1. ASSUME NEW d \in Core, NEW ring \in Rings PROVE Popped(d, ring) <= Popped(d, ring)'
    <3>1. done[d] \in Nat BY <1>0, Counters
    <3>2. cpc'[d] = "K" <=> cpc[d] = "K" BY <1>1, <1>2
    <3> QED BY <1>1, <3>1, <3>2 DEF Popped
  <2> QED BY <2>1
<1>6. /\ LeaderInOrder' /\ TwinInOrder' /\ RingsBounded' /\ ValidInStep' /\ ReadyCounts'
      /\ FlightsInRound' /\ LeaderHolds' /\ TwinHolds' /\ \A d \in Core : MaskedTo(d)' = MaskedTo(d)
  BY <1>1, <1>4, <1>5, ComputeLeaves
<1>7. ComputeBehind'
  <2>1. \A d \in Core : cpc'[d] # "K" => cpc[d] # "K" BY <1>1, <1>2
  <2> QED BY <1>0, <1>1, <2>1 DEF ComputeBehind
<1>8. MasksInOrder'
  <2>1. /\ \A n \in 0..Last : Masked(n) /\ done[c] <= n /\ n < MaskedTo(c) => mask[c] = n
        /\ Masked(mask[c]) /\ done[c] <= mask[c] /\ mask[c] < MaskedTo(c)
        /\ \A n \in 0..Last : Masked(n) /\ n < done[c] => n < MaskedTo(c)
        /\ Masked(done[c])
    BY <1>0, <1>1 DEF MasksInOrder, TakenTo
  <2>2. done[c] \in Nat /\ done[c] <= Last /\ Last \in Nat /\ mask[c] \in Int /\ MaskedTo(c) \in Int
    <3>1. round[c] \in Nat /\ round[0] \in Nat BY <1>0, Counters, Cores
    <3> QED BY <1>0, <3>1, Counters DEF MaskedTo
  <2>3. done[c] < MaskedTo(c) BY <2>1, <2>2
  <2>4. mask[c] = done[c]
    <3>1. done[c] \in 0..Last BY <2>2
    <3> QED BY <2>1, <2>2, <2>3, <3>1
  <2>5. TakenTo(c)' = done[c] + 1 BY <1>1, <1>2 DEF TakenTo
  <2>6. \A n \in 0..Last : Masked(n) /\ done[c] + 1 <= n /\ n < MaskedTo(c) => mask'[c] = n
    <3>1. \A n \in 0..Last : done[c] + 1 <= n => done[c] <= n /\ n # done[c] BY <2>2
    <3> QED BY <2>1, <2>4, <3>1
  <2>7. \A n \in 0..Last : Masked(n) /\ n < done[c] + 1 => n < MaskedTo(c)
    <3>1. \A n \in 0..Last : n < done[c] + 1 => n < done[c] \/ n = done[c] BY <2>2
    <3> QED BY <2>1, <2>3, <3>1
  <2>8. \A d \in Core : d # c => cpc'[d] = cpc[d] /\ done'[d] = done[d] /\ mask'[d] = mask[d] BY <1>1, <1>2, <1>3
  <2>9. cpc'[c] # "M" /\ mask'[c] = NoChunk BY <1>2, <1>3
  <2> QED BY <1>0, <1>6, <2>5, <2>6, <2>7, <2>8, <2>9, MasksOfOne
<1> QED BY <1>4, <1>6, <1>7, <1>8 DEF Inv

\* The product with V ends the chunk: the slot of V is given back.
LEMMA ComputeVStep == ASSUME Inv, NEW c \in Core, ComputeV(c), build' = build PROVE Inv'
<1>0. TypeOK /\ ComputeBehind /\ MasksInOrder BY DEF Inv
<1>1. /\ cpc[c] = "V" /\ done[c] < pushed[c]["V"] /\ done' = [done EXCEPT ![c] = @ + 1]
      /\ cpc' = [cpc EXCEPT ![c] = "K"]
      /\ lpc' = lpc /\ round' = round /\ tpc' = tpc /\ pushed' = pushed /\ slot' = slot /\ mask' = mask
      /\ flight' = flight /\ vflight' = vflight /\ rflight' = rflight /\ ready' = ready /\ valid' = valid
  BY DEF ComputeV
<1>2. cpc' \in [Core -> {"K", "M", "V"}] /\ cpc'[c] = "K" /\ \A d \in Core : d # c => cpc'[d] = cpc[d]
  BY <1>0, <1>1 DEF TypeOK
<1>3. /\ done' \in [Core -> 0..Last] /\ done'[c] = done[c] + 1
      /\ \A d \in Core : d # c => done'[d] = done[d]
  <2>1. "V" \in Rings BY DEF Rings
  <2>2. pushed[c]["V"] \in Nat /\ pushed[c]["V"] <= Last /\ done[c] \in Nat /\ Last \in Nat
    BY <1>0, <2>1, Counters
  <2>3. done[c] + 1 \in 0..Last BY <1>1, <2>2
  <2>4. done \in [Core -> 0..Last] BY <1>0 DEF TypeOK
  <2> QED BY <1>1, <2>3, <2>4
<1>4. TypeOK' BY <1>0, <1>1, <1>2, <1>3 DEF TypeOK
<1>5. \A d \in Core, ring \in Rings : Popped(d, ring) <= Popped(d, ring)'
  <2>1. ASSUME NEW d \in Core, NEW ring \in Rings PROVE Popped(d, ring) <= Popped(d, ring)'
    <3>1. done[d] \in Nat BY <1>0, Counters
    <3>2. CASE d = c
      <4>1. Popped(d, ring)' = done[d] + 1 BY <1>2, <1>3, <3>2 DEF Popped
      <4> QED BY <3>1, <4>1 DEF Popped
    <3>3. CASE d # c BY <1>2, <1>3, <3>1, <3>3 DEF Popped
    <3> QED BY <3>2, <3>3
  <2> QED BY <2>1
<1>6. /\ LeaderInOrder' /\ TwinInOrder' /\ RingsBounded' /\ ValidInStep' /\ ReadyCounts'
      /\ FlightsInRound' /\ LeaderHolds' /\ TwinHolds' /\ \A d \in Core : MaskedTo(d)' = MaskedTo(d)
  BY <1>1, <1>4, <1>5, ComputeLeaves
<1>7. ComputeBehind'
  <2>1. ASSUME NEW d \in Core
        PROVE  done'[d] <= pushed[d]["V"] /\ (cpc'[d] # "K" => done'[d] < pushed[d]["K"])
    <3>1. CASE d = c
      <4>1. done[c] \in Nat /\ pushed[c]["V"] \in Nat BY <1>0, Counters
      <4> QED BY <1>1, <1>2, <1>3, <3>1, <4>1
    <3>2. CASE d # c BY <1>0, <1>2, <1>3, <3>2 DEF ComputeBehind
    <3> QED BY <3>1, <3>2
  <2> QED BY <1>1, <2>1 DEF ComputeBehind
<1>8. MasksInOrder'
  <2>1. TakenTo(c)' = TakenTo(c) BY <1>1, <1>2, <1>3 DEF TakenTo
  <2>2. /\ \A n \in 0..Last : Masked(n) /\ TakenTo(c) <= n /\ n < MaskedTo(c) => mask[c] = n
        /\ mask[c] # NoChunk => Masked(mask[c]) /\ TakenTo(c) <= mask[c] /\ mask[c] < MaskedTo(c)
        /\ \A n \in 0..Last : Masked(n) /\ n < TakenTo(c) => n < MaskedTo(c)
    BY <1>0 DEF MasksInOrder
  <2>3. \A d \in Core : d # c => cpc'[d] = cpc[d] /\ done'[d] = done[d] /\ mask'[d] = mask[d] BY <1>1, <1>2, <1>3
  <2>4. cpc'[c] # "M" /\ mask'[c] = mask[c] BY <1>1, <1>2
  <2> QED BY <1>0, <1>6, <2>1, <2>2, <2>3, <2>4, MasksOfOne
<1> QED BY <1>4, <1>6, <1>7, <1>8 DEF Inv

-----------------------------------------------------------------------------
(* The theorems *)

\* The launch: nothing pushed, nothing on the network.
LEMMA InvInit == Init => Inv
<1> SUFFICES ASSUME Init PROVE Inv OBVIOUS
<1>1. /\ build \in Builds /\ lpc = "readK" /\ round = [c \in Core |-> 0] /\ tpc = [t \in Twin |-> "reserve"]
      /\ cpc = [c \in Core |-> "K"] /\ done = [c \in Core |-> 0]
      /\ pushed = [c \in Core |-> [r \in Rings |-> 0]]
      /\ mask = [c \in Core |-> NoChunk] /\ flight = {} /\ vflight = {} /\ rflight = {} /\ ready = 0
      /\ valid = [c \in Core |-> 0]
  BY DEF Init
<1>2. slot = [c \in Core |-> [r \in Rings |-> [s \in 0..1 |-> NoChunk]]] BY DEF Init
<1>3. Last \in Nat \ {0} /\ 0 \in 0..Last /\ NoChunk \in -1..Last BY LastStartsAHead DEF NoChunk
<1>4. "K" \in Rings /\ "V" \in Rings /\ 0 \in Core /\ \A t \in Twin : t \in Core BY Cores DEF Rings
<1>5. \A c \in Core : /\ \A ring \in Rings : pushed[c][ring] = 0
                      /\ pushed[c]["K"] = 0 /\ pushed[c]["V"] = 0
                      /\ round[c] = 0 /\ done[c] = 0 /\ cpc[c] = "K" /\ mask[c] = NoChunk /\ valid[c] = 0
  BY <1>1, <1>4
<1>6. \A t \in Twin : tpc[t] = "reserve" BY <1>1
<1>7. ~Opened /\ Announced = 0 /\ ~ReadingAhead
  <2>1. ~ReadingAhead BY <1>4, <1>5 DEF ReadingAhead
  <2> QED BY <1>1, <1>4, <1>5, <2>1 DEF Opened, Announced
<1>8. TypeOK
  <2>1. slot \in [Core -> [Rings -> [0..1 -> -1..Last]]] BY <1>2, <1>3
  <2>2. pushed \in [Core -> [Rings -> 0..Last]] BY <1>1, <1>3
  <2>3. ready \in 0..Twins BY <1>1, ShareAssumption
  <2> QED BY <1>1, <1>3, <2>1, <2>2, <2>3 DEF TypeOK
<1>9. LeaderInOrder BY <1>1, <1>3, <1>4, <1>5 DEF LeaderInOrder
<1>10. TwinInOrder BY <1>4, <1>5, <1>6 DEF TwinInOrder
<1>11. RingsBounded
  <2>1. \A c \in Core, ring \in Rings : Popped(c, ring) = 0 BY <1>5 DEF Popped
  <2>2. \A ring \in Rings : lpc # Fill[ring] BY <1>1, FillPlaces
  <2> QED BY <1>5, <1>6, <2>1, <2>2 DEF RingsBounded
<1>12. ComputeBehind BY <1>5 DEF ComputeBehind
<1>13. ValidInStep BY <1>1, <1>4, <1>5, <1>6, <1>7 DEF ValidInStep, Behind, Level
<1>14. ReadyCounts
  <2>1. Asking = {} BY <1>6 DEF Asking
  <2>2. Cardinality(Asking \ rflight) = 0 BY <2>1, FS_EmptySet
  <2> QED BY <1>1, <1>7, <2>2 DEF ReadyCounts
<1>15. FlightsInRound BY <1>1 DEF FlightsInRound
<1>16. LeaderHolds BY <1>4, <1>5 DEF LeaderHolds
<1>17. TwinHolds BY <1>4, <1>5, <1>7 DEF TwinHolds, Issued, Behind
<1>18. MasksInOrder
  <2>1. \A c \in Core : MaskedTo(c) = 0 /\ TakenTo(c) = 0 BY <1>1, <1>5, <1>7 DEF MaskedTo, TakenTo
  <2>2. \A n \in 0..Last : ~(n < 0) BY <1>3
  <2> QED BY <1>5, <2>1, <2>2 DEF MasksInOrder
<1> QED BY <1>8, <1>9, <1>10, <1>11, <1>12, <1>13, <1>14, <1>15, <1>16, <1>17, <1>18 DEF Inv

\* Every step of a reader, a compute kernel or the network keeps the invariant.
LEMMA InvStep == Inv /\ [Next]_vars => Inv'
<1> SUFFICES ASSUME Inv, [Next]_vars PROVE Inv' OBVIOUS
<1>1. ASSUME Leader PROVE Inv'
  <2>0. build' = build BY <1>1 DEF Leader
  <2>1. ASSUME NEW ring \in Rings, ReadStart(ring) PROVE Inv' BY <2>0, <2>1, ReadStartStep
  <2>2. ASSUME NEW ring \in Rings, ReadEnd(ring) PROVE Inv' BY <2>0, <2>2, ReadEndStep
  <2>3. ASSUME NEW ring \in Rings, Multicast(ring) PROVE Inv' BY <2>0, <2>3, MulticastStep
  <2>4. ASSUME WaitReady PROVE Inv' BY <2>0, <2>4, WaitReadyStep
  <2>5. ASSUME ResetReady PROVE Inv' BY <2>0, <2>5, ResetReadyStep
  <2>6. ASSUME LeaderMask PROVE Inv' BY <2>0, <2>6, LeaderMaskStep
  <2>7. ASSUME WriteBarrier PROVE Inv' BY <2>0, <2>7, WriteBarrierStep
  <2>8. ASSUME SendValid PROVE Inv' BY <2>0, <2>8, SendValidStep
  <2>9. ASSUME LeaderExit PROVE Inv' BY <2>0, <2>9, LeaderExitStep
  <2> QED BY <1>1, <2>1, <2>2, <2>3, <2>4, <2>5, <2>6, <2>7, <2>8, <2>9 DEF Leader
<1>2. ASSUME NEW t \in Twin, TwinStep(t) PROVE Inv'
  <2>0. build' = build BY <1>2 DEF TwinStep
  <2>1. ASSUME Reserve(t) PROVE Inv' BY <2>0, <2>1, ReserveStep
  <2>2. ASSUME ClearValid(t) PROVE Inv' BY <2>0, <2>2, ClearValidStep
  <2>3. ASSUME SignalReady(t) PROVE Inv' BY <2>0, <2>3, SignalReadyStep
  <2>4. ASSUME WaitValid(t) PROVE Inv' BY <2>0, <2>4, WaitValidStep
  <2>5. ASSUME TwinMask(t) PROVE Inv' BY <2>0, <2>5, TwinMaskStep
  <2>6. ASSUME TwinExit(t) PROVE Inv' BY <2>0, <2>6, TwinExitStep
  <2> QED BY <1>2, <2>1, <2>2, <2>3, <2>4, <2>5, <2>6 DEF TwinStep
<1>3. ASSUME NEW t \in Twin, Land(t) PROVE Inv'
  <2>0. build' = build BY <1>3 DEF Land
  <2>1. ASSUME LandValid(t) PROVE Inv' BY <2>0, <2>1, LandValidStep
  <2>2. ASSUME LandReady(t) PROVE Inv' BY <2>0, <2>2, LandReadyStep
  <2>3. ASSUME NEW ring \in Rings, NEW s \in 0..1, LandData(t, ring, s) PROVE Inv'
    BY <2>0, <2>3, LandDataStep
  <2> QED BY <1>3, <2>1, <2>2, <2>3 DEF Land
<1>4. ASSUME NEW c \in Core, Compute(c) PROVE Inv'
  <2>0. build' = build BY <1>4 DEF Compute
  <2>1. ASSUME ComputeK(c) PROVE Inv' BY <2>0, <2>1, ComputeKStep
  <2>2. ASSUME ComputeMask(c) PROVE Inv' BY <2>0, <2>2, ComputeMaskStep
  <2>3. ASSUME ComputeV(c) PROVE Inv' BY <2>0, <2>3, ComputeVStep
  <2> QED BY <1>4, <2>1, <2>2, <2>3 DEF Compute
<1>5. ASSUME UNCHANGED vars PROVE Inv'
  <2>0. /\ TypeOK /\ LeaderInOrder /\ TwinInOrder /\ RingsBounded /\ ComputeBehind /\ ValidInStep
        /\ ReadyCounts /\ FlightsInRound /\ LeaderHolds /\ TwinHolds /\ MasksInOrder
    BY DEF Inv
  <2>1. /\ build' = build /\ lpc' = lpc /\ round' = round /\ tpc' = tpc /\ cpc' = cpc /\ done' = done
        /\ pushed' = pushed /\ slot' = slot /\ mask' = mask /\ flight' = flight /\ vflight' = vflight
        /\ rflight' = rflight /\ ready' = ready /\ valid' = valid
    BY <1>5 DEF vars
  <2>2. TypeOK' BY <2>0, <2>1 DEF TypeOK
  <2>3. /\ LeaderInOrder' /\ TwinInOrder' /\ RingsBounded' /\ ComputeBehind' /\ FlightsInRound'
        /\ LeaderHolds' /\ TwinHolds' /\ MasksInOrder' /\ Announced' = Announced /\ (Opened' <=> Opened)
    BY <2>1, LandingLeaves
  <2>4. ValidInStep' BY <2>0, <2>1, <2>3, ValidInStepKept
  <2>5. ReadyCounts' BY <2>0, <2>1, <2>3, ReadyCountsKept
  <2> QED BY <2>2, <2>3, <2>4, <2>5 DEF Inv
<1> QED BY <1>1, <1>2, <1>3, <1>4, <1>5 DEF Next

\* The invariant holds throughout.
LEMMA InvAlways == Spec => []Inv
BY InvInit, InvStep, PTL DEF Spec

\* Every program counter, semaphore, ring and buffer keeps its kind: READY never counts more
\* than the twins, and no ring is pushed past the end of the run.
THEOREM TypeCorrect == Spec => []TypeOK
<1>1. Inv => TypeOK BY DEF Inv
<1> QED BY <1>1, InvAlways, PTL

\* What a slot holds follows from the order of the round: a slot is written again only when
\* its chunk is popped, and pushed only when its bytes have landed.
LEMMA HoldsByOrder == Inv => SlotsHoldTheirChunk
<1> SUFFICES ASSUME Inv PROVE SlotsHoldTheirChunk OBVIOUS
<1>0. /\ TypeOK /\ RingsBounded /\ LeaderHolds /\ TwinHolds /\ MasksInOrder /\ ComputeBehind
  BY DEF Inv
<1>1. ASSUME NEW c \in Core, NEW ring \in Rings, NEW n \in Popped(c, ring)..(pushed[c][ring] - 1)
      PROVE  slot[c][ring][At(n)] = n
  <2>1. /\ Popped(c, ring) \in Nat /\ pushed[c][ring] \in Nat BY <1>0, Counters
  <2>2. pushed[c][ring] <= Popped(c, ring) + 2 BY <1>0 DEF RingsBounded
  <2>3. n \in 0..(pushed[c][ring] - 1) /\ pushed[c][ring] <= n + 2 BY <2>1, <2>2
  <2>4. Room(c, ring) => pushed[c][ring] = n + 1 BY <2>1, <2>3 DEF Room
  <2>5. CASE c = 0
    <3>1. lpc = Fill[ring] => pushed[0][ring] = n + 1 BY <1>0, <2>4, <2>5 DEF RingsBounded
    <3> QED BY <1>0, <2>3, <2>5, <3>1 DEF LeaderHolds
  <2>6. CASE c \in Twin
    <3>1. tpc[c] = "wait" => pushed[c][ring] = n + 1 BY <1>0, <2>4, <2>6 DEF RingsBounded
    <3> QED BY <1>0, <2>3, <2>6, <3>1 DEF TwinHolds
  <2> QED BY <2>5, <2>6, Cores
<1>2. ASSUME NEW c \in Core, cpc[c] = "M", mask[c] # NoChunk PROVE mask[c] = done[c]
  <2>1. /\ \A n \in 0..Last : Masked(n) /\ done[c] <= n /\ n < MaskedTo(c) => mask[c] = n
        /\ done[c] <= mask[c] /\ mask[c] < MaskedTo(c) /\ Masked(done[c])
    BY <1>0, <1>2 DEF MasksInOrder, TakenTo
  <2>2. done[c] \in Nat /\ done[c] <= Last /\ Last \in Nat /\ mask[c] \in Int /\ MaskedTo(c) \in Int
    <3>1. round[c] \in Nat /\ round[0] \in Nat BY <1>0, Counters, Cores
    <3> QED BY <1>0, <3>1, Counters DEF MaskedTo
  <2>3. done[c] < MaskedTo(c) /\ done[c] \in 0..Last BY <2>1, <2>2
  <2> QED BY <2>1, <2>2, <2>3
<1> QED BY <1>1, <1>2 DEF SlotsHoldTheirChunk

\* On every core every chunk pushed and not popped is in its slot, complete and not overwritten
\* by a later multicast or DRAM read, and the mask taken is that of the chunk computed, for any
\* number of twins, heads and chunks, in both branches of the reader and with every mask.
THEOREM SlotsAreHeld == Spec => []SlotsHoldTheirChunk
BY InvAlways, HoldsByOrder, PTL

\* When the readers have returned, every multicast and every increment has landed and the
\* semaphores are at zero on every core: the next launch finds them as this one did.
THEOREM ExitIsClean == Spec => []CleanExit
<1>1. Inv => CleanExit
  <2> SUFFICES ASSUME Inv, lpc = "end", \A t \in Twin : tpc[t] = "end"
               PROVE  /\ flight = {} /\ vflight = {} /\ rflight = {}
                      /\ ready = 0
                      /\ \A c \in Core : valid[c] = 0
    BY DEF CleanExit
  <2>0. TypeOK /\ ValidInStep /\ ReadyCounts /\ FlightsInRound BY DEF Inv
  <2>1. ~Opened BY DEF Opened, ReadingAhead
  <2>2. flight = {}
    <3>1. \A t \in Twin, ring \in Rings, s \in 0..1 : <<t, <<ring, s>>>> \notin flight
      BY <2>0, <2>1 DEF FlightsInRound, Issued
    <3>2. ASSUME NEW f \in flight PROVE FALSE
      <4>1. f \in Twin \X (Rings \X (0..1)) BY <2>0 DEF TypeOK
      <4>2. PICK t \in Twin, w \in Rings \X (0..1) : f = <<t, w>> BY <4>1
      <4>3. PICK ring \in Rings, s \in 0..1 : w = <<ring, s>> BY <4>2
      <4> QED BY <3>1, <4>2, <4>3
    <3> QED BY <3>2
  <2>3. Asking = {} BY DEF Asking
  <2>4. rflight = {} /\ ready = 0
    <3>1. rflight = {} /\ ready = Cardinality({}) BY <2>0, <2>3 DEF ReadyCounts
    <3> QED BY <3>1, FS_EmptySet
  <2>5. vflight = {}
    <3>1. \A t \in Twin : t \notin vflight BY <2>0 DEF ValidInStep
    <3> QED BY <2>0, <3>1 DEF TypeOK
  <2>6. \A c \in Core : valid[c] = 0 BY <2>0, Cores DEF ValidInStep
  <2> QED BY <2>2, <2>4, <2>5, <2>6
<1> QED BY <1>1, InvAlways, PTL
-----------------------------------------------------------------------------
(* Nobody waits for ever *)

\* The guards of the actions: what lets a reader, a compute kernel or a write go on.
LeaderCanGo ==
    \/ \E ring \in Rings : lpc = Read[ring] /\ Room(0, ring)
    \/ lpc \in {"fillK", "fillV", "reset", "mcastK", "mcastV", "valid"}
    \/ lpc = "ready" /\ ready = Twins
    \/ lpc = "mask" /\ (Masked(round[0]) => mask[0] = NoChunk)
    \/ lpc \in {"barrier", "exit"} /\ flight = {} /\ vflight = {}
TwinCanGo(t) ==
    \/ tpc[t] = "reserve" /\ Room(t, "K") /\ Room(t, "V")
    \/ tpc[t] \in {"clear", "signal"}
    \/ tpc[t] = "wait" /\ valid[t] = 1
    \/ tpc[t] = "mask" /\ (Masked(round[t]) => mask[t] = NoChunk)
    \/ tpc[t] = "exit" /\ t \notin rflight
ComputeCanGo(c) ==
    \/ cpc[c] = "K" /\ done[c] < pushed[c]["K"]
    \/ cpc[c] = "M" /\ mask[c] # NoChunk
    \/ cpc[c] = "V" /\ done[c] < pushed[c]["V"]
WriteCanLand == flight # {} \/ vflight # {} \/ rflight # {}

SomebodyCanGo ==
    LeaderCanGo \/ WriteCanLand \/ (\E t \in Twin : TwinCanGo(t)) \/ (\E c \in Core : ComputeCanGo(c))
NobodyStuck == AllEnded \/ SomebodyCanGo

\* A twin leaves its loop after the last chunk, and only then.
TwinRounds == \A t \in Twin : tpc[t] \in {"exit", "end"} <=> round[t] = Last

LEMMA TwinRoundsStep == TypeOK /\ TwinRounds /\ [Next]_vars => TwinRounds'
<1> SUFFICES ASSUME TypeOK, TwinRounds, [Next]_vars, NEW t \in Twin
             PROVE  tpc'[t] \in {"exit", "end"} <=> round'[t] = Last
  BY DEF TwinRounds
<1>1. /\ t \in Core /\ t # 0 /\ round \in [Core -> 0..Last]
      /\ tpc \in [Twin -> {"reserve", "clear", "signal", "wait", "mask", "exit", "end"}]
  BY Cores DEF TypeOK
<1>2. tpc[t] \in {"exit", "end"} <=> round[t] = Last BY DEF TwinRounds
<1>3. ASSUME tpc'[t] = tpc[t], round'[t] = round[t]
      PROVE  tpc'[t] \in {"exit", "end"} <=> round'[t] = Last
  BY <1>2, <1>3
<1>4. ASSUME Leader PROVE tpc' = tpc /\ round'[t] = round[t]
  <2>1. tpc' = tpc /\ (round' = round \/ round' = [round EXCEPT ![0] = round[0] + 1])
    BY <1>4 DEF Leader, ReadStart, ReadEnd, Multicast, WaitReady, ResetReady, LeaderMask, WriteBarrier,
                SendValid, LeaderExit
  <2> QED BY <1>1, <2>1
<1>5. ASSUME NEW u \in Twin, TwinStep(u) PROVE tpc'[t] \in {"exit", "end"} <=> round'[t] = Last
  <2>1. CASE Reserve(u) \/ ClearValid(u) \/ SignalReady(u) \/ WaitValid(u)
    <3>1. /\ tpc[u] \in {"reserve", "clear", "signal", "wait"} /\ round' = round
          /\ \E to \in {"clear", "signal", "wait", "mask"} : tpc' = [tpc EXCEPT ![u] = to]
      BY <2>1 DEF Reserve, ClearValid, SignalReady, WaitValid
    <3>2. t # u => tpc'[t] = tpc[t] BY <1>1, <3>1
    <3>3. t = u => tpc'[t] \in {"clear", "signal", "wait", "mask"} BY <1>1, <3>1
    <3> QED BY <1>2, <3>1, <3>2, <3>3
  <2>2. CASE TwinMask(u)
    <3>1. /\ round' = [round EXCEPT ![u] = round[u] + 1]
          /\ tpc' = [tpc EXCEPT ![u] = IF round[u] + 1 = Last THEN "exit" ELSE "reserve"]
      BY <2>2 DEF TwinMask
    <3>2. t # u => tpc'[t] = tpc[t] /\ round'[t] = round[t] BY <1>1, <3>1
    <3>3. t = u => round'[t] = round[t] + 1
                   /\ tpc'[t] = (IF round[t] + 1 = Last THEN "exit" ELSE "reserve")
      BY <1>1, <3>1
    <3> QED BY <1>2, <3>2, <3>3
  <2>3. CASE TwinExit(u)
    <3>1. tpc[u] = "exit" /\ round' = round /\ tpc' = [tpc EXCEPT ![u] = "end"] BY <2>3 DEF TwinExit
    <3>2. t # u => tpc'[t] = tpc[t] BY <1>1, <3>1
    <3>3. t = u => tpc'[t] = "end" /\ tpc[t] = "exit" BY <1>1, <3>1
    <3> QED BY <1>2, <3>1, <3>2, <3>3
  <2> QED BY <1>5, <2>1, <2>2, <2>3 DEF TwinStep
<1>6. ASSUME NEW u \in Twin, Land(u) PROVE tpc' = tpc /\ round' = round
  BY <1>6 DEF Land, LandValid, LandReady, LandData
<1>7. ASSUME NEW c \in Core, Compute(c) PROVE tpc' = tpc /\ round' = round
  BY <1>7 DEF Compute, ComputeK, ComputeMask, ComputeV
<1>8. ASSUME UNCHANGED vars PROVE tpc' = tpc /\ round' = round BY <1>8 DEF vars
<1> QED BY <1>3, <1>4, <1>5, <1>6, <1>7, <1>8 DEF Next

\* A compute kernel that cannot go on has used all it was given, up to the mask its reader has
\* not read yet or the V its reader has not pushed yet.
LEMMA ComputeWaits ==
    ASSUME Inv, NEW c \in Core, ~ComputeCanGo(c)
    PROVE  /\ cpc[c] = "K" => done[c] = pushed[c]["K"] /\ done[c] = pushed[c]["V"] /\ mask[c] = NoChunk
           /\ cpc[c] = "M" => mask[c] = NoChunk /\ MaskedTo(c) <= done[c] /\ done[c] < pushed[c]["K"]
           /\ cpc[c] = "V" => done[c] = pushed[c]["V"] /\ done[c] < pushed[c]["K"]
           /\ cpc[c] \in {"K", "M", "V"} /\ done[c] <= pushed[c]["V"]
<1>1. TypeOK /\ LeaderInOrder /\ TwinInOrder /\ ComputeBehind /\ MasksInOrder BY DEF Inv
<1>2. /\ done[c] \in Nat /\ done[c] <= Last /\ Last \in Nat /\ mask[c] \in Int
      /\ pushed[c]["K"] \in Nat /\ pushed[c]["V"] \in Nat /\ round[c] \in Nat
      /\ round[0] \in Nat /\ pushed[0]["K"] \in Nat /\ pushed[0]["V"] \in Nat
  BY <1>1, Counters, Cores
<1>3. cpc[c] \in {"K", "M", "V"} BY <1>1 DEF TypeOK
<1>4. done[c] <= pushed[c]["V"] /\ (cpc[c] # "K" => done[c] < pushed[c]["K"]) BY <1>1 DEF ComputeBehind
<1>5. pushed[c]["V"] <= pushed[c]["K"]
  <2>1. CASE c = 0
    <3>1. lpc \in {"readK", "fillK", "readV", "fillV", "ready", "reset", "mcastK",
                   "mcastV", "mask", "barrier", "valid", "exit", "end"}
      BY <1>1 DEF TypeOK
    <3> QED BY <1>1, <1>2, <2>1, <3>1 DEF LeaderInOrder
  <2>2. CASE c \in Twin BY <1>1, <1>2, <2>2 DEF TwinInOrder
  <2> QED BY <2>1, <2>2, Cores
<1>6. MaskedTo(c) \in Nat /\ MaskedTo(c) <= pushed[c]["V"]
  <2>1. CASE c = 0
    <3>1. lpc \in {"readK", "fillK", "readV", "fillV", "ready", "reset", "mcastK",
                   "mcastV", "mask", "barrier", "valid", "exit", "end"}
      BY <1>1 DEF TypeOK
    <3> QED BY <1>1, <1>2, <2>1, <3>1 DEF LeaderInOrder, MaskedTo, ReadingAhead
  <2>2. CASE c \in Twin BY <1>1, <1>2, <2>2, Cores DEF TwinInOrder, MaskedTo
  <2> QED BY <2>1, <2>2, Cores
<1>7. CASE cpc[c] = "K"
  <2>1. done[c] = pushed[c]["K"] /\ done[c] = pushed[c]["V"] BY <1>2, <1>4, <1>5, <1>7 DEF ComputeCanGo
  <2>2. mask[c] # NoChunk => done[c] <= mask[c] /\ mask[c] < MaskedTo(c) BY <1>1, <1>7 DEF MasksInOrder, TakenTo
  <2> QED BY <1>2, <1>4, <1>6, <1>7, <2>1, <2>2
<1>8. CASE cpc[c] = "M"
  <2>1. mask[c] = NoChunk BY <1>8 DEF ComputeCanGo
  <2>2. /\ Masked(done[c])
        /\ \A n \in 0..Last : Masked(n) /\ done[c] <= n /\ n < MaskedTo(c) => mask[c] = n
    BY <1>1, <1>8 DEF MasksInOrder, TakenTo
  <2>3. done[c] \in 0..Last /\ mask[c] # done[c] BY <1>2, <2>1 DEF NoChunk
  <2>4. ~(done[c] < MaskedTo(c)) BY <1>2, <2>2, <2>3
  <2> QED BY <1>2, <1>4, <1>6, <1>8, <2>1, <2>4
<1>9. CASE cpc[c] = "V" BY <1>2, <1>4, <1>9 DEF ComputeCanGo
<1> QED BY <1>3, <1>4, <1>7, <1>8, <1>9

\* No twin is kept waiting by its own compute kernel: if it cannot go on it waits for the chunk
\* after the last announced one, or has ended.
LEMMA TwinWaits ==
    ASSUME Inv, ~SomebodyCanGo, NEW t \in Twin
    PROVE  Level(t) /\ tpc[t] \in {"wait", "end"}
<1>1. TypeOK /\ TwinInOrder /\ ValidInStep BY DEF Inv
<1>2. /\ ~TwinCanGo(t) /\ ~ComputeCanGo(t) /\ flight = {} /\ vflight = {} /\ rflight = {}
      /\ t \in Core /\ t # 0
  BY Cores DEF SomebodyCanGo, WriteCanLand
<1>3. /\ done[t] \in Nat /\ round[t] \in Nat /\ valid[t] \in 0..1
      /\ pushed[t]["K"] \in Nat /\ pushed[t]["V"] \in Nat
  <2>1. valid[t] \in 0..1 BY <1>1, <1>2 DEF TypeOK
  <2> QED BY <1>1, <1>2, <2>1, Counters
<1>4. tpc[t] \in {"reserve", "clear", "signal", "wait", "mask", "exit", "end"} BY <1>1 DEF TypeOK
<1>5. tpc[t] = "wait" => valid[t] = 0 BY <1>2, <1>3 DEF TwinCanGo
<1>6. Level(t) BY <1>1, <1>2, <1>3, <1>5 DEF ValidInStep
<1>7. /\ pushed[t]["K"] = pushed[t]["V"] /\ MaskedTo(t) = round[t]
      /\ pushed[t]["V"] = IF tpc[t] = "mask" THEN round[t] + 1 ELSE round[t]
  BY <1>1, <1>2 DEF TwinInOrder, MaskedTo
<1>8. cpc[t] \in {"K", "M"} BY <1>2, <1>3, <1>7, ComputeWaits
<1>9. tpc[t] # "mask"
  <2>1. mask[t] = NoChunk BY <1>2, <1>8, ComputeWaits
  <2> QED BY <1>2, <2>1 DEF TwinCanGo
<1>10. tpc[t] # "reserve"
  <2> SUFFICES ASSUME tpc[t] = "reserve" PROVE FALSE OBVIOUS
  <2>1. cpc[t] = "K" /\ done[t] = pushed[t]["K"] /\ done[t] = pushed[t]["V"]
    BY <1>2, <1>3, <1>7, <1>8, ComputeWaits
  <2>2. Popped(t, "K") = done[t] /\ Popped(t, "V") = done[t] BY <2>1 DEF Popped
  <2>3. Room(t, "K") /\ Room(t, "V") BY <1>3, <2>1, <2>2 DEF Room
  <2> QED BY <1>2, <2>3 DEF TwinCanGo
<1> QED BY <1>2, <1>4, <1>6, <1>9, <1>10 DEF TwinCanGo

\* Nor is the leader: if it cannot go on it waits for READY or has ended.
LEMMA LeaderWaits ==
    ASSUME Inv, ~SomebodyCanGo
    PROVE  lpc \in {"ready", "end"}
<1>1. TypeOK /\ LeaderInOrder BY DEF Inv
<1>2. ~LeaderCanGo /\ ~ComputeCanGo(0) /\ flight = {} /\ vflight = {} /\ 0 \in Core
  BY Cores DEF SomebodyCanGo, WriteCanLand
<1>3. /\ done[0] \in Nat /\ round[0] \in Nat /\ pushed[0]["K"] \in Nat /\ pushed[0]["V"] \in Nat
  BY <1>1, <1>2, Counters
<1>4. lpc \in {"readK", "fillK", "readV", "fillV", "ready", "reset", "mcastK",
               "mcastV", "mask", "barrier", "valid", "exit", "end"}
  BY <1>1 DEF TypeOK
<1>5. lpc # "readK"
  <2> SUFFICES ASSUME lpc = "readK" PROVE FALSE OBVIOUS
  <2>1. pushed[0]["K"] = pushed[0]["V"] /\ pushed[0]["V"] <= MaskedTo(0)
    BY <1>1, <1>3 DEF LeaderInOrder, MaskedTo, ReadingAhead
  <2>2. MaskedTo(0) \in Nat BY <1>3 DEF MaskedTo
  <2>3. cpc[0] = "K" /\ done[0] = pushed[0]["K"] BY <1>2, <1>3, <2>1, <2>2, ComputeWaits
  <2>4. Room(0, "K") BY <1>3, <2>3 DEF Room, Popped
  <2> QED BY <1>2, <2>4 DEF LeaderCanGo, Read, Rings
<1>6. lpc # "readV"
  <2> SUFFICES ASSUME lpc = "readV" PROVE FALSE OBVIOUS
  <2>1. pushed[0]["K"] = pushed[0]["V"] + 1 /\ pushed[0]["V"] <= MaskedTo(0)
    BY <1>1, <1>3 DEF LeaderInOrder, MaskedTo, ReadingAhead
  <2>2. MaskedTo(0) \in Nat BY <1>3 DEF MaskedTo
  <2>3. done[0] = pushed[0]["V"] BY <1>2, <1>3, <2>1, <2>2, ComputeWaits
  <2>4. Room(0, "V") BY <1>3, <2>3 DEF Room, Popped
  <2> QED BY <1>2, <2>4 DEF LeaderCanGo, Read, Rings
<1>7. lpc # "mask"
  <2> SUFFICES ASSUME lpc = "mask" PROVE FALSE OBVIOUS
  <2>1. pushed[0]["K"] = pushed[0]["V"] BY <1>1 DEF LeaderInOrder
  <2>2. mask[0] = NoChunk BY <1>2, <1>3, <2>1, ComputeWaits
  <2> QED BY <1>2, <2>2 DEF LeaderCanGo
<1> QED BY <1>2, <1>4, <1>5, <1>6, <1>7 DEF LeaderCanGo

\* No bundle hangs: in every reachable state all readers and compute kernels have ended, or
\* somebody can go on.  READY and VALID make a circle of waits, which the counts break: when
\* everything has landed, a leader that waits for READY has counted every twin.
THEOREM NeverStuck == Spec => []NobodyStuck
<1>1. Init => TwinRounds
  <2> SUFFICES ASSUME Init, NEW t \in Twin PROVE tpc[t] = "reserve" /\ round[t] # Last
    BY DEF TwinRounds
  <2>1. t \in Core /\ Last # 0 BY Cores, LastStartsAHead
  <2> QED BY <2>1 DEF Init
<1>2. Inv /\ TwinRounds => NobodyStuck
  <2> SUFFICES ASSUME Inv, TwinRounds, ~SomebodyCanGo PROVE AllEnded BY DEF NobodyStuck
  <2>1. TypeOK /\ LeaderInOrder /\ TwinInOrder /\ ReadyCounts BY DEF Inv
  <2>2. rflight = {} /\ ~LeaderCanGo BY DEF SomebodyCanGo, WriteCanLand
  <2>3. /\ Last \in Nat /\ round[0] \in Nat
        /\ \A t \in Twin : round[t] \in Nat /\ round[t] <= Last /\ pushed[t]["V"] \in Nat
        /\ \A c \in Core : done[c] \in Nat /\ round[c] \in Nat
    BY <2>1, Counters, Cores
  <2>4. \A t \in Twin : Level(t) /\ tpc[t] \in {"wait", "end"} BY TwinWaits
  <2>5. \A t \in Twin : round[t] = Announced /\ (tpc[t] = "end" <=> round[t] = Last)
    BY <2>1, <2>4 DEF TwinInOrder, TwinRounds, Level
  <2>6. lpc # "ready"
    <3> SUFFICES ASSUME lpc = "ready" PROVE FALSE OBVIOUS
    <3>1. Announced # Last /\ ~Opened
      <4>1. Announced = round[0] BY DEF Announced
      <4> QED BY <2>1, <2>3, <4>1 DEF LeaderInOrder, Opened, ReadingAhead
    <3>2. Asking = Twin BY <2>4, <2>5, <3>1 DEF Asking
    <3>3. Asking \ rflight = 1..Twins BY <2>2, <3>2 DEF Twin
    <3>4. Cardinality(1..Twins) = Twins BY ShareAssumption, FS_Interval
    <3>5. ready = Twins BY <2>1, <3>3, <3>4 DEF ReadyCounts
    <3> QED BY <2>2, <3>5 DEF LeaderCanGo
  <2>7. lpc = "end" BY <2>6, LeaderWaits
  <2>8. Announced = Last BY <2>1, <2>7 DEF Announced, LeaderInOrder
  <2>9. \A t \in Twin : tpc[t] = "end" BY <2>5, <2>8
  <2>10. ASSUME NEW c \in Core PROVE done[c] = Last
    <3>1. pushed[c]["K"] = Last /\ pushed[c]["V"] = Last /\ MaskedTo(c) = Last
      <4>1. CASE c = 0 BY <2>1, <2>7, <4>1 DEF LeaderInOrder, MaskedTo, ReadingAhead
      <4>2. CASE c \in Twin
        <5>1. tpc[c] = "end" /\ round[c] = Last BY <2>5, <2>8, <2>9, <4>2
        <5> QED BY <2>1, <4>2, <5>1, Cores DEF TwinInOrder, MaskedTo
      <4> QED BY <4>1, <4>2, Cores
    <3>2. ~ComputeCanGo(c) BY DEF SomebodyCanGo
    <3> QED BY <2>3, <3>1, <3>2, ComputeWaits
  <2> QED BY <2>7, <2>9, <2>10 DEF AllEnded
<1>3. Inv /\ TwinRounds /\ [Next]_vars => TwinRounds' BY TwinRoundsStep DEF Inv
<1> QED BY <1>1, <1>2, <1>3, InvAlways, PTL DEF Spec
=============================================================================
