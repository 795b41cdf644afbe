------------------------------ MODULE KvShare ------------------------------
(***************************************************************************)
(* The K/V share of the decode attention.  The entries of a bundle read    *)
(* the same page-table row, so core 0, the LEADER, reads each K and V      *)
(* chunk from DRAM and multicasts both ring slots to the cores below it,   *)
(* its TWINS, which never read K or V themselves.  One READY/VALID round   *)
(* per chunk covers both.  On every core the compute kernel drains the     *)
(* rings behind the reader.                                                *)
(*                                                                         *)
(* A NoC write is two events: the core issues it, and later, in any order  *)
(* with respect to other writes, it lands on one destination with the      *)
(* bytes its source holds at that moment.  Only a barrier orders them.     *)
(***************************************************************************)
EXTENDS Integers, FiniteSets

CONSTANTS Twins,      \* num_dests: the twins of the bundle
          Heads,      \* num_heads_per_core
          Chunks,     \* k_chunk_end - k_chunk_start, the same on every core
          Builds      \* the compile-time arguments the kernel is built with

ASSUME ShareAssumption ==
    /\ Twins \in Nat \ {0}
    /\ Heads \in Nat \ {0}
    /\ Chunks \in Nat \ {0}
    /\ Builds \subseteq [readAhead : BOOLEAN,                    \* kv_readahead (flag 0x8)
                         mask : {"none", "tail", "every"}]       \* mask_tail, or every chunk

VARIABLES build,   \* the build this program was launched with; it never changes
          lpc,     \* where the leader's reader is
          round,   \* per core: the chunk its reader is serving, over all heads
          tpc,     \* per twin: where its reader is
          cpc,     \* per core: what the compute kernel waits for: K, M (mask), V
          done,    \* per core: the chunks the compute kernel has finished
          pushed,  \* per core: the chunks pushed into cb_k and into cb_v
          slot,    \* per core: what the two slots of cb_k and cb_v hold
          mask,    \* per core: the chunk whose mask cb_mask holds
          flight,  \* K and V multicasts issued and not landed: <<twin, ring, slot>>
          vflight, \* twins a VALID multicast is still on its way to
          rflight, \* twins whose READY increment is still on its way
          ready,   \* the leader's kv_ready semaphore
          valid    \* per core: its kv_valid semaphore

vars == <<build, lpc, round, tpc, cpc, done, pushed, slot, mask, flight, vflight,
          rflight, ready, valid>>

ReadAhead == build.readAhead
MaskMode == build.mask
Twin == 1..Twins
Core == 0..Twins
Last == Heads * Chunks
Rings == {"K", "V"}
NoChunk == -1

(* Chunk n of the run is chunk n % Chunks of its head.  A tail mask covers *)
(* the last chunk of a head, a full mask every chunk.                      *)
Masked(n) == MaskMode = "every" \/ (MaskMode = "tail" /\ n % Chunks = Chunks - 1)
HeadStart(n) == n % Chunks = 0

(* The compute kernel pops K after the scores and V at the end of the      *)
(* chunk; each ring holds two chunks, the mask buffer one.                 *)
Popped(c, ring) == IF ring = "K" /\ cpc[c] # "K" THEN done[c] + 1 ELSE done[c]
Room(c, ring) == pushed[c][ring] - Popped(c, ring) < 2
At(n) == n % 2

Read == [K |-> "readK", V |-> "readV"]
Fill == [K |-> "fillK", V |-> "fillV"]
Mcast == [K |-> "mcastK", V |-> "mcastV"]

Init ==
    /\ build \in Builds
    /\ lpc = "readK"
    /\ round = [c \in Core |-> 0]
    /\ tpc = [t \in Twin |-> "reserve"]
    /\ cpc = [c \in Core |-> "K"]
    /\ done = [c \in Core |-> 0]
    /\ pushed = [c \in Core |-> [r \in Rings |-> 0]]
    /\ slot = [c \in Core |-> [r \in Rings |-> [s \in 0..1 |-> NoChunk]]]
    /\ mask = [c \in Core |-> NoChunk]
    /\ flight = {} /\ vflight = {} /\ rflight = {}
    /\ ready = 0
    /\ valid = [c \in Core |-> 0]

----------------------------------------------------------------------------
(* The leader's reader.  read_k and read_v reserve a slot, let DRAM write  *)
(* it, wait for the read barrier and push it; until then the slot holds no *)
(* chunk.  In the stage-3 branch they read chunk round[0]; in the          *)
(* read-ahead branch the prologue does that at the first chunk of a head   *)
(* and the loop reads the next one while round[0] is being multicast.      *)
ReadStart(ring) ==
    /\ lpc = Read[ring]
    /\ Room(0, ring)
    /\ slot' = [slot EXCEPT ![0][ring][At(pushed[0][ring])] = NoChunk]
    /\ lpc' = Fill[ring]
    /\ UNCHANGED <<round, tpc, cpc, done, pushed, mask, flight, vflight, rflight, ready, valid>>

AfterRead == IF pushed[0]["V"] = round[0] THEN "ready" ELSE "barrier"

ReadEnd(ring) ==
    /\ lpc = Fill[ring]
    /\ slot' = [slot EXCEPT ![0][ring][At(pushed[0][ring])] = pushed[0][ring]]
    /\ pushed' = [pushed EXCEPT ![0][ring] = @ + 1]
    /\ lpc' = IF ring = "K" THEN "readV" ELSE AfterRead
    /\ UNCHANGED <<round, tpc, cpc, done, mask, flight, vflight, rflight, ready, valid>>

(* kv_ready.wait is an equality wait.                                      *)
WaitReady ==
    /\ lpc = "ready"
    /\ ready = Twins
    /\ lpc' = "reset"
    /\ UNCHANGED <<round, tpc, cpc, done, pushed, slot, mask, flight, vflight, rflight, ready, valid>>

ResetReady ==
    /\ lpc = "reset"
    /\ ready' = 0
    /\ lpc' = "mcastK"
    /\ UNCHANGED <<round, tpc, cpc, done, pushed, slot, mask, flight, vflight, rflight, valid>>

(* Both multicasts are issued without waiting for either.                  *)
Multicast(ring) ==
    /\ lpc = Mcast[ring]
    /\ flight' = flight \union (Twin \X {<<ring, At(round[0])>>})
    /\ lpc' = CASE ring = "K" -> "mcastV"
                [] ring = "V" /\ ReadAhead -> "mask"
                [] OTHER -> "barrier"
    /\ UNCHANGED <<round, tpc, cpc, done, pushed, slot, mask, vflight, rflight, ready, valid>>

AfterMask == IF ReadAhead THEN IF HeadStart(round[0] + 1) THEN "barrier" ELSE "readK"
             ELSE IF round[0] + 1 = Last THEN "exit" ELSE "readK"

(* The read-ahead leader reads the mask of chunk n before K and V of n+1,  *)
(* the stage-3 leader after VALID of chunk n.                              *)
LeaderMask ==
    /\ lpc = "mask"
    /\ Masked(round[0]) => mask[0] = NoChunk
    /\ mask' = IF Masked(round[0]) THEN [mask EXCEPT ![0] = round[0]] ELSE mask
    /\ lpc' = AfterMask
    /\ round' = IF ReadAhead THEN round ELSE [round EXCEPT ![0] = @ + 1]
    /\ UNCHANGED <<tpc, cpc, done, pushed, slot, flight, vflight, rflight, ready, valid>>

(* Mutant: VALID without the write barrier.                                *)
WriteBarrierSkipped ==
    /\ lpc = "barrier"
    /\ lpc' = "valid"
    /\ UNCHANGED <<round, tpc, cpc, done, pushed, slot, mask, flight, vflight, rflight, ready, valid>>

(* The write barrier waits for every write the leader issued, the VALID    *)
(* multicast of the chunk before included.                                 *)
WriteBarrier ==
    /\ lpc = "barrier"
    /\ flight = {} /\ vflight = {}
    /\ lpc' = "valid"
    /\ UNCHANGED <<round, tpc, cpc, done, pushed, slot, mask, flight, vflight, rflight, ready, valid>>

AfterValid == CASE ~ReadAhead -> "mask"
                [] ReadAhead /\ round[0] + 1 = Last -> "exit"
                [] ReadAhead /\ round[0] + 1 # Last ->
                     IF HeadStart(round[0] + 1) THEN "readK" ELSE "ready"

SendValid ==
    /\ lpc = "valid"
    /\ valid' = [valid EXCEPT ![0] = 1]
    /\ vflight' = Twin
    /\ lpc' = AfterValid
    /\ round' = IF ReadAhead THEN [round EXCEPT ![0] = @ + 1] ELSE round
    /\ UNCHANGED <<tpc, cpc, done, pushed, slot, mask, flight, rflight, ready>>

(* Mutant: the leader leaves while its last VALID is on the network.       *)
LeaderExitUnbarriered ==
    /\ lpc = "exit"
    /\ valid' = [valid EXCEPT ![0] = 0]
    /\ lpc' = "end"
    /\ UNCHANGED <<round, tpc, cpc, done, pushed, slot, mask, flight, vflight, rflight, ready>>

LeaderExit ==
    /\ lpc = "exit"
    /\ flight = {} /\ vflight = {}
    /\ valid' = [valid EXCEPT ![0] = 0]
    /\ lpc' = "end"
    /\ UNCHANGED <<round, tpc, cpc, done, pushed, slot, mask, flight, vflight, rflight, ready>>

----------------------------------------------------------------------------
Reserve(t) ==
    /\ tpc[t] = "reserve"
    /\ Room(t, "K") /\ Room(t, "V")
    /\ tpc' = [tpc EXCEPT ![t] = "clear"]
    /\ UNCHANGED <<lpc, round, cpc, done, pushed, slot, mask, flight, vflight, rflight, ready, valid>>

ClearValid(t) ==
    /\ tpc[t] = "clear"
    /\ valid' = [valid EXCEPT ![t] = 0]
    /\ tpc' = [tpc EXCEPT ![t] = "signal"]
    /\ UNCHANGED <<lpc, round, cpc, done, pushed, slot, mask, flight, vflight, rflight, ready>>

SignalReady(t) ==
    /\ tpc[t] = "signal"
    /\ rflight' = rflight \union {t}
    /\ tpc' = [tpc EXCEPT ![t] = "wait"]
    /\ UNCHANGED <<lpc, round, cpc, done, pushed, slot, mask, flight, vflight, ready, valid>>

WaitValid(t) ==
    /\ tpc[t] = "wait"
    /\ valid[t] = 1
    /\ pushed' = [pushed EXCEPT ![t] = [r \in Rings |-> @[r] + 1]]
    /\ tpc' = [tpc EXCEPT ![t] = "mask"]
    /\ UNCHANGED <<lpc, round, cpc, done, slot, mask, flight, vflight, rflight, ready, valid>>

TwinMask(t) ==
    /\ tpc[t] = "mask"
    /\ Masked(round[t]) => mask[t] = NoChunk
    /\ mask' = IF Masked(round[t]) THEN [mask EXCEPT ![t] = round[t]] ELSE mask
    /\ round' = [round EXCEPT ![t] = @ + 1]
    /\ tpc' = [tpc EXCEPT ![t] = IF round[t] + 1 = Last THEN "exit" ELSE "reserve"]
    /\ UNCHANGED <<lpc, cpc, done, pushed, slot, flight, vflight, rflight, ready, valid>>

(* Mutant: the twin leaves VALID set.                                      *)
TwinExitSet(t) ==
    /\ tpc[t] = "exit"
    /\ t \notin rflight
    /\ tpc' = [tpc EXCEPT ![t] = "end"]
    /\ UNCHANGED <<lpc, round, cpc, done, pushed, slot, mask, flight, vflight, rflight, ready, valid>>

(* The atomic barrier waits for the twin's own READY increments.           *)
TwinExit(t) ==
    /\ tpc[t] = "exit"
    /\ t \notin rflight
    /\ valid' = [valid EXCEPT ![t] = 0]
    /\ tpc' = [tpc EXCEPT ![t] = "end"]
    /\ UNCHANGED <<lpc, round, cpc, done, pushed, slot, mask, flight, vflight, rflight, ready>>

----------------------------------------------------------------------------
(* The network.  Every transaction lands once, whenever it likes.          *)
LandData(t, ring, s) ==
    /\ <<t, <<ring, s>>>> \in flight
    /\ flight' = flight \ {<<t, <<ring, s>>>>}
    /\ slot' = [slot EXCEPT ![t][ring][s] = slot[0][ring][s]]
    /\ UNCHANGED <<lpc, round, tpc, cpc, done, pushed, mask, vflight, rflight, ready, valid>>

LandValid(t) ==
    /\ t \in vflight
    /\ vflight' = vflight \ {t}
    /\ valid' = [valid EXCEPT ![t] = valid[0]]
    /\ UNCHANGED <<lpc, round, tpc, cpc, done, pushed, slot, mask, flight, rflight, ready>>

LandReady(t) ==
    /\ t \in rflight
    /\ rflight' = rflight \ {t}
    /\ ready' = ready + 1
    /\ UNCHANGED <<lpc, round, tpc, cpc, done, pushed, slot, mask, flight, vflight, valid>>

----------------------------------------------------------------------------
(* The compute kernel of a core: scores from K, the mask under the         *)
(* reader's predicate, the product with V.                                 *)
ComputeK(c) ==
    /\ cpc[c] = "K"
    /\ done[c] < pushed[c]["K"]
    /\ cpc' = [cpc EXCEPT ![c] = IF Masked(done[c]) THEN "M" ELSE "V"]
    /\ UNCHANGED <<lpc, round, tpc, done, pushed, slot, mask, flight, vflight, rflight, ready, valid>>

ComputeMask(c) ==
    /\ cpc[c] = "M"
    /\ mask[c] # NoChunk
    /\ mask' = [mask EXCEPT ![c] = NoChunk]
    /\ cpc' = [cpc EXCEPT ![c] = "V"]
    /\ UNCHANGED <<lpc, round, tpc, done, pushed, slot, flight, vflight, rflight, ready, valid>>

ComputeV(c) ==
    /\ cpc[c] = "V"
    /\ done[c] < pushed[c]["V"]
    /\ done' = [done EXCEPT ![c] = @ + 1]
    /\ cpc' = [cpc EXCEPT ![c] = "K"]
    /\ UNCHANGED <<lpc, round, tpc, pushed, slot, mask, flight, vflight, rflight, ready, valid>>

----------------------------------------------------------------------------
Leader == /\ \/ \E ring \in Rings : ReadStart(ring) \/ ReadEnd(ring) \/ Multicast(ring)
             \/ WaitReady \/ ResetReady \/ LeaderMask \/ WriteBarrier \/ SendValid \/ LeaderExit
          /\ UNCHANGED build
TwinStep(t) == /\ \/ Reserve(t) \/ ClearValid(t) \/ SignalReady(t)
                  \/ WaitValid(t) \/ TwinMask(t) \/ TwinExit(t)
               /\ UNCHANGED build
Compute(c) == (ComputeK(c) \/ ComputeMask(c) \/ ComputeV(c)) /\ UNCHANGED build
Land(t) == /\ \/ LandValid(t) \/ LandReady(t)
              \/ \E ring \in Rings, s \in 0..1 : LandData(t, ring, s)
           /\ UNCHANGED build

AllEnded == /\ lpc = "end"
            /\ \A t \in Twin : tpc[t] = "end"
            /\ \A c \in Core : done[c] = Last

Next == \/ Leader
        \/ \E t \in Twin : TwinStep(t) \/ Land(t)
        \/ \E c \in Core : Compute(c)

(* Every processor of a core runs its program to the end, and the network  *)
(* delivers what it accepted.                                              *)
Fairness == /\ WF_vars(Leader)
            /\ \A t \in Twin : WF_vars(TwinStep(t)) /\ WF_vars(Land(t))
            /\ \A c \in Core : WF_vars(Compute(c))

Spec == Init /\ [][Next]_vars /\ Fairness

----------------------------------------------------------------------------
(* Every program counter, counter and slot keeps its kind.                 *)
TypeOK ==
    /\ build \in Builds
    /\ lpc \in {"readK", "fillK", "readV", "fillV", "ready", "reset", "mcastK",
                "mcastV", "mask", "barrier", "valid", "exit", "end"}
    /\ round \in [Core -> 0..Last]
    /\ tpc \in [Twin -> {"reserve", "clear", "signal", "wait", "mask", "exit", "end"}]
    /\ cpc \in [Core -> {"K", "M", "V"}]
    /\ done \in [Core -> 0..Last]
    /\ pushed \in [Core -> [Rings -> 0..Last]]
    /\ slot \in [Core -> [Rings -> [0..1 -> -1..Last]]]
    /\ mask \in [Core -> -1..Last]
    /\ flight \subseteq (Twin \X (Rings \X (0..1)))
    /\ vflight \subseteq Twin
    /\ rflight \subseteq Twin
    /\ ready \in 0..Twins
    /\ valid \in [Core -> 0..1]

(* What a twin hands to its compute kernel is what it would have read      *)
(* itself: on every core, every chunk pushed and not yet popped is in its  *)
(* slot, bytes complete and not overwritten by a later multicast or DRAM   *)
(* read, and the mask in cb_mask is that of the chunk being computed.      *)
SlotsHoldTheirChunk ==
    \A c \in Core :
      /\ \A ring \in Rings : \A n \in Popped(c, ring)..(pushed[c][ring] - 1) :
           slot[c][ring][At(n)] = n
      /\ cpc[c] = "M" /\ mask[c] # NoChunk => mask[c] = done[c]

(* When the readers have returned nothing of theirs is on the network and  *)
(* both semaphores are back at zero on every core, which the next launch   *)
(* of the program starts from.                                             *)
CleanExit ==
    lpc = "end" /\ (\A t \in Twin : tpc[t] = "end") =>
      /\ flight = {} /\ vflight = {} /\ rflight = {}
      /\ ready = 0
      /\ \A c \in Core : valid[c] = 0

(* Leader, twins and compute kernels never wait for each other for good:   *)
(* every core finishes every chunk of every head and every reader returns. *)
EverybodyEnds == <>AllEnded

=============================================================================
