------------------------------ MODULE TreePlan ------------------------------
(***************************************************************************)
(* How the decode attention splits one head over the cores of a reduction  *)
(* group.  The host plans a binary tree over the cores once per program    *)
(* (get_tree_reduction_params); on every decode step each kernel of each   *)
(* core works out on its own which chunks of the cache are its share       *)
(* (get_workload_for_core), whether it takes part at all and which of its  *)
(* children it has to wait for.  Nothing is exchanged, so the three rules  *)
(* have to agree for every group size and every length of the cache.       *)
(***************************************************************************)
EXTENDS Integers, FiniteSets

CONSTANTS MaxCores,  \* bound on num_cores_per_head
          MaxChunks  \* bound on the length of the cache, in chunks

ASSUME PlanAssumption == MaxCores \in 1..64 /\ MaxChunks \in Nat \ {0}

VARIABLES cores,  \* N, num_cores_per_head: fixed when the program is built
          chunks  \* k_num_chunks: what the position of this step amounts to

Rounds == 0..5            \* MAX_TREE_REDUCTION_ROUNDS
Nobody == -1              \* UINT32_MAX
Group == 0..(cores - 1)

----------------------------------------------------------------------------
(* The host's tree.  Core 0 is the root; vid numbers the cores backwards.  *)
Vid(c) == cores - 1 - c
TrailingOnes(v) == CHOOSE t \in 0..31 : /\ (v \div 2^t) % 2 = 0
                                        /\ v % 2^t = 2^t - 1

SendAt(c) == TrailingOnes(Vid(c))
IsOrphan(c) == Vid(c) + 2^SendAt(c) >= cores

Parent(c) == IF IsOrphan(c) THEN 0 ELSE c - 2^SendAt(c)

NumRounds == CHOOSE r \in 0..6 : 2^r >= cores /\ (r > 0 => 2^(r - 1) < cores)

(* children_per_round: at round r a core whose vid ends in r+1 ones takes  *)
(* the core 2^r above it, and the root takes the first orphan of the round *)
(* in a round that is still free.                                          *)
NaturalChild(c, r) ==
    IF r < NumRounds /\ Vid(c) % 2^(r + 1) = 2^(r + 1) - 1 THEN c + 2^r ELSE Nobody
Orphans(r) == {c \in Group \ {0} : IsOrphan(c) /\ SendAt(c) = r}

(* Mutant: the root does not collect orphans.                              *)
ChildNatural(c, r) == NaturalChild(c, r)

Child(c, r) ==
    IF c = 0 /\ NaturalChild(0, r) = Nobody /\ Orphans(r) # {}
    THEN CHOOSE o \in Orphans(r) : \A p \in Orphans(r) : o <= p
    ELSE NaturalChild(c, r)

----------------------------------------------------------------------------
(* get_workload_for_core without a sliding window: the chunks of core c.   *)
(* Few chunks go one each to the first cores, last chunk first; many are   *)
(* dealt out evenly, the cores of the highest numbers one more.            *)
ChunkStart(c) ==
    IF cores > chunks THEN IF c < chunks THEN chunks - c - 1 ELSE 0
    ELSE LET rev == cores - c - 1
             rest == chunks % cores
         IN rev * (chunks \div cores) + (IF rest < rev THEN rest ELSE rev)

ChunkEnd(c) ==
    IF cores > chunks THEN IF c < chunks THEN chunks - c ELSE 0
    ELSE ChunkStart(c) + chunks \div cores
           + (IF cores - c - 1 < chunks % cores THEN 1 ELSE 0)

HasLocalData(c) == ChunkStart(c) # ChunkEnd(c)

(* A core waits for the children of the plan that have data by the rule    *)
(* core_num < k_num_chunks; it knows nothing of their ranges.              *)
ActiveChild(c, r) == IF Child(c, r) < chunks THEN Child(c, r) ELSE Nobody

ActiveRounds(c) == {r \in Rounds : ActiveChild(c, r) # Nobody}

----------------------------------------------------------------------------
(* The shares the cores work out on their own cover the cache: every chunk *)
(* up to the position of the step is read by one core and by no other.     *)
SharesPartition ==
    /\ \A c \in Group : 0 <= ChunkStart(c) /\ ChunkStart(c) <= ChunkEnd(c) /\ ChunkEnd(c) <= chunks
    /\ \A i \in 0..(chunks - 1) :
         Cardinality({c \in Group : ChunkStart(c) <= i /\ i < ChunkEnd(c)}) = 1

(* No wait in vain and no result unread: a core that takes part is awaited *)
(* by its parent, which takes part too, in the round it sends in; and a    *)
(* core that is awaited takes part and sends to just that core and round.  *)
(* The participation rule (core < k_num_chunks) and the ranges agree, and  *)
(* no two orphans of the root share a round.                               *)
SendersMatchWaiters ==
    /\ \A c \in Group : HasLocalData(c) /\ c # 0 =>
         /\ HasLocalData(Parent(c))
         /\ SendAt(c) \in ActiveRounds(Parent(c))
         /\ Child(Parent(c), SendAt(c)) = c
    /\ \A p \in Group : HasLocalData(p) =>
         \A r \in ActiveRounds(p) :
           LET c == Child(p, r) IN c # 0 /\ HasLocalData(c) /\ Parent(c) = p /\ SendAt(c) = r

(* The rules the cores apply on their own agree.                           *)
PlanAgrees == SharesPartition /\ SendersMatchWaiters
=============================================================================
